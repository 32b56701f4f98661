-------------------------- MODULE DayPlannerProofs --------------------------
(***************************************************************************)
(* Theorems about DayPlanner, for any number of places a request may have, *)
(* any documents and any travel times:                                     *)
(*                                                                         *)
(*   - what a schedule says, node by node (schedule_route), and that a     *)
(*     route's later nodes change no earlier time;                         *)
(*   - IInv, the inductive invariant: the route being built is open and on *)
(*     time, each attempt's best route is complete and feasible over the   *)
(*     places of its tier, the kept attempt is one of those made, and      *)
(*     two_opt() keeps its nodes, its ends and its feasibility;            *)
(*   - from it, every property the run of this module checks.              *)
(*                                                                         *)
(* Schedules and travel times are recursive functions: that they exist,    *)
(* and what holds along them, rests on least counterexamples.              *)
(***************************************************************************)
EXTENDS DayPlanner, FiniteSetTheorems, WellFoundedInduction, TLAPS

Segments == [open : Int, close : Int]

(* The request is one of those given, and every window is a set of         *)
(* segments.                                                               *)
Given == problem \in Problems /\ window \in [Places -> SUBSET Segments]

-----------------------------------------------------------------------------
(* The induction this module rests on: a set of natural numbers that is    *)
(* not empty has a least element, so a least counterexample is refuted.    *)
LEMMA LeastElement ==
  ASSUME NEW S, S \subseteq Nat, S # {}
  PROVE  \E n \in S : \A m \in S : n <= m
<1> DEFINE R == {ss \in Nat \X Nat : ss[1] < ss[2]}
<1>1. IsWellFoundedOn(R, Nat)
  BY NatLessThanWellFounded, Zenon DEF OpToRel
<1>2. \A x, y \in Nat : <<y, x>> \notin R => x <= y
  OBVIOUS
<1> HIDE DEF R
<1>3. \E x \in S : \A y \in S : ~(<<y, x>> \in R)
  BY <1>1, WFMin
<1>4. QED
  BY <1>2, <1>3

(* Induction up to a bound, over a set of numbers instead of a predicate.  *)
LEMMA UpTo ==
  ASSUME NEW L \in Nat, NEW G, 0 \in G, \A n \in Nat : n < L /\ n \in G => n + 1 \in G
  PROVE  \A n \in 0..L : n \in G
<1> DEFINE Bad == {n \in Nat : n <= L /\ n \notin G}
<1>1. SUFFICES ASSUME Bad # {} PROVE FALSE
  OBVIOUS
<1>2. PICK n \in Bad : \A m \in Bad : n <= m
  BY <1>1, LeastElement
<1>3. n # 0 /\ n - 1 \in Nat /\ n - 1 < L /\ n - 1 \in 0..L
  BY <1>2
<1>4. n - 1 \in G
  BY <1>2, <1>3
<1>5. (n - 1) + 1 \in G
  BY <1>3, <1>4
<1>6. QED
  BY <1>2, <1>5

(* A function whose value at each step is computed from the one before.    *)
Computes(f, L, first, step) ==
  /\ f[0] = first
  /\ \A k \in 1..L : f[k] = step[<<k, f[k-1]>>]

(* There is one, when every step can be taken.                             *)
LEMMA RecursionRuns ==
  ASSUME NEW L \in Nat, NEW T, NEW first \in T, NEW step,
         \A k \in 1..L : \A x \in T : step[<<k, x>>] \in T
  PROVE  \E f \in [0..L -> T] : Computes(f, L, first, step)
<1> DEFINE Done == {m \in Nat : \E f \in [0..m -> T] : Computes(f, m, first, step)}
<1>1. 0 \in Done
  <2>1. PICK f : f = [k \in 0..0 |-> first]
    OBVIOUS
  <2>2. f \in [0..0 -> T] /\ Computes(f, 0, first, step)
    BY <2>1 DEF Computes
  <2> QED
    BY <2>2
<1>2. ASSUME NEW m \in Nat, m < L, m \in Done PROVE m + 1 \in Done
  <2>1. PICK f \in [0..m -> T] : Computes(f, m, first, step)
    BY <1>2
  <2>2. PICK n : n = m + 1
    OBVIOUS
  <2>3. n \in 1..L /\ n \notin 0..m /\ m = n - 1 /\ m \in 0..m
    BY <1>2, <2>2
  <2>4. PICK g : g = [k \in 0..n |-> IF k = n THEN step[<<n, f[m]>>] ELSE f[k]]
    OBVIOUS
  <2>5. \A k \in 0..n : k # n => k \in 0..m
    BY <2>3
  <2>6. f[m] \in T /\ step[<<n, f[m]>>] \in T
    BY <2>3
  <2>7. g \in [0..n -> T]
    BY <2>4, <2>5, <2>6
  <2>8. Computes(g, n, first, step)
    <3>1. g[0] = first
      BY <2>1, <2>3, <2>4 DEF Computes
    <3>2. ASSUME NEW k \in 1..n PROVE g[k] = step[<<k, g[k-1]>>]
      <4>1. k - 1 \in 0..n /\ k - 1 # n /\ k \in 0..n
        BY <2>3
      <4>2. g[k-1] = f[k-1]
        BY <2>4, <4>1
      <4>3. CASE k = n
        BY <2>3, <2>4, <4>1, <4>2, <4>3
      <4>4. CASE k # n
        <5>1. k \in 1..m
          BY <2>3, <4>4
        <5> QED
          BY <2>1, <2>4, <4>1, <4>2, <4>4, <5>1 DEF Computes
      <4> QED
        BY <4>3, <4>4
    <3> QED
      BY <3>1, <3>2 DEF Computes
  <2> QED
    BY <2>2, <2>7, <2>8
<1> HIDE DEF Done
<1>3. \A m \in 0..L : m \in Done
  BY <1>1, <1>2, UpTo
<1>4. L \in Done
  BY <1>3
<1> QED
  BY <1>4 DEF Done

-----------------------------------------------------------------------------
(* What a request says of its places and legs.                             *)
LEMMA RequestFacts ==
  ASSUME Given
  PROVE  /\ problem.day_start \in Nat /\ problem.day_end \in 1..24
         /\ problem.day_start < problem.day_end
         /\ \A p \in Places : ValidDoc(problem.docs[p])
         /\ \A a, b : Leg(a, b) \in Int /\ (Leg(a, b) # Never => Leg(a, b) \in Nat)
         /\ \A n : Visit(n) \in Nat /\ (n \in Places => Visit(n) # 0)
<1>1. ValidRequest(problem)
  BY ProblemsAssumption DEF Given
<1>2. \A a, b : Leg(a, b) \in Int /\ (Leg(a, b) # Never => Leg(a, b) \in Nat)
  BY <1>1 DEF ValidRequest, Leg, Never
<1>3. \A n : Visit(n) \in Nat /\ (n \in Places => Visit(n) # 0)
  BY <1>1 DEF ValidRequest, ValidDoc, Visit
<1> QED
  BY <1>1, <1>2, <1>3 DEF ValidRequest

(* A visit that can begin lies in one segment, after the arrival.          *)
LEMMA EarliestStartIs ==
  ASSUME NEW w, w \subseteq Segments, NEW arrival \in Nat, NEW visit \in Nat
  PROVE  LET b == EarliestStart(w, arrival, visit)
         IN b = Never \/ /\ b \in Nat /\ arrival <= b
                         /\ \E s \in w : s.open <= b /\ b + visit <= s.close
<1> DEFINE fits == {s \in w : After(arrival, s.open) + visit <= s.close}
           begins == {After(arrival, s.open) : s \in fits}
<1>1. CASE fits = {}
  BY <1>1 DEF EarliestStart
<1>2. CASE fits # {}
  <2>1. begins # {} /\ begins \subseteq Nat
    BY <1>2 DEF After, Segments
  <2>2. PICK least \in begins : \A m \in begins : least <= m
    BY <2>1, LeastElement
  <2>3. Min(begins) \in begins
    BY <2>2 DEF Min
  <2>4. EarliestStart(w, arrival, visit) = Min(begins)
    BY <1>2 DEF EarliestStart
  <2>5. PICK s \in fits : Min(begins) = After(arrival, s.open)
    BY <2>3
  <2>6. s \in w /\ s.open \in Int /\ s.close \in Int
    BY DEF Segments
  <2>7. PICK b : b = EarliestStart(w, arrival, visit)
    OBVIOUS
  <2>8. b \in Nat /\ arrival <= b /\ s.open <= b
    BY <2>4, <2>5, <2>6, <2>7 DEF After
  <2>9. b + visit <= s.close
    BY <2>4, <2>5, <2>7
  <2> QED
    BY <2>6, <2>7, <2>8, <2>9
<1> QED
  BY <1>1, <1>2

(* The same of the place or end location a route goes to.                  *)
LEMMA BeginsIs ==
  ASSUME Given, NEW n, NEW arrival \in Nat
  PROVE  LET b == Begins(n, arrival)
         IN b = Never \/ /\ b \in Nat /\ arrival <= b
                         /\ n \notin Places => b = arrival
                         /\ n \in Places =>
                              \E s \in window[n] : s.open <= b /\ b + Visit(n) <= s.close
<1>1. CASE n \in Places
  <2>1. window[n] \subseteq Segments /\ Visit(n) \in Nat
    BY <1>1, RequestFacts DEF Given
  <2> QED
    BY <1>1, <2>1, EarliestStartIs DEF Begins
<1>2. CASE n \notin Places
  BY <1>2 DEF Begins
<1> QED
  BY <1>1, <1>2

-----------------------------------------------------------------------------
(* The total travel time of a route, leg by leg.                           *)
Totals(f, r) == f = [k \in 0..Len(r) |-> IF k <= 1 THEN 0 ELSE f[k-1] + Leg(r[k-1], r[k])]

(* It is a number.                                                         *)
LEMMA TravelTimeIs ==
  ASSUME Given, NEW r, Len(r) \in Nat
  PROVE  TravelTime(r) \in Int
<1>1. PICK L \in Nat : L = Len(r)
  OBVIOUS
<1>2. PICK step : step = [x \in (1..L) \X Int |->
                            IF x[1] <= 1 THEN 0 ELSE x[2] + Leg(r[x[1]-1], r[x[1]])]
  OBVIOUS
<1>3. \A k \in 1..L : \A x \in Int :
        step[<<k, x>>] = IF k <= 1 THEN 0 ELSE x + Leg(r[k-1], r[k])
  BY <1>2
<1>4. \A k \in 1..L : \A x \in Int : step[<<k, x>>] \in Int
  <2>1. ASSUME NEW k \in 1..L, NEW x \in Int PROVE step[<<k, x>>] \in Int
    <3>1. PICK leg \in Int : leg = Leg(r[k-1], r[k])
      BY RequestFacts
    <3> QED
      BY <1>3, <3>1
  <2> QED
    BY <2>1
<1>5. PICK f \in [0..L -> Int] : Computes(f, L, 0, step)
  <2>1. PICK T, zero : T = Int /\ zero = 0
    OBVIOUS
  <2>2. zero \in T /\ \A k \in 1..L : \A x \in T : step[<<k, x>>] \in T
    <3>1. zero \in T
      BY <2>1
    <3>2. \A k \in 1..L : \A x \in T : step[<<k, x>>] \in T
      BY <1>4, <2>1, Zenon
    <3> QED
      BY <3>1, <3>2
  <2>3. \E f \in [0..L -> T] : Computes(f, L, zero, step)
    BY <2>2, RecursionRuns, Zenon
  <2> QED
    BY <2>1, <2>3
<1>6. Totals(f, r)
  <2>1. ASSUME NEW k \in 0..L
        PROVE  f[k] = IF k <= 1 THEN 0 ELSE f[k-1] + Leg(r[k-1], r[k])
    <3>1. CASE k = 0
      BY <1>5, <3>1 DEF Computes
    <3>2. CASE k # 0
      <4>1. k \in 1..L /\ k - 1 \in 0..L /\ f[k-1] \in Int
        BY <3>2
      <4> QED
        BY <1>3, <1>5, <4>1 DEF Computes
    <3> QED
      BY <3>1, <3>2
  <2>2. f = [k \in 0..L |-> f[k]]
    OBVIOUS
  <2> QED
    BY <1>1, <2>1, <2>2 DEF Totals
<1>7. PICK g : g = (CHOOSE h : Totals(h, r))
  OBVIOUS
<1>8. Totals(g, r)
  BY <1>6, <1>7
<1>9. TravelTime(r) = g[L]
  BY <1>1, <1>7 DEF TravelTime, Totals
<1>10. \A k \in 0..L : g[k] \in Int
  <2> DEFINE G == {k \in Nat : g[k] \in Int}
  <2>1. 0 \in G
    BY <1>1, <1>8 DEF Totals
  <2>2. ASSUME NEW k \in Nat, k < L, k \in G PROVE k + 1 \in G
    <3>1. PICK n \in 0..L : n = k + 1
      BY <2>2
    <3>2. g[n] = IF n <= 1 THEN 0 ELSE g[k] + Leg(r[k], r[n])
      BY <1>1, <1>8, <3>1 DEF Totals
    <3>3. g[n] \in Int
      BY <2>2, <3>2, RequestFacts
    <3> QED
      BY <3>1, <3>3
  <2> HIDE DEF G
  <2>3. \A k \in 0..L : k \in G
    BY <2>1, <2>2, UpTo
  <2> QED
    BY <2>3 DEF G
<1> QED
  BY <1>9, <1>10

-----------------------------------------------------------------------------
(* The schedule of a route, node by node.                                  *)
Stop == [arrival |-> Never, departure |-> Never]

At(n, arrival) ==
  LET b == Begins(n, arrival)
  IN IF b = Never THEN Stop ELSE [arrival |-> arrival, departure |-> b + Visit(n)]

NextTime(r, k, before) ==
  IF k = 1 THEN At(r[1], problem.day_start)
  ELSE IF before = Stop \/ Leg(r[k-1], r[k]) = Never THEN Stop
  ELSE At(r[k], before.departure + Leg(r[k-1], r[k]))

Timed(t, r) == t = [k \in 1..Len(r) |-> NextTime(r, k, t[k-1])]

Moments == [arrival : Int, departure : Int]

(* The times of a visit: after the arrival, within one segment.            *)
Stay(m, n) ==
  /\ m.arrival \in Nat /\ m.departure \in Nat
  /\ m.arrival + Visit(n) <= m.departure
  /\ n \notin Places => m.departure = m.arrival
  /\ n \in Places =>
       \E s \in window[n] : s.open <= m.departure - Visit(n) /\ m.departure <= s.close

(* A node that is reached is visited, or the schedule stops there.         *)
LEMMA AtIs ==
  ASSUME Given, NEW n, NEW arrival \in Nat
  PROVE  /\ At(n, arrival) \in Moments
         /\ At(n, arrival) = Stop \/ (Stay(At(n, arrival), n) /\ At(n, arrival).arrival = arrival)
<1>1. PICK b : b = Begins(n, arrival)
  OBVIOUS
<1>2. PICK v \in Nat : v = Visit(n)
  BY RequestFacts
<1>3. \/ b = Never
      \/ /\ b \in Nat /\ arrival <= b
         /\ n \notin Places => b = arrival
         /\ n \in Places => \E s \in window[n] : s.open <= b /\ b + v <= s.close
  BY <1>1, <1>2, BeginsIs
<1>4. CASE b = Never
  <2>1. At(n, arrival) = Stop
    BY <1>1, <1>4 DEF At
  <2>2. Stop \in Moments
    BY DEF Stop, Moments, Never
  <2> QED
    BY <2>1, <2>2
<1>5. CASE b # Never
  <2>1. At(n, arrival) = [arrival |-> arrival, departure |-> b + v]
    BY <1>1, <1>2, <1>5 DEF At
  <2>2. n \notin Places => v = 0
    BY <1>2 DEF Visit
  <2>3. (b + v) - v = b /\ b + v \in Nat /\ b \in Nat
    BY <1>3, <1>5
  <2> QED
    BY <1>2, <1>3, <1>5, <2>1, <2>2, <2>3 DEF Stay, Moments
<1> QED
  BY <1>4, <1>5

(* Every step of the schedule is a moment, and stops or is a visit.        *)
LEMMA NextTimeIs ==
  ASSUME Given, NEW r, NEW k \in Nat \ {0}, NEW before \in Moments,
         k = 1 \/ before = Stop \/ before.departure \in Nat
  PROVE  /\ NextTime(r, k, before) \in Moments
         /\ NextTime(r, k, before) = Stop \/ Stay(NextTime(r, k, before), r[k])
         /\ NextTime(r, k, before) # Stop /\ k # 1 =>
              /\ before # Stop /\ Leg(r[k-1], r[k]) # Never
              /\ NextTime(r, k, before).arrival = before.departure + Leg(r[k-1], r[k])
<1>0. Stop \in Moments
  BY DEF Stop, Moments, Never
<1>1. CASE k = 1
  <2>1. NextTime(r, k, before) = At(r[k], problem.day_start)
    BY <1>1 DEF NextTime
  <2> QED
    BY <1>1, <2>1, AtIs, RequestFacts
<1>2. CASE k # 1 /\ (before = Stop \/ Leg(r[k-1], r[k]) = Never)
  BY <1>0, <1>2 DEF NextTime
<1>3. CASE k # 1 /\ before # Stop /\ Leg(r[k-1], r[k]) # Never
  <2>1. PICK arrival \in Nat : arrival = before.departure + Leg(r[k-1], r[k])
    BY <1>3, RequestFacts
  <2>2. NextTime(r, k, before) = At(r[k], arrival)
    BY <1>3, <2>1 DEF NextTime
  <2> QED
    BY <1>3, <2>1, <2>2, AtIs
<1> QED
  BY <1>1, <1>2, <1>3

(* Schedule computes such times for every route.                           *)
LEMMA ScheduleRuns ==
  ASSUME Given, NEW r, Len(r) \in Nat
  PROVE  Timed(Schedule(r), r)
<1>1. PICK L \in Nat : L = Len(r)
  OBVIOUS
<1>2. PICK T : T = {m \in Moments : m = Stop \/ m.departure \in Nat}
  OBVIOUS
<1>3. PICK step : step = [x \in (1..L) \X T |-> NextTime(r, x[1], x[2])]
  OBVIOUS
<1>4. ASSUME NEW k \in 1..L, NEW x \in T
      PROVE  step[<<k, x>>] = NextTime(r, k, x) /\ step[<<k, x>>] \in T
  <2>1. k \in Nat \ {0} /\ x \in Moments /\ (x = Stop \/ x.departure \in Nat)
    BY <1>2
  <2>2. step[<<k, x>>] = NextTime(r, k, x)
    BY <1>3
  <2>3. /\ NextTime(r, k, x) \in Moments
        /\ NextTime(r, k, x) = Stop \/ Stay(NextTime(r, k, x), r[k])
    BY <2>1, NextTimeIs
  <2> QED
    BY <1>2, <2>2, <2>3 DEF Stay
<1>5. Stop \in T
  BY <1>2 DEF Stop, Moments, Never
<1>6. PICK f \in [0..L -> T] : Computes(f, L, Stop, step)
  <2>1. \A k \in 1..L : \A x \in T : step[<<k, x>>] \in T
    BY <1>4
  <2>2. PICK first : first = Stop
    OBVIOUS
  <2>3. first \in T
    BY <1>5, <2>2
  <2>4. \E f \in [0..L -> T] : Computes(f, L, first, step)
    BY <2>1, <2>3, RecursionRuns, Zenon
  <2> QED
    BY <2>2, <2>4
<1>7. PICK t : t = [k \in 1..L |-> f[k]]
  OBVIOUS
<1>8. Timed(t, r)
  <2>1. ASSUME NEW k \in 1..L PROVE f[k] = NextTime(r, k, t[k-1])
    <3>1. k - 1 \in 0..L /\ f[k-1] \in T
      OBVIOUS
    <3>2. f[k] = NextTime(r, k, f[k-1])
      BY <1>4, <1>6, <3>1 DEF Computes
    <3>3. CASE k = 1
      BY <3>2, <3>3 DEF NextTime
    <3>4. CASE k # 1
      <4>1. k - 1 \in 1..L
        BY <3>4
      <4> QED
        BY <1>7, <3>2, <4>1
    <3> QED
      BY <3>3, <3>4
  <2>2. t = [k \in 1..L |-> NextTime(r, k, t[k-1])]
    BY <1>7, <2>1
  <2> QED
    BY <1>1, <2>2 DEF Timed
<1>9. Schedule(r) = (CHOOSE u : Timed(u, r))
  BY DEF Schedule, Timed, NextTime, At, Stop
<1> QED
  BY <1>8, <1>9

(* What the schedule of a route says.                                      *)
LEMMA ScheduleIs ==
  ASSUME Given, NEW r, Len(r) \in Nat
  PROVE  /\ DOMAIN Schedule(r) = 1..Len(r)
         /\ \A k \in 1..Len(r) :
              /\ Schedule(r)[k] = NextTime(r, k, Schedule(r)[k-1])
              /\ Schedule(r)[k] \in Moments
              /\ Schedule(r)[k] = Stop \/ Stay(Schedule(r)[k], r[k])
<1>1. PICK L \in Nat : L = Len(r)
  OBVIOUS
<1>2. PICK t : t = Schedule(r)
  OBVIOUS
<1>3. t = [k \in 1..L |-> NextTime(r, k, t[k-1])]
  BY <1>1, <1>2, ScheduleRuns DEF Timed
<1>4. DOMAIN t = 1..L /\ \A k \in 1..L : t[k] = NextTime(r, k, t[k-1])
  BY <1>3
<1> DEFINE Fine(k) == t[k] \in Moments /\ (t[k] = Stop \/ Stay(t[k], r[k]))
           G == {k \in Nat : k = 0 \/ Fine(k)}
<1>5. ASSUME NEW k \in Nat, k < L, k \in G PROVE k + 1 \in G
  <2>1. PICK n \in 1..L : n = k + 1
    BY <1>5
  <2>2. CASE k = 0
    <3>1. n = 1 /\ t[n] = NextTime(r, n, t[n-1])
      BY <1>4, <2>1, <2>2
    <3>2. t[n] = At(r[n], problem.day_start)
      BY <3>1 DEF NextTime
    <3> QED
      BY <2>1, <3>2, AtIs, RequestFacts
  <2>3. CASE k # 0
    <3>1. t[n] = NextTime(r, n, t[k])
      BY <1>4, <2>1
    <3>2. n \in Nat \ {0} /\ t[k] \in Moments /\ (t[k] = Stop \/ t[k].departure \in Nat)
      BY <1>5, <2>3 DEF Stay
    <3>3. Fine(n)
      BY <3>1, <3>2, NextTimeIs
    <3> QED
      BY <2>1, <3>3
  <2> QED
    BY <2>2, <2>3
<1>6. \A k \in 0..L : k \in G
  <2>1. 0 \in G
    OBVIOUS
  <2> HIDE DEF G
  <2> QED
    BY <1>5, <2>1, UpTo
<1>7. \A k \in 1..L : Fine(k)
  BY <1>6
<1> QED
  BY <1>1, <1>2, <1>4, <1>7

(* What comes later in a route changes no time of what comes before.       *)
Agree(r, s, m) == \A k \in 1..m : r[k] = s[k]

LEMMA SchedulePrefix ==
  ASSUME Given, NEW r, NEW s, Len(r) \in Nat, Len(s) \in Nat, NEW m \in Nat,
         m <= Len(r), m <= Len(s), Agree(r, s, m)
  PROVE  Agree(Schedule(r), Schedule(s), m)
<1>1. PICK t, u : t = Schedule(r) /\ u = Schedule(s)
  OBVIOUS
<1>2. \A k \in 1..m : t[k] = NextTime(r, k, t[k-1]) /\ u[k] = NextTime(s, k, u[k-1])
  <2>1. \A k \in 1..m : k \in 1..Len(r) /\ k \in 1..Len(s)
    OBVIOUS
  <2>2. \A k \in 1..Len(r) : t[k] = NextTime(r, k, t[k-1])
    BY <1>1, ScheduleIs
  <2>3. \A k \in 1..Len(s) : u[k] = NextTime(s, k, u[k-1])
    BY <1>1, ScheduleIs
  <2> QED
    BY <2>1, <2>2, <2>3
<1> DEFINE G == {k \in Nat : k = 0 \/ t[k] = u[k]}
<1>3. ASSUME NEW k \in Nat, k < m, k \in G PROVE k + 1 \in G
  <2>1. PICK n \in 1..m : n = k + 1
    BY <1>3
  <2>2. r[n] = s[n] /\ (n # 1 => r[n-1] = s[n-1])
    BY <2>1 DEF Agree
  <2>3. t[n] = NextTime(r, n, t[k]) /\ u[n] = NextTime(s, n, u[k])
    BY <1>2, <2>1
  <2>4. n # 1 => t[k] = u[k] /\ k = n - 1
    BY <1>3, <2>1
  <2>5. t[n] = u[n]
    BY <2>2, <2>3, <2>4 DEF NextTime
  <2> QED
    BY <2>1, <2>5
<1>4. \A k \in 0..m : k \in G
  <2>1. 0 \in G
    OBVIOUS
  <2> HIDE DEF G
  <2> QED
    BY <1>3, <2>1, UpTo
<1> QED
  BY <1>1, <1>4 DEF Agree

(* A route whose last node is visited is visited at every node before.     *)
Visits(t, r) ==
  /\ \A k \in 1..Len(r) : Stay(t[k], r[k]) /\ t[k].departure <= t[Len(r)].departure
  /\ t[1].arrival = problem.day_start
  /\ \A k \in 2..Len(r) :
       /\ Leg(r[k-1], r[k]) \in Nat
       /\ t[k].arrival = t[k-1].departure + Leg(r[k-1], r[k])

LEMMA WholeSchedule ==
  ASSUME Given, NEW r, Len(r) \in Nat \ {0}, Schedule(r)[Len(r)].departure # Never
  PROVE  Visits(Schedule(r), r)
<1>1. PICK L \in Nat \ {0} : L = Len(r)
  OBVIOUS
<1>2. PICK t : t = Schedule(r)
  OBVIOUS
<1>3. \A k \in 1..L : /\ t[k] = NextTime(r, k, t[k-1])
                      /\ t[k] \in Moments
                      /\ t[k] = Stop \/ Stay(t[k], r[k])
  BY <1>1, <1>2, ScheduleIs
<1>4. \A k \in 2..L : t[k] # Stop =>
        /\ t[k-1] # Stop /\ Leg(r[k-1], r[k]) # Never
        /\ t[k].arrival = t[k-1].departure + Leg(r[k-1], r[k])
  <2>1. ASSUME NEW k \in 2..L, t[k] # Stop
        PROVE  /\ t[k-1] # Stop /\ Leg(r[k-1], r[k]) # Never
               /\ t[k].arrival = t[k-1].departure + Leg(r[k-1], r[k])
    <3>1. k \in 1..L /\ k - 1 \in 1..L /\ k # 1 /\ k \in Nat \ {0}
      OBVIOUS
    <3>2. PICK before \in Moments : before = t[k-1] /\ (before = Stop \/ before.departure \in Nat)
      BY <1>3, <3>1 DEF Stay
    <3>3. t[k] = NextTime(r, k, before)
      BY <1>3, <3>1, <3>2
    <3>4. NextTime(r, k, before) # Stop =>
            /\ before # Stop /\ Leg(r[k-1], r[k]) # Never
            /\ NextTime(r, k, before).arrival = before.departure + Leg(r[k-1], r[k])
      BY <3>1, <3>2, NextTimeIs
    <3> QED
      BY <2>1, <3>2, <3>3, <3>4
  <2> QED
    BY <2>1
<1>5. t[1] # Stop => t[1].arrival = problem.day_start
  <2>1. 1 \in 1..L /\ t[1] = At(r[1], problem.day_start)
    BY <1>3 DEF NextTime
  <2> QED
    BY <2>1, AtIs, RequestFacts
<1>6. t[L] # Stop /\ t[L].departure \in Nat
  <2>1. t[L] # Stop
    BY <1>1, <1>2 DEF Stop
  <2> QED
    BY <1>3, <2>1 DEF Stay
<1> DEFINE G == {m \in Nat : t[L-m] # Stop /\ t[L-m].departure <= t[L].departure}
<1>7. 0 \in G
  <2>1. L - 0 = L /\ t[L].departure <= t[L].departure
    BY <1>6
  <2> QED
    BY <1>6, <2>1
<1>8. ASSUME NEW m \in Nat, m < L - 1, m \in G PROVE m + 1 \in G
  <2>1. PICK k \in 2..L : k = L - m
    BY <1>8
  <2>2. k - 1 = L - (m + 1) /\ k - 1 \in 1..L /\ k \in 1..L
    BY <2>1
  <2>3. t[k] # Stop /\ t[k].departure <= t[L].departure
    BY <1>8, <2>1
  <2>4. t[k-1] # Stop /\ Leg(r[k-1], r[k]) \in Nat
        /\ t[k].arrival = t[k-1].departure + Leg(r[k-1], r[k])
    BY <1>4, <2>1, <2>3, RequestFacts
  <2>5. Stay(t[k], r[k]) /\ Stay(t[k-1], r[k-1]) /\ Visit(r[k]) \in Nat
    BY <1>3, <2>2, <2>3, <2>4, RequestFacts
  <2>6. t[k-1].departure <= t[k].arrival /\ t[k].arrival <= t[k].departure
    BY <2>4, <2>5 DEF Stay
  <2>7. t[k-1].departure <= t[L].departure
    <3>1. PICK x, y, z, w \in Nat : /\ x = t[k-1].departure /\ y = t[k].arrival
                                   /\ z = t[k].departure /\ w = t[L].departure
      BY <1>6, <2>5 DEF Stay
    <3>2. x <= y /\ y <= z /\ z <= w
      BY <2>3, <2>6, <3>1
    <3>3. x <= w
      BY <3>2
    <3> QED
      BY <3>1, <3>3
  <2> QED
    BY <2>2, <2>4, <2>7
<1>9. \A m \in 0..(L - 1) : m \in G
  <2>1. PICK top \in Nat : top = L - 1
    OBVIOUS
  <2> HIDE DEF G
  <2> QED
    BY <1>7, <1>8, <2>1, UpTo
<1>10. \A k \in 1..L : t[k] # Stop /\ t[k].departure <= t[L].departure
  <2>1. ASSUME NEW k \in 1..L PROVE t[k] # Stop /\ t[k].departure <= t[L].departure
    <3>1. L - k \in 0..(L - 1) /\ L - (L - k) = k
      OBVIOUS
    <3> QED
      BY <1>9, <3>1
  <2> QED
    BY <2>1
<1>11. \A k \in 2..L : k \in 1..L
  OBVIOUS
<1> QED
  BY <1>1, <1>2, <1>3, <1>4, <1>5, <1>10, <1>11, RequestFacts DEF Visits

-----------------------------------------------------------------------------
(* Once the windows are known they stay, and so does what is computed of   *)
(* them and the request.                                                   *)
LEMMA SameLegs ==
  ASSUME UNCHANGED given
  PROVE  /\ \A a, b : Leg(a, b)' = Leg(a, b)
         /\ \A n : Visit(n)' = Visit(n)
         /\ \A n, arrival : Begins(n, arrival)' = Begins(n, arrival)
<1>1. problem' = problem /\ window' = window
  BY DEF given
<1>2. \A a, b : Leg(a, b)' = Leg(a, b)
  BY <1>1 DEF Leg
<1>3. \A n : Visit(n)' = Visit(n)
  BY <1>1 DEF Visit
<1>4. \A n, arrival : Begins(n, arrival)' = Begins(n, arrival)
  BY <1>1, <1>3 DEF Begins
<1> QED
  BY <1>2, <1>3, <1>4

(* Schedules and travel times.                                             *)
LEMMA SameRoutes ==
  ASSUME UNCHANGED given
  PROVE  /\ \A r : Schedule(r)' = Schedule(r)
         /\ \A r : IsFeasible(r)' <=> IsFeasible(r)
         /\ \A r : TravelTime(r)' = TravelTime(r)
<1>1. problem' = problem /\ window' = window
  BY DEF given
<1>2. \A n, arrival : At(n, arrival)' = At(n, arrival)
  BY SameLegs DEF At
<1>3. \A r, k, before : NextTime(r, k, before)' = NextTime(r, k, before)
  BY <1>1, <1>2, SameLegs DEF NextTime
<1>4. \A t, r : Timed(t, r)' <=> Timed(t, r)
  BY <1>3 DEF Timed
<1>5. \A r : Schedule(r) = (CHOOSE u : Timed(u, r))
  BY DEF Schedule, Timed, NextTime, At, Stop
<1>6. \A r : Schedule(r)' = (CHOOSE u : Timed(u, r)')
  BY DEF Schedule, Timed, NextTime, At, Stop
<1>7. \A r : Schedule(r)' = Schedule(r)
  BY <1>4, <1>5, <1>6
<1>8. \A r : IsFeasible(r)' <=> IsFeasible(r)
  BY <1>1, <1>7 DEF IsFeasible
<1>9. \A f, r : Totals(f, r)' <=> Totals(f, r)
  BY SameLegs DEF Totals
<1>10. \A r : TravelTime(r) = (CHOOSE f : Totals(f, r))[Len(r)]
  BY DEF TravelTime, Totals
<1>11. \A r : TravelTime(r)' = (CHOOSE f : Totals(f, r)')[Len(r)]
  BY DEF TravelTime, Totals
<1>12. \A r : TravelTime(r)' = TravelTime(r)
  BY <1>9, <1>10, <1>11
<1> QED
  BY <1>7, <1>8, <1>12

(* Priorities.                                                             *)
LEMMA SamePriorities ==
  ASSUME UNCHANGED given
  PROVE  /\ Schedulable' = Schedulable
         /\ \A S, p : OfPriority(S, p)' = OfPriority(S, p)
         /\ \A S : MustSee(S)' = MustSee(S)
         /\ \A k : Tier(k)' = Tier(k)
         /\ \A r : RouteScore(r)' = RouteScore(r)
<1>1. problem' = problem /\ window' = window
  BY DEF given
<1>2. \A p : Priority(p)' = Priority(p)
  BY <1>1 DEF Priority
<1>3. Schedulable' = Schedulable
  BY <1>1 DEF Schedulable
<1>4. \A S, p : OfPriority(S, p)' = OfPriority(S, p)
  BY <1>2 DEF OfPriority
<1>5. \A S : MustSee(S)' = MustSee(S)
  BY <1>4 DEF MustSee
<1>6. \A k : Tier(k)' = Tier(k)
  BY <1>2, <1>3, <1>5 DEF Tier
<1>7. \A r : RouteScore(r)' = RouteScore(r)
  BY <1>4 DEF RouteScore, Visited
<1> QED
  BY <1>3, <1>4, <1>5, <1>6, <1>7

-----------------------------------------------------------------------------
(* A route over the places of S: no node twice, the start location first   *)
(* if there is one.                                                        *)
Path(r, S) ==
  /\ r \in Seq(Node) /\ r # <<>>
  /\ \A i, j \in 1..Len(r) : r[i] = r[j] => i = j
  /\ Visited(r) \subseteq S
  /\ \A k \in 1..Len(r) : r[k] = Start <=> problem.start_anchor /\ k = 1

(* One that is still to be grown, and one that ends where it should.       *)
Open(r, S) == Path(r, S) /\ \A k \in 1..Len(r) : r[k] # End

Complete(r, S) ==
  Path(r, S) /\ \A k \in 1..Len(r) : r[k] = End <=> problem.end_anchor /\ k = Len(r)

Attempt(r, S) == Complete(r, S) /\ IsFeasible(r)

(* The windows are what the documents say, and a place that cannot be      *)
(* planned has its reason.                                                 *)
WindowsInv ==
  /\ Given
  /\ pc \in {"filter", "matrix", "tier", "start", "grow", "close", "improve", "done", "failed"}
  /\ pc # "filter" => \A p \in Places :
       window[p] = IF problem.docs[p].located THEN ParseTimeWindow(problem.docs[p]) ELSE {}

SkippedInv ==
  /\ pc \notin {"filter", "done"} =>
       \A p \in Places :
         /\ skipped[p] = "none" <=> p \in Schedulable
         /\ skipped[p] # "DROPPED_LOW_PRIORITY"
  /\ pc = "filter" => plan = <<>>

(* The candidates are those of the tier, and each tier that is over has    *)
(* been attempted or was the same as the one before.                       *)
TierInv ==
  /\ tier \in 0..3
  /\ candidates = IF tier = 0 THEN {} ELSE Tier(tier)
  /\ pc \in {"filter", "matrix"} => tier = 0
  /\ pc \in {"start", "grow", "close"} => tier # 0
  /\ pc \in {"matrix", "tier", "start", "grow", "close"} => Schedulable # {}
  /\ pc = "tier" /\ tier # 0 => \E a \in attempts : a.candidates = candidates

StartsInv ==
  pc \in {"start", "grow", "close"} =>
    starts \subseteq IF problem.start_anchor THEN {Start} ELSE candidates

GrowInv ==
  pc \in {"grow", "close"} =>
    /\ Open(route, candidates)
    /\ clock = Schedule(route)[Len(route)].departure
    /\ clock # Never /\ clock <= problem.day_end

RoundInv ==
  pc \in {"start", "grow", "close"} => round = <<>> \/ Attempt(round, candidates)

AttemptsInv ==
  /\ \A a \in attempts :
       /\ \E k \in 1..3 : a.candidates = Tier(k)
       /\ a.route = <<>> \/ Attempt(a.route, a.candidates)
  /\ IF attempts = {} THEN best = NoAttempt ELSE best \in attempts
  /\ pc = "filter" => attempts = {}

(* What two_opt has made of the best attempt.                              *)
Improved(r, s) ==
  /\ s = <<>> => r = <<>>
  /\ s # <<>> =>
       /\ Attempt(r, ToSet(s))
       /\ ToSet(r) = ToSet(s)
       /\ Len(r) = Len(s) /\ r[1] = s[1]
       /\ TravelTime(r) <= TravelTime(s)

ImproveInv == pc = "improve" => best \in attempts /\ Improved(route, best.route)

IInv ==
  /\ WindowsInv /\ SkippedInv /\ TierInv /\ StartsInv
  /\ GrowInv /\ RoundInv /\ AttemptsInv /\ ImproveInv

-----------------------------------------------------------------------------
(* What is known of a route does not change either.                        *)
LEMMA SamePaths ==
  ASSUME UNCHANGED given
  PROVE  /\ \A r, S : Open(r, S)' <=> Open(r, S)
         /\ \A r, S : Attempt(r, S)' <=> Attempt(r, S)
         /\ \A r, s : Improved(r, s)' <=> Improved(r, s)
<1>1. problem' = problem /\ window' = window
  BY DEF given
<1>2. \A r, S : Path(r, S)' <=> Path(r, S)
  BY <1>1 DEF Path, Visited
<1>3. \A r, S : Open(r, S)' <=> Open(r, S)
  BY <1>2 DEF Open
<1>4. \A r, S : Complete(r, S)' <=> Complete(r, S)
  BY <1>1, <1>2 DEF Complete
<1>5. \A r, S : Attempt(r, S)' <=> Attempt(r, S)
  BY <1>4, SameRoutes DEF Attempt
<1>6. \A r, s : Improved(r, s)' <=> Improved(r, s)
  BY <1>5, SameRoutes DEF Improved
<1> QED
  BY <1>3, <1>5, <1>6

(* Places, nodes and the two locations.                                    *)
LEMMA NodeFacts ==
  /\ Places \subseteq Nat \ {0} /\ Start \notin Places /\ End \notin Places /\ Start # End
  /\ Node \subseteq Nat /\ IsFiniteSet(Places) /\ Cardinality(Places) \in Nat
  /\ Cardinality(Places) = N
  /\ \A n : n \in Node <=> n \in Places \/ n = Start \/ n = End
<1>1. IsFiniteSet(1..N) /\ Cardinality(1..N) = N
  <2>1. N \in Int /\ 1 <= N
    BY CountAssumption
  <2>2. IsFiniteSet(1..N) /\ Cardinality(1..N) = IF 1 > N THEN 0 ELSE N - 1 + 1
    BY <2>1, FS_Interval
  <2> QED
    BY <2>1, <2>2
<1> QED
  BY <1>1, CountAssumption DEF Places, Start, End, Node

(* The tiers are nested.                                                   *)
LEMMA TiersAreNested ==
  /\ Schedulable \subseteq Places
  /\ Tier(1) = Schedulable /\ Tier(2) \subseteq Tier(1) /\ Tier(3) \subseteq Tier(2)
  /\ Tier(3) = MustSee(Schedulable)
  /\ \A k \in 1..3 : Tier(k) \subseteq Schedulable /\ MustSee(Schedulable) \subseteq Tier(k)
<1>1. Schedulable \subseteq Places
  BY DEF Schedulable
<1>2. Tier(1) = Schedulable
  BY DEF Tier
<1>3. Tier(2) = {p \in Schedulable : Priority(p) # "optional"}
  BY DEF Tier
<1>4. Tier(3) = MustSee(Schedulable)
  BY DEF Tier
<1>5. MustSee(Schedulable) = {p \in Schedulable : Priority(p) = "must_see"}
  BY DEF MustSee, OfPriority
<1>6. MustSee(Schedulable) \subseteq Tier(2) /\ Tier(2) \subseteq Schedulable
  BY <1>3, <1>5
<1>7. \A k \in 1..3 : k = 1 \/ k = 2 \/ k = 3
  OBVIOUS
<1> QED
  BY <1>1, <1>2, <1>4, <1>5, <1>6, <1>7

(* A tier that has as many places as the one before has the same.          *)
LEMMA SameTier ==
  ASSUME NEW k \in 1..2, Cardinality(Tier(k + 1)) = Cardinality(Tier(k))
  PROVE  Tier(k + 1) = Tier(k)
<1>1. PICK small, large : small = Tier(k + 1) /\ large = Tier(k)
  OBVIOUS
<1>2. small \in SUBSET large /\ large \in SUBSET Places
  <2>1. k = 1 \/ k = 2
    OBVIOUS
  <2>2. 1 + 1 = 2 /\ 2 + 1 = 3
    OBVIOUS
  <2> QED
    BY <1>1, <2>1, <2>2, TiersAreNested
<1>3. IsFiniteSet(large)
  BY <1>2, NodeFacts, FS_Subset
<1>4. small = large
  BY <1>1, <1>2, <1>3, FS_Subset
<1> QED
  BY <1>1, <1>4

(* Nothing of the search has begun.                                        *)
LEMMA InitIInv == Init => IInv
<1> SUFFICES ASSUME Init PROVE IInv
  OBVIOUS
<1>1. Given
  BY DEF Init, Given
<1>2. WindowsInv /\ SkippedInv
  BY <1>1 DEF Init, WindowsInv, SkippedInv
<1>3. TierInv /\ StartsInv /\ GrowInv /\ RoundInv /\ AttemptsInv /\ ImproveInv
  BY DEF Init, TierInv, StartsInv, GrowInv, RoundInv, AttemptsInv, ImproveInv
<1> QED
  BY <1>2, <1>3 DEF IInv

(* The windows a document gives are segments.                              *)
LEMMA ParsedWindow ==
  ASSUME problem \in Problems, NEW p \in Places
  PROVE  ParseTimeWindow(problem.docs[p]) \subseteq Segments
<1>1. ValidRequest(problem) /\ ValidDoc(problem.docs[p])
  BY ProblemsAssumption DEF ValidRequest
<1>2. PICK doc : doc = problem.docs[p]
  OBVIOUS
<1>3. problem.day_start \in Int /\ problem.day_end \in Int /\ doc.from \in Int /\ doc.to \in Int
      /\ \A h \in doc.hours : h.open \in Int /\ h.close \in Int
  BY <1>1, <1>2 DEF ValidRequest, ValidDoc
<1>4. PICK from \in Int : from = IF doc.from = Never THEN problem.day_start ELSE doc.from
  BY <1>3
<1>5. PICK to \in Int : to = IF doc.to = Never THEN problem.day_end ELSE doc.to
  BY <1>3
<1> DEFINE Cut(h) == [open |-> After(from, h.open),
                      close |-> CASE h.close = Never -> to
                                  [] h.close # Never /\ h.overnight -> Before(to, 24)
                                  [] h.close # Never /\ ~h.overnight -> Before(to, h.close)]
<1>6. ASSUME NEW h \in doc.hours PROVE Cut(h) \in Segments
  <2>1. h.open \in Int /\ h.close \in Int
    BY <1>3
  <2>2. After(from, h.open) \in Int /\ Before(to, 24) \in Int /\ Before(to, h.close) \in Int
    BY <2>1 DEF After, Before
  <2>3. PICK close : close = CASE h.close = Never -> to
                               [] h.close # Never /\ h.overnight -> Before(to, 24)
                               [] h.close # Never /\ ~h.overnight -> Before(to, h.close)
    OBVIOUS
  <2>4. close \in Int
    <3>1. CASE h.close = Never
      BY <2>3, <3>1
    <3>2. CASE h.close # Never /\ h.overnight
      BY <2>2, <2>3, <3>2
    <3>3. CASE h.close # Never /\ ~h.overnight
      BY <2>2, <2>3, <3>3
    <3> QED
      BY <3>1, <3>2, <3>3
  <2> QED
    BY <2>2, <2>3, <2>4 DEF Segments
<1>7. [open |-> from, close |-> to] \in Segments
  BY DEF Segments
<1>8. ParseTimeWindow(doc) =
        {s \in IF doc.dated THEN {Cut(h) : h \in doc.hours} ELSE {[open |-> from, close |-> to]} :
           s.close > s.open}
  BY <1>4, <1>5 DEF ParseTimeWindow
<1> HIDE DEF Cut
<1> QED
  BY <1>2, <1>6, <1>7, <1>8

-----------------------------------------------------------------------------
(* Filter gives every place its window or its reason.                      *)
LEMMA FilterKeeps ==
  ASSUME IInv, Filter
  PROVE  IInv'
<1>1. problem' = problem /\ problem \in Problems
  BY DEF Filter, IInv, WindowsInv, Given
<1>2. tier = 0 /\ candidates = {} /\ attempts = {} /\ best = NoAttempt
  BY DEF Filter, IInv, TierInv, AttemptsInv
<1>3. \A p \in Places :
        window'[p] = IF problem.docs[p].located THEN ParseTimeWindow(problem.docs[p]) ELSE {}
  BY DEF Filter
<1>4. window' \in [Places -> SUBSET Segments]
  <2>1. ASSUME NEW p \in Places PROVE window'[p] \in SUBSET Segments
    BY <1>1, <1>3, ParsedWindow
  <2>2. window' = [p \in Places |-> window'[p]]
    BY DEF Filter
  <2> QED
    BY <2>1, <2>2
<1>5. Schedulable' = {p \in Places : window'[p] # {}}
  BY DEF Schedulable
<1>6. WindowsInv'
  <2>1. \A p \in Places : ParseTimeWindow(problem.docs[p])' = ParseTimeWindow(problem.docs[p])
    BY <1>1 DEF ParseTimeWindow
  <2>2. pc' \in {"done", "matrix"}
    BY DEF Filter
  <2> QED
    BY <1>1, <1>3, <1>4, <2>1, <2>2 DEF WindowsInv, Given
<1>7. SkippedInv'
  <2>1. ASSUME NEW p \in Places
        PROVE  /\ skipped'[p] = "none" <=> window'[p] # {}
               /\ skipped'[p] # "DROPPED_LOW_PRIORITY"
    <3>1. skipped'[p] = CASE ~problem.docs[p].located -> "NO_COORDINATES"
                          [] problem.docs[p].located /\ window'[p] = {} -> "TIME_WINDOW_INFEASIBLE"
                          [] problem.docs[p].located /\ window'[p] # {} -> "none"
      BY DEF Filter
    <3>2. CASE ~problem.docs[p].located
      BY <1>3, <3>1, <3>2
    <3>3. CASE problem.docs[p].located /\ window'[p] = {}
      BY <3>1, <3>3
    <3>4. CASE problem.docs[p].located /\ window'[p] # {}
      BY <3>1, <3>4
    <3> QED
      BY <3>2, <3>3, <3>4
  <2>2. pc' \in {"done", "matrix"}
    BY DEF Filter
  <2> QED
    BY <1>5, <2>1, <2>2 DEF SkippedInv
<1>8. TierInv'
  <2>1. tier' = 0 /\ candidates' = {}
    BY <1>2 DEF Filter
  <2>2. pc' = "matrix" => Schedulable' # {}
    BY <1>5 DEF Filter
  <2>3. pc' \in {"done", "matrix"}
    BY DEF Filter
  <2> QED
    BY <2>1, <2>2, <2>3 DEF TierInv
<1>9. StartsInv' /\ GrowInv' /\ RoundInv' /\ ImproveInv'
  <2>1. pc' \in {"done", "matrix"}
    BY DEF Filter
  <2> QED
    BY <2>1 DEF StartsInv, GrowInv, RoundInv, ImproveInv
<1>10. AttemptsInv'
  <2>1. attempts' = {} /\ best' = NoAttempt
    BY <1>2 DEF Filter
  <2>2. NoAttempt' = NoAttempt
    BY DEF NoAttempt
  <2> QED
    BY <2>1, <2>2 DEF AttemptsInv
<1> QED
  BY <1>6, <1>7, <1>8, <1>9, <1>10 DEF IInv

(* All other steps leave the windows alone.                                *)
LEMMA WindowsStay ==
  ASSUME IInv, pc # "filter", UNCHANGED given,
         pc' \in {"tier", "start", "grow", "close", "improve", "done", "failed"}
  PROVE  WindowsInv'
<1>1. problem' = problem /\ window' = window
  BY DEF given
<1>2. \A p \in Places : ParseTimeWindow(problem.docs[p])' = ParseTimeWindow(problem.docs[p])
  BY <1>1 DEF ParseTimeWindow
<1>3. pc' # "filter"
  OBVIOUS
<1> QED
  BY <1>1, <1>2, <1>3 DEF IInv, WindowsInv, Given

(* All but the last also leave the reasons.                                *)
LEMMA SkippedStay ==
  ASSUME IInv, pc \notin {"filter", "done"}, UNCHANGED given, pc' # "filter", skipped' = skipped
  PROVE  SkippedInv'
BY SamePriorities DEF IInv, SkippedInv

(* Most leave the attempts.                                                *)
LEMMA AttemptsStay ==
  ASSUME IInv, UNCHANGED given, attempts' = attempts, best' = best, pc' # "filter"
  PROVE  AttemptsInv'
<1>1. NoAttempt' = NoAttempt
  BY DEF NoAttempt
<1> QED
  BY <1>1, SamePaths, SamePriorities DEF IInv, AttemptsInv

(* The matrix is there, or there is no route at all.                       *)
LEMMA GetMatrixKeeps ==
  ASSUME IInv, GetMatrix
  PROVE  IInv'
<1>1. UNCHANGED given /\ UNCHANGED skipped /\ pc = "matrix" /\ pc' \in {"tier", "failed"}
  BY DEF GetMatrix, searching
<1>2. WindowsInv' /\ SkippedInv'
  BY <1>1, WindowsStay, SkippedStay
<1>3. tier = 0 /\ tier' = 0 /\ candidates' = {} /\ Schedulable' = Schedulable /\ Schedulable # {}
  BY <1>1, SamePriorities DEF GetMatrix, IInv, TierInv
<1>4. TierInv'
  BY <1>1, <1>3 DEF TierInv
<1>5. StartsInv' /\ GrowInv' /\ RoundInv' /\ ImproveInv'
  BY <1>1 DEF StartsInv, GrowInv, RoundInv, ImproveInv
<1>6. AttemptsInv'
  BY <1>1, AttemptsStay DEF GetMatrix
<1> QED
  BY <1>2, <1>4, <1>5, <1>6 DEF IInv

(* The next tier is attempted, or has the same places as the last one.     *)
LEMMA BeginTierKeeps ==
  ASSUME IInv, BeginTier
  PROVE  IInv'
<1>1. UNCHANGED given /\ UNCHANGED skipped /\ pc = "tier" /\ pc' \in {"tier", "start"}
  BY DEF BeginTier, searching
<1>2. WindowsInv' /\ SkippedInv' /\ AttemptsInv'
  BY <1>1, WindowsStay, SkippedStay, AttemptsStay DEF BeginTier
<1>3. tier \in 0..2 /\ tier' = tier + 1 /\ tier' \in 1..3
  BY DEF BeginTier, IInv, TierInv
<1>4. candidates' = Tier(tier + 1) /\ (pc' = "tier" => tier # 0 /\ candidates' = candidates)
  <2>1. CASE Cardinality(Tier(tier + 1)) = Cardinality(candidates)
    <3>1. candidates' = candidates
      BY <2>1 DEF BeginTier
    <3>2. tier # 0
      <4>1. SUFFICES ASSUME tier = 0 PROVE FALSE
        OBVIOUS
      <4>2. candidates = {} /\ Schedulable # {}
        BY <1>1, <4>1 DEF IInv, TierInv
      <4>3. Cardinality(Schedulable) = 0
        <5>1. Tier(tier + 1) = Schedulable
          BY <4>1, TiersAreNested
        <5> QED
          BY <2>1, <4>2, <5>1, FS_EmptySet
      <4>4. IsFiniteSet(Schedulable)
        BY NodeFacts, TiersAreNested, FS_Subset
      <4> QED
        BY <4>2, <4>3, <4>4, FS_EmptySet
    <3>3. candidates = Tier(tier) /\ tier \in 1..2
      BY <1>3, <3>2 DEF IInv, TierInv
    <3>4. Tier(tier + 1) = Tier(tier)
      BY <2>1, <3>3, SameTier
    <3> QED
      BY <3>1, <3>2, <3>3, <3>4
  <2>2. CASE Cardinality(Tier(tier + 1)) # Cardinality(candidates)
    BY <2>2 DEF BeginTier
  <2> QED
    BY <2>1, <2>2
<1>5. TierInv'
  <2>1. candidates' = Tier(tier)'
    BY <1>1, <1>3, <1>4, SamePriorities
  <2>2. Schedulable' # {}
    BY <1>1, SamePriorities DEF IInv, TierInv
  <2>3. pc' = "tier" => \E a \in attempts' : a.candidates = candidates'
    BY <1>1, <1>4 DEF BeginTier, IInv, TierInv
  <2> QED
    BY <1>1, <1>3, <2>1, <2>2, <2>3 DEF TierInv
<1>6. StartsInv'
  <2>1. pc' = "start" =>
          starts' = IF problem.start_anchor THEN {Start} ELSE Tier(tier + 1)
    BY <1>1 DEF BeginTier
  <2> QED
    BY <1>1, <1>4, <2>1 DEF StartsInv, given
<1>7. RoundInv'
  <2>1. pc' = "start" => round' = <<>>
    BY <1>1 DEF BeginTier
  <2> QED
    BY <1>1, <2>1 DEF RoundInv
<1>8. GrowInv' /\ ImproveInv'
  BY <1>1 DEF GrowInv, ImproveInv
<1> QED
  BY <1>2, <1>5, <1>6, <1>7, <1>8 DEF IInv

(* What two_opt begins with is the route of the best attempt.              *)
LEMMA SettleKeeps ==
  ASSUME IInv, UNCHANGED given, best' \in attempts', AttemptsInv', Settle
  PROVE  ImproveInv'
<1>1. PICK a : a = best'
  OBVIOUS
<1>2. a.route = <<>> \/ Attempt(a.route, a.candidates)
  BY <1>1, SamePaths DEF AttemptsInv
<1>3. Improved(a.route, a.route)
  <2>1. CASE a.route = <<>>
    BY <2>1 DEF Improved
  <2>2. CASE a.route # <<>>
    <3>1. Path(a.route, a.candidates) /\ Complete(a.route, a.candidates) /\ IsFeasible(a.route)
      BY <1>2, <2>2 DEF Attempt, Complete
    <3>2. Attempt(a.route, ToSet(a.route))
      BY <3>1 DEF Attempt, Complete, Path, Visited
    <3>3. a.route \in Seq(Node)
      BY <3>1 DEF Path
    <3>4. TravelTime(a.route) \in Int
      BY <3>3, TravelTimeIs DEF IInv, WindowsInv
    <3> QED
      BY <2>2, <3>1, <3>2, <3>4 DEF Improved
  <2> QED
    BY <2>1, <2>2
<1>4. route' = a.route
  BY <1>1 DEF Settle
<1> QED
  BY <1>1, <1>3, <1>4, SamePaths DEF ImproveInv

(* After the last tier.                                                    *)
LEMMA TiersExhaustedKeeps ==
  ASSUME IInv, TiersExhausted
  PROVE  IInv'
<1>1. UNCHANGED given /\ UNCHANGED skipped /\ pc = "tier" /\ pc' = "improve"
  BY DEF TiersExhausted, searching, Settle
<1>2. WindowsInv' /\ SkippedInv' /\ AttemptsInv'
  BY <1>1, WindowsStay, SkippedStay, AttemptsStay DEF TiersExhausted
<1>3. TierInv'
  <2>1. tier' = tier /\ candidates' = candidates
    BY DEF TiersExhausted
  <2>2. Tier(tier)' = Tier(tier)
    BY <1>1, <2>1, SamePriorities
  <2> QED
    BY <1>1, <2>1, <2>2 DEF IInv, TierInv
<1>4. StartsInv' /\ GrowInv' /\ RoundInv'
  BY <1>1 DEF StartsInv, GrowInv, RoundInv
<1>5. best' \in attempts'
  <2>1. PICK a \in attempts : a.candidates = candidates
    BY <1>1 DEF TiersExhausted, IInv, TierInv
  <2> QED
    BY <1>1, <2>1 DEF TiersExhausted, IInv, AttemptsInv, NoAttempt
<1>6. ImproveInv'
  BY <1>1, <1>2, <1>5, SettleKeeps DEF TiersExhausted
<1> QED
  BY <1>2, <1>3, <1>4, <1>6 DEF IInv

-----------------------------------------------------------------------------
(* The candidates are places that can be planned.                          *)
LEMMA CandidatesArePlaces ==
  ASSUME IInv
  PROVE  candidates \subseteq Schedulable /\ candidates \subseteq Places
<1>1. tier \in 0..3 /\ candidates = IF tier = 0 THEN {} ELSE Tier(tier)
  BY DEF IInv, TierInv
<1>2. tier # 0 => tier \in 1..3
  BY <1>1
<1> QED
  BY <1>1, <1>2, TiersAreNested

(* The first node a route is grown from.                                   *)
LEMMA FirstNode ==
  ASSUME Given, NEW S, S \subseteq Places,
         NEW n \in IF problem.start_anchor THEN {Start} ELSE S
  PROVE  Open(<<n>>, S)
<1>1. PICK r : r = <<n>>
  OBVIOUS
<1>2. n \in Node /\ n # End /\ (n = Start <=> problem.start_anchor)
  <2>1. problem.start_anchor \in BOOLEAN
    BY ProblemsAssumption DEF Given, ValidRequest
  <2> QED
    BY <2>1, NodeFacts
<1>3. r \in Seq(Node) /\ r # <<>> /\ Len(r) = 1 /\ r[1] = n /\ DOMAIN r = {1} /\ 1..Len(r) = {1}
  BY <1>1, <1>2
<1>4. Visited(r) \subseteq S
  BY <1>2, <1>3, NodeFacts DEF Visited, ToSet
<1> QED
  BY <1>1, <1>2, <1>3, <1>4 DEF Open, Path

(* Its departure.                                                          *)
LEMMA FirstDeparture ==
  ASSUME Given, NEW n, Begins(n, problem.day_start) # Never
  PROVE  /\ Schedule(<<n>>)[1].departure = Begins(n, problem.day_start) + Visit(n)
         /\ Begins(n, problem.day_start) + Visit(n) \in Nat
<1>1. PICK r : r = <<n>>
  OBVIOUS
<1>2. Len(r) = 1 /\ r[1] = n /\ 1 \in 1..Len(r)
  BY <1>1
<1>3. Schedule(r)[1] = NextTime(r, 1, Schedule(r)[0])
  BY <1>2, ScheduleIs
<1>4. Schedule(r)[1] = At(n, problem.day_start)
  BY <1>2, <1>3 DEF NextTime
<1>5. Begins(n, problem.day_start) \in Nat /\ Visit(n) \in Nat
  BY RequestFacts, BeginsIs
<1> QED
  BY <1>1, <1>4, <1>5 DEF At

(* What a route may go on to: a place it has not visited, or its end.      *)
CanFollow(c, S, r) == (c \in S /\ c \notin ToSet(r)) \/ c = End

(* s is r and then c.                                                      *)
Grows(s, r, c) ==
  /\ s \in Seq(Node) /\ Len(s) = Len(r) + 1 /\ s # <<>>
  /\ s[Len(r) + 1] = c
  /\ Agree(r, s, Len(r))

(* A route has a last node, and grows by what is appended.                 *)
LEMMA AppendGrows ==
  ASSUME NEW r \in Seq(Node), r # <<>>
  PROVE  /\ Len(r) \in Nat \ {0} /\ Last(r) = r[Len(r)] /\ Last(r) \in Node
         /\ \A c \in Node : Grows(Append(r, c), r, c)
<1>1. PICK L \in Nat \ {0} : L = Len(r)
  OBVIOUS
<1>2. L \in 1..L /\ \A k \in 1..L : r[k] \in Node
  BY <1>1
<1>3. ASSUME NEW c \in Node PROVE Grows(Append(r, c), r, c)
  <2>1. PICK s : s = Append(r, c)
    OBVIOUS
  <2>2. s \in Seq(Node) /\ Len(s) = L + 1 /\ s # <<>> /\ s[L + 1] = c
    BY <1>1, <2>1
  <2>3. \A k \in 1..L : r[k] = s[k]
    BY <1>1, <2>1
  <2> QED
    BY <1>1, <2>1, <2>2, <2>3 DEF Grows, Agree
<1> QED
  BY <1>1, <1>2, <1>3 DEF Last

(* A route that goes on to such a node is a route still.                   *)
OfPlaces(S) == S \subseteq Places

EndIsLast(s) == \A k \in 1..Len(s) : s[k] = End <=> k = Len(s)

LEMMA GrownPath ==
  ASSUME Given, NEW S, OfPlaces(S), NEW r, Open(r, S),
         NEW c, CanFollow(c, S, r), NEW s, Grows(s, r, c)
  PROVE  Path(s, S) /\ (c # End => Open(s, S)) /\ (c = End => EndIsLast(s))
<1>1. r \in Seq(Node) /\ r # <<>> /\ ((c \in S /\ c \notin ToSet(r)) \/ c = End)
  BY DEF Open, Path, CanFollow
<1>2. PICK L \in Nat \ {0} : L = Len(r)
  BY <1>1
<1>3. DOMAIN r = 1..L
  BY <1>1, <1>2
<1>4. c \in Node /\ c # Start
  BY <1>1, NodeFacts DEF OfPlaces
<1>5. s \in Seq(Node) /\ Len(s) = L + 1 /\ s # <<>> /\ DOMAIN s = 1..(L + 1)
  BY <1>2 DEF Grows
<1>6. \A k \in 1..L : s[k] = r[k]
  BY <1>2 DEF Grows, Agree
<1>7. s[L + 1] = c
  BY <1>2 DEF Grows
<1>8. \A k \in 1..L : r[k] # c
  <2>1. \A k \in 1..L : r[k] \in ToSet(r)
    BY <1>3 DEF ToSet
  <2>2. \A k \in 1..L : r[k] # End
    BY <1>2 DEF Open
  <2> QED
    BY <1>1, <2>1, <2>2
<1>9. \A k \in 1..(L + 1) : k \in 1..L \/ k = L + 1
  OBVIOUS
<1>10. \A i, j \in 1..(L + 1) : s[i] = s[j] => i = j
  <2>1. \A i, j \in 1..L : r[i] = r[j] => i = j
    BY <1>2 DEF Open, Path
  <2> QED
    BY <1>6, <1>7, <1>8, <1>9, <2>1
<1>11. Visited(s) \subseteq S
  <2>1. ASSUME NEW n \in Visited(s) PROVE n \in S
    <3>1. n \in Places /\ \E k \in 1..(L + 1) : n = s[k]
      BY <1>5 DEF Visited, ToSet
    <3>2. PICK k \in 1..(L + 1) : n = s[k]
      BY <3>1
    <3>3. CASE k = L + 1
      BY <1>1, <1>7, <3>1, <3>2, <3>3, NodeFacts
    <3>4. CASE k \in 1..L
      <4>1. n \in Visited(r)
        BY <1>3, <1>6, <3>1, <3>2, <3>4 DEF Visited, ToSet
      <4> QED
        BY <4>1 DEF Open, Path
    <3> QED
      BY <1>9, <3>3, <3>4
  <2> QED
    BY <2>1
<1>12. \A k \in 1..(L + 1) : /\ s[k] = Start <=> problem.start_anchor /\ k = 1
                             /\ s[k] = End <=> c = End /\ k = L + 1
  <2>1. \A k \in 1..L : /\ r[k] = Start <=> problem.start_anchor /\ k = 1
                        /\ r[k] # End
    BY <1>2 DEF Open, Path
  <2>2. ASSUME NEW k \in 1..L
        PROVE  /\ s[k] = Start <=> problem.start_anchor /\ k = 1
               /\ s[k] = End <=> c = End /\ k = L + 1
    <3>1. k # L + 1
      OBVIOUS
    <3> QED
      BY <1>6, <2>1, <3>1
  <2>3. s[L + 1] # Start /\ L + 1 # 1 /\ (s[L + 1] = End <=> c = End)
    BY <1>4, <1>7
  <2> QED
    BY <1>9, <2>2, <2>3
<1>13. Path(s, S)
  BY <1>5, <1>10, <1>11, <1>12 DEF Path
<1>14. c # End => Open(s, S)
  BY <1>5, <1>12, <1>13 DEF Open
<1>15. c = End => EndIsLast(s)
  BY <1>5, <1>12 DEF EndIsLast
<1> QED
  BY <1>13, <1>14, <1>15

(* The new node is reached from the departure of the last one.             *)
LEMMA GrownSchedule ==
  ASSUME Given, NEW r \in Seq(Node), r # <<>>, NEW c, NEW s, Grows(s, r, c),
         NEW clk \in Nat, clk = Schedule(r)[Len(r)].departure, Leg(Last(r), c) # Never
  PROVE  Schedule(s)[Len(s)] = At(c, clk + Leg(Last(r), c))
<1>1. PICK L \in Nat \ {0} : L = Len(r)
  OBVIOUS
<1>2. Last(r) = r[L]
  BY <1>1, AppendGrows
<1>3. Len(s) = L + 1 /\ s[L + 1] = c /\ s[L] = r[L] /\ Agree(r, s, L)
  <2>1. L \in 1..L
    OBVIOUS
  <2> QED
    BY <1>1, <2>1 DEF Grows, Agree
<1>4. Schedule(s)[L] = Schedule(r)[L]
  <2>1. Len(s) \in Nat /\ Len(r) \in Nat /\ L <= Len(r) /\ L <= Len(s) /\ L \in Nat
    BY <1>1, <1>3
  <2>2. Agree(Schedule(r), Schedule(s), L)
    BY <1>3, <2>1, SchedulePrefix
  <2>3. L \in 1..L
    OBVIOUS
  <2> QED
    BY <2>2, <2>3 DEF Agree
<1>5. L + 1 \in 1..Len(s) /\ (L + 1) - 1 = L /\ L + 1 # 1 /\ Len(s) \in Nat
  BY <1>3
<1>6. Schedule(s)[L + 1] = NextTime(s, L + 1, Schedule(s)[L])
  BY <1>5, ScheduleIs
<1>7. Schedule(s)[L] # Stop /\ Schedule(s)[L].departure = clk
  BY <1>1, <1>4 DEF Stop, Never
<1>8. NextTime(s, L + 1, Schedule(s)[L]) = At(c, clk + Leg(Last(r), c))
  BY <1>2, <1>3, <1>5, <1>7 DEF NextTime
<1> QED
  BY <1>3, <1>6, <1>8

(* What is known of the route being built.                                 *)
LEMMA GrowFacts ==
  ASSUME IInv, pc \in {"grow", "close"}
  PROVE  /\ Given /\ candidates \subseteq Places
         /\ Open(route, candidates)
         /\ clock = Schedule(route)[Len(route)].departure
         /\ clock \in Nat /\ clock <= problem.day_end
<1>1. Given /\ candidates \subseteq Places
  BY CandidatesArePlaces DEF IInv, WindowsInv
<1>2. /\ Open(route, candidates)
      /\ clock = Schedule(route)[Len(route)].departure
      /\ clock # Never /\ clock <= problem.day_end
  BY DEF IInv, GrowInv
<1>3. Len(route) \in Nat \ {0}
  BY <1>2 DEF Open, Path
<1>4. Len(route) \in 1..Len(route)
  BY <1>3
<1>5. Stay(Schedule(route)[Len(route)], route[Len(route)])
  BY <1>1, <1>2, <1>3, <1>4, WholeSchedule DEF Visits
<1> QED
  BY <1>1, <1>2, <1>5 DEF Stay

(* What a step of one attempt leaves alone.                                *)
LEMMA AttemptStep ==
  ASSUME IInv, UNCHANGED <<given, searching, tier, candidates, best, attempts>>,
         pc \in {"start", "grow", "close"}, pc' \in {"start", "grow", "close"}
  PROVE  /\ WindowsInv' /\ SkippedInv' /\ TierInv' /\ AttemptsInv' /\ ImproveInv'
<1>1. UNCHANGED given /\ skipped' = skipped /\ tier' = tier /\ candidates' = candidates
      /\ attempts' = attempts /\ best' = best
  BY DEF searching
<1>2. WindowsInv' /\ SkippedInv' /\ AttemptsInv'
  <2>1. pc # "filter" /\ pc \notin {"filter", "done"} /\ pc' # "filter"
        /\ pc' \in {"tier", "start", "grow", "close", "improve", "done", "failed"}
    OBVIOUS
  <2> QED
    BY <1>1, <2>1, WindowsStay, SkippedStay, AttemptsStay
<1>3. TierInv'
  <2>1. Tier(tier)' = Tier(tier) /\ Schedulable' = Schedulable
    BY <1>1, SamePriorities
  <2>2. tier \in 0..3 /\ tier # 0 /\ candidates = Tier(tier) /\ Schedulable # {}
    BY DEF IInv, TierInv
  <2>3. pc' \notin {"filter", "matrix", "tier"}
    OBVIOUS
  <2> QED
    BY <1>1, <2>1, <2>2, <2>3 DEF TierInv
<1> QED
  BY <1>2, <1>3 DEF ImproveInv

(* The nodes still to start from are among those of the tier.              *)
LEMMA StartsStay ==
  ASSUME IInv, UNCHANGED given, candidates' = candidates, starts' \subseteq starts,
         pc \in {"start", "grow", "close"}
  PROVE  StartsInv'
<1>1. problem' = problem
  BY DEF given
<1> QED
  BY <1>1 DEF IInv, StartsInv

(* The best route of the attempt stays what it is.                         *)
LEMMA RoundStay ==
  ASSUME IInv, UNCHANGED given, candidates' = candidates, round' = round,
         pc \in {"start", "grow", "close"}
  PROVE  RoundInv'
BY SamePaths DEF IInv, RoundInv

(* A route is begun at the next node, if that can be visited.              *)
LEMMA BeginStartKeeps ==
  ASSUME IInv, BeginStart
  PROVE  IInv'
<1>1. /\ UNCHANGED <<given, searching, tier, candidates, best, attempts>>
      /\ pc = "start" /\ pc' \in {"start", "grow"} /\ UNCHANGED given
      /\ candidates' = candidates /\ round' = round /\ problem' = problem
  BY DEF BeginStart, given
<1>2. WindowsInv' /\ SkippedInv' /\ TierInv' /\ AttemptsInv' /\ ImproveInv' /\ RoundInv'
  BY <1>1, AttemptStep, RoundStay
<1>3. Given /\ candidates \subseteq Places
  BY CandidatesArePlaces DEF IInv, WindowsInv
<1>4. PICK S : S = IF problem.start_anchor THEN {Start} ELSE candidates
  OBVIOUS
<1>5. starts \subseteq S /\ S \subseteq Nat
  BY <1>1, <1>3, <1>4, NodeFacts DEF IInv, StartsInv, Start
<1>6. PICK n : n = Min(starts)
  OBVIOUS
<1>7. n \in starts
  <2>1. starts # {}
    BY DEF BeginStart
  <2>2. PICK least \in starts : \A m \in starts : least <= m
    BY <1>5, <2>1, LeastElement
  <2> QED
    BY <1>6, <2>2 DEF Min
<1>8. starts' = starts \ {n}
  BY <1>6 DEF BeginStart
<1>9. StartsInv'
  BY <1>1, <1>8, StartsStay
<1>10. GrowInv'
  <2>1. SUFFICES ASSUME pc' = "grow" PROVE GrowInv'
    BY <1>1 DEF GrowInv
  <2>2. PICK begins : begins = Begins(n, problem.day_start)
    OBVIOUS
  <2>3. /\ begins # Never /\ ~(begins + Visit(n) > problem.day_end)
        /\ route' = <<n>> /\ clock' = begins + Visit(n)
    BY <1>1, <1>6, <2>1, <2>2 DEF BeginStart
  <2>4. Open(<<n>>, candidates)
    BY <1>3, <1>4, <1>5, <1>7, FirstNode
  <2>5. Schedule(<<n>>)[1].departure = begins + Visit(n) /\ begins + Visit(n) \in Nat
    BY <1>3, <2>2, <2>3, FirstDeparture
  <2>6. Open(route, candidates)'
    BY <1>1, <2>3, <2>4, SamePaths
  <2>7. Schedule(route)'[Len(route')].departure = clock'
    <3>1. Len(route') = 1
      BY <2>3
    <3> QED
      BY <1>1, <2>3, <2>5, <3>1, SameRoutes
  <2>8. clock' # Never /\ clock' <= problem'.day_end
    <3>1. problem.day_end \in Nat
      BY <1>3, RequestFacts
    <3> QED
      BY <1>1, <2>3, <2>5, <3>1 DEF Never
  <2> QED
    BY <2>6, <2>7, <2>8 DEF GrowInv
<1> QED
  BY <1>2, <1>9, <1>10 DEF IInv

(* The route goes on to a place that can still be visited, unless that     *)
(* would end after the day.                                                *)
LEMMA ExtendKeeps ==
  ASSUME IInv, Extend
  PROVE  IInv'
<1>1. /\ UNCHANGED <<given, searching, tier, candidates, best, attempts>>
      /\ pc = "grow" /\ pc' \in {"grow", "close"} /\ UNCHANGED given
      /\ candidates' = candidates /\ round' = round /\ problem' = problem
  BY DEF Extend, given
<1>2. WindowsInv' /\ SkippedInv' /\ TierInv' /\ AttemptsInv' /\ ImproveInv' /\ RoundInv'
  BY <1>1, AttemptStep, RoundStay
<1>3. StartsInv'
  BY <1>1, StartsStay DEF Extend
<1>4. /\ Given /\ candidates \subseteq Places
      /\ Open(route, candidates)
      /\ clock = Schedule(route)[Len(route)].departure
      /\ clock \in Nat /\ clock <= problem.day_end
  BY <1>1, GrowFacts
<1>4a. Given /\ problem.day_end \in Nat
  <2>1. Given
    BY <1>4
  <2> QED
    BY <2>1, RequestFacts
<1>5. PICK c \in NextNodes :
        IF Departs(c) > problem.day_end
        THEN pc' = "close" /\ UNCHANGED <<route, clock>>
        ELSE route' = Append(route, c) /\ clock' = Departs(c) /\ UNCHANGED pc
  BY DEF Extend
<1>6. c \in candidates /\ c \notin ToSet(route) /\ CanVisit(c)
  BY DEF NextNodes, Unvisited
<1>7. GrowInv'
  <2>1. CASE Departs(c) > problem.day_end
    <3>1. route' = route /\ clock' = clock
      BY <1>5, <2>1
    <3>2. Open(route, candidates)'
      BY <1>1, <1>4, <3>1, SamePaths
    <3>3. Schedule(route)'[Len(route')].departure = clock'
      BY <1>1, <1>4, <3>1, SameRoutes
    <3>4. clock' # Never /\ clock' <= problem'.day_end
      BY <1>1, <1>4, <3>1 DEF Never
    <3> QED
      BY <3>2, <3>3, <3>4 DEF GrowInv
  <2>2. CASE ~(Departs(c) > problem.day_end)
    <3>1. route' = Append(route, c) /\ clock' = Departs(c)
      BY <1>5, <2>2
    <3>2. PICK arrival \in Nat : arrival = clock + Leg(Last(route), c)
      BY <1>4, <1>6, RequestFacts DEF CanVisit
    <3>3. Begins(c, arrival) # Never /\ Departs(c) = Begins(c, arrival) + Visit(c)
      BY <1>6, <3>2 DEF CanVisit, Departs
    <3>4. Begins(c, arrival) \in Nat /\ Visit(c) \in Nat
      BY <1>4, <3>2, <3>3, BeginsIs, RequestFacts
    <3>5. PICK s : s = Append(route, c)
      OBVIOUS
    <3>6. route \in Seq(Node) /\ route # <<>> /\ c \in Node /\ c # End
      BY <1>4, <1>6, NodeFacts DEF Open, Path
    <3>7. Grows(s, route, c)
      BY <3>5, <3>6, AppendGrows
    <3>8. Open(s, candidates)
      <4>1. CanFollow(c, candidates, route)
        BY <1>6 DEF CanFollow
      <4>2. Given /\ OfPlaces(candidates) /\ Open(route, candidates)
        BY <1>4 DEF OfPlaces
      <4> QED
        BY <3>6, <3>7, <4>1, <4>2, GrownPath
    <3>9. Schedule(s)[Len(s)] = At(c, arrival)
      <4>1. PICK clk \in Nat : clk = clock
        BY <1>4
      <4>2. clk = Schedule(route)[Len(route)].departure /\ Leg(Last(route), c) # Never
        BY <1>4, <1>6, <4>1 DEF CanVisit
      <4>3. Schedule(s)[Len(s)] = At(c, clk + Leg(Last(route), c))
        BY <1>4a, <3>6, <3>7, <4>2, GrownSchedule
      <4> QED
        BY <3>2, <4>1, <4>3
    <3>10. At(c, arrival).departure = Departs(c)
      BY <3>3 DEF At
    <3>11. Open(route, candidates)'
      BY <1>1, <3>1, <3>5, <3>8, SamePaths
    <3>12. Schedule(route)'[Len(route')].departure = clock'
      BY <1>1, <3>1, <3>5, <3>9, <3>10, SameRoutes
    <3>13. clock' # Never /\ clock' <= problem'.day_end
      BY <1>1, <1>4a, <2>2, <3>1, <3>3, <3>4 DEF Never
    <3> QED
      BY <3>11, <3>12, <3>13 DEF GrowInv
  <2> QED
    BY <2>1, <2>2
<1> QED
  BY <1>2, <1>3, <1>7 DEF IInv

(* Nothing more can be visited.                                            *)
LEMMA NothingMoreKeeps ==
  ASSUME IInv, NothingMore
  PROVE  IInv'
<1>1. /\ UNCHANGED <<given, searching, tier, candidates, best, attempts>>
      /\ pc = "grow" /\ pc' = "close" /\ UNCHANGED given
      /\ candidates' = candidates /\ round' = round /\ problem' = problem
      /\ route' = route /\ clock' = clock
  BY DEF NothingMore, given
<1>2. WindowsInv' /\ SkippedInv' /\ TierInv' /\ AttemptsInv' /\ ImproveInv' /\ RoundInv'
  BY <1>1, AttemptStep, RoundStay
<1>3. StartsInv'
  BY <1>1, StartsStay DEF NothingMore
<1>4. GrowInv'
  BY <1>1, SamePaths, SameRoutes DEF IInv, GrowInv
<1> QED
  BY <1>2, <1>3, <1>4 DEF IInv

(* The route of one start is finished: its end location is reached in      *)
(* time.                                                                   *)
LEMMA WholeRoute ==
  ASSUME IInv, pc = "close", NEW whole,
         IF problem.end_anchor
         THEN /\ whole = Append(route, End)
              /\ Leg(Last(route), End) # Never
              /\ clock + Leg(Last(route), End) <= problem.day_end
         ELSE whole = route
  PROVE  Attempt(whole, candidates)
<1>1. /\ Given /\ OfPlaces(candidates)
      /\ Open(route, candidates)
      /\ clock = Schedule(route)[Len(route)].departure
      /\ clock \in Nat /\ clock <= problem.day_end
  BY GrowFacts DEF OfPlaces
<1>2. route \in Seq(Node) /\ route # <<>>
  BY <1>1 DEF Open, Path
<1>3. CASE ~problem.end_anchor
  <2>1. whole = route
    BY <1>3
  <2>2. Complete(whole, candidates)
    BY <1>1, <1>3, <2>1 DEF Open, Complete
  <2>3. IsFeasible(whole)
    BY <1>1, <2>1 DEF IsFeasible, Never
  <2> QED
    BY <2>2, <2>3 DEF Attempt
<1>4. CASE problem.end_anchor
  <2>1. /\ whole = Append(route, End)
        /\ Leg(Last(route), End) # Never
        /\ clock + Leg(Last(route), End) <= problem.day_end
    BY <1>4
  <2>2. Grows(whole, route, End)
    BY <1>2, <2>1, AppendGrows, NodeFacts
  <2>3. CanFollow(End, candidates, route)
    BY DEF CanFollow
  <2>4. Path(whole, candidates) /\ EndIsLast(whole)
    BY <1>1, <2>2, <2>3, GrownPath
  <2>5. Complete(whole, candidates)
    BY <1>4, <2>4 DEF Complete, EndIsLast
  <2>6. PICK arrival \in Nat : arrival = clock + Leg(Last(route), End)
    <3>1. Given
      BY <1>1
    <3>2. Leg(Last(route), End) \in Nat
      BY <2>1, <3>1, RequestFacts
    <3> QED
      BY <1>1, <3>2
  <2>7. Schedule(whole)[Len(whole)] = At(End, arrival)
    <3>1. PICK clk \in Nat : clk = clock
      BY <1>1
    <3>2. clk = Schedule(route)[Len(route)].departure /\ Leg(Last(route), End) # Never
      BY <1>1, <2>1, <3>1
    <3>3. Given
      BY <1>1
    <3>4. Schedule(whole)[Len(whole)] = At(End, clk + Leg(Last(route), End))
      BY <1>2, <2>2, <3>2, <3>3, GrownSchedule
    <3> QED
      BY <2>6, <3>1, <3>4
  <2>8. Begins(End, arrival) = arrival /\ Visit(End) = 0
    BY NodeFacts DEF Begins, Visit
  <2>9. At(End, arrival).departure = arrival
    BY <2>6, <2>8 DEF At, Never
  <2>10. IsFeasible(whole)
    BY <2>1, <2>6, <2>7, <2>9 DEF IsFeasible, Never
  <2> QED
    BY <2>5, <2>10 DEF Attempt
<1> QED
  BY <1>3, <1>4

(* The attempt keeps it, or the one it had.                                *)
LEMMA EndStartKeeps ==
  ASSUME IInv, EndStart
  PROVE  IInv'
<1>1. /\ UNCHANGED <<given, searching, tier, candidates, best, attempts>>
      /\ pc = "close" /\ pc' = "start" /\ UNCHANGED given
      /\ candidates' = candidates /\ problem' = problem /\ starts' = starts
  BY DEF EndStart, given
<1>2. WindowsInv' /\ SkippedInv' /\ TierInv' /\ AttemptsInv' /\ ImproveInv' /\ StartsInv'
  BY <1>1, AttemptStep, StartsStay
<1>3. GrowInv'
  BY <1>1 DEF GrowInv
<1>4. PICK whole : whole = IF problem.end_anchor THEN Append(route, End) ELSE route
  OBVIOUS
<1>5. \/ round' = round
      \/ /\ round' = whole
         /\ problem.end_anchor => /\ Leg(Last(route), End) # Never
                                  /\ clock + Leg(Last(route), End) <= problem.day_end
  BY <1>4 DEF EndStart
<1>6. round' = <<>> \/ Attempt(round', candidates)
  <2>1. CASE round' = round
    BY <1>1, <2>1 DEF IInv, RoundInv
  <2>2. CASE round' # round
    <3>1. Attempt(whole, candidates)
      BY <1>1, <1>4, <1>5, <2>2, WholeRoute
    <3> QED
      BY <1>5, <2>2, <3>1
  <2> QED
    BY <2>1, <2>2
<1>7. RoundInv'
  BY <1>1, <1>6, SamePaths DEF RoundInv
<1> QED
  BY <1>2, <1>3, <1>7 DEF IInv

-----------------------------------------------------------------------------
(* The attempt of a tier is over: the better one is kept.                  *)
LEMMA EndTierKeeps ==
  ASSUME IInv, EndTier
  PROVE  IInv'
<1>1. /\ pc = "start" /\ pc' \in {"improve", "tier"} /\ UNCHANGED given
      /\ UNCHANGED skipped /\ tier' = tier /\ candidates' = candidates
  BY DEF EndTier, Settle, searching
<1>2. PICK attempt : attempt = [route |-> round, candidates |-> candidates]
  OBVIOUS
<1>3. /\ best' = attempt \/ (best' = best /\ best # NoAttempt)
      /\ attempts' = attempts \cup {attempt}
      /\ pc' = "tier" \/ Settle
  BY <1>2 DEF EndTier
<1>4. WindowsInv' /\ SkippedInv'
  BY <1>1, WindowsStay, SkippedStay
<1>5. tier \in 1..3 /\ candidates = Tier(tier) /\ Schedulable # {}
  <2>1. tier \in 1..3 /\ candidates = Tier(tier)
    BY <1>1 DEF IInv, TierInv
  <2> QED
    BY <1>1, <2>1 DEF IInv, TierInv
<1>6. best' \in attempts'
  BY <1>3 DEF IInv, AttemptsInv
<1>7. AttemptsInv'
  <2>1. ASSUME NEW a \in attempts'
        PROVE  /\ \E k \in 1..3 : a.candidates = Tier(k)'
               /\ a.route = <<>> \/ Attempt(a.route, a.candidates)'
    <3>1. CASE a \in attempts
      BY <1>1, <3>1, SamePaths, SamePriorities DEF IInv, AttemptsInv
    <3>2. CASE a = attempt
      <4>1. a.candidates = Tier(tier)'
        BY <1>1, <1>2, <1>5, <3>2, SamePriorities
      <4>2. a.route = <<>> \/ Attempt(a.route, a.candidates)
        BY <1>1, <1>2, <3>2 DEF IInv, RoundInv
      <4> QED
        BY <1>1, <1>5, <4>1, <4>2, SamePaths
    <3> QED
      BY <1>3, <3>1, <3>2
  <2>2. attempts' # {} /\ pc' # "filter"
    BY <1>1, <1>3
  <2> QED
    BY <1>6, <2>1, <2>2 DEF AttemptsInv
<1>8. TierInv'
  <2>1. candidates' = Tier(tier)' /\ Schedulable' # {}
    BY <1>1, <1>5, SamePriorities
  <2>2. \E a \in attempts' : a.candidates = candidates'
    BY <1>1, <1>2, <1>3
  <2> QED
    BY <1>1, <1>5, <2>1, <2>2 DEF TierInv
<1>9. StartsInv' /\ GrowInv' /\ RoundInv'
  BY <1>1 DEF StartsInv, GrowInv, RoundInv
<1>10. ImproveInv'
  <2>1. CASE pc' = "tier"
    BY <2>1 DEF ImproveInv
  <2>2. CASE Settle
    BY <1>1, <1>6, <1>7, <2>2, SettleKeeps
  <2> QED
    BY <1>3, <2>1, <2>2
<1> QED
  BY <1>4, <1>7, <1>8, <1>9, <1>10 DEF IInv

-----------------------------------------------------------------------------
(* Where two_opt takes the k-th node from: the same nodes in another order,*)
(* up to a and after b as they were.                                       *)
From(k, a, b) == IF a < k /\ k <= b THEN a + 1 + b - k ELSE k

LEMMA FromIs ==
  ASSUME NEW L \in Nat, NEW a \in 1..L, NEW b \in 1..L, a + 2 <= b
  PROVE  /\ \A k \in 1..L : From(k, a, b) \in 1..L /\ From(From(k, a, b), a, b) = k
         /\ \A k \in 1..L : From(k, a, b) = 1 <=> k = 1
         /\ b < L => \A k \in 1..L : From(k, a, b) = L <=> k = L
         /\ \A i, j \in 1..L : From(i, a, b) = From(j, a, b) => i = j
<1>1. ASSUME NEW k \in 1..L
      PROVE  /\ From(k, a, b) \in 1..L /\ From(From(k, a, b), a, b) = k
             /\ From(k, a, b) = 1 <=> k = 1
             /\ b < L => (From(k, a, b) = L <=> k = L)
  <2>1. CASE a < k /\ k <= b
    <3>1. PICK n : n = a + 1 + b - k
      OBVIOUS
    <3>2. From(k, a, b) = n
      BY <2>1, <3>1 DEF From
    <3>3. n \in 1..L /\ a < n /\ n <= b /\ a + 1 + b - n = k
      BY <2>1, <3>1
    <3>4. From(n, a, b) = k
      BY <3>3 DEF From
    <3> QED
      BY <2>1, <3>2, <3>3, <3>4
  <2>2. CASE ~(a < k /\ k <= b)
    BY <2>2 DEF From
  <2> QED
    BY <2>1, <2>2
<1>2. ASSUME NEW i \in 1..L, NEW j \in 1..L, From(i, a, b) = From(j, a, b) PROVE i = j
  BY <1>1, <1>2
<1> QED
  BY <1>1, <1>2

(* A complete route stays one: its ends do not move.                       *)
LEMMA FlipIs ==
  ASSUME Given, NEW S, NEW r, Complete(r, S), NEW a \in 1..Len(r), NEW b \in 1..Len(r),
         a + 2 <= b, problem.end_anchor => b < Len(r)
  PROVE  LET s == Flip(r, a, b)
         IN Complete(s, S) /\ Len(s) = Len(r) /\ s[1] = r[1] /\ ToSet(s) = ToSet(r)
<1>1. PICK L \in Nat \ {0} : L = Len(r)
  BY DEF Complete, Path
<1>2. r \in [1..L -> Node] /\ a \in 1..L /\ b \in 1..L
  BY <1>1 DEF Complete, Path
<1>3. PICK s : s = Flip(r, a, b)
  OBVIOUS
<1>4. s = [k \in 1..L |-> r[From(k, a, b)]]
  <2>1. s = [k \in 1..L |-> IF a < k /\ k <= b THEN r[a + 1 + b - k] ELSE r[k]]
    BY <1>1, <1>3 DEF Flip
  <2>2. \A k \in 1..L :
          (IF a < k /\ k <= b THEN r[a + 1 + b - k] ELSE r[k]) = r[From(k, a, b)]
    BY DEF From
  <2> QED
    BY <2>1, <2>2
<1>5. /\ \A k \in 1..L : From(k, a, b) \in 1..L /\ From(From(k, a, b), a, b) = k
      /\ \A k \in 1..L : From(k, a, b) = 1 <=> k = 1
      /\ b < L => \A k \in 1..L : From(k, a, b) = L <=> k = L
      /\ \A i, j \in 1..L : From(i, a, b) = From(j, a, b) => i = j
  <2>1. L \in Nat /\ a \in 1..L /\ b \in 1..L /\ a + 2 <= b
    BY <1>1, <1>2
  <2> QED
    BY <2>1, FromIs, SMTT(60)
<1>6. s \in [1..L -> Node]
  BY <1>2, <1>4, <1>5
<1>7. s \in Seq(Node) /\ Len(s) = L /\ s # <<>> /\ DOMAIN s = 1..L /\ DOMAIN r = 1..L
  BY <1>1, <1>2, <1>6
<1>8. \A k \in 1..L : s[k] = r[From(k, a, b)]
  BY <1>4
<1>9. ToSet(s) = ToSet(r)
  <2>1. ASSUME NEW n \in ToSet(s) PROVE n \in ToSet(r)
    <3>1. PICK k \in 1..L : n = s[k]
      BY <1>7 DEF ToSet
    <3>2. n = r[From(k, a, b)] /\ From(k, a, b) \in 1..L
      BY <1>5, <1>8, <3>1
    <3> QED
      BY <1>7, <3>2 DEF ToSet
  <2>2. ASSUME NEW n \in ToSet(r) PROVE n \in ToSet(s)
    <3>1. PICK k \in 1..L : n = r[k]
      BY <1>7 DEF ToSet
    <3>2. PICK m \in 1..L : m = From(k, a, b)
      BY <1>5
    <3>3. From(m, a, b) = k
      BY <1>5, <3>2
    <3>4. n = s[m]
      BY <1>8, <3>1, <3>2, <3>3
    <3> QED
      BY <1>7, <3>4 DEF ToSet
  <2> QED
    BY <2>1, <2>2
<1>10. \A i, j \in 1..L : s[i] = s[j] => i = j
  <2>1. \A i, j \in 1..L : r[i] = r[j] => i = j
    BY <1>1 DEF Complete, Path
  <2> QED
    BY <1>5, <1>8, <2>1
<1>11. \A k \in 1..L : s[k] = Start <=> problem.start_anchor /\ k = 1
  <2>1. \A k \in 1..L : r[k] = Start <=> problem.start_anchor /\ k = 1
    BY <1>1 DEF Complete, Path
  <2> QED
    BY <1>5, <1>8, <2>1
<1>12. \A k \in 1..L : s[k] = End <=> problem.end_anchor /\ k = L
  <2>1. \A k \in 1..L : r[k] = End <=> problem.end_anchor /\ k = L
    BY <1>1 DEF Complete
  <2>2. problem.end_anchor => b < L
    BY <1>1
  <2> QED
    BY <1>5, <1>8, <2>1, <2>2
<1>13. Path(s, S)
  <2>1. Visited(s) \subseteq S
    BY <1>9 DEF Complete, Path, Visited
  <2> QED
    BY <1>7, <1>10, <1>11, <2>1 DEF Path
<1>14. s[1] = r[1]
  <2>1. 1 \in 1..L
    OBVIOUS
  <2> QED
    BY <1>5, <1>8, <2>1
<1>15. Complete(s, S)
  BY <1>7, <1>12, <1>13 DEF Complete
<1> QED
  BY <1>1, <1>3, <1>7, <1>9, <1>14, <1>15

(* A swap shortens the route and loses nothing of it.                      *)
LEMMA SwapKeeps ==
  ASSUME IInv, Swap
  PROVE  IInv'
<1>1. /\ pc = "improve" /\ pc' = "improve" /\ UNCHANGED given /\ skipped' = skipped
      /\ tier' = tier /\ candidates' = candidates /\ attempts' = attempts /\ best' = best
      /\ Len(route) >= 4
  BY DEF Swap, Searches
<1>2. WindowsInv' /\ SkippedInv' /\ AttemptsInv'
  BY <1>1, WindowsStay, SkippedStay, AttemptsStay
<1>3. TierInv'
  <2>1. Tier(tier)' = Tier(tier)
    BY <1>1, SamePriorities
  <2>2. tier \in 0..3 /\ candidates = IF tier = 0 THEN {} ELSE Tier(tier)
    BY DEF IInv, TierInv
  <2> QED
    BY <1>1, <2>1, <2>2 DEF TierInv
<1>4. StartsInv' /\ GrowInv' /\ RoundInv'
  BY <1>1 DEF StartsInv, GrowInv, RoundInv
<1>5. PICK ab \in Improving : route' = Flip(route, ab[1], ab[2])
  BY DEF Swap
<1>6. PICK a \in 1..Len(route), b \in 1..Len(route) : ab = <<a, b>>
  BY DEF Improving, Cuts
<1>7. a + 2 <= b /\ (problem.end_anchor => b < Len(route))
  BY <1>6 DEF Improving, Cuts
<1>8. PICK s : s = Flip(route, a, b)
  OBVIOUS
<1>9. route' = s /\ TravelTime(s) < TravelTime(route) /\ IsFeasible(s)
  BY <1>5, <1>6, <1>8 DEF Improving, Improves
<1>10. Given /\ best \in attempts /\ Improved(route, best.route)
  BY <1>1 DEF IInv, WindowsInv, ImproveInv
<1>11. PICK r : r = best.route
  OBVIOUS
<1>12. r # <<>>
  <2>1. SUFFICES ASSUME r = <<>> PROVE FALSE
    OBVIOUS
  <2>2. route = <<>>
    BY <1>10, <1>11, <2>1 DEF Improved
  <2>3. Len(route) = 0
    BY <2>2
  <2> QED
    BY <1>1, <2>3
<1>13. /\ Complete(route, ToSet(r)) /\ ToSet(route) = ToSet(r)
       /\ Len(route) = Len(r) /\ route[1] = r[1]
       /\ TravelTime(route) <= TravelTime(r)
  BY <1>10, <1>11, <1>12 DEF Improved, Attempt
<1>14. /\ Complete(s, ToSet(r)) /\ Len(s) = Len(route) /\ s[1] = route[1]
       /\ ToSet(s) = ToSet(route)
  BY <1>7, <1>8, <1>10, <1>13, FlipIs
<1>15. TravelTime(s) <= TravelTime(r)
  <2>1. Len(s) \in Nat /\ Len(route) \in Nat /\ Len(r) \in Nat
    BY <1>13, <1>14 DEF Complete, Path
  <2>2. TravelTime(s) \in Int /\ TravelTime(route) \in Int /\ TravelTime(r) \in Int
    BY <1>10, <2>1, TravelTimeIs
  <2> QED
    BY <1>9, <1>13, <2>2
<1>16. Improved(s, r)
  BY <1>9, <1>12, <1>13, <1>14, <1>15 DEF Improved, Attempt
<1>17. ImproveInv'
  BY <1>1, <1>9, <1>10, <1>11, <1>16, SamePaths DEF ImproveInv
<1> QED
  BY <1>2, <1>3, <1>4, <1>17 DEF IInv

(* The answer is put together of what was found.                           *)
LEMMA FinishKeeps ==
  ASSUME IInv, Finish
  PROVE  IInv'
<1>1. /\ pc = "improve" /\ pc' = "done" /\ UNCHANGED given
      /\ tier' = tier /\ candidates' = candidates /\ attempts' = attempts /\ best' = best
  BY DEF Finish
<1>2. WindowsInv' /\ AttemptsInv'
  BY <1>1, WindowsStay, AttemptsStay
<1>3. TierInv'
  <2>1. Tier(tier)' = Tier(tier)
    BY <1>1, SamePriorities
  <2>2. tier \in 0..3 /\ candidates = IF tier = 0 THEN {} ELSE Tier(tier)
    BY DEF IInv, TierInv
  <2> QED
    BY <1>1, <2>1, <2>2 DEF TierInv
<1>4. SkippedInv' /\ StartsInv' /\ GrowInv' /\ RoundInv' /\ ImproveInv'
  BY <1>1 DEF SkippedInv, StartsInv, GrowInv, RoundInv, ImproveInv
<1> QED
  BY <1>2, <1>3, <1>4 DEF IInv

(* Nothing happens.                                                        *)
LEMMA StutterKeeps ==
  ASSUME IInv, UNCHANGED vars
  PROVE  IInv'
<1>1. /\ UNCHANGED given /\ problem' = problem /\ window' = window
      /\ pc' = pc /\ skipped' = skipped /\ tier' = tier /\ plan' = plan
      /\ candidates' = candidates /\ starts' = starts /\ route' = route /\ clock' = clock
      /\ round' = round /\ best' = best /\ attempts' = attempts
  BY DEF vars, given
<1>2. WindowsInv'
  <2>1. \A p \in Places : ParseTimeWindow(problem.docs[p])' = ParseTimeWindow(problem.docs[p])
    BY <1>1 DEF ParseTimeWindow
  <2> QED
    BY <1>1, <2>1 DEF IInv, WindowsInv, Given
<1>3. SkippedInv'
  BY <1>1, SamePriorities DEF IInv, SkippedInv
<1>4. TierInv'
  <2>1. Tier(tier)' = Tier(tier)
    BY <1>1, SamePriorities
  <2> QED
    BY <1>1, <2>1, SamePriorities DEF IInv, TierInv
<1>5. StartsInv'
  BY <1>1 DEF IInv, StartsInv
<1>6. GrowInv'
  BY <1>1, SamePaths, SameRoutes DEF IInv, GrowInv
<1>7. RoundInv'
  BY <1>1, SamePaths DEF IInv, RoundInv
<1>8. AttemptsInv'
  <2>1. NoAttempt' = NoAttempt
    BY DEF NoAttempt
  <2> QED
    BY <1>1, <2>1, SamePaths, SamePriorities DEF IInv, AttemptsInv
<1>9. ImproveInv'
  BY <1>1, SamePaths DEF IInv, ImproveInv
<1> QED
  BY <1>2, <1>3, <1>4, <1>5, <1>6, <1>7, <1>8, <1>9 DEF IInv

(* The invariant is inductive.                                             *)
LEMMA NextKeeps ==
  ASSUME IInv, [Next]_vars
  PROVE  IInv'
<1>1. CASE Filter
  BY <1>1, FilterKeeps
<1>2. CASE GetMatrix
  BY <1>2, GetMatrixKeeps
<1>3. CASE BeginTier
  BY <1>3, BeginTierKeeps
<1>4. CASE TiersExhausted
  BY <1>4, TiersExhaustedKeeps
<1>5. CASE BeginStart
  BY <1>5, BeginStartKeeps
<1>6. CASE Extend
  BY <1>6, ExtendKeeps
<1>7. CASE NothingMore
  BY <1>7, NothingMoreKeeps
<1>8. CASE EndStart
  BY <1>8, EndStartKeeps
<1>9. CASE EndTier
  BY <1>9, EndTierKeeps
<1>10. CASE Swap
  BY <1>10, SwapKeeps
<1>11. CASE Finish
  BY <1>11, FinishKeeps
<1>12. CASE UNCHANGED vars
  BY <1>12, StutterKeeps
<1> QED
  BY <1>1, <1>2, <1>3, <1>4, <1>5, <1>6, <1>7, <1>8, <1>9, <1>10, <1>11, <1>12 DEF Next

(* Whatever the solver has reached is what it should be: the route being   *)
(* built is open and on time, every attempt's route is complete and        *)
(* feasible, and two_opt() keeps the best one so.                          *)
THEOREM Invariant == Spec => []IInv
<1>1. Init => IInv
  BY InitIInv
<1>2. IInv /\ [Next]_vars => IInv'
  BY NextKeeps
<1> QED
  BY <1>1, <1>2, PTL DEF Spec

-----------------------------------------------------------------------------
(* Only two steps end the computation.                                     *)
LEMMA LastStep ==
  ASSUME [Next]_vars, pc' = "done"
  PROVE  Filter \/ Finish \/ UNCHANGED vars
<1>1. CASE GetMatrix \/ BeginTier \/ TiersExhausted \/ BeginStart
  BY <1>1 DEF GetMatrix, BeginTier, TiersExhausted, BeginStart, Settle
<1>2. CASE Extend \/ NothingMore \/ EndStart \/ EndTier \/ Swap
  BY <1>2 DEF Extend, NothingMore, EndStart, EndTier, Swap, Settle
<1> QED
  BY <1>1, <1>2 DEF Next

(* two_opt() leaves the first node and the end location where they are and *)
(* makes no route longer.                                                  *)
LEMMA TwoOptStep ==
  ASSUME IInv, TwoOptKeepsTheEnds, [Next]_vars
  PROVE  TwoOptKeepsTheEnds'
<1> SUFFICES ASSUME pc' = "done", best'.route # <<>>
             PROVE  /\ Head(route') = Head(best'.route)
                    /\ problem'.end_anchor => Last(route') = End
                    /\ (TravelTime(route) <= TravelTime(best.route))'
  BY DEF TwoOptKeepsTheEnds, End
<1>1. CASE Filter
  <2>1. best' = NoAttempt
    BY <1>1 DEF Filter, IInv, AttemptsInv
  <2> QED
    BY <2>1 DEF NoAttempt
<1>2. CASE Finish
  <2>1. /\ pc = "improve" /\ route' = route /\ best' = best /\ problem' = problem
        /\ UNCHANGED given
    BY <1>2 DEF Finish, given
  <2>2. PICK r : r = best.route
    OBVIOUS
  <2>3. r # <<>>
    BY <2>1, <2>2
  <2>4. Improved(route, r) /\ best \in attempts
    BY <2>1, <2>2 DEF IInv, ImproveInv
  <2>5. /\ Complete(route, ToSet(r)) /\ Len(route) = Len(r) /\ route[1] = r[1]
        /\ TravelTime(route) <= TravelTime(r)
    BY <2>3, <2>4 DEF Improved, Attempt
  <2>6. Len(route) \in Nat \ {0} /\ Len(route) \in 1..Len(route)
    BY <2>5 DEF Complete, Path
  <2>7. problem.end_anchor => route[Len(route)] = End
    BY <2>5, <2>6 DEF Complete
  <2>8. Head(route) = route[1] /\ Head(r) = r[1] /\ Last(route) = route[Len(route)]
    BY DEF Last
  <2>9. (TravelTime(route) <= TravelTime(best.route))'
    BY <2>1, <2>2, <2>5, SameRoutes
  <2> QED
    BY <2>1, <2>2, <2>5, <2>7, <2>8, <2>9
<1>3. CASE UNCHANGED vars
  <2>1. pc' = pc /\ route' = route /\ best' = best /\ problem' = problem /\ UNCHANGED given
    BY <1>3 DEF vars, given
  <2>2. /\ Head(route) = Head(best.route)
        /\ problem.end_anchor => Last(route) = End
        /\ TravelTime(route) <= TravelTime(best.route)
    BY <2>1 DEF TwoOptKeepsTheEnds
  <2>3. (TravelTime(route) <= TravelTime(best.route))'
    BY <2>1, <2>2, SameRoutes
  <2> QED
    BY <2>1, <2>2, <2>3
<1> QED
  BY <1>1, <1>2, <1>3, LastStep

(* What two_opt() may do to the attempt that won, in every plan made.      *)
THEOREM TwoOptIsCareful == Spec => []TwoOptKeepsTheEnds
<1>1. Init => TwoOptKeepsTheEnds
  BY DEF Init, TwoOptKeepsTheEnds
<1>2. IInv /\ TwoOptKeepsTheEnds /\ [Next]_vars => TwoOptKeepsTheEnds'
  BY TwoOptStep
<1> QED
  BY <1>1, <1>2, Invariant, PTL DEF Spec

-----------------------------------------------------------------------------
(* The stops of the answer: the nodes of the route but its two locations.  *)
First == IF problem.start_anchor THEN 2 ELSE 1

Final(r) == IF problem.end_anchor THEN Len(r) - 1 ELSE Len(r)

Rank(S, i) == CHOOSE k \in S : Cardinality({j \in S : j < k}) = i - 1

PlanStep(r, k) ==
  [place |-> r[k],
   arrival |-> Schedule(r)[k].arrival % 24,
   departure |-> Schedule(r)[k].departure % 24]

(* The element of a rank in an interval.                                   *)
LEMMA RankIs ==
  ASSUME NEW lo \in Nat, NEW hi \in Nat, lo <= hi + 1, NEW S, S = lo..hi
  PROVE  /\ Cardinality(S) = hi + 1 - lo
         /\ \A i \in 1..Cardinality(S) : Rank(S, i) = lo + i - 1
<1>1. \A k \in Nat : k <= hi + 1 /\ lo <= k => Cardinality(lo..(k - 1)) = k - lo
  <2>1. ASSUME NEW k \in Nat, k <= hi + 1, lo <= k PROVE Cardinality(lo..(k - 1)) = k - lo
    <3>1. PICK m \in Int : m = k - 1
      OBVIOUS
    <3>2. Cardinality(lo..m) = IF lo > m THEN 0 ELSE m - lo + 1
      BY FS_Interval
    <3> QED
      BY <2>1, <3>1, <3>2
  <2> QED
    BY <2>1
<1>2. Cardinality(S) = hi + 1 - lo
  <2>1. hi + 1 \in Nat /\ (hi + 1) - 1 = hi
    OBVIOUS
  <2>2. Cardinality(lo..((hi + 1) - 1)) = (hi + 1) - lo
    BY <1>1, <2>1
  <2> QED
    BY <2>1, <2>2
<1>3. ASSUME NEW i \in 1..Cardinality(S) PROVE Rank(S, i) = lo + i - 1
  <2>1. \A k \in S : Cardinality({j \in S : j < k}) = k - lo
    <3>1. ASSUME NEW k \in S PROVE Cardinality({j \in S : j < k}) = k - lo
      <4>1. {j \in S : j < k} = lo..(k - 1)
        OBVIOUS
      <4>2. k \in Nat /\ k <= hi + 1 /\ lo <= k
        OBVIOUS
      <4> QED
        BY <1>1, <4>1, <4>2
    <3> QED
      BY <3>1
  <2>2. PICK n : n = lo + i - 1
    OBVIOUS
  <2>3. n \in S /\ n - lo = i - 1
    BY <1>2, <2>2
  <2>4. \A k \in S : Cardinality({j \in S : j < k}) = i - 1 => k = n
    <3>1. \A k \in S : k - lo = i - 1 => k = n
      BY <2>2
    <3> QED
      BY <2>1, <3>1
  <2>5. Cardinality({j \in S : j < n}) = i - 1
    BY <2>1, <2>3
  <2>6. Rank(S, i) = n
    BY <2>3, <2>4, <2>5 DEF Rank
  <2> QED
    BY <2>2, <2>6
<1> QED
  BY <1>2, <1>3

(* Which nodes of a complete route are stops.                              *)
LEMMA StopsAre ==
  ASSUME Given, NEW S, NEW r, Complete(r, S)
  PROVE  /\ First \in 1..2 /\ Final(r) \in Nat /\ First <= Final(r) + 1
         /\ {k \in 1..Len(r) : r[k] \in Places} = First..Final(r)
         /\ Len(r) \in Nat \ {0} /\ Final(r) <= Len(r)
<1>1. PICK L \in Nat \ {0} : L = Len(r)
  BY DEF Complete, Path
<1>2. \A k \in 1..L : r[k] \in Node /\ (r[k] = Start <=> problem.start_anchor /\ k = 1)
                                 /\ (r[k] = End <=> problem.end_anchor /\ k = L)
  BY <1>1 DEF Complete, Path
<1>3. 1 \in 1..L /\ L \in 1..L
  OBVIOUS
<1>4. \A k \in 1..L : r[k] \in Places <=> ~(problem.start_anchor /\ k = 1)
                                       /\ ~(problem.end_anchor /\ k = L)
  BY <1>2, NodeFacts
<1>5. First \in 1..2 /\ Final(r) \in Nat /\ Final(r) <= L
  BY <1>1 DEF First, Final
<1>6. First <= Final(r) + 1
  <2>1. CASE problem.start_anchor /\ problem.end_anchor
    <3>1. L # 1
      BY <1>2, <1>3, <2>1, NodeFacts
    <3> QED
      BY <1>1, <2>1, <3>1 DEF First, Final
  <2>2. CASE ~(problem.start_anchor /\ problem.end_anchor)
    BY <1>1, <2>2 DEF First, Final
  <2> QED
    BY <2>1, <2>2
<1>7. \A k \in Nat : k \in First..Final(r) <=>
        k \in 1..L /\ ~(problem.start_anchor /\ k = 1) /\ ~(problem.end_anchor /\ k = L)
  BY <1>1 DEF First, Final
<1>8. {k \in 1..L : r[k] \in Places} = First..Final(r)
  <2>1. First..Final(r) \subseteq Nat
    BY <1>5
  <2> QED
    BY <1>4, <1>7, <2>1
<1> QED
  BY <1>1, <1>5, <1>6, <1>8

(* What the answer says, step by step.                                     *)
LEMMA PlanIs ==
  ASSUME IInv, Finish
  PROVE  /\ route = <<>> => plan' = <<>>
         /\ route # <<>> =>
              /\ Complete(route, ToSet(best.route)) /\ IsFeasible(route)
              /\ plan' \in Seq({PlanStep(route, k) : k \in 1..Len(route)})
              /\ Len(plan') = Final(route) + 1 - First
              /\ \A i \in 1..Len(plan') : plan'[i] = PlanStep(route, First + i - 1)
<1>1. Given /\ best \in attempts /\ Improved(route, best.route)
  BY DEF Finish, IInv, WindowsInv, ImproveInv
<1>2. PICK stops : stops = IF route # <<>> /\ Schedule(route)[Len(route)].departure # Never
                           THEN {k \in 1..Len(route) : route[k] \in Places} ELSE {}
  OBVIOUS
<1>3. plan' = [i \in 1..Cardinality(stops) |-> PlanStep(route, Rank(stops, i))]
  BY <1>2 DEF Finish, PlanStep, Rank
<1>4. CASE route = <<>>
  <2>1. Cardinality(stops) = 0
    BY <1>2, <1>4, FS_EmptySet
  <2>2. 1..0 = {}
    OBVIOUS
  <2>3. plan' = <<>>
    BY <1>3, <2>1, <2>2
  <2> QED
    BY <1>4, <2>3
<1>5. CASE route # <<>>
  <2>1. Complete(route, ToSet(best.route)) /\ IsFeasible(route)
    BY <1>1, <1>5 DEF Improved, Attempt
  <2>2. stops = {k \in 1..Len(route) : route[k] \in Places}
    BY <1>2, <1>5, <2>1 DEF IsFeasible
  <2>3. PICK lo \in 1..2, hi \in Nat : lo = First /\ hi = Final(route)
    BY <1>1, <2>1, StopsAre
  <2>4. lo <= hi + 1 /\ stops = lo..hi /\ hi <= Len(route) /\ Len(route) \in Nat
    BY <1>1, <2>1, <2>2, <2>3, StopsAre
  <2>5. /\ Cardinality(stops) = hi + 1 - lo
        /\ \A i \in 1..Cardinality(stops) : Rank(stops, i) = lo + i - 1
    <3>1. lo \in Nat /\ hi \in Nat /\ lo <= hi + 1 /\ stops = lo..hi
      BY <2>4
    <3> QED
      BY <3>1, RankIs, ZenonT(60)
  <2>6. PICK size \in Nat : size = hi + 1 - lo
    BY <2>4
  <2>7. plan' = [i \in 1..size |-> PlanStep(route, lo + i - 1)]
    BY <1>3, <2>5, <2>6
  <2>8. \A i \in 1..size : lo + i - 1 \in 1..Len(route)
    BY <2>4, <2>6
  <2>9. PICK P : P = {PlanStep(route, k) : k \in 1..Len(route)}
    OBVIOUS
  <2>10. plan' \in [1..size -> P]
    BY <2>7, <2>8, <2>9
  <2>11. plan' \in Seq(P) /\ Len(plan') = size
    BY <2>10
  <2>12. \A i \in 1..size : plan'[i] = PlanStep(route, lo + i - 1)
    BY <2>7
  <2> QED
    BY <1>5, <2>1, <2>3, <2>6, <2>9, <2>11, <2>12
<1> QED
  BY <1>4, <1>5

-----------------------------------------------------------------------------
(* A place has no reason to be left out exactly if it is on the route.     *)
LEMMA ReasonIs ==
  ASSUME IInv, Finish, NEW p \in Places
  PROVE  skipped'[p] = "none" <=> p \in ToSet(route)
<1>1. /\ Given /\ best \in attempts /\ Improved(route, best.route) /\ pc = "improve"
      /\ skipped'[p] = FinalReason(p)
  BY DEF Finish, IInv, WindowsInv, ImproveInv
<1>2. PICK r, S : r = best.route /\ S = best.candidates
  OBVIOUS
<1>3. skipped[p] = "none" <=> p \in Schedulable
  BY <1>1 DEF IInv, SkippedInv
<1>4. S \subseteq Schedulable
  <2>1. \E k \in 1..3 : S = Tier(k)
    BY <1>1, <1>2 DEF IInv, AttemptsInv
  <2> QED
    BY <2>1, TiersAreNested
<1>5. ToSet(r) \cap Places \subseteq S /\ ToSet(route) = ToSet(r)
  <2>1. CASE r = <<>>
    <3>1. route = r /\ ToSet(r) = {}
      BY <1>1, <1>2, <2>1 DEF Improved, ToSet
    <3> QED
      BY <3>1
  <2>2. CASE r # <<>>
    <3>1. Attempt(r, S)
      BY <1>1, <1>2, <2>2 DEF IInv, AttemptsInv
    <3> QED
      BY <1>1, <1>2, <2>2, <3>1 DEF Attempt, Complete, Path, Visited, Improved
  <2> QED
    BY <2>1, <2>2
<1>6. CASE p \in Schedulable \ S
  <2>1. skipped'[p] = "DROPPED_LOW_PRIORITY"
    BY <1>1, <1>2, <1>6 DEF FinalReason
  <2> QED
    BY <1>5, <1>6, <2>1
<1>7. CASE p \in S \ ToSet(r)
  <2>1. skipped'[p] = SkipReason(p)
    BY <1>1, <1>2, <1>7 DEF FinalReason
  <2>2. PICK others, edges, whole :
          /\ others = best.candidates \ {p}
          /\ edges = {o \in others : Leg(p, o) # Never \/ Leg(o, p) # Never}
          /\ whole = (edges = others /\ problem.copies[p] = 1)
    OBVIOUS
  <2>3. SkipReason(p) = CASE edges = {} -> "NO_MATRIX_ENTRY"
                          [] edges # {} /\ ~whole -> "MATRIX_INCOMPLETE"
                          [] edges # {} /\ whole -> "TIME_WINDOW_INFEASIBLE"
    BY <2>2 DEF SkipReason
  <2>4. CASE edges = {}
    BY <1>5, <1>7, <2>1, <2>3, <2>4
  <2>5. CASE edges # {} /\ ~whole
    BY <1>5, <1>7, <2>1, <2>3, <2>5
  <2>6. CASE edges # {} /\ whole
    BY <1>5, <1>7, <2>1, <2>3, <2>6
  <2> QED
    BY <2>4, <2>5, <2>6
<1>8. CASE p \notin Schedulable \ S /\ p \notin S \ ToSet(r)
  <2>1. skipped'[p] = skipped[p]
    BY <1>1, <1>2, <1>8 DEF FinalReason
  <2> QED
    BY <1>3, <1>4, <1>5, <1>8, <2>1
<1> QED
  BY <1>6, <1>7, <1>8

(* The steps of the answer at a place of the route.                        *)
LEMMA StepsOf ==
  ASSUME IInv, Finish, NEW p \in Places
  PROVE  Cardinality({i \in 1..Len(plan') : plan'[i].place = p}) =
           IF p \in ToSet(route) THEN 1 ELSE 0
<1>1. Given
  BY DEF IInv, WindowsInv
<1>2. PICK here : here = {i \in 1..Len(plan') : plan'[i].place = p}
  OBVIOUS
<1>3. CASE route = <<>>
  <2>1. plan' = <<>> /\ ToSet(route) = {} /\ 1..Len(plan') = {}
    BY <1>3, PlanIs DEF ToSet
  <2> QED
    BY <2>1, FS_EmptySet
<1>4. CASE route # <<>>
  <2>1. /\ Complete(route, ToSet(best.route))
        /\ Len(plan') = Final(route) + 1 - First
        /\ \A i \in 1..Len(plan') : plan'[i] = PlanStep(route, First + i - 1)
    BY <1>4, PlanIs
  <2>2. PICK lo \in 1..2, hi \in Nat : lo = First /\ hi = Final(route)
    BY <1>1, <2>1, StopsAre
  <2>3. PICK L \in Nat \ {0} : L = Len(route)
    BY <1>1, <2>1, StopsAre
  <2>4. lo <= hi + 1 /\ {k \in 1..L : route[k] \in Places} = lo..hi /\ hi <= L
    BY <1>1, <2>1, <2>2, <2>3, StopsAre
  <2>5. Len(plan') = hi + 1 - lo
    BY <2>1, <2>2
  <2>6. \A i \in 1..(hi + 1 - lo) : plan'[i].place = route[lo + i - 1]
    BY <2>1, <2>2, <2>5 DEF PlanStep
  <2>7. /\ DOMAIN route = 1..L
        /\ \A i, j \in 1..L : route[i] = route[j] => i = j
    BY <2>1, <2>3 DEF Complete, Path
  <2>8. CASE p \in ToSet(route)
    <3>1. PICK k \in 1..L : route[k] = p
      BY <2>7, <2>8 DEF ToSet
    <3>2. k \in lo..hi
      BY <2>4, <3>1
    <3>3. PICK n \in 1..(hi + 1 - lo) : n = k + 1 - lo
      BY <3>2
    <3>4. \A i \in 1..(hi + 1 - lo) : lo + i - 1 \in 1..L
      BY <2>4
    <3>5. \A i \in 1..(hi + 1 - lo) : route[lo + i - 1] = p <=> lo + i - 1 = k
      BY <2>7, <3>1, <3>4
    <3>6. \A i \in 1..(hi + 1 - lo) : lo + i - 1 = k <=> i = n
      BY <3>3
    <3>7. here = {n}
      BY <1>2, <2>5, <2>6, <3>5, <3>6
    <3> QED
      BY <1>2, <2>8, <3>7, FS_Singleton
  <2>9. CASE p \notin ToSet(route)
    <3>1. \A i \in 1..(hi + 1 - lo) : lo + i - 1 \in 1..L
      BY <2>4
    <3>2. \A i \in 1..(hi + 1 - lo) : route[lo + i - 1] # p
      BY <2>7, <2>9, <3>1 DEF ToSet
    <3>3. here = {}
      BY <1>2, <2>5, <2>6, <3>2
    <3> QED
      BY <1>2, <2>9, <3>3, FS_EmptySet
  <2> QED
    BY <2>8, <2>9
<1> QED
  BY <1>3, <1>4

(* So no place is lost when the answer is made, and none visited twice.    *)
LEMMA AccountedStep ==
  ASSUME IInv, EveryPlaceAccounted, [Next]_vars
  PROVE  EveryPlaceAccounted'
<1> SUFFICES ASSUME pc' = "done", ~UNCHANGED vars, NEW p \in Places
             PROVE  Cardinality({i \in 1..Len(plan') : plan'[i].place = p}) =
                      IF skipped'[p] = "none" THEN 1 ELSE 0
  <2>1. CASE UNCHANGED vars
    BY <2>1 DEF vars, EveryPlaceAccounted, Entries
  <2>2. ASSUME ~UNCHANGED vars, pc' = "done", NEW p \in Places,
               Cardinality({i \in 1..Len(plan') : plan'[i].place = p}) =
                 IF skipped'[p] = "none" THEN 1 ELSE 0
        PROVE  LET visits == Cardinality({i \in 1..Len(plan') : plan'[i].place = p})
               IN \/ visits = 1 /\ Entries(p)' = 0
                  \/ visits = 0 /\ Entries(p)' \in 1..problem'.copies[p]
    <3>1. problem' = problem /\ problem \in Problems
      <4>1. Filter \/ Finish
        BY <2>2, LastStep
      <4> QED
        BY <4>1 DEF IInv, WindowsInv, Filter, Finish, Given, given
    <3>2. problem.copies[p] \in 1..50
      BY <3>1, ProblemsAssumption DEF ValidRequest
    <3>3. CASE skipped'[p] = "none"
      BY <2>2, <3>3 DEF Entries
    <3>4. CASE skipped'[p] # "none"
      <4>1. PICK c \in 1..50 : c = problem.copies[p]
        BY <3>2
      <4>2. Entries(p)' = 1 \/ Entries(p)' = c
        BY <3>1, <3>4, <4>1 DEF Entries
      <4>3. 1 \in 1..c /\ c \in 1..c
        OBVIOUS
      <4>4. Entries(p)' \in 1..problem'.copies[p]
        BY <3>1, <4>1, <4>2, <4>3
      <4> QED
        BY <2>2, <3>4, <4>4
    <3> QED
      BY <3>3, <3>4
  <2> QED
    BY <2>1, <2>2 DEF EveryPlaceAccounted, Places
<1>1. CASE Filter
  <2>1. plan' = <<>> /\ 1..Len(plan') = {}
    BY <1>1 DEF Filter, IInv, SkippedInv
  <2>2. skipped'[p] # "none"
    <3>1. window'[p] = {}
      BY <1>1 DEF Filter
    <3>2. skipped'[p] = CASE ~problem.docs[p].located -> "NO_COORDINATES"
                          [] problem.docs[p].located /\ window'[p] = {} -> "TIME_WINDOW_INFEASIBLE"
                          [] problem.docs[p].located /\ window'[p] # {} -> "none"
      BY <1>1 DEF Filter
    <3>3. CASE ~problem.docs[p].located
      BY <3>1, <3>2, <3>3
    <3>4. CASE problem.docs[p].located
      BY <3>1, <3>2, <3>4
    <3> QED
      BY <3>3, <3>4
  <2> QED
    BY <2>1, <2>2, FS_EmptySet
<1>2. CASE Finish
  BY <1>2, ReasonIs, StepsOf
<1> QED
  BY <1>1, <1>2, LastStep

(* No place of the request is lost: each is one step of the plan, however  *)
(* often it was named, or skipped, listed as often as it was named or less.*)
THEOREM PlacesAreAccounted == Spec => []EveryPlaceAccounted
<1>1. Init => EveryPlaceAccounted
  BY DEF Init, EveryPlaceAccounted
<1>2. IInv /\ EveryPlaceAccounted /\ [Next]_vars => EveryPlaceAccounted'
  BY AccountedStep
<1> QED
  BY <1>1, <1>2, Invariant, PTL DEF Spec

-----------------------------------------------------------------------------
(* A stay within a segment of a place's window is one while it is open.    *)
LEMMA SegmentIsOpen ==
  ASSUME problem \in Problems, NEW p \in Places, NEW s \in ParseTimeWindow(problem.docs[p]),
         NEW from \in Int, NEW to \in Int, s.open <= from, to <= s.close
  PROVE  WhileOpen(problem.docs[p], from, to)
<1>1. ValidRequest(problem) /\ ValidDoc(problem.docs[p])
  BY ProblemsAssumption DEF ValidRequest
<1>2. PICK doc : doc = problem.docs[p]
  OBVIOUS
<1>3. problem.day_start \in Int /\ problem.day_end \in Int /\ doc.from \in Int /\ doc.to \in Int
      /\ \A h \in doc.hours : h.open \in Int /\ h.close \in Int
  BY <1>1, <1>2 DEF ValidRequest, ValidDoc
<1>4. PICK opens \in Int : opens = IF doc.from = Never THEN problem.day_start ELSE doc.from
  BY <1>3
<1>5. PICK closes \in Int : closes = IF doc.to = Never THEN problem.day_end ELSE doc.to
  BY <1>3
<1> DEFINE Close(h) == CASE h.close = Never -> closes
                         [] h.close # Never /\ h.overnight -> Before(closes, 24)
                         [] h.close # Never /\ ~h.overnight -> Before(closes, h.close)
           Cut(h) == [open |-> After(opens, h.open), close |-> Close(h)]
<1>6. s \in IF doc.dated THEN {Cut(h) : h \in doc.hours}
           ELSE {[open |-> opens, close |-> closes]}
  BY <1>2, <1>4, <1>5 DEF ParseTimeWindow
<1>7. ASSUME NEW h \in doc.hours
      PROVE  /\ Close(h) \in Int /\ Close(h) <= closes
             /\ h.close = Never \/ h.overnight \/ Close(h) <= h.close
  <2>1. h.close \in Int
    BY <1>3
  <2>2. CASE h.close = Never
    BY <2>2
  <2>3. CASE h.close # Never /\ h.overnight
    BY <2>3 DEF Before
  <2>4. CASE h.close # Never /\ ~h.overnight
    BY <2>1, <2>4 DEF Before
  <2> QED
    BY <2>2, <2>3, <2>4
<1>8. CASE ~doc.dated
  <2>1. s.open = opens /\ s.close = closes
    BY <1>6, <1>8
  <2> QED
    BY <1>2, <1>4, <1>5, <1>8, <2>1 DEF WhileOpen
<1>9. CASE doc.dated
  <2>1. PICK h \in doc.hours : s = Cut(h)
    BY <1>6, <1>9
  <2>2. PICK close \in Int : close = Close(h)
    BY <1>7
  <2>3. close <= closes /\ (h.close = Never \/ h.overnight \/ close <= h.close)
    BY <1>7, <2>2
  <2>4. s.open = After(opens, h.open) /\ s.close = close
    BY <2>1, <2>2
  <2>5. h.open \in Int /\ h.close \in Int
    BY <1>3
  <2>6. opens <= from /\ h.open <= from
    BY <2>4, <2>5 DEF After
  <2>7. to <= closes /\ (h.close = Never \/ h.overnight \/ to <= h.close)
    BY <2>3, <2>4, <2>5
  <2>8. (doc.from # Never => doc.from <= from) /\ (doc.to # Never => to <= doc.to)
    BY <1>4, <1>5, <2>6, <2>7
  <2>9. \E hh \in doc.hours :
          hh.open <= from /\ (hh.close = Never \/ hh.overnight \/ to <= hh.close)
    BY <2>6, <2>7
  <2> QED
    BY <1>2, <2>8, <2>9 DEF WhileOpen
<1> QED
  BY <1>8, <1>9

(* That a plan can be walked, as PlanIsFeasible says it of the answer.     *)
Reached(q, i) ==
  q[i].arrival =
    IF i > 1 THEN Leaves(q[i-1]) + Leg(q[i-1].place, q[i].place)
    ELSE problem.day_start + IF problem.start_anchor THEN Leg(Start, q[i].place) ELSE 0

VisitedInTime(step) ==
  /\ step.arrival <= Leaves(step) - Visit(step.place)
  /\ WhileOpen(problem.docs[step.place], Leaves(step) - Visit(step.place), Leaves(step))
  /\ Leaves(step) <= problem.day_end

EndsInTime(step) ==
  Leg(step.place, End) # Never /\ Leaves(step) + Leg(step.place, End) <= problem.day_end

Walkable(q) ==
  \A i \in 1..Len(q) :
    /\ Reached(q, i) /\ VisitedInTime(q[i])
    /\ i = Len(q) /\ problem.end_anchor => EndsInTime(q[i])

(* The clock times of the answer are those of the schedule: none of them   *)
(* is past midnight.                                                       *)
LEMMA ClockTimes ==
  ASSUME Given, NEW r, NEW k, Stay(Schedule(r)[k], r[k]), r[k] \in Places,
         Schedule(r)[k].departure <= problem.day_end
  PROVE  /\ PlanStep(r, k).arrival = Schedule(r)[k].arrival
         /\ Leaves(PlanStep(r, k)) = Schedule(r)[k].departure
<1>1. PICK arrival \in Nat, departure \in Nat :
        arrival = Schedule(r)[k].arrival /\ departure = Schedule(r)[k].departure
  BY DEF Stay
<1>2. problem.day_end \in 1..24 /\ Visit(r[k]) \in Nat /\ Visit(r[k]) # 0
  BY RequestFacts
<1>3. arrival + Visit(r[k]) <= departure
  BY <1>1 DEF Stay
<1>4. departure \in 1..24 /\ arrival \in 0..23
  BY <1>1, <1>2, <1>3
<1>5. arrival % 24 = arrival /\ (IF departure % 24 = 0 THEN 24 ELSE departure % 24) = departure
  BY <1>4
<1> QED
  BY <1>1, <1>5 DEF PlanStep, Leaves

(* The answer made of a feasible route can be walked.                      *)
LEMMA PlanCanBeWalked ==
  ASSUME IInv, Finish
  PROVE  Walkable(plan')
<1>1. Given /\ problem \in Problems /\ pc = "improve"
  BY DEF Finish, IInv, WindowsInv, Given
<1>2. CASE route = <<>>
  <2>1. 1..Len(plan') = {}
    BY <1>2, PlanIs
  <2> QED
    BY <2>1 DEF Walkable
<1>3. CASE route # <<>>
  <2>1. /\ Complete(route, ToSet(best.route)) /\ IsFeasible(route)
        /\ Len(plan') = Final(route) + 1 - First
        /\ \A i \in 1..Len(plan') : plan'[i] = PlanStep(route, First + i - 1)
    BY <1>3, PlanIs
  <2>2. PICK lo \in 1..2, hi \in Nat : lo = First /\ hi = Final(route)
    BY <1>1, <2>1, StopsAre
  <2>3. PICK L \in Nat \ {0} : L = Len(route)
    BY <1>1, <2>1, StopsAre
  <2>4. lo <= hi + 1 /\ {k \in 1..L : route[k] \in Places} = lo..hi /\ hi <= L
    BY <1>1, <2>1, <2>2, <2>3, StopsAre
  <2>5. PICK t : t = Schedule(route)
    OBVIOUS
  <2>6. /\ \A k \in 1..L : Stay(t[k], route[k]) /\ t[k].departure <= t[L].departure
        /\ t[1].arrival = problem.day_start
        /\ \A k \in 2..L : /\ Leg(route[k-1], route[k]) \in Nat
                           /\ t[k].arrival = t[k-1].departure + Leg(route[k-1], route[k])
    <3>1. Schedule(route)[Len(route)].departure # Never
      BY <2>1 DEF IsFeasible
    <3>2. Visits(t, route)
      BY <1>1, <2>3, <2>5, <3>1, WholeSchedule
    <3> QED
      BY <2>3, <3>2 DEF Visits
  <2>7. problem.day_end \in Nat
    BY <1>1, RequestFacts
  <2>8. \A k \in 1..L : t[k].departure \in Nat /\ t[k].departure <= problem.day_end
    <3>1. L \in 1..L /\ t[L].departure <= problem.day_end
      BY <2>1, <2>3, <2>5 DEF IsFeasible
    <3>2. \A k \in 1..L : t[k].departure \in Nat
      BY <2>6 DEF Stay
    <3> QED
      BY <2>6, <2>7, <3>1, <3>2
  <2>9. ASSUME NEW i \in 1..Len(plan')
        PROVE  /\ lo + i - 1 \in lo..hi /\ lo + i - 1 \in 1..L
               /\ plan'[i].place = route[lo + i - 1] /\ route[lo + i - 1] \in Places
               /\ plan'[i].arrival = t[lo + i - 1].arrival
               /\ Leaves(plan'[i]) = t[lo + i - 1].departure
    <3>1. PICK k : k = lo + i - 1
      OBVIOUS
    <3>2. k \in lo..hi
      BY <2>1, <2>2, <3>1
    <3>3. k \in 1..L /\ route[k] \in Places
      BY <2>4, <3>2
    <3>4. plan'[i] = PlanStep(route, k)
      BY <2>1, <2>2, <3>1
    <3>5. Stay(Schedule(route)[k], route[k]) /\ Schedule(route)[k].departure <= problem.day_end
      BY <2>5, <2>6, <2>8, <3>3
    <3>6. plan'[i].arrival = t[k].arrival /\ Leaves(plan'[i]) = t[k].departure
      BY <1>1, <2>5, <3>3, <3>4, <3>5, ClockTimes
    <3>7. plan'[i].place = route[k]
      BY <3>4 DEF PlanStep
    <3> QED
      BY <3>1, <3>2, <3>3, <3>6, <3>7
  <2>10. ASSUME NEW i \in 1..Len(plan') PROVE Reached(plan', i)
    <3>1. PICK k \in 1..L : k = lo + i - 1
      BY <2>9
    <3>2. plan'[i].place = route[k] /\ plan'[i].arrival = t[k].arrival
      BY <2>9, <3>1
    <3>3. CASE i > 1
      <4>1. i - 1 \in 1..Len(plan') /\ lo + (i - 1) - 1 = k - 1 /\ k \in 2..L
        <5>1. Len(plan') \in Nat
          BY <2>1, <2>2, <2>4
        <5> QED
          BY <3>1, <3>3, <5>1
      <4>2. plan'[i-1].place = route[k-1] /\ Leaves(plan'[i-1]) = t[k-1].departure
        BY <2>9, <4>1
      <4>3. t[k].arrival = t[k-1].departure + Leg(route[k-1], route[k])
        BY <2>6, <4>1
      <4> QED
        BY <3>2, <3>3, <4>2, <4>3 DEF Reached
    <3>4. CASE ~(i > 1)
      <4>1. k = lo /\ i = 1
        BY <3>1, <3>4
      <4>2. problem.day_start \in Nat
        BY <1>1, RequestFacts
      <4>3. CASE ~problem.start_anchor
        <5>1. k = 1
          BY <2>2, <4>1, <4>3 DEF First
        <5> QED
          BY <2>6, <3>2, <3>4, <4>2, <4>3, <5>1 DEF Reached
      <4>4. CASE problem.start_anchor
        <5>1. k = 2 /\ 2 \in 2..L /\ 2 - 1 = 1 /\ 1 \in 1..L
          BY <2>2, <3>1, <4>1, <4>4 DEF First
        <5>2. route[1] = Start
          BY <2>1, <2>3, <4>4, <5>1 DEF Complete, Path
        <5>3. t[1].departure = problem.day_start
          <6>1. Stay(t[1], Start)
            BY <2>6, <5>1, <5>2
          <6> QED
            BY <2>6, <6>1, NodeFacts DEF Stay
        <5>4. t[2].arrival = t[1].departure + Leg(route[1], route[2])
          BY <2>6, <5>1
        <5> QED
          BY <3>2, <3>4, <4>4, <5>1, <5>2, <5>3, <5>4 DEF Reached
      <4> QED
        BY <4>3, <4>4
    <3> QED
      BY <3>3, <3>4
  <2>11. ASSUME NEW i \in 1..Len(plan') PROVE VisitedInTime(plan'[i])
    <3>1. PICK k \in 1..L : k = lo + i - 1
      BY <2>9
    <3>2. PICK p \in Places : p = route[k] /\ p = plan'[i].place
      BY <2>9, <3>1
    <3>3. plan'[i].arrival = t[k].arrival /\ Leaves(plan'[i]) = t[k].departure
      BY <2>9, <3>1
    <3>4. PICK v \in Nat : v = Visit(p)
      BY <1>1, RequestFacts
    <3>5. Stay(t[k], p)
      BY <2>6, <3>2
    <3>6. /\ t[k].arrival \in Nat /\ t[k].departure \in Nat /\ t[k].arrival + v <= t[k].departure
          /\ \E s \in window[p] : s.open <= t[k].departure - v /\ t[k].departure <= s.close
      BY <3>4, <3>5 DEF Stay
    <3>7. PICK s \in window[p] : s.open <= t[k].departure - v /\ t[k].departure <= s.close
      BY <3>6
    <3>8. s \in ParseTimeWindow(problem.docs[p])
      <4>1. window[p] = IF problem.docs[p].located THEN ParseTimeWindow(problem.docs[p]) ELSE {}
        BY <1>1 DEF IInv, WindowsInv
      <4> QED
        BY <3>7, <4>1
    <3>9. PICK from \in Int, to \in Int : from = t[k].departure - v /\ to = t[k].departure
      BY <3>6
    <3>10. WhileOpen(problem.docs[p], from, to)
      BY <1>1, <3>7, <3>8, <3>9, SegmentIsOpen
    <3>11. t[k].arrival <= from /\ to <= problem.day_end
      BY <2>8, <3>6, <3>9
    <3> QED
      BY <3>2, <3>3, <3>4, <3>9, <3>10, <3>11 DEF VisitedInTime
  <2>12. ASSUME NEW i \in 1..Len(plan'), i = Len(plan'), problem.end_anchor
         PROVE  EndsInTime(plan'[i])
    <3>1. PICK k \in 1..L : k = lo + i - 1
      BY <2>9
    <3>2. plan'[i].place = route[k] /\ Leaves(plan'[i]) = t[k].departure
      BY <2>9, <3>1
    <3>3. k = hi /\ hi = L - 1 /\ L \in 2..L /\ L \in 1..L
      BY <2>1, <2>2, <2>3, <2>12, <3>1 DEF Final
    <3>4. route[L] = End
      BY <2>1, <2>3, <2>12, <3>3 DEF Complete
    <3>5. Leg(route[k], End) \in Nat /\ t[L].arrival = t[k].departure + Leg(route[k], End)
      BY <2>6, <3>3, <3>4
    <3>6. Stay(t[L], End)
      BY <2>6, <3>3, <3>4
    <3>7. t[L].departure = t[L].arrival
      BY <3>6, NodeFacts DEF Stay
    <3> QED
      BY <2>8, <3>2, <3>3, <3>5, <3>7 DEF EndsInTime, Never
  <2> QED
    BY <2>10, <2>11, <2>12 DEF Walkable
<1> QED
  BY <1>2, <1>3

(* It can still be walked when nothing of the request changes.             *)
LEMMA SameWalks ==
  ASSUME UNCHANGED given
  PROVE  \A q : Walkable(q)' <=> Walkable(q)
<1>1. problem' = problem
  BY DEF given
<1>2. \A q, i : Reached(q, i)' <=> Reached(q, i)
  BY <1>1, SameLegs DEF Reached
<1>3. \A step : VisitedInTime(step)' <=> VisitedInTime(step)
  BY <1>1, SameLegs DEF VisitedInTime
<1>4. \A step : EndsInTime(step)' <=> EndsInTime(step)
  BY <1>1, SameLegs DEF EndsInTime
<1> QED
  BY <1>1, <1>2, <1>3, <1>4 DEF Walkable

(* And this is what the property says.                                     *)
LEMMA FeasibleIs ==
  PlanIsFeasible <=> (pc = "done" => Walkable(plan))
BY DEF PlanIsFeasible, Walkable, Reached, VisitedInTime, EndsInTime

(* So the answer can be walked when it is made.                            *)
LEMMA FeasibleStep ==
  ASSUME IInv, PlanIsFeasible, [Next]_vars
  PROVE  PlanIsFeasible'
<1>0. PlanIsFeasible' <=> (pc' = "done" => Walkable(plan)')
  BY DEF PlanIsFeasible, Walkable, Reached, VisitedInTime, EndsInTime
<1> SUFFICES ASSUME pc' = "done" PROVE Walkable(plan)'
  BY <1>0
<1>1. CASE Filter
  <2>1. 1..Len(plan') = {}
    BY <1>1 DEF Filter, IInv, SkippedInv
  <2> QED
    BY <2>1 DEF Walkable
<1>2. CASE Finish
  <2>1. Walkable(plan') /\ UNCHANGED given
    BY <1>2, PlanCanBeWalked DEF Finish
  <2> QED
    BY <2>1, SameWalks
<1>3. CASE UNCHANGED vars
  <2>1. UNCHANGED given /\ plan' = plan /\ pc' = pc
    BY <1>3 DEF vars, given
  <2>2. Walkable(plan)
    BY <2>1, FeasibleIs
  <2> QED
    BY <2>1, <2>2, SameWalks
<1> QED
  BY <1>1, <1>2, <1>3, LastStep

(* Every plan can be walked: each place is reached from the one before,    *)
(* visited while it is open and left before the day is over.               *)
THEOREM PlansCanBeWalked == Spec => []PlanIsFeasible
<1>1. Init => PlanIsFeasible
  BY DEF Init, PlanIsFeasible
<1>2. IInv /\ PlanIsFeasible /\ [Next]_vars => PlanIsFeasible'
  BY FeasibleStep
<1> QED
  BY <1>1, <1>2, Invariant, PTL DEF Spec

-----------------------------------------------------------------------------
(* The score of a route is a number in which the must-sees come first: a   *)
(* request has too few places for the others to outweigh one.              *)
Scores(x, m) == \E rest \in Nat : rest < 1000000 /\ x = 1000000 * m + rest

LEMMA ScoreIs ==
  ASSUME NEW r
  PROVE  /\ Cardinality(MustSee(Visited(r))) \in Nat
         /\ Scores(RouteScore(r), Cardinality(MustSee(Visited(r))))
<1>1. ASSUME NEW priority PROVE Cardinality(OfPriority(Visited(r), priority)) \in 0..50
  <2>1. PICK S : S = OfPriority(Visited(r), priority)
    OBVIOUS
  <2>2. S \subseteq Places
    BY <2>1 DEF OfPriority, Visited
  <2>3. IsFiniteSet(Places) /\ Cardinality(Places) = N
    BY NodeFacts
  <2>4. Cardinality(S) \in Nat /\ Cardinality(S) <= N
    BY <2>2, <2>3, FS_Subset, FS_CardinalityType
  <2> QED
    BY <2>1, <2>4, CountAssumption
<1>2. PICK m \in 0..50 : m = Cardinality(OfPriority(Visited(r), "must_see"))
  BY <1>1
<1>3. PICK n \in 0..50 : n = Cardinality(OfPriority(Visited(r), "normal"))
  BY <1>1
<1>4. PICK o \in 0..50 : o = Cardinality(OfPriority(Visited(r), "optional"))
  BY <1>1
<1>5. PICK rest : rest = 1000 * n + o
  BY SMT
<1>6. rest \in Nat /\ rest < 1000000
  BY <1>5, SMT
<1>7. RouteScore(r) = 1000000 * m + rest
  BY <1>2, <1>3, <1>4, <1>5, SMT DEF RouteScore
<1>8. Scores(RouteScore(r), m)
  BY <1>6, <1>7, SMT DEF Scores
<1> QED
  BY <1>2, <1>8, SMT DEF MustSee

(* Scores compare as the must-sees do.                                     *)
LEMMA ScoresCompare ==
  ASSUME NEW x, NEW y, NEW m \in Nat, NEW n \in Nat, Scores(x, m), Scores(y, n)
  PROVE  x \in Nat /\ (x <= y => m <= n)
<1>1. PICK rest \in Nat : rest < 1000000 /\ x = 1000000 * m + rest
  BY SMT DEF Scores
<1>2. PICK other \in Nat : other < 1000000 /\ y = 1000000 * n + other
  BY SMT DEF Scores
<1> QED
  BY <1>1, <1>2, SMT

(* So a route that scores as much visits as many of them.                  *)
LEMMA MustSeesFirst ==
  ASSUME NEW r, NEW s
  PROVE  /\ RouteScore(r) \in Nat
         /\ RouteScore(r) <= RouteScore(s) =>
              Cardinality(MustSee(Visited(r))) <= Cardinality(MustSee(Visited(s)))
<1>1. PICK x, m : x = RouteScore(r) /\ m = Cardinality(MustSee(Visited(r)))
  OBVIOUS
<1>2. PICK y, n : y = RouteScore(s) /\ n = Cardinality(MustSee(Visited(s)))
  OBVIOUS
<1>3. m \in Nat /\ Scores(x, m) /\ n \in Nat /\ Scores(y, n)
  BY <1>1, <1>2, ScoreIs
<1>4. x \in Nat /\ (x <= y => m <= n)
  BY <1>3, ScoresCompare
<1> QED
  BY <1>1, <1>2, <1>4

(* The kept attempt scores most, and unless it visits all the must-sees    *)
(* they were attempted on their own.                                       *)
Promised ==
  \/ \E a \in attempts : a.candidates = MustSee(Schedulable)
  \/ MustSee(Schedulable) \subseteq ToSet(best.route)

ScoreInv ==
  /\ \A a \in attempts : RouteScore(a.route) <= RouteScore(best.route)
  /\ pc = "improve" => Promised

(* A tier that is over: the better attempt is kept.                        *)
LEMMA EndTierScores ==
  ASSUME IInv, ScoreInv, EndTier
  PROVE  ScoreInv'
<1>1. PICK attempt : attempt = [route |-> round, candidates |-> candidates]
  OBVIOUS
<1>2. /\ pc = "start" /\ UNCHANGED given /\ attempts' = attempts \cup {attempt}
      /\ best' = IF best = NoAttempt \/ RouteScore(round) > RouteScore(best.route)
                 THEN attempt ELSE best
      /\ pc' = "improve" => MustSee(candidates \ ToSet(round)) = {}
  BY <1>1 DEF EndTier, Settle
<1>3. \A r : RouteScore(r) \in Nat
  BY MustSeesFirst
<1>4. RouteScore(<<>>) = 0
  <2>1. Visited(<<>>) = {}
    BY DEF Visited, ToSet
  <2>2. \A p : OfPriority(Visited(<<>>), p) = {}
    BY <2>1 DEF OfPriority
  <2>3. \A p : Cardinality(OfPriority(Visited(<<>>), p)) = 0
    BY <2>2, FS_EmptySet
  <2> QED
    BY <2>3, SMT DEF RouteScore
<1>5. RouteScore(round) <= RouteScore(best'.route)
      /\ RouteScore(best.route) <= RouteScore(best'.route)
  <2>1. CASE best = NoAttempt
    <3>1. RouteScore(best.route) = 0
      BY <1>4, <2>1 DEF NoAttempt
    <3>2. best'.route = round
      BY <1>1, <1>2, <2>1
    <3>3. RouteScore(round) \in Nat
      BY <1>3
    <3> QED
      BY <3>1, <3>2, <3>3
  <2>2. CASE RouteScore(round) > RouteScore(best.route)
    <3>1. best'.route = round
      BY <1>1, <1>2, <2>2
    <3>2. RouteScore(round) \in Nat /\ RouteScore(best.route) \in Nat
      BY <1>3
    <3> QED
      BY <2>2, <3>1, <3>2
  <2>3. CASE best # NoAttempt /\ ~(RouteScore(round) > RouteScore(best.route))
    <3>1. best' = best
      BY <1>2, <2>3
    <3>2. RouteScore(round) \in Nat /\ RouteScore(best.route) \in Nat
      BY <1>3
    <3> QED
      BY <2>3, <3>1, <3>2
  <2> QED
    BY <2>1, <2>2, <2>3
<1>6. (\A a \in attempts : RouteScore(a.route) <= RouteScore(best.route))'
  <2>1. ASSUME NEW a \in attempts' PROVE RouteScore(a.route) <= RouteScore(best'.route)
    <3>1. CASE a = attempt
      <4>1. a.route = round
        BY <1>1, <3>1
      <4> QED
        BY <1>5, <4>1
    <3>2. CASE a \in attempts
      <4>1. RouteScore(a.route) <= RouteScore(best.route)
        BY <3>2 DEF ScoreInv
      <4>2. PICK x, y, z : /\ x = RouteScore(a.route) /\ y = RouteScore(best.route)
                           /\ z = RouteScore(best'.route)
        OBVIOUS
      <4>3. x \in Nat /\ y \in Nat /\ z \in Nat
        BY <1>3, <4>2
      <4>4. x <= y /\ y <= z
        BY <1>5, <4>1, <4>2
      <4> QED
        BY <4>2, <4>3, <4>4
    <3> QED
      BY <1>2, <3>1, <3>2
  <2> QED
    BY <1>2, <2>1, SamePriorities
<1>7. ASSUME pc' = "improve"
      PROVE  MustSee(Schedulable) \subseteq ToSet(best'.route)
  <2>1. PICK must : must = MustSee(Schedulable)
    OBVIOUS
  <2>2. \E k \in 1..3 : candidates = Tier(k)
    BY <1>2 DEF IInv, TierInv
  <2>3. must \subseteq candidates /\ candidates \subseteq Schedulable
        /\ Schedulable \subseteq Places
    BY <2>1, <2>2, TiersAreNested
  <2>4. must \subseteq ToSet(round)
    BY <1>2, <1>7, <2>1, <2>3 DEF MustSee, OfPriority
  <2>5. must \subseteq MustSee(Visited(round))
    BY <2>1, <2>3, <2>4 DEF MustSee, OfPriority, Visited
  <2>6. MustSee(Visited(best'.route)) \subseteq must
    <3>1. best'.route = <<>> \/ Attempt(best'.route, best'.candidates)
      <4>1. best' \in attempts'
        BY <1>2 DEF IInv, AttemptsInv
      <4>2. IInv'
        BY EndTierKeeps
      <4> QED
        BY <1>2, <4>1, <4>2, SamePaths DEF IInv, AttemptsInv
    <3>2. best'.candidates \subseteq Schedulable
      <4>1. CASE best' = attempt
        BY <1>1, <2>3, <4>1
      <4>2. CASE best' # attempt
        <5>1. best' \in attempts
          BY <1>2, <4>2 DEF IInv, AttemptsInv
        <5> QED
          BY <5>1, TiersAreNested DEF IInv, AttemptsInv
      <4> QED
        BY <4>1, <4>2
    <3>3. Visited(best'.route) \subseteq Schedulable
      <4>1. CASE best'.route = <<>>
        BY <4>1 DEF Visited, ToSet
      <4>2. CASE best'.route # <<>>
        BY <3>1, <3>2, <4>2 DEF Attempt, Complete, Path
      <4> QED
        BY <4>1, <4>2
    <3> QED
      BY <2>1, <3>3 DEF MustSee, OfPriority
  <2>7. PICK seen, most : seen = MustSee(Visited(round)) /\ most = MustSee(Visited(best'.route))
    OBVIOUS
  <2>8. Cardinality(seen) <= Cardinality(most)
    BY <1>5, <2>7, MustSeesFirst
  <2>9. seen \subseteq Places
    BY <2>7 DEF MustSee, OfPriority, Visited
  <2>10. IsFiniteSet(seen) /\ IsFiniteSet(must)
    BY <2>3, <2>9, NodeFacts, FS_Subset
  <2>11. most \subseteq must /\ must \subseteq seen
    BY <2>5, <2>6, <2>7
  <2>12. /\ Cardinality(most) \in Nat /\ Cardinality(must) \in Nat /\ Cardinality(seen) \in Nat
         /\ Cardinality(most) <= Cardinality(must) /\ Cardinality(must) <= Cardinality(seen)
    BY <2>10, <2>11, FS_Subset, FS_CardinalityType
  <2>13. Cardinality(most) = Cardinality(must)
    BY <2>8, <2>12
  <2>14. most = must
    BY <2>10, <2>11, <2>13, FS_Subset
  <2> QED
    BY <2>1, <2>7, <2>14 DEF MustSee, OfPriority, Visited
<1>8. pc' = "improve" => Promised'
  <2>1. MustSee(Schedulable)' = MustSee(Schedulable)
    BY <1>2, SamePriorities
  <2> QED
    BY <1>7, <2>1 DEF Promised
<1> QED
  BY <1>6, <1>8 DEF ScoreInv

(* No other step makes an attempt.                                         *)
LEMMA ScoreKeeps ==
  ASSUME IInv, ScoreInv, [Next]_vars
  PROVE  ScoreInv'
<1>1. CASE EndTier
  BY <1>1, EndTierScores
<1>2. CASE Filter
  BY <1>2 DEF Filter, IInv, AttemptsInv, ScoreInv
<1>3. CASE TiersExhausted
  <2>1. /\ pc = "tier" /\ tier = 3 /\ UNCHANGED given /\ attempts' = attempts /\ best' = best
    BY <1>3 DEF TiersExhausted
  <2>2. PICK a \in attempts : a.candidates = MustSee(Schedulable)
    BY <2>1, TiersAreNested DEF IInv, TierInv
  <2>3. Promised'
    BY <2>1, <2>2, SamePriorities DEF Promised
  <2> QED
    BY <2>1, <2>3, SamePriorities DEF ScoreInv
<1>4. ASSUME UNCHANGED given, attempts' = attempts, best' = best, pc' = "improve" => pc = "improve"
      PROVE  ScoreInv'
  <2>1. Promised' <=> Promised
    BY <1>4, SamePriorities DEF Promised
  <2> QED
    BY <1>4, <2>1, SamePriorities DEF ScoreInv
<1>5. CASE GetMatrix \/ BeginTier \/ BeginStart \/ Extend
  BY <1>4, <1>5 DEF GetMatrix, BeginTier, BeginStart, Extend
<1>6. CASE NothingMore \/ EndStart \/ Swap \/ Finish
  BY <1>4, <1>6 DEF NothingMore, EndStart, Swap, Finish
<1>7. CASE UNCHANGED vars
  BY <1>4, <1>7 DEF vars, given
<1> QED
  BY <1>1, <1>2, <1>3, <1>5, <1>6, <1>7 DEF Next

(* The places of the answer are those of the route.                        *)
PlacesOf(q) == {q[i].place : i \in 1..Len(q)}

LEMMA PlacesOfPlan ==
  ASSUME IInv, Finish
  PROVE  PlacesOf(plan') = Visited(route)
<1>1. Given
  BY DEF IInv, WindowsInv
<1>2. CASE route = <<>>
  <2>1. Visited(route) = {} /\ 1..Len(plan') = {}
    BY <1>2, PlanIs DEF Visited, ToSet
  <2> QED
    BY <2>1 DEF PlacesOf
<1>3. CASE route # <<>>
  <2>1. /\ Complete(route, ToSet(best.route))
        /\ Len(plan') = Final(route) + 1 - First
        /\ \A i \in 1..Len(plan') : plan'[i] = PlanStep(route, First + i - 1)
    BY <1>3, PlanIs
  <2>2. PICK lo \in 1..2, hi \in Nat : lo = First /\ hi = Final(route)
    BY <1>1, <2>1, StopsAre
  <2>3. PICK L \in Nat \ {0} : L = Len(route)
    BY <1>1, <2>1, StopsAre
  <2>4. lo <= hi + 1 /\ {k \in 1..L : route[k] \in Places} = lo..hi /\ hi <= L
    BY <1>1, <2>1, <2>2, <2>3, StopsAre
  <2>5. DOMAIN route = 1..L
    BY <2>1, <2>3 DEF Complete, Path
  <2>6. Len(plan') = hi + 1 - lo /\ \A i \in 1..Len(plan') : plan'[i].place = route[lo + i - 1]
    BY <2>1, <2>2 DEF PlanStep
  <2>7. ASSUME NEW p \in PlacesOf(plan') PROVE p \in Visited(route)
    <3>1. PICK i \in 1..Len(plan') : p = plan'[i].place
      BY <2>7 DEF PlacesOf
    <3>2. PICK k \in lo..hi : k = lo + i - 1
      BY <2>6
    <3>3. p = route[k] /\ k \in 1..L /\ route[k] \in Places
      BY <2>4, <2>6, <3>1, <3>2
    <3> QED
      BY <2>5, <3>3 DEF Visited, ToSet
  <2>8. ASSUME NEW p \in Visited(route) PROVE p \in PlacesOf(plan')
    <3>1. PICK k \in 1..L : p = route[k] /\ p \in Places
      BY <2>5, <2>8 DEF Visited, ToSet
    <3>2. k \in lo..hi
      BY <2>4, <3>1
    <3>3. PICK i \in 1..Len(plan') : i = k + 1 - lo
      BY <2>6, <3>2
    <3>4. lo + i - 1 = k
      BY <3>2, <3>3
    <3>5. p = plan'[i].place
      BY <2>6, <3>1, <3>4
    <3> QED
      BY <3>5 DEF PlacesOf
  <2> QED
    BY <2>7, <2>8
<1> QED
  BY <1>2, <1>3

(* What the guarantee says of the places that were planned.                *)
Guarantee(planned, reasons, tries) ==
  \A m \in MustSee(Schedulable) \ planned :
    /\ reasons[m] # "DROPPED_LOW_PRIORITY"
    /\ \E a \in tries : a.candidates = MustSee(Schedulable)
    /\ \A a \in tries : Cardinality(MustSee(Visited(a.route))) <= Cardinality(planned)

LEMMA GuaranteeIs ==
  MustSeeGuarantee <=> (pc = "done" => Guarantee(MustSee(PlacesOf(plan)), skipped, attempts))
BY DEF MustSeeGuarantee, Guarantee, PlacesOf

(* A must-see is not dropped for its priority when the answer is made.     *)
LEMMA MustSeeReason ==
  ASSUME IInv, Finish, NEW m \in MustSee(Schedulable)
  PROVE  skipped'[m] # "DROPPED_LOW_PRIORITY"
<1>1. pc = "improve" /\ best \in attempts /\ m \in Places
  BY TiersAreNested DEF Finish, IInv, ImproveInv, MustSee, OfPriority
<1>2. m \in best.candidates
  BY <1>1, TiersAreNested DEF IInv, AttemptsInv
<1>3. skipped'[m] = FinalReason(m)
  BY <1>1 DEF Finish
<1>4. skipped[m] # "DROPPED_LOW_PRIORITY"
  BY <1>1 DEF IInv, SkippedInv
<1>5. CASE m \notin ToSet(best.route)
  <2>1. skipped'[m] = SkipReason(m)
    BY <1>2, <1>3, <1>5 DEF FinalReason
  <2>2. PICK others, edges, whole :
          /\ others = best.candidates \ {m}
          /\ edges = {o \in others : Leg(m, o) # Never \/ Leg(o, m) # Never}
          /\ whole = (edges = others /\ problem.copies[m] = 1)
    OBVIOUS
  <2>3. SkipReason(m) = CASE edges = {} -> "NO_MATRIX_ENTRY"
                          [] edges # {} /\ ~whole -> "MATRIX_INCOMPLETE"
                          [] edges # {} /\ whole -> "TIME_WINDOW_INFEASIBLE"
    BY <2>2 DEF SkipReason
  <2>4. CASE edges = {}
    BY <2>1, <2>3, <2>4
  <2>5. CASE edges # {} /\ ~whole
    BY <2>1, <2>3, <2>5
  <2>6. CASE edges # {} /\ whole
    BY <2>1, <2>3, <2>6
  <2> QED
    BY <2>4, <2>5, <2>6
<1>6. CASE m \in ToSet(best.route)
  BY <1>2, <1>3, <1>4, <1>6 DEF FinalReason
<1> QED
  BY <1>5, <1>6

(* The guarantee holds when the answer is made.                            *)
LEMMA GuaranteeGiven ==
  ASSUME IInv, ScoreInv, Finish
  PROVE  Guarantee(MustSee(PlacesOf(plan')), skipped', attempts)
<1>1. pc = "improve" /\ best \in attempts /\ Improved(route, best.route) /\ Promised
  BY DEF Finish, IInv, ImproveInv, ScoreInv
<1>2. PICK planned : planned = MustSee(PlacesOf(plan'))
  OBVIOUS
<1>3. Visited(route) = Visited(best.route)
  <2>1. CASE best.route = <<>>
    BY <1>1, <2>1 DEF Improved
  <2>2. CASE best.route # <<>>
    BY <1>1, <2>2 DEF Improved, Visited
  <2> QED
    BY <2>1, <2>2
<1>4. planned = MustSee(Visited(best.route))
  BY <1>2, <1>3, PlacesOfPlan
<1>5. ASSUME NEW m \in MustSee(Schedulable) \ planned
      PROVE  /\ skipped'[m] # "DROPPED_LOW_PRIORITY"
             /\ \E a \in attempts : a.candidates = MustSee(Schedulable)
             /\ \A a \in attempts :
                  Cardinality(MustSee(Visited(a.route))) <= Cardinality(planned)
  <2>1. skipped'[m] # "DROPPED_LOW_PRIORITY"
    BY MustSeeReason
  <2>2. m \notin ToSet(best.route)
    BY <1>4, <1>5, TiersAreNested DEF MustSee, OfPriority, Visited
  <2>3. \E a \in attempts : a.candidates = MustSee(Schedulable)
    BY <1>1, <1>5, <2>2 DEF Promised
  <2>4. \A a \in attempts :
          Cardinality(MustSee(Visited(a.route))) <= Cardinality(MustSee(Visited(best.route)))
    BY MustSeesFirst DEF ScoreInv
  <2> QED
    BY <1>4, <2>1, <2>3, <2>4
<1> QED
  BY <1>2, <1>5 DEF Guarantee

(* And it holds from then on.                                              *)
LEMMA GuaranteeStep ==
  ASSUME IInv, ScoreInv, MustSeeGuarantee, [Next]_vars
  PROVE  MustSeeGuarantee'
<1>1. MustSeeGuarantee' <=>
        (pc' = "done" => Guarantee(MustSee(PlacesOf(plan)), skipped, attempts)')
  BY DEF MustSeeGuarantee, Guarantee, PlacesOf
<1> SUFFICES ASSUME pc' = "done"
             PROVE  Guarantee(MustSee(PlacesOf(plan)), skipped, attempts)'
  BY <1>1
<1>2. ASSUME UNCHANGED given, NEW S, NEW reasons, NEW tries, Guarantee(MustSee(S), reasons, tries)
      PROVE  Guarantee(MustSee(S), reasons, tries)'
  <2>1. MustSee(S)' = MustSee(S) /\ MustSee(Schedulable)' = MustSee(Schedulable)
    BY <1>2, SamePriorities
  <2>2. \A r : MustSee(Visited(r))' = MustSee(Visited(r))
    BY <1>2, SamePriorities DEF Visited
  <2> QED
    BY <1>2, <2>1, <2>2 DEF Guarantee
<1>3. CASE Filter
  <2>1. MustSee(Schedulable)' = {}
    <3>1. Schedulable' = {}
      BY <1>3 DEF Filter, Schedulable
    <3> QED
      BY <3>1 DEF MustSee, OfPriority
  <2> QED
    BY <2>1 DEF Guarantee
<1>4. CASE Finish
  <2>1. Guarantee(MustSee(PlacesOf(plan')), skipped', attempts) /\ attempts' = attempts
        /\ UNCHANGED given
    BY <1>4, GuaranteeGiven DEF Finish
  <2> QED
    BY <1>2, <2>1
<1>5. CASE UNCHANGED vars
  <2>1. /\ UNCHANGED given /\ plan' = plan /\ pc' = pc /\ skipped' = skipped
        /\ attempts' = attempts
    BY <1>5 DEF vars, given
  <2>2. Guarantee(MustSee(PlacesOf(plan)), skipped, attempts)
    BY <2>1, GuaranteeIs
  <2> QED
    BY <1>2, <2>1, <2>2
<1> QED
  BY <1>3, <1>4, <1>5, LastStep

(* The hard must-see guarantee: what is left out of a plan was attempted   *)
(* on its own, and no attempt visits more must-sees than the plan.         *)
THEOREM MustSeesAreGuaranteed == Spec => []MustSeeGuarantee
<1>1. Init => ScoreInv /\ MustSeeGuarantee
  BY DEF Init, ScoreInv, MustSeeGuarantee
<1>2. IInv /\ ScoreInv /\ MustSeeGuarantee /\ [Next]_vars => ScoreInv' /\ MustSeeGuarantee'
  BY ScoreKeeps, GuaranteeStep
<1> QED
  BY <1>1, <1>2, Invariant, PTL DEF Spec

-----------------------------------------------------------------------------
(* A set of integers with a bound has a greatest element.                  *)
LEMMA GreatestElement ==
  ASSUME NEW S, S \subseteq Int, S # {}, NEW top \in Int, \A n \in S : n <= top
  PROVE  \E n \in S : \A m \in S : m <= n
<1>1. PICK T : T = {top - n : n \in S}
  OBVIOUS
<1>2. T \subseteq Nat /\ T # {}
  <2>1. ASSUME NEW t \in T PROVE t \in Nat
    <3>1. PICK n \in S : t = top - n
      BY <1>1
    <3>2. n \in Int /\ n <= top
      OBVIOUS
    <3> QED
      BY <3>1, <3>2
  <2>2. T # {}
    BY <1>1
  <2> QED
    BY <2>1, <2>2
<1>3. PICK least \in T : \A m \in T : least <= m
  BY <1>2, LeastElement
<1>4. PICK n \in S : least = top - n
  BY <1>1
<1>5. ASSUME NEW m \in S PROVE m <= n
  <2>1. top - m \in T
    BY <1>1
  <2>2. top - n <= top - m
    BY <1>3, <1>4, <2>1
  <2>3. m \in Int /\ n \in Int
    OBVIOUS
  <2> QED
    BY <2>2, <2>3
<1> QED
  BY <1>5

(* The segments of a window lie apart, as the opening hours they are cut   *)
(* from do, and none is open longer than the user's hours.                 *)
Separate(w) ==
  /\ \A s \in w : s.open < s.close
  /\ \A s, u \in w : s # u => s.close <= u.open \/ u.close <= s.open

Within(w, top) == \A s \in w : s.close <= top

LEMMA SegmentsApart ==
  ASSUME problem \in Problems, NEW p \in Places
  PROVE  LET w == ParseTimeWindow(problem.docs[p])
         IN Separate(w) /\ \E top \in Int : Within(w, top)
<1>1. ValidRequest(problem) /\ ValidDoc(problem.docs[p]) /\ Apart(problem.docs[p].hours)
  BY ProblemsAssumption, HoursAssumption DEF ValidRequest
<1>2. PICK doc : doc = problem.docs[p]
  OBVIOUS
<1>3. problem.day_start \in Int /\ problem.day_end \in Int /\ doc.from \in Int /\ doc.to \in Int
      /\ \A h \in doc.hours : h.open \in Int /\ h.close \in Int
  BY <1>1, <1>2 DEF ValidRequest, ValidDoc
<1>4. PICK opens \in Int : opens = IF doc.from = Never THEN problem.day_start ELSE doc.from
  BY <1>3
<1>5. PICK closes \in Int : closes = IF doc.to = Never THEN problem.day_end ELSE doc.to
  BY <1>3
<1> DEFINE Close(h) == CASE h.close = Never -> closes
                         [] h.close # Never /\ h.overnight -> Before(closes, 24)
                         [] h.close # Never /\ ~h.overnight -> Before(closes, h.close)
           Cut(h) == [open |-> After(opens, h.open), close |-> Close(h)]
<1>6. PICK w : w = ParseTimeWindow(doc)
  OBVIOUS
<1>7. w = {s \in IF doc.dated THEN {Cut(h) : h \in doc.hours}
                 ELSE {[open |-> opens, close |-> closes]} : s.close > s.open}
  BY <1>4, <1>5, <1>6 DEF ParseTimeWindow
<1>8. ASSUME NEW h \in doc.hours
      PROVE  /\ After(opens, h.open) \in Int /\ h.open <= After(opens, h.open)
             /\ Close(h) \in Int /\ Close(h) <= closes
             /\ h.close # Never /\ ~h.overnight => Close(h) <= h.close
  <2>1. h.close \in Int /\ h.open \in Int
    BY <1>3
  <2>2. After(opens, h.open) \in Int /\ h.open <= After(opens, h.open)
    BY <2>1 DEF After
  <2>3. CASE h.close = Never
    BY <2>2, <2>3
  <2>4. CASE h.close # Never /\ h.overnight
    BY <2>2, <2>4 DEF Before
  <2>5. CASE h.close # Never /\ ~h.overnight
    BY <2>1, <2>2, <2>5 DEF Before
  <2> QED
    BY <2>3, <2>4, <2>5
<1>9. \A h, later \in doc.hours :
        h # later => ClosesBefore(h, later) \/ ClosesBefore(later, h)
  BY <1>1, <1>2 DEF Apart
<1> HIDE DEF Close
<1>10. ASSUME NEW h \in doc.hours, NEW later \in doc.hours, ClosesBefore(h, later)
       PROVE  Cut(h).close <= Cut(later).open
  <2>1. h.close # Never /\ ~h.overnight /\ h.close <= later.open
    BY <1>10 DEF ClosesBefore
  <2>2. PICK a, b, x, y \in Int : /\ a = Close(h) /\ b = h.close
                                /\ x = later.open /\ y = After(opens, later.open)
    BY <1>3, <1>8
  <2>3. a <= b /\ b <= x /\ x <= y
    BY <1>8, <2>1, <2>2
  <2> QED
    BY <2>2, <2>3
<1>11. ASSUME NEW s \in w
       PROVE  s.open < s.close /\ s.close <= closes
  <2>1. CASE ~doc.dated
    <3>1. s = [open |-> opens, close |-> closes] /\ s.close > s.open
      BY <1>7, <2>1
    <3>2. s.open = opens /\ s.close = closes
      BY <3>1
    <3> QED
      BY <3>1, <3>2
  <2>2. CASE doc.dated
    <3>1. PICK h \in doc.hours : s = Cut(h)
      BY <1>7, <2>2
    <3>2. s.open = After(opens, h.open) /\ s.close = Close(h) /\ s.close > s.open
      BY <1>7, <3>1
    <3>3. s.open \in Int /\ s.close \in Int /\ s.close <= closes
      BY <1>8, <3>2
    <3> QED
      BY <3>2, <3>3
  <2> QED
    BY <2>1, <2>2
<1>12. ASSUME NEW s \in w, NEW u \in w, s # u
       PROVE  s.close <= u.open \/ u.close <= s.open
  <2>1. CASE ~doc.dated
    BY <1>7, <1>12, <2>1
  <2>2. CASE doc.dated
    <3>1. PICK h \in doc.hours, later \in doc.hours : s = Cut(h) /\ u = Cut(later)
      BY <1>7, <2>2
    <3>2. h # later
      BY <1>12, <3>1
    <3>3. ClosesBefore(h, later) \/ ClosesBefore(later, h)
      BY <1>9, <3>2
    <3>4. Cut(h).close <= Cut(later).open \/ Cut(later).close <= Cut(h).open
      BY <1>10, <3>3
    <3> QED
      BY <3>1, <3>4
  <2> QED
    BY <2>1, <2>2
<1> QED
  BY <1>2, <1>6, <1>11, <1>12 DEF Separate, Within

(* So the deadline of a window is the latest of its closing times.         *)
LEMMA DeadlineIs ==
  ASSUME NEW w, w \subseteq Segments, Separate(w), NEW top \in Int, Within(w, top),
         NEW s \in w
  PROVE  Deadline(w) \in Int /\ s.close <= Deadline(w)
<1>1. \A u \in w : u.open \in Int /\ u.close \in Int /\ u.open < u.close /\ u.close <= top
  BY DEF Segments, Separate, Within
<1>2. PICK Opens : Opens = {u.open : u \in w}
  OBVIOUS
<1>3. Opens \subseteq Int /\ Opens # {} /\ \A n \in Opens : n <= top
  BY <1>1, <1>2
<1>4. PICK latest \in Opens : \A n \in Opens : n <= latest
  BY <1>3, GreatestElement
<1>5. PICK x \in w : x.open = latest
  BY <1>2
<1>6. \A u \in w : u.open <= x.open
  BY <1>2, <1>4, <1>5
<1>7. \A u \in w : u.open < x.open \/ u = x
  <2>1. ASSUME NEW u \in w, u # x PROVE u.open < x.open
    <3>1. u.close <= x.open \/ x.close <= u.open
      BY <2>1 DEF Separate
    <3>2. u.open < u.close /\ x.open < x.close /\ u.open <= x.open
      BY <1>1, <1>6
    <3>3. u.open \in Int /\ u.close \in Int /\ x.open \in Int /\ x.close \in Int
      BY <1>1
    <3> QED
      BY <3>1, <3>2, <3>3
  <2> QED
    BY <2>1
<1> DEFINE IsLast(y) == \A u \in w : u.open < y.open \/ (u.open = y.open /\ u.close <= y.close)
<1>8. IsLast(x)
  BY <1>1, <1>7
<1>9. \A y \in w : IsLast(y) => y = x
  BY <1>1, <1>7
<1>10. Deadline(w) = (CHOOSE y \in w : IsLast(y)).close
  BY DEF Deadline
<1> HIDE DEF IsLast
<1>11. Deadline(w) = x.close
  BY <1>8, <1>9, <1>10
<1>12. s.close <= x.close
  <2>1. CASE s = x
    BY <1>1, <2>1
  <2>2. CASE s # x
    <3>1. s.close <= x.open
      <4>1. s.close <= x.open \/ x.close <= s.open
        BY <2>2 DEF Separate
      <4>2. s.open <= x.open /\ x.open < x.close
        BY <1>1, <1>6
      <4>3. s.open \in Int /\ s.close \in Int /\ x.open \in Int /\ x.close \in Int
        BY <1>1
      <4> QED
        BY <4>1, <4>2, <4>3
    <3> QED
      BY <1>1, <3>1
  <2> QED
    BY <2>1, <2>2
<1> QED
  BY <1>1, <1>11, <1>12

(* A visit that can be made ends before the deadline of its place.         *)
LEMMA DepartsByDeadline ==
  ASSUME IInv, pc \in {"grow", "close"}, NEW c \in Places, CanVisit(c)
  PROVE  /\ Departs(c) \in Nat /\ Deadline(window[c]) \in Nat
         /\ Departs(c) <= Deadline(window[c])
<1>1. Given /\ problem \in Problems /\ clock \in Nat
  BY GrowFacts DEF Given
<1>2. PICK w : w = window[c]
  OBVIOUS
<1>3. PICK arrival \in Nat : arrival = clock + Leg(Last(route), c)
  <2>1. Leg(Last(route), c) # Never
    BY DEF CanVisit
  <2>2. Leg(Last(route), c) \in Nat
    BY <1>1, <2>1, RequestFacts
  <2> QED
    BY <1>1, <2>2
<1>4. PICK b : b = Begins(c, arrival)
  OBVIOUS
<1>5. PICK v \in Nat : v = Visit(c)
  BY <1>1, RequestFacts
<1>6. b # Never /\ Departs(c) = b + v
  BY <1>3, <1>4, <1>5 DEF CanVisit, Departs
<1>7. b \in Nat /\ \E s \in w : s.open <= b /\ b + v <= s.close
  BY <1>1, <1>2, <1>4, <1>5, <1>6, BeginsIs
<1>8. PICK s \in w : b + v <= s.close
  BY <1>7
<1>9. w = ParseTimeWindow(problem.docs[c])
  <2>1. w = IF problem.docs[c].located THEN ParseTimeWindow(problem.docs[c]) ELSE {}
    BY <1>2 DEF IInv, WindowsInv
  <2> QED
    BY <1>8, <2>1
<1>10. w \subseteq Segments
  BY <1>1, <1>2 DEF Given
<1>11. PICK top \in Int : Separate(w) /\ Within(w, top)
  BY <1>1, <1>9, SegmentsApart
<1>12. Deadline(w) \in Int /\ s.close <= Deadline(w)
  BY <1>10, <1>11, DeadlineIs
<1>13. s.close \in Int
  BY <1>10 DEF Segments
<1> QED
  BY <1>2, <1>6, <1>7, <1>8, <1>12, <1>13

(* Unless no place can be visited, one of them is next.                    *)
LEMMA OneIsNext ==
  ASSUME IInv, pc \in {"grow", "close"}, NEW c \in Unvisited, CanVisit(c)
  PROVE  NextNodes # {}
<1>1. Given /\ Unvisited \subseteq Places
  BY GrowFacts DEF Unvisited
<1>2. PICK open : open = {o \in Unvisited : CanVisit(o)}
  OBVIOUS
<1>3. open # {} /\ open \subseteq Places
  BY <1>1, <1>2
<1>4. \A o \in open : Deadline(window[o]) \in Nat
  BY <1>2, <1>3, DepartsByDeadline
<1>5. \A o \in open : Leg(Last(route), o) \in Nat
  BY <1>1, <1>2, RequestFacts DEF CanVisit
<1>6. PICK Deadlines : Deadlines = {Deadline(window[o]) : o \in open}
  OBVIOUS
<1>7. Deadlines \subseteq Nat /\ Deadlines # {}
  BY <1>3, <1>4, <1>6
<1>8. PICK first \in Deadlines : \A d \in Deadlines : first <= d
  BY <1>7, LeastElement
<1>9. PICK Firsts : Firsts = {o \in open : Deadline(window[o]) = first}
  OBVIOUS
<1>10. PICK Legs : Legs = {Leg(Last(route), o) : o \in Firsts}
  OBVIOUS
<1>11. Legs \subseteq Nat /\ Legs # {}
  BY <1>5, <1>6, <1>9, <1>10
<1>12. PICK least \in Legs : \A l \in Legs : least <= l
  BY <1>11, LeastElement
<1>13. PICK n \in Firsts : Leg(Last(route), n) = least
  BY <1>10
<1>14. ASSUME NEW o \in open
       PROVE  \/ Deadline(window[n]) < Deadline(window[o])
              \/ /\ Deadline(window[n]) = Deadline(window[o])
                 /\ Leg(Last(route), n) <= Leg(Last(route), o)
  <2>1. Deadline(window[n]) = first /\ first \in Nat
    BY <1>7, <1>9
  <2>2. first <= Deadline(window[o]) /\ Deadline(window[o]) \in Nat
    BY <1>4, <1>6, <1>8
  <2>3. CASE Deadline(window[o]) = first
    <3>1. Leg(Last(route), o) \in Legs
      BY <1>9, <1>10, <2>3
    <3> QED
      BY <1>12, <1>13, <2>1, <2>3, <3>1
  <2>4. CASE Deadline(window[o]) # first
    BY <2>1, <2>2, <2>4
  <2> QED
    BY <2>3, <2>4
<1>15. n \in NextNodes
  BY <1>2, <1>9, <1>14 DEF NextNodes
<1> QED
  BY <1>15

(* What the search may have missed when it gives up.                       *)
NothingFits ==
  \A c \in Unvisited :
    Deadline(window[c]) <= problem.day_end \/ problem.end_anchor =>
      ~(CanVisit(c) /\ Departs(c) <= problem.day_end)

LEMMA SameOffers ==
  ASSUME UNCHANGED given, route' = route, clock' = clock, candidates' = candidates
  PROVE  NothingFits' <=> NothingFits
<1>1. problem' = problem /\ window' = window
  BY DEF given
<1>2. Unvisited' = Unvisited
  BY DEF Unvisited
<1>3. \A c : Departs(c)' = Departs(c)
  <2>1. ASSUME NEW c PROVE Departs(c)' = Departs(c)
    BY SameLegs DEF Departs
  <2> QED
    BY <2>1
<1>4. \A c : CanVisit(c)' <=> CanVisit(c)
  <2>1. ASSUME NEW c PROVE CanVisit(c)' <=> CanVisit(c)
    BY <1>1, <1>3, SameLegs DEF CanVisit
  <2> QED
    BY <2>1
<1> QED
  BY <1>1, <1>2, <1>3, <1>4 DEF NothingFits

(* The search gives up only when nothing fits.                             *)
LEMMA GivesUpStep ==
  ASSUME IInv, StopsWhenNothingFits, [Next]_vars
  PROVE  StopsWhenNothingFits'
<1>0. (StopsWhenNothingFits' <=> (pc' = "close" => NothingFits'))
      /\ (StopsWhenNothingFits <=> (pc = "close" => NothingFits))
  BY DEF StopsWhenNothingFits, NothingFits
<1> SUFFICES ASSUME pc' = "close" PROVE NothingFits'
  BY <1>0
<1>1. CASE Extend
  <2>1. pc = "grow" /\ UNCHANGED given /\ candidates' = candidates
    BY <1>1 DEF Extend
  <2>2. PICK c \in NextNodes :
          Departs(c) > problem.day_end /\ route' = route /\ clock' = clock
    BY <1>1, <2>1 DEF Extend
  <2>3. Given /\ Unvisited \subseteq Places
    BY <2>1, GrowFacts DEF Unvisited
  <2>4. c \in Unvisited /\ CanVisit(c) /\ c \in Places
    BY <2>2, <2>3 DEF NextNodes
  <2>5. /\ Departs(c) \in Nat /\ Deadline(window[c]) \in Nat
        /\ Departs(c) <= Deadline(window[c])
    BY <2>1, <2>4, DepartsByDeadline
  <2>6. problem.day_end \in Nat
    BY <2>3, RequestFacts
  <2>7. ASSUME NEW o \in Unvisited, CanVisit(o),
               Deadline(window[o]) <= problem.day_end \/ problem.end_anchor
        PROVE  FALSE
    <3>1. CASE problem.end_anchor
      <4>1. Leg(c, End) # Never /\ Departs(c) + Leg(c, End) <= problem.day_end
        BY <2>4, <3>1 DEF CanVisit
      <4>2. Leg(c, End) \in Nat
        BY <2>3, <4>1, RequestFacts
      <4> QED
        BY <2>2, <2>5, <2>6, <4>1, <4>2
    <3>2. CASE Deadline(window[o]) <= problem.day_end
      <4>1. Deadline(window[o]) \in Nat
        BY <2>1, <2>3, <2>7, DepartsByDeadline
      <4>2. Deadline(window[c]) <= Deadline(window[o])
        <5>1. \/ Deadline(window[c]) < Deadline(window[o])
              \/ Deadline(window[c]) = Deadline(window[o])
          BY <2>2, <2>7 DEF NextNodes
        <5> QED
          BY <2>5, <4>1, <5>1
      <4> QED
        BY <2>2, <2>5, <2>6, <3>2, <4>1, <4>2
    <3> QED
      BY <2>7, <3>1, <3>2
  <2>8. NothingFits
    BY <2>7 DEF NothingFits
  <2> QED
    BY <2>1, <2>2, <2>8, SameOffers
<1>2. CASE NothingMore
  <2>1. /\ pc = "grow" /\ UNCHANGED given /\ NextNodes = {}
        /\ candidates' = candidates /\ route' = route /\ clock' = clock
    BY <1>2 DEF NothingMore
  <2>2. \A c \in Unvisited : ~CanVisit(c)
    BY <2>1, OneIsNext
  <2> QED
    BY <2>1, <2>2, SameOffers DEF NothingFits
<1>3. CASE UNCHANGED vars
  <2>1. /\ UNCHANGED given /\ pc' = pc
        /\ candidates' = candidates /\ route' = route /\ clock' = clock
    BY <1>3 DEF vars, given
  <2> QED
    BY <1>0, <2>1, SameOffers
<1>4. CASE Filter \/ GetMatrix \/ BeginTier \/ TiersExhausted \/ BeginStart
  BY <1>4 DEF Filter, GetMatrix, BeginTier, TiersExhausted, BeginStart, Settle
<1>5. CASE EndStart \/ EndTier \/ Swap \/ Finish
  BY <1>5 DEF EndStart, EndTier, Swap, Finish, Settle
<1> QED
  BY <1>1, <1>2, <1>3, <1>4, <1>5 DEF Next

(* The search of nn_from_start() misses no place whose deadline is within  *)
(* the day, and with an end location no place at all.                      *)
THEOREM SearchGivesUpRightly == Spec => []StopsWhenNothingFits
<1>1. Init => StopsWhenNothingFits
  BY DEF Init, StopsWhenNothingFits
<1>2. IInv /\ StopsWhenNothingFits /\ [Next]_vars => StopsWhenNothingFits'
  BY GivesUpStep
<1> QED
  BY <1>1, <1>2, Invariant, PTL DEF Spec
=============================================================================
