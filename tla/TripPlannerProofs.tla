------------------------- MODULE TripPlannerProofs -------------------------
(***************************************************************************)
(* Theorems about TripPlanner, for any number of days and places and any   *)
(* valid request.                                                          *)
(*                                                                         *)
(* The calls of optimize_route depend on the request alone, so their       *)
(* invariant (IInv) says nothing of the places: a call is of a side its    *)
(* day has (Progress), fits OptimizeRequest (ValidCall) and keeps the      *)
(* anchors of its day (Anchored).  Where the places are is PlacesInv, what *)
(* has become of them OutcomeInv, which needs PlacesInv.                   *)
(*                                                                         *)
(* Sums and maxima over sets of any size rest on LeastElement: the library *)
(* states induction with an operator as a parameter, but from its          *)
(* well-founded order of the natural numbers each proof can look at the    *)
(* least counterexample to the fact at hand.                               *)
(***************************************************************************)
EXTENDS TripPlanner, FiniteSetTheorems, WellFoundedInduction, TLAPS

Progress ==
  /\ problem \in Problems
  /\ now.day \in Days /\ now.side \in Sides => now.side \in SidesOf(now.day)

ValidCall(q) ==
  /\ q.places # {}
  /\ q.end_time # 0
  /\ ~(q.end_hour = 24 /\ q.end_time # None)
  /\ Bound(q.start_hour, q.start_time) < Bound(q.end_hour, q.end_time)

(* What DaysConnect needs of a call when no location was given explicitly. *)
Anchored(q) ==
  /\ q.day \in Days
  /\ q.side # "ORIGIN" /\ q.end_at # None =>
       q.end_at = (CHOOSE s \in StayOf(q.day).end : TRUE).at
  /\ q.side # "DESTINATION" /\ q.start_at # None =>
       q.start_at = (CHOOSE s \in StayOf(q.day).start : TRUE).at

GoodCall(q) == ValidCall(q) /\ (~Explicit => Anchored(q))

IInv ==
  /\ Progress
  /\ \E S : requests \in Seq(S)
  /\ \A i \in 1..Len(requests) : GoodCall(requests[i])

-----------------------------------------------------------------------------
(* The induction this module rests on: a set of natural numbers that is    *)
(* not empty has a least element, so a least counterexample is refuted.    *)
LEMMA LeastElement ==
  ASSUME NEW S, S \subseteq Nat, S # {}
  PROVE  \E n \in S : \A m \in S : n <= m
<1> DEFINE R == {ss \in Nat \X Nat : ss[1] < ss[2]}
<1>1. IsWellFoundedOn(R, Nat)
  BY NatLessThanWellFounded, Zenon DEF OpToRel
<1>2. \A x, y \in Nat : <<y, x>> \notin R => x <= y
  OBVIOUS
<1> HIDE DEF R
<1>3. \E x \in S : \A y \in S : ~(<<y, x>> \in R)
  BY <1>1, WFMin
<1>4. QED
  BY <1>2, <1>3

(* The element that a fold takes out of a set.                             *)
AnyOf(s) == CHOOSE x \in s : TRUE

(* The element taken out is one of the set.                                *)
LEMMA AnyOfIn == \A s : s # {} => AnyOf(s) \in s
BY DEF AnyOf

(* g adds up f on the sets of T, one element at a time.                    *)
AddsOn(g, f, T) == g = [s \in T |-> IF s = {} THEN 0 ELSE f[AnyOf(s)] + g[s \ {AnyOf(s)}]]

(* On all the subsets of S.                                                *)
Adds(g, f, S) == AddsOn(g, f, SUBSET S)

(* The fold of the library is the one that takes elements out one by one.  *)
LEMMA SumIsSum ==
  ASSUME NEW f, NEW S
  PROVE  SumFunctionOnSet(f, S) = (CHOOSE g : Adds(g, f, S))[S]
BY DEF SumFunctionOnSet, FoldFunctionOnSet, MapThenFoldSet, Adds, AddsOn, AnyOf

(* There is such a function: first on the sets of at most n elements.      *)
LEMMA SumExists ==
  ASSUME NEW f, NEW S, IsFiniteSet(S)
  PROVE  \E g : Adds(g, f, S)
<1> DEFINE Dom(n) == {s \in SUBSET S : Cardinality(s) <= n}
           Good(n) == \E g : AddsOn(g, f, Dom(n))
           Bad == {n \in Nat : ~Good(n)}
<1>1. \A s \in SUBSET S : IsFiniteSet(s) /\ Cardinality(s) \in Nat
  BY FS_Subset, FS_CardinalityType
<1>2. Good(0)
  <2>1. \A s \in Dom(0) : s = {}
    BY <1>1, FS_EmptySet
  <2> DEFINE g == [s \in Dom(0) |-> 0]
  <2> HIDE DEF Dom
  <2>2. g = [s \in Dom(0) |-> IF s = {} THEN 0 ELSE f[AnyOf(s)] + g[s \ {AnyOf(s)}]]
    BY <2>1
  <2>3. QED
    BY <2>2 DEF AddsOn
<1>3. ASSUME NEW n \in Nat, Good(n)
      PROVE  Good(n + 1)
  <2>1. PICK g : AddsOn(g, f, Dom(n))
    BY <1>3
  <2> DEFINE h == [s \in Dom(n+1) |-> IF s = {} THEN 0 ELSE f[AnyOf(s)] + g[s \ {AnyOf(s)}]]
  <2>2. ASSUME NEW s \in Dom(n+1), s # {}
        PROVE  s \ {AnyOf(s)} \in Dom(n)
    <3>1. AnyOf(s) \in s /\ IsFiniteSet(s) /\ Cardinality(s) \in Nat
      BY <2>2, AnyOfIn, <1>1
    <3>2. Cardinality(s \ {AnyOf(s)}) = Cardinality(s) - 1
      BY <3>1, FS_RemoveElement
    <3>3. QED
      BY <3>1, <3>2
  <2>3. \A s \in Dom(n) : s \in Dom(n+1)
    BY <1>1
  <2> HIDE DEF Dom
  <2>4. \A s \in Dom(n) : h[s] = g[s]
    BY <2>1, <2>3 DEF AddsOn
  <2>5. h = [s \in Dom(n+1) |-> IF s = {} THEN 0 ELSE f[AnyOf(s)] + h[s \ {AnyOf(s)}]]
    BY <2>2, <2>4
  <2>6. QED
    BY <2>5 DEF AddsOn
<1> HIDE DEF Good
<1>4. Bad = {}
  <2>1. SUFFICES ASSUME Bad # {} PROVE FALSE
    OBVIOUS
  <2>2. PICK n \in Bad : \A m \in Bad : n <= m
    BY <2>1, LeastElement
  <2>3. n # 0
    BY <1>2
  <2>4. n - 1 \in Nat /\ Good(n - 1)
    BY <2>2, <2>3
  <2>5. QED
    BY <2>4, <1>3
<1>5. Good(Cardinality(S))
  BY <1>1, <1>4
<1>6. Dom(Cardinality(S)) = SUBSET S
  BY <1>1, FS_Subset
<1>7. QED
  BY <1>5, <1>6 DEF Good, Adds

(* The sums over the subsets of a set and over those of a smaller one are  *)
(* the same where both are defined.                                        *)
LEMMA SumAgrees ==
  ASSUME NEW f, NEW S, IsFiniteSet(S), NEW T, T \subseteq S,
         NEW g, Adds(g, f, S), NEW h, Adds(h, f, T)
  PROVE  g[T] = h[T]
<1> DEFINE Bad == {n \in Nat : \E s \in SUBSET T : Cardinality(s) = n /\ g[s] # h[s]}
<1>1. \A s \in SUBSET T : IsFiniteSet(s) /\ Cardinality(s) \in Nat
  BY FS_Subset, FS_CardinalityType
<1>2. Bad = {}
  <2>1. SUFFICES ASSUME Bad # {} PROVE FALSE
    OBVIOUS
  <2>2. PICK n \in Bad : \A m \in Bad : n <= m
    BY <2>1, LeastElement
  <2>3. PICK s \in SUBSET T : Cardinality(s) = n /\ g[s] # h[s]
    BY <2>2
  <2>4. s # {}
    BY <2>3 DEF Adds, AddsOn
  <2>5. AnyOf(s) \in s
    BY <2>4, AnyOfIn
  <2> DEFINE t == s \ {AnyOf(s)}
  <2>6. t \in SUBSET T /\ Cardinality(t) = n - 1 /\ Cardinality(t) \in Nat
    BY <1>1, <2>3, <2>5, FS_RemoveElement
  <2>7. g[t] = h[t]
    <3>1. n - 1 \notin Bad
      BY <2>2, <2>6
    <3>2. QED
      BY <2>6, <3>1
  <2>8. g[s] = f[AnyOf(s)] + g[t]
    BY <2>4 DEF Adds, AddsOn
  <2>9. h[s] = f[AnyOf(s)] + h[t]
    BY <2>4 DEF Adds, AddsOn
  <2>10. QED
    BY <2>3, <2>7, <2>8, <2>9
<1>3. QED
  BY <1>1, <1>2

(* So a sum over a part of a set is a value of the function for the set.   *)
LEMMA SumRestrict ==
  ASSUME NEW f, NEW S, IsFiniteSet(S), NEW T, T \subseteq S
  PROVE  \A g : Adds(g, f, S) => g[T] = SumFunctionOnSet(f, T)
<1>1. IsFiniteSet(T)
  BY FS_Subset
<1>2. \E h : Adds(h, f, T) /\ SumFunctionOnSet(f, T) = h[T]
  BY <1>1, SumExists, SumIsSum
<1>3. \A g, h : Adds(g, f, S) /\ Adds(h, f, T) => g[T] = h[T]
  BY SumAgrees
<1>4. QED
  BY <1>2, <1>3

(* A sum is that of one element, the one CHOOSE names, and of the others.  *)
LEMMA SumStep ==
  ASSUME NEW f, NEW S, IsFiniteSet(S), S # {}
  PROVE  SumFunctionOnSet(f, S) = f[AnyOf(S)] + SumFunctionOnSet(f, S \ {AnyOf(S)})
<1>1. PICK g : Adds(g, f, S)
  BY SumExists
<1>2. PICK T : T = S \ {AnyOf(S)}
  OBVIOUS
<1>3. T \subseteq S
  BY <1>2
<1>4. g[T] = SumFunctionOnSet(f, T) /\ g[S] = SumFunctionOnSet(f, S)
  BY <1>1, <1>3, SumRestrict
<1>5. g[S] = f[AnyOf(S)] + g[T]
  BY <1>1, <1>2 DEF Adds, AddsOn
<1>6. QED
  BY <1>2, <1>4, <1>5

(* Nothing adds up to nothing.                                             *)
LEMMA SumEmpty ==
  ASSUME NEW f
  PROVE  SumFunctionOnSet(f, {}) = 0
<1> DEFINE g == CHOOSE x : Adds(x, f, {})
<1>1. Adds(g, f, {})
  BY SumExists, FS_EmptySet
<1> HIDE DEF g
<1>2. g[{}] = 0
  BY <1>1 DEF Adds, AddsOn
<1>3. QED
  BY <1>2, SumIsSum DEF g

(* A sum is that of any one of the elements and of the others.             *)
LEMMA SumAdd ==
  ASSUME NEW Dom, NEW f \in [Dom -> Int], NEW S \in SUBSET Dom, IsFiniteSet(S)
  PROVE  /\ SumFunctionOnSet(f, S) \in Int
         /\ \A x \in S : SumFunctionOnSet(f, S) = f[x] + SumFunctionOnSet(f, S \ {x})
<1> DEFINE Sum(s) == SumFunctionOnSet(f, s)
           Good(s) == Sum(s) \in Int /\ \A x \in s : Sum(s) = f[x] + Sum(s \ {x})
           Bad == {n \in Nat : \E s \in SUBSET S : Cardinality(s) = n /\ ~Good(s)}
<1>0. \A s : IsFiniteSet(s) /\ s # {} => Sum(s) = f[AnyOf(s)] + Sum(s \ {AnyOf(s)})
  BY SumStep
<1>e. Sum({}) = 0
  BY SumEmpty
<1> HIDE DEF Sum
<1>1. \A s \in SUBSET S : IsFiniteSet(s) /\ Cardinality(s) \in Nat
  BY FS_Subset, FS_CardinalityType
<1>2. Bad = {}
  <2>1. SUFFICES ASSUME Bad # {} PROVE FALSE
    OBVIOUS
  <2>2. PICK n \in Bad : \A m \in Bad : n <= m
    BY <2>1, LeastElement
  <2>3. PICK s \in SUBSET S : Cardinality(s) = n /\ ~Good(s)
    BY <2>2
  <2>4. s # {} /\ IsFiniteSet(s)
    <3>1. Good({})
      BY <1>e
    <3>2. QED
      BY <2>3, <3>1, <1>1
  <2> DEFINE a == AnyOf(s)
  <2>5. a \in s
    BY <2>4, AnyOfIn
  <2> HIDE DEF a
  <2>6. \A x \in s : Good(s \ {x})
    <3>1. TAKE x \in s
    <3>2. s \ {x} \in SUBSET S /\ Cardinality(s \ {x}) = n - 1 /\ Cardinality(s \ {x}) \in Nat
      BY <1>1, <2>3, <2>4, FS_RemoveElement
    <3> HIDE DEF Good
    <3>3. QED
      BY <3>2, <2>2
  <2>7. Sum(s) = f[a] + Sum(s \ {a})
    BY <1>0, <2>4 DEF a
  <2>8. \A x \in s : f[x] \in Int
    OBVIOUS
  <2>9. Sum(s) \in Int
    BY <2>5, <2>6, <2>7, <2>8
  <2>10. ASSUME NEW x \in s, x # a
        PROVE  Sum(s) = f[x] + Sum(s \ {x})
    <3>1. PICK t : t = s \ {x}
      OBVIOUS
    <3>2. PICK u : u = t \ {a}
      OBVIOUS
    <3>3. Sum(s \ {a}) = f[x] + Sum((s \ {a}) \ {x})
      BY <2>5, <2>6, <2>10
    <3>4. Sum(t) = f[a] + Sum(u)
      BY <2>5, <2>6, <2>10, <3>1, <3>2
    <3>5. (s \ {a}) \ {x} = u
      BY <3>1, <3>2
    <3>6. u \in SUBSET S /\ Cardinality(u) < n
      <4>1. t \in SUBSET S /\ IsFiniteSet(t) /\ Cardinality(t) = n - 1
        BY <1>1, <2>3, <2>4, <3>1, FS_RemoveElement
      <4>2. a \in t
        BY <2>5, <2>10, <3>1
      <4>3. Cardinality(t \ {a}) = Cardinality(t) - 1
        BY <4>1, <4>2, FS_RemoveElement
      <4>4. QED
        BY <4>1, <4>3, <3>2
    <3>7. Sum(u) \in Int
      <4>1. Cardinality(u) \in Nat
        BY <1>1, <3>6
      <4> HIDE DEF Good
      <4>2. Good(u)
        BY <2>2, <3>6, <4>1
      <4>3. QED
        BY <4>2 DEF Good
    <3>8. f[a] \in Int /\ f[x] \in Int
      BY <2>5, <2>8
    <3>9. Sum(s) = f[a] + Sum(s \ {a})
      BY <2>7
    <3> HIDE DEF Good
    <3>10. Sum(s) = f[a] + (f[x] + Sum(u)) /\ Sum(s \ {x}) = f[a] + Sum(u)
      BY <3>1, <3>3, <3>4, <3>5, <3>9
    <3>11. QED
      BY <3>7, <3>8, <3>10
  <2>11. QED
    BY <2>3, <2>7, <2>9, <2>10
<1>3. Good(S)
  <2> HIDE DEF Good
  <2>1. QED
    BY <1>1, <1>2
<1>4. QED
  BY <1>3 DEF Sum

(* One element more adds its value.                                        *)
LEMMA SumOneMore ==
  ASSUME NEW X, NEW f \in [X -> Int], NEW S \in SUBSET X, IsFiniteSet(S),
         NEW x \in X, x \notin S
  PROVE  SumFunctionOnSet(f, S \cup {x}) = SumFunctionOnSet(f, S) + f[x]
<1>1. PICK T : T = S \cup {x}
  OBVIOUS
<1>2. T \in SUBSET X /\ IsFiniteSet(T) /\ T \ {x} = S
  BY <1>1, FS_AddElement
<1>3. SumFunctionOnSet(f, T) = f[x] + SumFunctionOnSet(f, S)
  BY <1>1, <1>2, SumAdd
<1>4. SumFunctionOnSet(f, S) \in Int /\ f[x] \in Int
  BY SumAdd
<1>5. QED
  BY <1>1, <1>3, <1>4

(* Of a finite number of things one has the greatest first measure, and of *)
(* those that have it the least second one.                                *)
LEMMA FiniteBest ==
  ASSUME NEW S, IsFiniteSet(S), S # {},
         NEW f \in [S -> Int], NEW g \in [S -> Int]
  PROVE  \E x \in S : \A y \in S : f[y] < f[x] \/ (f[y] = f[x] /\ g[x] <= g[y])
<1> DEFINE Best(T, x) == \A y \in T : f[y] < f[x] \/ (f[y] = f[x] /\ g[x] <= g[y])
           Bad == {n \in Nat : \E T \in SUBSET S :
                     T # {} /\ Cardinality(T) = n /\ ~(\E x \in T : Best(T, x))}
<1>1. \A T \in SUBSET S : IsFiniteSet(T) /\ Cardinality(T) \in Nat
  BY FS_Subset, FS_CardinalityType
<1>2. Bad = {}
  <2>1. SUFFICES ASSUME Bad # {} PROVE FALSE
    OBVIOUS
  <2>2. PICK n \in Bad : \A m \in Bad : n <= m
    BY <2>1, LeastElement
  <2>3. PICK T \in SUBSET S : T # {} /\ Cardinality(T) = n /\ ~(\E x \in T : Best(T, x))
    BY <2>2
  <2>4. PICK a \in T : TRUE
    BY <2>3
  <2>5. PICK U : U = T \ {a}
    OBVIOUS
  <2>6. U \in SUBSET S /\ Cardinality(U) \in Nat /\ Cardinality(U) < n
    BY <1>1, <2>3, <2>4, <2>5, FS_RemoveElement
  <2>7. CASE U = {}
    <3>1. \A y \in T : y = a
      BY <2>5, <2>7
    <3>2. Best(T, a)
      BY <3>1
    <3>3. QED
      BY <2>3, <3>2
  <2>8. CASE U # {}
    <3>1. \E x \in U : Best(U, x)
      <4> HIDE DEF Best
      <4>1. Cardinality(U) \notin Bad
        BY <2>2, <2>6
      <4>2. QED
        BY <2>6, <2>8, <4>1
    <3>2. PICK x \in U : Best(U, x)
      BY <3>1
    <3>3. f[a] \in Int /\ f[x] \in Int /\ g[a] \in Int /\ g[x] \in Int
      BY <2>5
    <3>4. \A y \in U : f[y] \in Int /\ g[y] \in Int
      BY <2>6
    <3>5. \A y \in T : y \in U \/ y = a
      BY <2>5
    <3>6. CASE f[x] < f[a] \/ (f[x] = f[a] /\ g[a] <= g[x])
      <4>1. Best(T, a)
        BY <3>2, <3>3, <3>4, <3>5, <3>6
      <4>2. QED
        BY <2>3, <4>1
    <3>7. CASE ~(f[x] < f[a] \/ (f[x] = f[a] /\ g[a] <= g[x]))
      <4>1. f[a] < f[x] \/ (f[a] = f[x] /\ g[x] <= g[a])
        BY <3>3, <3>7
      <4>2. Best(T, x)
        BY <3>2, <3>5, <4>1
      <4>3. QED
        BY <2>3, <2>5, <4>2
    <3>8. QED
      BY <3>6, <3>7
  <2>9. QED
    BY <2>7, <2>8
<1>3. QED
  BY <1>1, <1>2

-----------------------------------------------------------------------------
(* Max of two and Min of three integers, which CHOOSE leaves to a proof.   *)
LEMMA MaxOfTwo ==
  ASSUME NEW a \in Int, NEW b \in Int
  PROVE  Max({a, b}) \in Int /\ Max({a, b}) >= a /\ Max({a, b}) >= b /\ Max({a, b}) \in {a, b}
<1>1. \E x \in {a, b} : \A y \in {a, b} : x >= y
  <2>1. CASE a >= b
    BY <2>1
  <2>2. CASE b >= a
    BY <2>2
  <2>3. QED
    BY <2>1, <2>2
<1>2. QED
  BY <1>1 DEF Max

LEMMA MaxOfThree ==
  ASSUME NEW a \in Int, NEW b \in Int, NEW c \in Int
  PROVE  LET m == Max({a, b, c})
         IN m \in {a, b, c} /\ m >= a /\ m >= b /\ m >= c
<1>1. \E x \in {a, b, c} : \A y \in {a, b, c} : x >= y
  <2>1. CASE a >= b /\ a >= c
    BY <2>1
  <2>2. CASE b >= a /\ b >= c
    BY <2>2
  <2>3. CASE c >= a /\ c >= b
    BY <2>3
  <2>4. QED
    BY <2>1, <2>2, <2>3
<1>2. QED
  BY <1>1 DEF Max

LEMMA MinOfThree ==
  ASSUME NEW a \in Int, NEW b \in Int, NEW c \in Int
  PROVE  LET m == Min({a, b, c})
         IN m \in {a, b, c} /\ m <= a /\ m <= b /\ m <= c
<1>1. \E x \in {a, b, c} : \A y \in {a, b, c} : x <= y
  <2>1. CASE a <= b /\ a <= c
    BY <2>1
  <2>2. CASE b <= a /\ b <= c
    BY <2>2
  <2>3. CASE c <= a /\ c <= b
    BY <2>3
  <2>4. QED
    BY <2>1, <2>2, <2>3
<1>2. QED
  BY <1>1 DEF Min

-----------------------------------------------------------------------------
(* A day begins at an hour of the clock and ends after that, by midnight.  *)
LEMMA DayHours ==
  ASSUME problem \in Problems, NEW d \in Days
  PROVE  /\ Cfg(d).start_hour \in 0..23 /\ Cfg(d).start_time \in 0..23 \cup {None}
         /\ Cfg(d).end_hour \in 1..24 /\ Cfg(d).end_time \in 1..23 \cup {None}
         /\ Cfg(d).end_hour = 24 => Cfg(d).end_time = None
         /\ DayStart(d) \in 0..23 /\ DayEnd(d) \in 1..24 /\ DayStart(d) < DayEnd(d)
<1>1. ValidDay(Cfg(d))
  BY ProblemsAssumption DEF ValidRequest, Cfg
<1>2. QED
  BY <1>1, NoneAssumption DEF ValidDay, Bound, DayStart, DayEnd

(* The times of a transfer and of the two stays it is between.             *)
LEMMA TransferHours ==
  ASSUME problem \in Problems, NEW d \in Days, HasContext(d)
  PROVE  /\ problem.transfers[d].departure \in 0..23 /\ problem.transfers[d].arrival \in 0..23
         /\ Bound(problem.transfers[d].departure, Origin(d).check_out_by) \in 0..23
         /\ Bound(DayStart(d), Destination(d).check_in_from) \in 0..23
<1>1. ValidTransfer(problem.transfers[d]) /\ ValidStays(problem.stays)
  BY ProblemsAssumption DEF ValidRequest, HasContext
<1>2. Origin(d) \in problem.stays /\ Destination(d) \in problem.stays
  <2>1. StayOf(d).start # {} /\ StayOf(d).end # {}
    BY DEF HasContext, ChangesStay
  <2>2. Origin(d) \in StayOf(d).start /\ Destination(d) \in StayOf(d).end
    BY <2>1 DEF Origin, Destination
  <2>3. QED
    BY <2>2 DEF StayOf
<1>3. DayStart(d) \in 0..23
  BY DayHours
<1>4. QED
  BY <1>1, <1>2, <1>3 DEF ValidTransfer, ValidStays, Bound

(* A side with a budget has a window that lies within the day.             *)
LEMMA Windows ==
  ASSUME problem \in Problems, NEW d \in Days, HasContext(d)
  PROVE  /\ Budget(d, "ORIGIN") \in Int /\ Budget(d, "DESTINATION") \in Int
         /\ Budget(d, "ORIGIN") > 0 => PreEnd(d) \in 1..23 /\ DayStart(d) < PreEnd(d)
         /\ Budget(d, "DESTINATION") > 0 => PostStart(d) \in 0..23 /\ PostStart(d) < DayEnd(d)
<1>1. DayStart(d) \in 0..23 /\ DayEnd(d) \in 1..24
  BY DayHours
<1>2. PreEnd(d) \in Int /\ PreEnd(d) <= 23
  <2> DEFINE a == problem.transfers[d].departure
             c == Bound(problem.transfers[d].departure, Origin(d).check_out_by)
  <2>1. a \in 0..23 /\ c \in 0..23
    BY TransferHours
  <2>2. PreEnd(d) = Min({a, DayEnd(d), c})
    BY DEF PreEnd
  <2> HIDE DEF a, c
  <2>3. a \in Int /\ DayEnd(d) \in Int /\ c \in Int
    BY <1>1, <2>1
  <2>4. Min({a, DayEnd(d), c}) \in {a, DayEnd(d), c} /\ Min({a, DayEnd(d), c}) <= a
    BY <2>3, MinOfThree
  <2>5. QED
    BY <1>1, <2>1, <2>2, <2>4
<1>3. PostStart(d) \in 0..23
  <2> DEFINE a == problem.transfers[d].arrival
             c == Bound(DayStart(d), Destination(d).check_in_from)
  <2>1. a \in 0..23 /\ c \in 0..23
    BY TransferHours
  <2>2. PostStart(d) = Max({a, DayStart(d), c})
    BY DEF PostStart
  <2> HIDE DEF a, c
  <2>3. a \in Int /\ DayStart(d) \in Int /\ c \in Int
    BY <1>1, <2>1
  <2>4. Max({a, DayStart(d), c}) \in {a, DayStart(d), c}
    BY <2>3, MaxOfThree
  <2>5. QED
    BY <1>1, <2>1, <2>2, <2>4
<1>4. Budget(d, "ORIGIN") = Max({0, PreEnd(d) - DayStart(d)})
  BY DEF Budget, Window
<1>5. Budget(d, "DESTINATION") = Max({0, DayEnd(d) - PostStart(d)})
  BY DEF Budget, Window
<1>6. PreEnd(d) - DayStart(d) \in Int /\ DayEnd(d) - PostStart(d) \in Int
  BY <1>1, <1>2, <1>3
<1>7. Budget(d, "ORIGIN") \in {0, PreEnd(d) - DayStart(d)}
  <2> DEFINE w == PreEnd(d) - DayStart(d)
  <2>1. w \in Int /\ 0 \in Int
    BY <1>6
  <2> HIDE DEF w
  <2>2. Max({0, w}) \in {0, w}
    BY <2>1, MaxOfTwo
  <2>3. QED
    BY <1>4, <2>2 DEF w
<1>8. Budget(d, "DESTINATION") \in {0, DayEnd(d) - PostStart(d)}
  <2> DEFINE w == DayEnd(d) - PostStart(d)
  <2>1. w \in Int /\ 0 \in Int
    BY <1>6
  <2> HIDE DEF w
  <2>2. Max({0, w}) \in {0, w}
    BY <2>1, MaxOfTwo
  <2>3. QED
    BY <1>5, <2>2 DEF w
<1>9. QED
  BY <1>1, <1>2, <1>3, <1>6, <1>7, <1>8

-----------------------------------------------------------------------------
(* A call the trip makes passes the validators of OptimizeRequest.         *)
LEMMA RequestIsValid ==
  ASSUME Progress, NEW d \in Days, NEW side \in Sides, Solving(d, side),
         bucket[d][side] # {},
         side \in {"ORIGIN", "DESTINATION"} => Budget(d, side) > 0
  PROVE  ValidCall(Request(d, side))
<1>1. problem \in Problems /\ side \in SidesOf(d)
  BY DEF Progress, Solving
<1>2. CASE side = "DAY"
  <2>1. Request(d, side) = DayRequest(d)
    BY <1>2 DEF Request
  <2>2. QED
    BY <1>1, <1>2, <2>1, DayHours, NoneAssumption
    DEF DayRequest, Call, OwnEnd, ValidCall, DayStart, DayEnd
<1>3. CASE side = "ORIGIN"
  <2>1. HasContext(d)
    BY <1>1, <1>3 DEF SidesOf
  <2>2. PreEnd(d) \in 1..23 /\ DayStart(d) < PreEnd(d)
    BY <1>1, <1>3, <2>1, Windows
  <2>3. EndBound(PreEnd(d)) = [hour |-> 23, time |-> PreEnd(d)]
    BY <2>2 DEF EndBound
  <2>4. Request(d, side) = PreRequest(d)
    BY <1>3 DEF Request
  <2>5. QED
    BY <1>3, <2>2, <2>3, <2>4, NoneAssumption DEF PreRequest, Call, ValidCall, DayStart, Bound
<1>4. CASE side = "DESTINATION"
  <2>1. HasContext(d)
    BY <1>1, <1>4 DEF SidesOf
  <2>2. PostStart(d) \in 0..23 /\ PostStart(d) < DayEnd(d)
    BY <1>1, <1>4, <2>1, Windows
  <2>3. PostStart(d) % 24 = PostStart(d) /\ PostStart(d) # None
    BY <2>2, NoneAssumption
  <2>4. Request(d, side) = PostRequest(d)
    BY <1>4 DEF Request
  <2>5. Cfg(d).end_time # 0 /\ (Cfg(d).end_hour = 24 => Cfg(d).end_time = None)
    BY <1>1, DayHours, NoneAssumption
  <2>6. QED
    BY <1>4, <2>2, <2>3, <2>4, <2>5 DEF PostRequest, Call, OwnEnd, ValidCall, DayEnd, Bound
<1>5. QED
  BY <1>2, <1>3, <1>4 DEF Sides

(* Its anchors are the stays the traveller comes from and goes to.         *)
LEMMA RequestIsAnchored ==
  ASSUME NEW d \in Days, NEW side \in Sides, ~Explicit
  PROVE  Anchored(Request(d, side))
<1>1. /\ problem.start_at = None /\ problem.end_at = None
      /\ Cfg(d).start_at = None /\ Cfg(d).end_at = None
  BY DEF Explicit
<1>2. CASE side = "DAY"
  <2>1. Request(d, side) = DayRequest(d)
    BY <1>2 DEF Request
  <2>2. QED
    BY <1>1, <2>1 DEF DayRequest, Call, Anchored, Anchor
<1>3. CASE side = "ORIGIN"
  <2>1. Request(d, side) = PreRequest(d)
    BY <1>3 DEF Request
  <2>2. QED
    BY <2>1 DEF PreRequest, Call, Anchored, Origin
<1>4. CASE side = "DESTINATION"
  <2>1. Request(d, side) = PostRequest(d)
    BY <1>4 DEF Request
  <2>2. QED
    BY <2>1 DEF PostRequest, Call, Anchored, Destination
<1>5. QED
  BY <1>2, <1>3, <1>4 DEF Sides

(* One more good call leaves the calls good.                               *)
LEMMA OneMoreCall ==
  ASSUME IInv, NEW q, GoodCall(q), requests' = Append(requests, q),
         problem' = problem
  PROVE  /\ (\E S : requests \in Seq(S))'
         /\ (\A i \in 1..Len(requests) : GoodCall(requests[i]))'
<1>1. PICK S : requests \in Seq(S)
  BY DEF IInv
<1>2. requests \in Seq(S \cup {q})
  BY <1>1
<1>3. /\ requests' \in Seq(S \cup {q}) /\ Len(requests') = Len(requests) + 1
      /\ \A i \in 1..Len(requests) : requests'[i] = requests[i]
      /\ requests'[Len(requests) + 1] = q
  BY <1>2
<1>4. \A i \in 1..Len(requests') : GoodCall(requests'[i])
  BY <1>1, <1>3 DEF IInv
<1>5. (\A i \in 1..Len(requests) : GoodCall(requests[i]))'
  BY <1>4 DEF GoodCall, ValidCall, Anchored, Explicit, StayOf, Cfg
<1>6. QED
  BY <1>3, <1>5

-----------------------------------------------------------------------------
(* No call is made yet, and the first part is one of the first day.       *)
LEMMA Initially == Init => IInv
<1>1. SUFFICES ASSUME Init PROVE IInv
  OBVIOUS
<1>2. FirstSide(1) \in SidesOf(1)
  BY DEF FirstSide, SidesOf
<1>3. Progress
  BY <1>1, <1>2 DEF Init, Progress
<1>4. requests = <<>>
  BY <1>1 DEF Init
<1>5. requests \in Seq({}) /\ Len(requests) = 0
  BY <1>4
<1>6. QED
  BY <1>3, <1>5 DEF IInv

(* The part solved next belongs to its day.                                *)
LEMMA NextPart ==
  ASSUME Progress, NEW d \in Days, NEW side \in Sides, Solving(d, side),
         now' = After(now), problem' = problem
  PROVE  Progress'
<1>1. now = [day |-> d, side |-> side] /\ D \in Nat
  BY CountAssumption DEF Solving
<1>2. CASE side = "ORIGIN"
  <2>1. now' = [day |-> d, side |-> "DESTINATION"] /\ HasContext(d)
    BY <1>1, <1>2 DEF After, Progress, SidesOf
  <2>2. "DESTINATION" \in SidesOf(d)
    BY <2>1 DEF SidesOf
  <2>3. QED
    BY <2>1, <2>2 DEF Progress, SidesOf, HasContext, ChangesStay, StayOf
<1>3. CASE side # "ORIGIN" /\ d < D
  <2>1. now' = [day |-> d + 1, side |-> FirstSide(d + 1)]
    BY <1>1, <1>3 DEF After
  <2>2. FirstSide(d + 1) \in SidesOf(d + 1)
    BY DEF FirstSide, SidesOf
  <2>3. QED
    BY <2>1, <2>2 DEF Progress, SidesOf, HasContext, ChangesStay, StayOf
<1>4. CASE side # "ORIGIN" /\ ~(d < D)
  <2>1. now'.side = "done"
    BY <1>1, <1>4 DEF After
  <2>2. QED
    BY <2>1 DEF Progress, Sides
<1>5. QED
  BY <1>2, <1>3, <1>4

(* A step that makes no call and does not move on.                         *)
LEMMA NothingCalled ==
  ASSUME IInv, UNCHANGED <<problem, now, requests>>
  PROVE  IInv'
BY DEF IInv, Progress, GoodCall, ValidCall, Anchored, Explicit, SidesOf, HasContext,
       ChangesStay, StayOf, Cfg

(* Every step of optimize_trip() keeps what its calls have in common.      *)
LEMMA Inductive == IInv /\ [Next]_vars => IInv'
<1>1. SUFFICES ASSUME IInv, [Next]_vars PROVE IInv'
  OBVIOUS
<1>2. CASE (\E p \in Places : PackPinned(p) \/ PackUnpinned(p)) \/ UNCHANGED vars
  <2>1. UNCHANGED <<problem, now, requests>>
    BY <1>2 DEF PackPinned, PackUnpinned, vars
  <2>2. QED
    BY <1>1, <2>1, NothingCalled
<1>3. ASSUME NEW d \in Days, NEW side \in Sides,
             Solve(d, side) \/ SolveFails(d, side)
      PROVE  IInv'
  <2>1. /\ Solving(d, side) /\ bucket[d][side] # {}
        /\ side \in {"ORIGIN", "DESTINATION"} => Budget(d, side) > 0
        /\ requests' = Append(requests, Request(d, side)) /\ problem' = problem
    BY <1>3 DEF Solve, SolveFails
  <2>2. GoodCall(Request(d, side))
    BY <1>1, <2>1, RequestIsValid, RequestIsAnchored DEF GoodCall, IInv
  <2>3. /\ (\E S : requests \in Seq(S))'
        /\ (\A i \in 1..Len(requests) : GoodCall(requests[i]))'
    BY <1>1, <2>1, <2>2, OneMoreCall
  <2>4. Progress'
    <3>1. CASE now' = After(now)
      BY <1>1, <2>1, <3>1, NextPart DEF IInv
    <3>2. CASE now' = [day |-> d, side |-> "failed"]
      BY <1>1, <2>1, <3>2 DEF IInv, Progress, Sides
    <3>3. QED
      BY <1>3, <3>1, <3>2 DEF Solve, SolveFails
  <2>5. QED
    BY <2>3, <2>4 DEF IInv
<1>4. ASSUME NEW d \in Days, NEW side \in Sides, NothingToSolve(d, side)
      PROVE  IInv'
  <2>1. Solving(d, side) /\ now' = After(now) /\ UNCHANGED <<problem, requests>>
    BY <1>4 DEF NothingToSolve
  <2>2. Progress'
    BY <1>1, <2>1, NextPart DEF IInv
  <2>3. (\A i \in 1..Len(requests) : GoodCall(requests[i]))'
    BY <1>1, <2>1 DEF IInv, GoodCall, ValidCall, Anchored, Explicit, StayOf, Cfg
  <2>4. QED
    BY <1>1, <2>1, <2>2, <2>3 DEF IInv
<1>5. QED
  BY <1>1, <1>2, <1>3, <1>4 DEF Next

-----------------------------------------------------------------------------
(* No day request the trip derives is turned down by the validators of     *)
(* OptimizeRequest, for any hours, stays and transfers that MultiDayRequest*)
(* lets through: optimize_trip() never fails on its own intermediate call. *)
THEOREM TripRequestsAreValid == Spec => []RequestsAreValid
<1>1. IInv => RequestsAreValid
  BY DEF IInv, GoodCall, ValidCall, RequestsAreValid
<1>2. QED
  BY Initially, Inductive, <1>1, PTL DEF Spec

(* The night of a day is the one the next day wakes up from.               *)
LEMMA SameNight ==
  ASSUME problem \in Problems, NEW d \in Days
  PROVE  StayOf(d + 1).start = StayOf(d).end
<1>1. \A s \in problem.stays : s.check_in \in Int /\ s.check_out \in Int
  BY ProblemsAssumption DEF ValidRequest, ValidStays
<1>2. \A s \in problem.stays :
        s.check_in < d + 1 /\ d + 1 <= s.check_out <=> s.check_in <= d /\ d < s.check_out
  BY <1>1 DEF Days
<1>3. QED
  BY <1>2 DEF StayOf

(* Without explicit locations a day starts where the day before ended, with*)
(* transfers or without, for any stays: resolve_day_anchors() names the    *)
(* same stay for both.                                                     *)
THEOREM TripDaysConnect == Spec => []DaysConnect
<1>1. IInv => DaysConnect
  <2>1. SUFFICES ASSUME IInv, ~Explicit,
                        NEW i \in 1..Len(requests), NEW j \in 1..Len(requests),
                        requests[j].day = requests[i].day + 1,
                        requests[i].side # "ORIGIN", requests[j].side # "DESTINATION",
                        requests[i].end_at # None, requests[j].start_at # None
                 PROVE  requests[i].end_at = requests[j].start_at
    BY DEF DaysConnect
  <2>2. Anchored(requests[i]) /\ Anchored(requests[j]) /\ problem \in Problems
    BY <2>1 DEF IInv, GoodCall, Progress
  <2>3. StayOf(requests[j].day).start = StayOf(requests[i].day).end
    BY <2>1, <2>2, SameNight DEF Anchored
  <2>4. QED
    BY <2>1, <2>2, <2>3 DEF Anchored
<1>2. QED
  BY Initially, Inductive, <1>1, PTL DEF Spec

-----------------------------------------------------------------------------
(* The places.  _partition_places() gives each of them one of three        *)
(* outcomes; what it does with one is stated here without the choice of    *)
(* the day.                                                                *)
Assigns(p, d, side) ==
  /\ Put(p, d, side) /\ side = Side(p, d)
  /\ Pref(p) # <<>> => d \in Preferred(p)
  /\ ~Pinned(p) => Admissible(p, d)
  /\ UNCHANGED <<turned, unassigned>>

SetsAside(p) ==
  Pinned(p) /\ turned' = turned \cup {p} /\ UNCHANGED <<bucket, unassigned>>

Rejects(p, reason) ==
  /\ unassigned' = [unassigned EXCEPT ![p] = reason]
  /\ \A d \in CandidateDays(p) : ~Admissible(p, d)
  /\ UNCHANGED <<bucket, turned>>

Reasons == {"NO_COORDINATES", "PRE_TRANSFER_CAPACITY_EXCEEDED", "CAPACITY_EXCEEDED"}

Packs(p) ==
  /\ p \in Places /\ Turn(p)
  /\ packed' = packed \cup {p}
  /\ UNCHANGED <<problem, now, requests, visited, left>>
  /\ \/ \E d \in Days, side \in Sides : Assigns(p, d, side)
     \/ SetsAside(p)
     \/ \E reason \in Reasons : Rejects(p, reason)

(* The places of a bucket are there by _transition_side() and by their     *)
(* preferences, and no place is in two of these.                           *)
Placed ==
  /\ packed \subseteq Places /\ turned \subseteq packed
  /\ bucket \in [Days -> [Sides -> SUBSET packed]]
  /\ unassigned \in [Places -> Reasons \cup {"none"}]
  /\ \A p \in Places : unassigned[p] # "none" => p \in packed

Kept ==
  \A d \in Days, s \in Sides : \A p \in bucket[d][s] :
    s = Side(p, d) /\ (Pref(p) # <<>> => d \in Preferred(p))

(* The pinned places come first.                                           *)
PinnedFirst ==
  (\E q \in packed : ~Pinned(q)) => \A p \in Places \ packed : ~Pinned(p)

Assigned(p) == \E d \in Days, s \in Sides : p \in bucket[d][s]

OneOutcome ==
  \A p \in Places :
    /\ \A d, e \in Days, s, t \in Sides :
         p \in bucket[d][s] /\ p \in bucket[e][t] => d = e /\ s = t
    /\ ~(Assigned(p) /\ p \in turned)
    /\ ~(Assigned(p) /\ unassigned[p] # "none")
    /\ ~(p \in turned /\ unassigned[p] # "none")
    /\ p \in packed => Assigned(p) \/ p \in turned \/ unassigned[p] # "none"

PlacesInv ==
  /\ problem \in Problems
  /\ Placed /\ Kept /\ PinnedFirst /\ OneOutcome
  /\ BudgetIsACeiling /\ UnassignedHadNoRoom


-----------------------------------------------------------------------------
(* What a valid request says of a place.                                   *)
LEMMA PlaceFacts ==
  ASSUME problem \in Problems, NEW p \in Places
  PROVE  /\ Pref(p) \in Seq(Days)
         /\ Doc(p).visit \in Nat \ {0} /\ Doc(p).priority \in 0..2
BY ProblemsAssumption DEF ValidRequest, ValidDoc, Pref, Doc

(* The days a place may go to are days of the trip, and of its preferences *)
(* when it has any.                                                        *)
LEMMA CandidateFacts ==
  ASSUME problem \in Problems, NEW p \in Places
  PROVE  /\ CandidateDays(p) \subseteq Days /\ CandidateDays(p) # {}
         /\ Pref(p) # <<>> => CandidateDays(p) \subseteq Preferred(p)
<1>1. OpenDays(p) \subseteq Days /\ OpenDays(p) # {}
  <2>1. Days # {}
    <3>1. 1 \in Days
      BY CountAssumption DEF Days
    <3>2. QED
      BY <3>1
  <2>2. QED
    BY <2>1 DEF OpenDays
<1>2. Preferred(p) \subseteq Days /\ (Pref(p) # <<>> => Preferred(p) # {})
  BY PlaceFacts DEF Preferred, ToSet
<1>3. QED
  BY <1>1, <1>2 DEF CandidateDays

(* A place on a transition day is on one of its two sides.                 *)
LEMMA SideFacts ==
  ASSUME NEW p, NEW d
  PROVE  /\ Side(p, d) \in Sides \cup {"NO_COORDINATES"}
         /\ Side(p, d) = "DAY" <=> ~HasContext(d)
<1>1. CASE ~HasContext(d)
  BY <1>1 DEF Side, Sides
<1>2. CASE HasContext(d) /\ Doc(p).at = None
  BY <1>2 DEF Side, Sides
<1>3. CASE HasContext(d) /\ Doc(p).at # None
  <2>1. Side(p, d) = IF Distance(Doc(p).at, Destination(d).at) < Distance(Doc(p).at, Origin(d).at)
                     THEN "DESTINATION" ELSE "ORIGIN"
    BY <1>3 DEF Side
  <2>2. Side(p, d) \in {"DESTINATION", "ORIGIN"}
    BY <2>1
  <2>3. QED
    BY <1>3, <2>2 DEF Sides
<1>4. QED
  BY <1>1, <1>2, <1>3

(* The lengths of the visits add up.                                       *)
LEMMA VisitFacts ==
  ASSUME problem \in Problems
  PROVE  Visits \in [Places -> Int] /\ \A p \in Places : Visits[p] = Doc(p).visit
BY PlaceFacts DEF Visits

(* Sets of places are finite.                                              *)
LEMMA PlacesFinite ==
  ASSUME NEW S, S \subseteq Places
  PROVE  IsFiniteSet(S)
<1>1. IsFiniteSet(Places)
  BY FS_Interval, CountAssumption DEF Places
<1>2. QED
  BY <1>1, FS_Subset

(* The fill of a side is a number of hours, as is what remains of it.      *)
LEMMA FillFacts ==
  ASSUME problem \in Problems, NEW d \in Days, NEW s \in Sides,
         bucket[d][s] \subseteq Places
  PROVE  Fill(d, s) \in Int
<1>1. PICK S : S = bucket[d][s]
  OBVIOUS
<1>2. IsFiniteSet(S)
  BY <1>1, PlacesFinite
<1>3. SumFunctionOnSet(Visits, S) \in Int
  BY <1>1, <1>2, VisitFacts, SumAdd
<1>4. QED
  BY <1>1, <1>3 DEF Fill

(* What remains of the day that a place might be put on.                   *)
LEMMA RoomFacts ==
  ASSUME problem \in Problems, NEW d \in Days, NEW p \in Places, Placed
  PROVE  Room(p, d) \in Int
<1>1. \A s \in Sides : Fill(d, s) \in Int
  <2>1. ASSUME NEW s \in Sides PROVE Fill(d, s) \in Int
    <3>1. bucket[d][s] \subseteq Places
      BY DEF Placed
    <3>2. QED
      BY <3>1, FillFacts
  <2>2. QED
    BY <2>1
<1>2. CASE ~HasContext(d)
  <2>1. Side(p, d) = "DAY"
    BY <1>2 DEF Side
  <2>2. Room(p, d) = Cfg(d).end_hour - Cfg(d).start_hour - Fill(d, "DAY")
    BY <2>1 DEF Room, Remaining
  <2>3. Cfg(d).end_hour \in Int /\ Cfg(d).start_hour \in Int /\ Fill(d, "DAY") \in Int
    BY <1>1, DayHours DEF Sides
  <2>4. QED
    BY <2>2, <2>3
<1>3. CASE HasContext(d)
  <2>1. /\ Budget(d, "ORIGIN") \in Int /\ Budget(d, "DESTINATION") \in Int
        /\ Fill(d, "ORIGIN") \in Int /\ Fill(d, "DESTINATION") \in Int
    BY <1>1, <1>3, Windows DEF Sides
  <2>2. Side(p, d) \in {"ORIGIN", "DESTINATION", "NO_COORDINATES"}
    BY <1>3, SideFacts DEF Sides
  <2>3. Room(p, d) \in {Budget(d, "ORIGIN") - Fill(d, "ORIGIN"),
                        Budget(d, "DESTINATION") - Fill(d, "DESTINATION")}
    BY <2>2 DEF Room, Remaining
  <2>4. QED
    BY <2>1, <2>3
<1>4. QED
  BY <1>2, <1>3

(* Each day has a place in the order of the candidates.                    *)
LEMMA ListedFacts ==
  ASSUME problem \in Problems, NEW p \in Places, NEW d \in Days
  PROVE  Listed(p, d) \in Int
<1>1. PICK S : S = {i \in 1..Len(Pref(p)) : Pref(p)[i] = d} \cup {Len(Pref(p)) + d}
  OBVIOUS
<1>2. S \subseteq Nat /\ S # {}
  BY <1>1, PlaceFacts DEF Days
<1>3. \E i \in S : \A j \in S : i <= j
  BY <1>2, LeastElement
<1>4. PICK m : m = Min(S)
  OBVIOUS
<1>5. m \in S
  BY <1>3, <1>4 DEF Min
<1>6. Listed(p, d) = m
  BY <1>1, <1>4 DEF Listed
<1>7. QED
  BY <1>2, <1>5, <1>6

(* The roomiest of some days is one of them.                               *)
LEMMA RoomiestIsOne ==
  ASSUME problem \in Problems, NEW p \in Places, Placed,
         NEW days, days \subseteq CandidateDays(p), days # {}
  PROVE  Roomiest(p, days) \in days
<1> DEFINE f == [d \in days |-> Room(p, d)]
           g == [d \in days |-> Listed(p, d)]
<1>1. days \subseteq Days
  BY CandidateFacts
<1>2. IsFiniteSet(days)
  <2>1. IsFiniteSet(Days)
    BY FS_Interval, CountAssumption DEF Days
  <2>2. QED
    BY <1>1, <2>1, FS_Subset
<1>3. f \in [days -> Int] /\ g \in [days -> Int]
  BY <1>1, RoomFacts, ListedFacts
<1>4. \A d \in days : f[d] = Room(p, d) /\ g[d] = Listed(p, d)
  OBVIOUS
<1> HIDE DEF f, g
<1>5. \E x \in days : \A y \in days : f[y] < f[x] \/ (f[y] = f[x] /\ g[x] <= g[y])
  BY <1>2, <1>3, FiniteBest
<1>6. \E x \in days : \A y \in days : \/ Room(p, y) < Room(p, x)
                                      \/ Room(p, y) = Room(p, x) /\ Listed(p, x) <= Listed(p, y)
  BY <1>4, <1>5
<1>7. QED
  BY <1>6 DEF Roomiest

(* A step of _partition_places() on a place is one of the three.           *)
LEMMA EveryPackPacks ==
  ASSUME problem \in Problems, Placed, NEW p \in Places, PackPinned(p) \/ PackUnpinned(p)
  PROVE  Packs(p)
<1>1. /\ Turn(p) /\ packed' = packed \cup {p}
      /\ UNCHANGED <<problem, now, requests, visited, left>>
  BY DEF PackPinned, PackUnpinned
<1>2. CASE PackPinned(p)
  <2> DEFINE d == Pref(p)[1]
  <2>1. Pinned(p) /\ Pref(p) # <<>> /\ d \in Days /\ d \in Preferred(p)
    BY <1>2, PlaceFacts DEF PackPinned, Pinned, Preferred, ToSet
  <2>2. CASE Side(p, d) = "NO_COORDINATES"
    <3>1. SetsAside(p)
      BY <1>2, <2>1, <2>2 DEF PackPinned, SetsAside
    <3>2. QED
      BY <1>1, <3>1 DEF Packs
  <2>3. CASE Side(p, d) # "NO_COORDINATES"
    <3>1. Side(p, d) \in Sides
      BY <2>3, SideFacts
    <3>2. Put(p, d, Side(p, d)) /\ UNCHANGED <<turned, unassigned>>
      BY <1>2, <2>3 DEF PackPinned
    <3>3. Assigns(p, d, Side(p, d))
      BY <2>1, <3>2 DEF Assigns
    <3>4. QED
      BY <1>1, <2>1, <3>1, <3>3 DEF Packs
  <2>4. QED
    BY <2>2, <2>3
<1>3. CASE PackUnpinned(p)
  <2> DEFINE admissible == {d \in CandidateDays(p) : Admissible(p, d)}
             best == Roomiest(p, IF admissible # {} THEN admissible ELSE CandidateDays(p))
  <2>1. ~Pinned(p) /\ UNCHANGED turned
    BY <1>3 DEF PackUnpinned
  <2>2. CASE admissible # {}
    <3>1. Put(p, best, Side(p, best)) /\ UNCHANGED unassigned
      BY <1>3, <2>2 DEF PackUnpinned
    <3>2. best = Roomiest(p, admissible)
      BY <2>2
    <3>3. best \in admissible
      <4>1. admissible \subseteq CandidateDays(p)
        OBVIOUS
      <4> HIDE DEF admissible, best
      <4>2. Roomiest(p, admissible) \in admissible
        BY <2>2, <4>1, RoomiestIsOne
      <4>3. QED
        BY <3>2, <4>2
    <3>4. best \in CandidateDays(p) /\ Admissible(p, best)
      BY <3>3
    <3> HIDE DEF best
    <3>5. Side(p, best) \in Sides
      BY <3>4, SideFacts DEF Admissible, Sides
    <3>6. best \in Days /\ (Pref(p) # <<>> => best \in Preferred(p))
      BY <3>4, CandidateFacts
    <3>7. Assigns(p, best, Side(p, best))
      BY <2>1, <3>1, <3>4, <3>6 DEF Assigns
    <3>8. QED
      BY <1>1, <3>5, <3>6, <3>7 DEF Packs
  <2>3. CASE admissible = {}
    <3>1. unassigned' = [unassigned EXCEPT ![p] = Rejection(Side(p, best))] /\ UNCHANGED bucket
      BY <1>3, <2>3 DEF PackUnpinned
    <3>2. \A d \in CandidateDays(p) : ~Admissible(p, d)
      BY <2>3
    <3>3. best = Roomiest(p, CandidateDays(p))
      BY <2>3
    <3> HIDE DEF best
    <3>4. best \in CandidateDays(p)
      BY <3>3, CandidateFacts, RoomiestIsOne
    <3>5. Side(p, best) \in {"ORIGIN", "DESTINATION", "NO_COORDINATES"}
      BY <3>2, <3>4, SideFacts DEF Admissible, Sides
    <3>6. Rejection(Side(p, best)) \in Reasons
      BY <3>5 DEF Rejection, Reasons
    <3>7. Rejects(p, Rejection(Side(p, best)))
      BY <2>1, <3>1, <3>2 DEF Rejects
    <3>8. QED
      BY <1>1, <3>6, <3>7 DEF Packs
  <2>4. QED
    BY <2>2, <2>3
<1>4. QED
  BY <1>2, <1>3


-----------------------------------------------------------------------------
(* The request stays what it is, and so does all that is derived from it.  *)
LEMMA Fixed ==
  ASSUME problem' = problem, NEW d, NEW p
  PROVE  /\ Cfg(d)' = Cfg(d) /\ Doc(p)' = Doc(p) /\ Pref(p)' = Pref(p)
         /\ HasContext(d)' = HasContext(d) /\ Side(p, d)' = Side(p, d)
         /\ Budget(d, "ORIGIN")' = Budget(d, "ORIGIN")
         /\ Budget(d, "DESTINATION")' = Budget(d, "DESTINATION")
         /\ Pinned(p)' = Pinned(p) /\ Preferred(p)' = Preferred(p)
         /\ CandidateDays(p)' = CandidateDays(p)
         /\ Visits' = Visits
<1>1. Cfg(d)' = Cfg(d) /\ Doc(p)' = Doc(p) /\ Pref(p)' = Pref(p) /\ StayOf(d)' = StayOf(d)
  BY DEF Cfg, Doc, Pref, StayOf
<1>2. Origin(d)' = Origin(d) /\ Destination(d)' = Destination(d) /\ ChangesStay(d)' = ChangesStay(d)
  BY <1>1 DEF Origin, Destination, ChangesStay
<1>3. HasContext(d)' = HasContext(d)
  BY <1>2 DEF HasContext
<1>4. Side(p, d)' = Side(p, d)
  BY <1>1, <1>2, <1>3 DEF Side, Distance
<1>5. DayStart(d)' = DayStart(d) /\ DayEnd(d)' = DayEnd(d)
  BY <1>1 DEF DayStart, DayEnd
<1>6. PreEnd(d)' = PreEnd(d) /\ PostStart(d)' = PostStart(d)
  BY <1>2, <1>5 DEF PreEnd, PostStart
<1>7. /\ Budget(d, "ORIGIN")' = Budget(d, "ORIGIN")
      /\ Budget(d, "DESTINATION")' = Budget(d, "DESTINATION")
  BY <1>5, <1>6 DEF Budget, Window
<1>8. Pinned(p)' = Pinned(p) /\ Preferred(p)' = Preferred(p) /\ OpenDays(p)' = OpenDays(p)
  BY <1>1 DEF Pinned, Preferred, OpenDays
<1>9. CandidateDays(p)' = CandidateDays(p)
  BY <1>8 DEF CandidateDays
<1>10. Visits' = Visits
  BY DEF Visits, Doc
<1>11. QED
  BY <1>1, <1>3, <1>4, <1>7, <1>8, <1>9, <1>10

(* The visit of a place that is assigned is added to the fill of its side, *)
(* and to no other.                                                        *)
LEMMA FillGrows ==
  ASSUME problem \in Problems, Placed, NEW p, Packs(p), NEW d \in Days, NEW s \in Sides
  PROVE  /\ Fill(d, s) \in Int /\ Fill(d, s)' \in Int /\ Fill(d, s) <= Fill(d, s)'
         /\ \/ bucket'[d][s] = bucket[d][s] /\ Fill(d, s)' = Fill(d, s)
            \/ /\ bucket'[d][s] = bucket[d][s] \cup {p} /\ Assigns(p, d, s)
               /\ Fill(d, s)' = Fill(d, s) + Doc(p).visit
<1>1. /\ p \in Places /\ p \notin packed /\ problem' = problem
      /\ bucket \in [Days -> [Sides -> SUBSET packed]] /\ packed \subseteq Places
  BY DEF Packs, Turn, Placed
<1>2. Fill(d, s) \in Int
  BY <1>1, FillFacts
<1>3. Visits' = Visits
  BY <1>1, Fixed
<1>4. CASE bucket'[d][s] = bucket[d][s]
  <2>1. Fill(d, s)' = Fill(d, s)
    BY <1>3, <1>4 DEF Fill
  <2>2. QED
    BY <1>2, <1>4, <2>1
<1>5. CASE bucket'[d][s] # bucket[d][s]
  <2>1. PICK e \in Days, t \in Sides : Assigns(p, e, t)
    BY <1>5 DEF Packs, SetsAside, Rejects
  <2>2. bucket' = [bucket EXCEPT ![e][t] = @ \cup {p}]
    BY <2>1 DEF Assigns, Put
  <2>3. d = e /\ s = t /\ bucket'[d][s] = bucket[d][s] \cup {p}
    BY <1>1, <1>5, <2>2
  <2>4. PICK S : S = bucket[d][s]
    OBVIOUS
  <2>5. S \in SUBSET Places /\ p \notin S /\ IsFiniteSet(S)
    BY <1>1, <2>4, PlacesFinite
  <2>6. SumFunctionOnSet(Visits, S \cup {p}) = SumFunctionOnSet(Visits, S) + Visits[p]
    BY <1>1, <2>5, VisitFacts, SumOneMore
  <2>7. Fill(d, s)' = Fill(d, s) + Doc(p).visit
    BY <1>1, <1>3, <2>3, <2>4, <2>6, VisitFacts DEF Fill
  <2>8. Doc(p).visit \in Nat
    BY <1>1, PlaceFacts
  <2>9. QED
    BY <1>2, <2>1, <2>3, <2>7, <2>8
<1>6. QED
  BY <1>4, <1>5

(* Where there was no room there is none later.                            *)
LEMMA RoomShrinks ==
  ASSUME problem \in Problems, Placed, NEW p, Packs(p),
         NEW q \in Places, NEW d \in Days, ~Admissible(q, d)
  PROVE  ~Admissible(q, d)'
<1>1. problem' = problem
  BY DEF Packs
<1>2. HasContext(d) /\ HasContext(d)' = HasContext(d) /\ Side(q, d)' = Side(q, d)
      /\ Doc(q)' = Doc(q)
  BY <1>1, Fixed DEF Admissible
<1>3. CASE Side(q, d) = "NO_COORDINATES"
  BY <1>2, <1>3 DEF Admissible
<1>4. CASE Side(q, d) # "NO_COORDINATES"
  <2>1. Side(q, d) \in {"ORIGIN", "DESTINATION"}
    BY <1>2, <1>4, SideFacts DEF Sides
  <2>2. PICK s \in {"ORIGIN", "DESTINATION"} : s = Side(q, d)
    BY <2>1
  <2>3. /\ Fill(d, s) \in Int /\ Fill(d, s)' \in Int /\ Fill(d, s) <= Fill(d, s)'
    BY FillGrows DEF Sides
  <2>4. Budget(d, s) \in Int /\ Budget(d, s)' = Budget(d, s)
    BY <1>1, <1>2, Fixed, Windows
  <2>5. /\ Remaining(d, s) = Budget(d, s) - Fill(d, s)
        /\ Remaining(d, s)' = Budget(d, s)' - Fill(d, s)'
    BY DEF Remaining
  <2>6. Doc(q).visit \in Int
    BY PlaceFacts
  <2>7. ~(Remaining(d, s) >= Doc(q).visit)
    BY <1>2, <1>4, <2>2 DEF Admissible
  <2>8. ~(Remaining(d, s)' >= Doc(q).visit)
    BY <2>3, <2>4, <2>5, <2>6, <2>7
  <2>9. QED
    BY <1>2, <2>2, <2>8 DEF Admissible
<1>5. QED
  BY <1>3, <1>4


-----------------------------------------------------------------------------
(* Nothing is placed yet.                                                  *)
LEMMA PlacesInitially == Init => PlacesInv
<1>1. SUFFICES ASSUME Init PROVE PlacesInv
  OBVIOUS
<1>2. /\ problem \in Problems /\ packed = {} /\ turned = {}
      /\ bucket = [d \in Days |-> [s \in Sides |-> {}]]
      /\ unassigned = [p \in Places |-> "none"]
  BY <1>1 DEF Init
<1>3. Placed
  BY <1>2 DEF Placed
<1>4. Kept /\ PinnedFirst /\ OneOutcome
  BY <1>2 DEF Kept, PinnedFirst, OneOutcome, Assigned
<1>5. BudgetIsACeiling /\ UnassignedHadNoRoom
  BY <1>2 DEF BudgetIsACeiling, UnassignedHadNoRoom, Sides
<1>6. QED
  BY <1>2, <1>3, <1>4, <1>5 DEF PlacesInv

(* A place is packed into what the variables are.                          *)
LEMMA PackKeepsPlaced ==
  ASSUME Placed, NEW p, Packs(p)
  PROVE  Placed'
<1>1. p \in Places /\ packed' = packed \cup {p}
  BY DEF Packs
<1>2. turned' \subseteq packed'
  BY <1>1 DEF Packs, Assigns, SetsAside, Rejects, Placed
<1>3. bucket' \in [Days -> [Sides -> SUBSET packed']]
  <2>1. bucket \in [Days -> [Sides -> SUBSET packed']]
    BY <1>1 DEF Placed
  <2>2. CASE \E d \in Days, s \in Sides : Assigns(p, d, s)
    <3>1. PICK d \in Days, s \in Sides : bucket' = [bucket EXCEPT ![d][s] = @ \cup {p}]
      BY <2>2 DEF Assigns, Put
    <3>2. QED
      BY <1>1, <2>1, <3>1
  <2>3. CASE UNCHANGED bucket
    BY <2>1, <2>3
  <2>4. QED
    BY <2>2, <2>3 DEF Packs, SetsAside, Rejects
<1>4. unassigned' \in [Places -> Reasons \cup {"none"}]
  BY DEF Packs, Assigns, SetsAside, Rejects, Placed
<1>5. \A q \in Places : unassigned'[q] # "none" => q \in packed'
  BY <1>1 DEF Packs, Assigns, SetsAside, Rejects, Placed
<1>6. QED
  BY <1>1, <1>2, <1>3, <1>4, <1>5 DEF Placed

(* A place goes to the side it belongs to, on a day it prefers.            *)
LEMMA PackKeepsKept ==
  ASSUME problem \in Problems, Placed, Kept, NEW p, Packs(p)
  PROVE  Kept'
<1>1. problem' = problem
  BY DEF Packs
<1>2. SUFFICES ASSUME NEW d \in Days, NEW s \in Sides, NEW q \in bucket'[d][s]
               PROVE  s = Side(q, d) /\ (Pref(q) # <<>> => d \in Preferred(q))
  BY <1>1, Fixed DEF Kept
<1>3. CASE q \in bucket[d][s]
  BY <1>3 DEF Kept
<1>4. CASE q \notin bucket[d][s]
  <2>1. Assigns(p, d, s) /\ q = p
    BY <1>4, FillGrows
  <2>2. QED
    BY <2>1 DEF Assigns
<1>5. QED
  BY <1>3, <1>4

(* The place whose turn it is is pinned if one of those left is.           *)
LEMMA PackKeepsPinnedFirst ==
  ASSUME problem \in Problems, PinnedFirst, NEW p, Packs(p)
  PROVE  PinnedFirst'
<1>1. problem' = problem /\ p \in Places /\ Turn(p) /\ packed' = packed \cup {p}
  BY DEF Packs
<1>2. \A q : Pinned(q)' = Pinned(q)
  BY <1>1, Fixed
<1>3. \A q \in Places : Rank(q) \in Nat /\ (Rank(q) = 0 <=> Pinned(q))
  <2>1. TAKE q \in Places
  <2>2. PICK n \in Nat, k \in Nat : n = Len(Pref(q)) /\ k = Doc(q).priority
    BY PlaceFacts
  <2>3. Rank(q) = IF n = 1 THEN 0 ELSE IF n > 1 THEN 1 + k ELSE 4 + k
    BY <2>2 DEF Rank, Pinned
  <2>4. Pinned(q) <=> n = 1
    BY <2>2 DEF Pinned
  <2>5. PICK r : r = Rank(q)
    OBVIOUS
  <2>6. r \in Nat /\ (r = 0 <=> n = 1)
    BY <2>3, <2>5
  <2>7. QED
    BY <2>4, <2>5, <2>6
<1>4. SUFFICES ASSUME \E q \in packed' : ~Pinned(q), NEW r \in Places \ packed', Pinned(r)
               PROVE  FALSE
  BY <1>2 DEF PinnedFirst
<1>5. ~Pinned(p)
  BY <1>1, <1>4 DEF PinnedFirst
<1>6. r \in Places \ packed /\ r # p
  BY <1>1, <1>4
<1>7. Precedes(p, r)
  BY <1>1, <1>6 DEF Turn
<1>8. QED
  BY <1>1, <1>3, <1>4, <1>5, <1>7 DEF Precedes

(* A place that had no outcome gets one.                                   *)
LEMMA PackKeepsOneOutcome ==
  ASSUME Placed, OneOutcome, NEW p, Packs(p)
  PROVE  OneOutcome'
<1>1. /\ p \in Places /\ p \notin packed /\ packed' = packed \cup {p}
      /\ bucket \in [Days -> [Sides -> SUBSET packed]]
      /\ unassigned \in [Places -> Reasons \cup {"none"}]
  BY DEF Packs, Turn, Placed
<1>2. ~Assigned(p) /\ p \notin turned /\ unassigned[p] = "none"
  <2>1. ~Assigned(p)
    BY <1>1 DEF Assigned
  <2>2. QED
    BY <1>1, <2>1 DEF Placed
<1>3. \A q \in Places : q # p =>
        /\ \A d \in Days, s \in Sides : q \in bucket'[d][s] <=> q \in bucket[d][s]
        /\ q \in turned' <=> q \in turned
        /\ unassigned'[q] = unassigned[q]
        /\ q \in packed' <=> q \in packed
  <2>1. CASE \E d \in Days, s \in Sides : Assigns(p, d, s)
    <3>1. PICK d \in Days, s \in Sides : bucket' = [bucket EXCEPT ![d][s] = @ \cup {p}]
      BY <2>1 DEF Assigns, Put
    <3>2. QED
      BY <1>1, <2>1, <3>1 DEF Assigns
  <2>2. CASE SetsAside(p)
    BY <1>1, <2>2 DEF SetsAside
  <2>3. CASE \E r \in Reasons : Rejects(p, r)
    BY <1>1, <2>3 DEF Rejects
  <2>4. QED
    BY <2>1, <2>2, <2>3 DEF Packs
<1>4. ASSUME NEW q \in Places, q # p
      PROVE  /\ Assigned(q)' <=> Assigned(q)
             /\ \A d, e \in Days, s, t \in Sides :
                  q \in bucket'[d][s] /\ q \in bucket'[e][t] => d = e /\ s = t
  BY <1>3, <1>4 DEF Assigned, OneOutcome
<1>5. /\ \A d, e \in Days, s, t \in Sides :
           p \in bucket'[d][s] /\ p \in bucket'[e][t] => d = e /\ s = t
      /\ ~(Assigned(p)' /\ p \in turned')
      /\ ~(Assigned(p)' /\ unassigned'[p] # "none")
      /\ ~(p \in turned' /\ unassigned'[p] # "none")
      /\ Assigned(p)' \/ p \in turned' \/ unassigned'[p] # "none"
  <2>1. CASE \E d \in Days, s \in Sides : Assigns(p, d, s)
    <3>1. PICK d \in Days, s \in Sides : Assigns(p, d, s)
      BY <2>1
    <3>2. bucket' = [bucket EXCEPT ![d][s] = @ \cup {p}] /\ turned' = turned
          /\ unassigned' = unassigned
      BY <3>1 DEF Assigns, Put
    <3>3. \A e \in Days, t \in Sides : p \in bucket'[e][t] <=> e = d /\ t = s
      BY <1>1, <1>2, <3>2 DEF Assigned
    <3>4. Assigned(p)'
      BY <3>3 DEF Assigned
    <3>5. QED
      BY <1>2, <3>2, <3>3, <3>4
  <2>2. CASE SetsAside(p)
    BY <1>2, <2>2 DEF SetsAside, Assigned
  <2>3. CASE \E r \in Reasons : Rejects(p, r)
    BY <1>1, <1>2, <2>3 DEF Rejects, Assigned, Reasons
  <2>4. QED
    BY <2>1, <2>2, <2>3 DEF Packs
<1>6. SUFFICES ASSUME NEW q \in Places
               PROVE  /\ \A d, e \in Days, s, t \in Sides :
                           q \in bucket'[d][s] /\ q \in bucket'[e][t] => d = e /\ s = t
                      /\ ~(Assigned(q)' /\ q \in turned')
                      /\ ~(Assigned(q)' /\ unassigned'[q] # "none")
                      /\ ~(q \in turned' /\ unassigned'[q] # "none")
                      /\ q \in packed' => Assigned(q)' \/ q \in turned' \/ unassigned'[q] # "none"
  BY DEF OneOutcome
<1>7. CASE q = p
  BY <1>5, <1>7
<1>8. CASE q # p
  BY <1>3, <1>4, <1>8 DEF OneOutcome
<1>9. QED
  BY <1>7, <1>8

(* Only an unpinned place is bound by the budget, and by then every pinned *)
(* place has been counted.                                                 *)
LEMMA PackKeepsCeiling ==
  ASSUME PlacesInv, NEW p, Packs(p)
  PROVE  BudgetIsACeiling'
<1>1. /\ problem \in Problems /\ Placed /\ Kept /\ PinnedFirst /\ BudgetIsACeiling
      /\ problem' = problem /\ p \in Places /\ p \notin packed
  BY DEF PlacesInv, Packs, Turn
<1>2. SUFFICES ASSUME NEW d \in Days, HasContext(d), NEW s \in {"ORIGIN", "DESTINATION"},
                      NEW q \in bucket'[d][s], ~Pinned(q)
               PROVE  Fill(d, s)' <= Budget(d, s)
  BY <1>1, Fixed DEF BudgetIsACeiling
<1>3. Budget(d, s) \in Int /\ Fill(d, s) \in Int /\ s \in Sides /\ Doc(p).visit \in Nat
  BY <1>1, <1>2, Windows, FillGrows, PlaceFacts DEF Sides
<1>4. CASE bucket'[d][s] = bucket[d][s] /\ Fill(d, s)' = Fill(d, s)
  BY <1>1, <1>2, <1>4 DEF BudgetIsACeiling
<1>5. CASE bucket'[d][s] = bucket[d][s] \cup {p} /\ Assigns(p, d, s)
           /\ Fill(d, s)' = Fill(d, s) + Doc(p).visit
  <2>1. ~Pinned(p)
    <3>1. CASE q = p
      BY <1>2, <3>1
    <3>2. CASE q # p
      <4>1. q \in packed
        BY <1>1, <1>2, <1>3, <1>5, <3>2 DEF Placed
      <4>2. QED
        BY <1>1, <1>2, <4>1 DEF PinnedFirst
    <3>3. QED
      BY <3>1, <3>2
  <2>2. Admissible(p, d) /\ Side(p, d) = s
    BY <1>5, <2>1 DEF Assigns
  <2>3. Remaining(d, s) >= Doc(p).visit
    BY <1>2, <2>2 DEF Admissible
  <2>4. Remaining(d, s) = Budget(d, s) - Fill(d, s)
    BY DEF Remaining
  <2>5. QED
    BY <1>3, <1>5, <2>3, <2>4
<1>6. QED
  BY <1>1, <1>3, <1>4, <1>5, FillGrows

(* A place is unassigned when no day has room for it.                      *)
LEMMA PackKeepsNoRoom ==
  ASSUME PlacesInv, NEW p, Packs(p)
  PROVE  UnassignedHadNoRoom'
<1>1. /\ problem \in Problems /\ Placed /\ UnassignedHadNoRoom
      /\ problem' = problem /\ p \in Places
  BY DEF PlacesInv, Packs
<1>2. SUFFICES ASSUME NEW q \in Places, unassigned'[q] # "none", NEW d \in CandidateDays(q)
               PROVE  ~Admissible(q, d)'
  BY <1>1, Fixed DEF UnassignedHadNoRoom
<1>3. ~Admissible(q, d)
  <2>1. CASE unassigned[q] # "none"
    BY <1>1, <1>2, <2>1 DEF UnassignedHadNoRoom
  <2>2. CASE unassigned[q] = "none"
    <3>1. PICK r \in Reasons : Rejects(p, r)
      BY <1>2, <2>2 DEF Packs, Assigns, SetsAside
    <3>2. q = p
      BY <1>1, <1>2, <2>2, <3>1 DEF Rejects, Placed
    <3>3. QED
      BY <1>2, <3>1, <3>2 DEF Rejects
  <2>3. QED
    BY <2>1, <2>2
<1>4. d \in Days
  BY <1>1, CandidateFacts
<1>5. QED
  BY <1>1, <1>3, <1>4, RoomShrinks

(* The days are solved without moving a place.                             *)
LEMMA SolvingMovesNothing ==
  ASSUME PlacesInv, UNCHANGED <<problem, packed, bucket, unassigned, turned>>
  PROVE  PlacesInv'
<1>1. problem \in Problems' /\ problem' \in Problems /\ problem' = problem
  BY DEF PlacesInv
<1>2. Placed' /\ OneOutcome'
  BY DEF PlacesInv, Placed, OneOutcome, Assigned
<1>3. Kept' /\ PinnedFirst'
  BY <1>1, Fixed DEF PlacesInv, Kept, PinnedFirst
<1>4. \A d, s : Fill(d, s)' = Fill(d, s)
  BY <1>1, Fixed DEF Fill
<1>5. BudgetIsACeiling'
  BY <1>1, <1>4, Fixed DEF PlacesInv, BudgetIsACeiling
<1>6. \A p, d : Admissible(p, d)' = Admissible(p, d)
  <2>1. TAKE p, d
  <2>2. HasContext(d)' = HasContext(d) /\ Side(p, d)' = Side(p, d) /\ Doc(p)' = Doc(p)
    BY <1>1, Fixed
  <2>3. CASE Side(p, d) \in {"ORIGIN", "DESTINATION"}
    <3>1. Remaining(d, Side(p, d))' = Remaining(d, Side(p, d))
      BY <1>1, <1>4, <2>2, <2>3, Fixed DEF Remaining
    <3>2. QED
      BY <2>2, <3>1 DEF Admissible
  <2>4. CASE Side(p, d) \notin {"ORIGIN", "DESTINATION"}
    BY <2>2, <2>4, SideFacts DEF Admissible, Sides
  <2>5. QED
    BY <2>3, <2>4
<1>7. UnassignedHadNoRoom'
  BY <1>1, <1>6, Fixed DEF PlacesInv, UnassignedHadNoRoom
<1>8. QED
  BY <1>1, <1>2, <1>3, <1>5, <1>7 DEF PlacesInv

(* Every step keeps where the places are.                                  *)
LEMMA PlacesInductive == PlacesInv /\ [Next]_vars => PlacesInv'
<1>1. SUFFICES ASSUME PlacesInv, [Next]_vars PROVE PlacesInv'
  OBVIOUS
<1>2. ASSUME NEW p \in Places, PackPinned(p) \/ PackUnpinned(p)
      PROVE  PlacesInv'
  <2>1. Packs(p)
    BY <1>1, <1>2, EveryPackPacks DEF PlacesInv
  <2>2. problem' = problem
    BY <2>1 DEF Packs
  <2>3. Placed' /\ Kept' /\ PinnedFirst' /\ OneOutcome'
    BY <1>1, <2>1, PackKeepsPlaced, PackKeepsKept, PackKeepsPinnedFirst, PackKeepsOneOutcome
    DEF PlacesInv
  <2>4. BudgetIsACeiling' /\ UnassignedHadNoRoom'
    BY <1>1, <2>1, PackKeepsCeiling, PackKeepsNoRoom
  <2>5. QED
    BY <1>1, <2>2, <2>3, <2>4 DEF PlacesInv
<1>3. ASSUME NEW d \in Days, NEW side \in Sides,
             Solve(d, side) \/ SolveFails(d, side) \/ NothingToSolve(d, side)
      PROVE  PlacesInv'
  <2>1. UNCHANGED <<problem, packed, bucket, unassigned, turned>>
    BY <1>3 DEF Solve, SolveFails, NothingToSolve
  <2>2. QED
    BY <1>1, <2>1, SolvingMovesNothing
<1>4. CASE UNCHANGED vars
  BY <1>1, <1>4, SolvingMovesNothing DEF vars
<1>5. QED
  BY <1>1, <1>2, <1>3, <1>4 DEF Next

(* Every reachable state has its places where the invariant says.          *)
LEMMA PlacesAlways == Spec => []PlacesInv
BY PlacesInitially, PlacesInductive, PTL DEF Spec

(* For any request the places admitted to a side of a transition day fit   *)
(* its budget, the pinned ones included: only they alone may exceed it     *)
(* (ADR-17), for a later place was admitted against what they left.        *)
THEOREM BudgetStaysACeiling == Spec => []BudgetIsACeiling
<1>1. PlacesInv => BudgetIsACeiling
  BY DEF PlacesInv
<1>2. QED
  BY <1>1, PlacesAlways, PTL

(* _partition_places() gives up on a place only if no day that is open to  *)
(* it had room, and the days it did not look at again have none later.     *)
THEOREM UnassignedNeverHadRoom == Spec => []UnassignedHadNoRoom
<1>1. PlacesInv => UnassignedHadNoRoom
  BY DEF PlacesInv
<1>2. QED
  BY <1>1, PlacesAlways, PTL

(* A place with preferred days is only ever on one of these, and on the    *)
(* side of the stay it is nearer to.                                       *)
THEOREM PreferencesStayKept == Spec => []PreferencesAreKept
<1>1. PlacesInv => PreferencesAreKept
  BY DEF PlacesInv, Kept, PreferencesAreKept
<1>2. QED
  BY <1>1, PlacesAlways, PTL

LeftReasons == {"SOLVER", "PRE_TRANSFER_WINDOW_INFEASIBLE", "TRANSFER_WINDOW_INFEASIBLE"}


(* The parts of the trip that come before the one to be solved next.       *)
Passed(d, side) ==
  d < now.day \/ (d = now.day /\ side = "ORIGIN" /\ now.side = "DESTINATION")

Part ==
  /\ now.day \in 1..(D + 1)
  /\ now.day = D + 1 <=> now.side = "done"
  /\ now.day \in Days => now.side \in SidesOf(now.day)
  /\ packed # Places => now = [day |-> 1, side |-> FirstSide(1)]

(* A place of a part that has been solved is in its steps or was skipped   *)
(* for one reason, and places of other parts are in neither.               *)
Solved ==
  \A d \in Days, s \in Sides, p \in Places :
    /\ p \in visited[d][s] => p \in bucket[d][s] /\ Passed(d, s)
    /\ p \in bucket[d][s] /\ Passed(d, s) =>
         (p \in visited[d][s] <=> ~\E r \in LeftReasons : <<p, r>> \in left[d])

Skipped ==
  \A d \in Days, p \in Places, r \in LeftReasons : <<p, r>> \in left[d] =>
    /\ \E s \in Sides : p \in bucket[d][s] /\ Passed(d, s)
    /\ \A q \in LeftReasons : <<p, q>> \in left[d] => q = r

OutcomeInv ==
  now.side # "failed" =>
    /\ Part
    /\ visited \in [Days -> [Sides -> SUBSET Places]]
    /\ left \in [Days -> SUBSET (Places \X LeftReasons)]
    /\ Solved /\ Skipped


-----------------------------------------------------------------------------
(* No part has been solved before the first one.                           *)
LEMMA NothingPassed ==
  ASSUME now = [day |-> 1, side |-> FirstSide(1)]
  PROVE  \A d \in Days, s \in Sides : ~Passed(d, s)
<1>1. now.day = 1 /\ now.side # "DESTINATION"
  BY DEF FirstSide
<1>2. QED
  BY <1>1 DEF Passed, Days

(* The first part is one of the first day.                                 *)
LEMMA FirstPart ==
  ASSUME now = [day |-> 1, side |-> FirstSide(1)]
  PROVE  /\ now.day \in 1..(D + 1) /\ (now.day = D + 1 <=> now.side = "done")
         /\ now.side \in SidesOf(now.day)
BY CountAssumption DEF FirstSide, SidesOf

(* No place has been solved.                                               *)
LEMMA OutcomesInitially == Init => OutcomeInv
<1>1. SUFFICES ASSUME Init PROVE OutcomeInv
  OBVIOUS
<1>2. now = [day |-> 1, side |-> FirstSide(1)] /\ left = [d \in Days |-> {}]
      /\ visited = [d \in Days |-> [s \in Sides |-> {}]]
  BY <1>1 DEF Init
<1>3. Part
  BY <1>2, FirstPart DEF Part
<1>4. Solved /\ Skipped
  BY <1>2, NothingPassed DEF Solved, Skipped
<1>5. QED
  BY <1>2, <1>3, <1>4 DEF OutcomeInv

(* While places are packed nothing is solved.                              *)
LEMMA PackKeepsOutcomes ==
  ASSUME OutcomeInv, NEW p, Packs(p)
  PROVE  OutcomeInv'
<1>1. /\ p \in Places /\ p \notin packed /\ packed # Places
      /\ UNCHANGED <<problem, now, visited, left>>
  BY DEF Packs, Turn
<1>2. SUFFICES ASSUME now.side # "failed"
               PROVE  Part' /\ Solved' /\ Skipped'
  BY <1>1 DEF OutcomeInv
<1>3. now = [day |-> 1, side |-> FirstSide(1)] /\ Solved /\ Skipped /\ Part
  BY <1>1, <1>2 DEF OutcomeInv, Part
<1>4. FirstSide(1)' = FirstSide(1) /\ SidesOf(now.day)' = SidesOf(now.day)
  BY <1>1, Fixed DEF FirstSide, SidesOf
<1>5. Part'
  BY <1>1, <1>3, <1>4 DEF Part
<1>6. \A d \in Days, s \in Sides : ~Passed(d, s) /\ ~Passed(d, s)'
  BY <1>1, <1>3, NothingPassed DEF Passed
<1>7. Solved' /\ Skipped'
  BY <1>1, <1>3, <1>6 DEF Solved, Skipped
<1>8. QED
  BY <1>5, <1>7

(* After a part is solved it is the one part more that has passed.         *)
LEMMA OnePartMore ==
  ASSUME Part, NEW d \in Days, NEW side \in Sides, Solving(d, side),
         now' = After(now), UNCHANGED <<problem, packed>>
  PROVE  /\ Part' /\ ~Passed(d, side)
         /\ \A e \in Days : \A t \in SidesOf(e) :
              Passed(e, t)' <=> Passed(e, t) \/ (e = d /\ t = side)
<1>1. /\ now = [day |-> d, side |-> side] /\ packed = Places /\ packed' = Places
      /\ side \in SidesOf(d) /\ D \in Nat /\ d \in Nat /\ d <= D /\ 1 <= d
  BY CountAssumption DEF Solving, Part, Days
<1>2. \A e : SidesOf(e)' = SidesOf(e)
  BY Fixed DEF SidesOf
<1>3. \A e : FirstSide(e) \in SidesOf(e) /\ FirstSide(e) \notin {"DESTINATION", "done"}
  BY DEF FirstSide, SidesOf
<1>4. \A e : SidesOf(e) \subseteq Sides /\ ("DAY" \in SidesOf(e) => SidesOf(e) = {"DAY"})
             /\ ("DAY" \notin SidesOf(e) => SidesOf(e) = {"ORIGIN", "DESTINATION"})
  BY DEF SidesOf, Sides
<1>5. ~Passed(d, side)
  BY <1>1 DEF Passed
<1>6. CASE side = "ORIGIN"
  <2>1. now' = [day |-> d, side |-> "DESTINATION"]
    BY <1>1, <1>6 DEF After
  <2>2. "DESTINATION" \in SidesOf(d)
    BY <1>1, <1>4, <1>6
  <2>3. Part'
    BY <1>1, <1>2, <2>1, <2>2 DEF Part
  <2>4. \A e \in Days : \A t \in SidesOf(e) :
          Passed(e, t)' <=> Passed(e, t) \/ (e = d /\ t = side)
    BY <1>1, <1>6, <2>1 DEF Passed
  <2>5. QED
    BY <1>5, <2>3, <2>4
<1>7. CASE side # "ORIGIN"
  <2>1. now'.day = d + 1 /\ now'.side # "DESTINATION"
    BY <1>1, <1>3, <1>7 DEF After
  <2>2. Part'
    <3>1. CASE d < D
      <4>1. now' = [day |-> d + 1, side |-> FirstSide(d + 1)]
        BY <1>1, <1>7, <3>1 DEF After
      <4>2. QED
        BY <1>1, <1>2, <1>3, <3>1, <4>1 DEF Part
    <3>2. CASE ~(d < D)
      <4>1. now' = [day |-> D + 1, side |-> "done"]
        BY <1>1, <1>7, <3>2 DEF After
      <4>2. QED
        BY <1>1, <4>1 DEF Part, Days
    <3>3. QED
      BY <3>1, <3>2
  <2>3. ASSUME NEW e \in Days, NEW t \in SidesOf(e)
        PROVE  Passed(e, t)' <=> Passed(e, t) \/ (e = d /\ t = side)
    <3>1. Passed(e, t)' <=> e <= d
      BY <1>1, <2>1 DEF Passed, Days
    <3>2. CASE e # d
      BY <1>1, <3>1, <3>2 DEF Passed, Days
    <3>3. CASE e = d
      <4>1. Passed(e, t) <=> t = "ORIGIN" /\ side = "DESTINATION"
        BY <1>1, <3>3 DEF Passed
      <4>2. t = side \/ (t = "ORIGIN" /\ side = "DESTINATION")
        BY <1>1, <1>4, <1>7, <3>3
      <4>3. QED
        BY <1>1, <3>1, <3>3, <4>1, <4>2
    <3>4. QED
      BY <3>2, <3>3
  <2>4. QED
    BY <1>5, <2>2, <2>3
<1>8. QED
  BY <1>6, <1>7

(* A part is solved: of its places some are visited, the others skipped    *)
(* for the same reason.                                                    *)
Answers(d, side, steps, reason) ==
  /\ Solving(d, side) /\ steps \subseteq bucket[d][side] /\ reason \in LeftReasons
  /\ visited' = [visited EXCEPT ![d][side] = steps]
  /\ left' = [left EXCEPT ![d] = @ \cup {<<p, reason>> : p \in bucket[d][side] \ steps}]
  /\ now' = After(now)
  /\ UNCHANGED <<problem, packed, bucket, unassigned, turned>>

(* Its places, and no others, get their outcome.                           *)
LEMMA AnswersKeepOutcomes ==
  ASSUME PlacesInv, OutcomeInv, NEW d \in Days, NEW side \in Sides,
         NEW steps, NEW reason, Answers(d, side, steps, reason)
  PROVE  OutcomeInv'
<1>1. /\ problem' = problem /\ bucket' = bucket /\ packed' = packed /\ Solving(d, side)
      /\ now' = After(now) /\ steps \subseteq bucket[d][side] /\ reason \in LeftReasons
      /\ visited' = [visited EXCEPT ![d][side] = steps]
      /\ left' = [left EXCEPT ![d] = @ \cup {<<p, reason>> : p \in bucket[d][side] \ steps}]
  BY DEF Answers
<1>2. /\ Part /\ Solved /\ Skipped
      /\ visited \in [Days -> [Sides -> SUBSET Places]]
      /\ left \in [Days -> SUBSET (Places \X LeftReasons)]
  BY <1>1 DEF OutcomeInv, Solving, Sides
<1>3. /\ bucket \in [Days -> [Sides -> SUBSET Places]]
      /\ \A e \in Days, t \in Sides : \A p \in bucket[e][t] : t \in SidesOf(e)
  <2>1. bucket \in [Days -> [Sides -> SUBSET Places]]
    BY DEF PlacesInv, Placed
  <2>2. \A e \in Days, t \in Sides : \A p \in bucket[e][t] : t = Side(p, e)
    BY DEF PlacesInv, Kept
  <2>3. \A e, p : Side(p, e) \in Sides => Side(p, e) \in SidesOf(e)
    BY SideFacts DEF Sides, SidesOf
  <2>4. QED
    BY <2>1, <2>2, <2>3
<1>4. \A p \in Places, e \in Days, s, t \in Sides :
        p \in bucket[e][s] /\ p \in bucket[e][t] => s = t
  BY DEF PlacesInv, OneOutcome
<1>5. /\ Part' /\ ~Passed(d, side)
      /\ \A e \in Days : \A t \in SidesOf(e) :
           Passed(e, t)' <=> Passed(e, t) \/ (e = d /\ t = side)
  BY <1>1, <1>2, OnePartMore
<1>6. \A e \in Days, t \in Sides : \A p \in bucket[e][t] :
        Passed(e, t)' <=> Passed(e, t) \/ (e = d /\ t = side)
  BY <1>3, <1>5
<1>7. \A p \in bucket[d][side] : p \in Places /\ ~\E r \in LeftReasons : <<p, r>> \in left[d]
  <2>1. ASSUME NEW p \in bucket[d][side], NEW r \in LeftReasons, <<p, r>> \in left[d]
        PROVE  FALSE
    <3>1. p \in Places
      BY <1>3
    <3>2. PICK s \in Sides : p \in bucket[d][s] /\ Passed(d, s)
      BY <1>2, <2>1, <3>1 DEF Skipped
    <3>3. s = side
      BY <1>4, <3>1, <3>2
    <3>4. QED
      BY <1>5, <3>2, <3>3
  <2>2. QED
    BY <1>3, <2>1
<1>8. visited' \in [Days -> [Sides -> SUBSET Places]]
  BY <1>1, <1>2, <1>3
<1>9. left' \in [Days -> SUBSET (Places \X LeftReasons)]
  <2>1. {<<p, reason>> : p \in bucket[d][side] \ steps} \subseteq Places \X LeftReasons
    BY <1>1, <1>3
  <2>2. QED
    BY <1>1, <1>2, <2>1
<1>10. \A e \in Days, t \in Sides :
         visited'[e][t] = IF e = d /\ t = side THEN steps ELSE visited[e][t]
  BY <1>1, <1>2
<1>11. \A e \in Days : \A p, r :
         <<p, r>> \in left'[e] <=>
           \/ <<p, r>> \in left[e]
           \/ e = d /\ p \in bucket[d][side] \ steps /\ r = reason
  BY <1>1, <1>2
<1>12. ASSUME NEW e \in Days, NEW t \in Sides, NEW p \in Places
       PROVE  /\ p \in visited'[e][t] => p \in bucket[e][t] /\ Passed(e, t)'
              /\ p \in bucket[e][t] /\ Passed(e, t)' =>
                   (p \in visited'[e][t] <=> ~\E r \in LeftReasons : <<p, r>> \in left'[e])
  <2>1. CASE e = d /\ t = side
    <3>1. visited'[e][t] = steps
      BY <1>10, <2>1
    <3>2. p \in bucket[e][t] => Passed(e, t)'
      BY <1>6, <2>1
    <3>3. p \in bucket[e][t] /\ p \in steps => ~\E r \in LeftReasons : <<p, r>> \in left'[e]
      BY <1>7, <1>11, <2>1
    <3>4. p \in bucket[e][t] /\ p \notin steps => <<p, reason>> \in left'[e]
      BY <1>11, <2>1
    <3>5. QED
      BY <1>1, <2>1, <3>1, <3>2, <3>3, <3>4
  <2>2. CASE ~(e = d /\ t = side)
    <3>1. visited'[e][t] = visited[e][t]
      BY <1>10, <2>2
    <3>2. p \in bucket[e][t] => (Passed(e, t)' <=> Passed(e, t))
      BY <1>6, <2>2
    <3>3. p \in bucket[e][t] => \A r \in LeftReasons : <<p, r>> \in left'[e] <=> <<p, r>> \in left[e]
      BY <1>4, <1>11, <2>2
    <3>4. QED
      BY <1>2, <3>1, <3>2, <3>3 DEF Solved
  <2>3. QED
    BY <2>1, <2>2
<1>13. ASSUME NEW e \in Days, NEW p \in Places, NEW r \in LeftReasons, <<p, r>> \in left'[e]
       PROVE  /\ \E s \in Sides : p \in bucket[e][s] /\ Passed(e, s)'
              /\ \A q \in LeftReasons : <<p, q>> \in left'[e] => q = r
  <2>1. CASE e = d /\ p \in bucket[d][side]
    BY <1>6, <1>7, <1>11, <1>13, <2>1
  <2>2. CASE ~(e = d /\ p \in bucket[d][side])
    <3>1. \A q \in LeftReasons : <<p, q>> \in left'[e] <=> <<p, q>> \in left[e]
      BY <1>11, <2>2
    <3>2. /\ \E s \in Sides : p \in bucket[e][s] /\ Passed(e, s)
          /\ \A q \in LeftReasons : <<p, q>> \in left[e] => q = r
      BY <1>2, <1>13, <3>1 DEF Skipped
    <3>3. QED
      BY <1>6, <3>1, <3>2
  <2>3. QED
    BY <2>1, <2>2
<1>14. Solved' /\ Skipped'
  BY <1>1, <1>12, <1>13 DEF Solved, Skipped
<1>15. QED
  BY <1>5, <1>8, <1>9, <1>14 DEF OutcomeInv

(* Both ways of solving a part are an answer of that kind.                 *)
LEMMA EveryPartIsAnswered ==
  ASSUME PlacesInv, OutcomeInv, NEW d \in Days, NEW side \in Sides,
         Solve(d, side) \/ NothingToSolve(d, side)
  PROVE  \E steps, reason : Answers(d, side, steps, reason)
<1>1. CASE Solve(d, side)
  <2>1. PICK steps \in SUBSET bucket[d][side] :
          /\ visited' = [visited EXCEPT ![d][side] = steps]
          /\ left' = [left EXCEPT ![d] = @ \cup {<<p, "SOLVER">> : p \in bucket[d][side] \ steps}]
    BY <1>1 DEF Solve
  <2>2. Answers(d, side, steps, "SOLVER")
    BY <1>1, <2>1 DEF Solve, Answers, LeftReasons
  <2>3. QED
    BY <2>2
<1>2. CASE NothingToSolve(d, side)
  <2> DEFINE reason == IF side = "ORIGIN" THEN "PRE_TRANSFER_WINDOW_INFEASIBLE"
                       ELSE "TRANSFER_WINDOW_INFEASIBLE"
  <2>1. Solving(d, side) /\ Part /\ Solved /\ visited \in [Days -> [Sides -> SUBSET Places]]
    BY <1>2 DEF NothingToSolve, Solving, OutcomeInv, Sides
  <2>2. ~Passed(d, side)
    BY <2>1 DEF Solving, Passed, Part, Days
  <2>3. visited[d][side] = {}
    BY <2>1, <2>2 DEF Solved
  <2>4. visited = [visited EXCEPT ![d][side] = {}]
    BY <2>1, <2>3
  <2>5. reason \in LeftReasons
    BY DEF LeftReasons
  <2>6. left' = [left EXCEPT ![d] = @ \cup {<<p, reason>> : p \in bucket[d][side] \ {}}]
    <3>1. left' = [left EXCEPT ![d] = @ \cup {<<p, reason>> : p \in bucket[d][side]}]
      BY <1>2 DEF NothingToSolve
    <3>2. bucket[d][side] \ {} = bucket[d][side]
      OBVIOUS
    <3>3. QED
      BY <3>1, <3>2
  <2> HIDE DEF reason
  <2>7. Answers(d, side, {}, reason)
    BY <1>2, <2>1, <2>4, <2>5, <2>6 DEF NothingToSolve, Answers
  <2>8. QED
    BY <2>7
<1>3. QED
  BY <1>1, <1>2

(* Every step keeps the account of what has become of the places.          *)
LEMMA OutcomesInductive == PlacesInv /\ OutcomeInv /\ [Next]_vars => OutcomeInv'
<1>1. SUFFICES ASSUME PlacesInv, OutcomeInv, [Next]_vars PROVE OutcomeInv'
  OBVIOUS
<1>2. ASSUME NEW p \in Places, PackPinned(p) \/ PackUnpinned(p)
      PROVE  OutcomeInv'
  <2>1. Packs(p)
    BY <1>1, <1>2, EveryPackPacks DEF PlacesInv
  <2>2. QED
    BY <1>1, <2>1, PackKeepsOutcomes
<1>3. ASSUME NEW d \in Days, NEW side \in Sides, Solve(d, side) \/ NothingToSolve(d, side)
      PROVE  OutcomeInv'
  <2>1. PICK steps, reason : Answers(d, side, steps, reason)
    BY <1>1, <1>3, EveryPartIsAnswered
  <2>2. QED
    BY <1>1, <2>1, AnswersKeepOutcomes
<1>4. ASSUME NEW d \in Days, NEW side \in Sides, SolveFails(d, side)
      PROVE  OutcomeInv'
  BY <1>4 DEF SolveFails, OutcomeInv
<1>5. CASE UNCHANGED vars
  <2>1. \A d, s : SidesOf(d)' = SidesOf(d) /\ FirstSide(d)' = FirstSide(d) /\ Passed(d, s)' = Passed(d, s)
    BY <1>5, Fixed DEF vars, SidesOf, FirstSide, Passed
  <2>2. UNCHANGED <<packed, now, bucket, visited, left>>
    BY <1>5 DEF vars
  <2>3. SUFFICES ASSUME now.side # "failed"
                 PROVE  Part' /\ Solved' /\ Skipped'
    BY <1>1, <2>2 DEF OutcomeInv
  <2>4. Part'
    BY <1>1, <2>1, <2>2, <2>3 DEF OutcomeInv, Part
  <2>5. Solved' /\ Skipped'
    BY <1>1, <2>1, <2>2, <2>3 DEF OutcomeInv, Solved, Skipped
  <2>6. QED
    BY <2>4, <2>5
<1>6. QED
  BY <1>1, <1>2, <1>3, <1>4, <1>5 DEF Next

(* "Every place has exactly one outcome": when the trip is done each of the*)
(* places sent is visited in one part of one day, skipped on one day for   *)
(* one reason, or unassigned, and no two of these.                         *)
THEOREM TripAccountsForEveryPlace == Spec => []ExactlyOneOutcome
<1>1. PlacesInv /\ OutcomeInv => ExactlyOneOutcome
  <2>1. SUFFICES ASSUME PlacesInv, OutcomeInv, now.side = "done", NEW p \in Places
                 PROVE  Outcomes(p) = 1
    BY DEF ExactlyOneOutcome
  <2>2. /\ Part /\ Solved /\ Skipped /\ OneOutcome
        /\ visited \in [Days -> [Sides -> SUBSET Places]]
        /\ left \in [Days -> SUBSET (Places \X LeftReasons)]
    BY <2>1 DEF OutcomeInv, PlacesInv
  <2>3. packed = Places
    BY <2>1, <2>2 DEF Part, FirstSide
  <2>4. \A d \in Days, s \in Sides : Passed(d, s)
    BY <2>1, <2>2, CountAssumption DEF Part, Passed, Days
  <2> DEFINE V == {ds \in Days \X Sides : p \in visited[ds[1]][ds[2]]}
             L == {e \in UNION {{d} \X left[d] : d \in Days} : e[2][1] = p}
  <2>5. Outcomes(p) = Cardinality(V) + Cardinality(L)
                      + (IF p \in turned THEN 1 ELSE 0)
                      + (IF unassigned[p] # "none" THEN 1 ELSE 0)
    BY DEF Outcomes
  <2>6. \A ds : ds \in V <=> \E d \in Days, s \in Sides : ds = <<d, s>> /\ p \in visited[d][s]
    OBVIOUS
  <2>7. \A e : e \in L <=> \E d \in Days, r \in LeftReasons : e = <<d, <<p, r>>>> /\ <<p, r>> \in left[d]
    <3>1. TAKE e
    <3>2. ASSUME e \in L
          PROVE  \E d \in Days, r \in LeftReasons : e = <<d, <<p, r>>>> /\ <<p, r>> \in left[d]
      <4>1. PICK d \in Days : e \in {d} \X left[d]
        BY <3>2
      <4>2. PICK x \in left[d] : e = <<d, x>>
        BY <4>1
      <4>3. PICK q \in Places, r \in LeftReasons : x = <<q, r>>
        BY <2>2, <4>2
      <4>4. q = p
        BY <3>2, <4>2, <4>3
      <4>5. QED
        BY <4>2, <4>3, <4>4
    <3>3. ASSUME NEW d \in Days, NEW r \in LeftReasons, e = <<d, <<p, r>>>>, <<p, r>> \in left[d]
          PROVE  e \in L
      <4>1. e \in {d} \X left[d] /\ e[2][1] = p
        BY <3>3
      <4>2. e \in UNION {{c} \X left[c] : c \in Days}
        BY <4>1
      <4>3. QED
        BY <4>1, <4>2
    <3>4. QED
      BY <3>2, <3>3
  <2> HIDE DEF V, L
  <2>8. Cardinality({}) = 0 /\ \A x : Cardinality({x}) = 1
    BY FS_EmptySet, FS_Singleton
  <2>9. CASE ~Assigned(p)
    <3>1. V = {} /\ L = {}
      <4>1. \A d \in Days, s \in Sides : p \notin visited[d][s]
        BY <2>2, <2>9 DEF Solved, Assigned
      <4>2. \A d \in Days, r \in LeftReasons : <<p, r>> \notin left[d]
        BY <2>2, <2>9 DEF Skipped, Assigned
      <4>3. V = {}
        BY <2>6, <4>1
      <4>4. L = {}
        BY <2>7, <4>2
      <4>5. QED
        BY <4>3, <4>4
    <3>2. (p \in turned /\ unassigned[p] = "none") \/ (p \notin turned /\ unassigned[p] # "none")
      BY <2>2, <2>3, <2>9 DEF OneOutcome
    <3>3. QED
      BY <2>5, <2>8, <3>1, <3>2
  <2>10. CASE Assigned(p)
    <3>1. PICK d \in Days, s \in Sides : p \in bucket[d][s]
      BY <2>10 DEF Assigned
    <3>2. p \notin turned /\ unassigned[p] = "none"
      BY <2>2, <2>10 DEF OneOutcome
    <3>3. \A e \in Days, t \in Sides : p \in bucket[e][t] => e = d /\ t = s
      BY <2>2, <3>1 DEF OneOutcome
    <3>4. \A e \in Days, t \in Sides : p \in visited[e][t] => e = d /\ t = s
      BY <2>2, <3>3 DEF Solved
    <3>5. \A e \in Days, r \in LeftReasons : <<p, r>> \in left[e] => e = d
      BY <2>2, <3>3 DEF Skipped
    <3>6. CASE p \in visited[d][s]
      <4>1. V = {<<d, s>>}
        BY <2>6, <3>4, <3>6
      <4>2. L = {}
        BY <2>2, <2>4, <2>7, <3>1, <3>5, <3>6 DEF Solved
      <4>3. Cardinality(V) = 1 /\ Cardinality(L) = 0
        BY <2>8, <4>1, <4>2
      <4>4. QED
        BY <2>5, <3>2, <4>3
    <3>7. CASE p \notin visited[d][s]
      <4>1. V = {}
        BY <2>6, <3>4, <3>7
      <4>2. PICK r \in LeftReasons : <<p, r>> \in left[d]
        BY <2>2, <2>4, <3>1, <3>7 DEF Solved
      <4>3. \A q \in LeftReasons : <<p, q>> \in left[d] => q = r
        BY <2>2, <4>2 DEF Skipped
      <4>4. L = {<<d, <<p, r>>>>}
        BY <2>7, <3>5, <4>2, <4>3
      <4>5. Cardinality(V) = 0 /\ Cardinality(L) = 1
        BY <2>8, <4>1, <4>4
      <4>6. QED
        BY <2>5, <3>2, <4>5
    <3>8. QED
      BY <3>6, <3>7
  <2>11. QED
    BY <2>9, <2>10
<1>2. QED
  BY <1>1, PlacesAlways, PlacesInitially, PlacesInductive, OutcomesInitially, OutcomesInductive, PTL DEF Spec

=============================================================================
