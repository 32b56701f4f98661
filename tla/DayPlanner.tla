----------------------------- MODULE DayPlanner -----------------------------
(***************************************************************************)
(* One day's route: optimize_route() of src/optimizer/solver/service.py    *)
(* over the heuristics of engine.py and the time windows of models.py.     *)
(*                                                                         *)
(* The places of a request are numbered in its order.  A request may name  *)
(* one several times: the search works on sets, the lists of skipped ones  *)
(* have an entry for each time.  The day's start and end locations, if     *)
(* given, are the two extra nodes Start and End.  Times count from         *)
(* midnight in units of which a day has 24.  The only await after the      *)
(* places are read is the one for the distance matrix, so the steps below  *)
(* are those of one sequential computation.                                *)
(***************************************************************************)
EXTENDS Integers, Sequences, FiniteSets, SequencesExt, FiniteSetsExt

CONSTANTS
  N,           \* number of places a request names
  Problems,    \* requests with the documents and travel times they meet
  MaxSweeps    \* max_iterations of two_opt

Places == 1..N
Start == 0
End == N + 1
Never == -1    \* no time: not set, not reachable
Node == Places \cup {Start, End}

(* What is stored of a place; its hours are those of the weekday asked for.*)
ValidDoc(doc) ==
  /\ doc.visit \in Nat \ {0} /\ doc.from \in Int /\ doc.to \in Int
  /\ doc.priority \in {"must_see", "normal", "optional"}
  /\ IsFiniteSet(doc.hours)
  /\ \A p \in doc.hours : p.open \in Nat /\ p.close \in Int

(* The validators of OptimizeRequest, which let a place be named again,    *)
(* and travel times that are durations.                                    *)
ValidRequest(q) ==
  /\ q.copies \in [Places -> 1..50]
  /\ q.day_start \in Nat /\ q.day_end \in 1..24 /\ q.day_start < q.day_end
  /\ q.start_anchor \in BOOLEAN /\ q.end_anchor \in BOOLEAN
  /\ \A p \in Places : ValidDoc(q.docs[p])
  /\ \A ab \in DOMAIN q.legs : q.legs[ab] \in Nat

(* "Segments must be non-overlapping" (TimeWindow.from_segments).          *)
ClosesBefore(p, later) == p.close # Never /\ ~p.overnight /\ p.close <= later.open

Apart(hours) ==
  \A p, other \in hours : p # other => ClosesBefore(p, other) \/ ClosesBefore(other, p)

ASSUME CountAssumption == N \in 1..50 /\ MaxSweeps \in Nat
ASSUME ProblemsAssumption == \A q \in Problems : ValidRequest(q)
ASSUME HoursAssumption == \A q \in Problems : \A p \in Places : Apart(q.docs[p].hours)

VARIABLES
  problem,     \* what was asked, and the world it meets
  pc,          \* filter, matrix, tier, start, grow, close, improve, done, failed
  window,      \* place -> its opening segments; {} if it cannot be planned
  skipped,     \* place -> the reason it is not in the plan, or "none"
  tier,        \* candidate sets tried so far, 0..3
  candidates,  \* the places of the running attempt
  starts,      \* nodes the attempt has still to start from
  route,       \* the route being built or improved
  clock,       \* departure from its last node
  round,       \* best route of the running attempt
  best,        \* best attempt: its route and its candidates
  sweeps,      \* rounds of two_opt
  plan,        \* the steps of the answer
  attempts     \* auxiliary: the attempts made, as pairs like best

vars == <<problem, pc, window, skipped, tier, candidates, starts, route, clock,
          round, best, sweeps, plan, attempts>>

given == <<problem, window>>
searching == <<skipped, sweeps, plan>>

Before(a, b) == IF a <= b THEN a ELSE b
After(a, b) == IF a >= b THEN a ELSE b

-----------------------------------------------------------------------------
(* TimeWindow: a set of segments.                                          *)

(* _parse_time_window(): the user's hours cut with the opening periods of  *)
(* the day; a period that closes on another day lasts until midnight, one  *)
(* without a close until the user's; periods are ignored without a date.   *)
ParseTimeWindow(doc) ==
  LET from == IF doc.from = Never THEN problem.day_start ELSE doc.from
      to == IF doc.to = Never THEN problem.day_end ELSE doc.to
      Cut(p) == [open |-> After(from, p.open),
                 close |-> CASE p.close = Never -> to
                             [] p.close # Never /\ p.overnight -> Before(to, 24)
                             [] p.close # Never /\ ~p.overnight -> Before(to, p.close)]
      segments == IF doc.dated
                  THEN {Cut(p) : p \in doc.hours}
                  ELSE {[open |-> from, close |-> to]}
  IN {s \in segments : s.close > s.open}

(* (Defect: the visit need only begin in a segment.)                       *)
EarliestStartAnyLength(w, arrival, visit) ==
  LET fits == {s \in w : After(arrival, s.open) <= s.close}
  IN IF fits = {} THEN Never ELSE Min({After(arrival, s.open) : s \in fits})

(* The visit must fit into one segment; waiting for it to open is allowed. *)
EarliestStart(w, arrival, visit) ==
  LET fits == {s \in w : After(arrival, s.open) + visit <= s.close}
  IN IF fits = {} THEN Never ELSE Min({After(arrival, s.open) : s \in fits})

(* close_s: the end of the last segment.                                   *)
Deadline(w) ==
  (CHOOSE s \in w : \A u \in w : u.open < s.open \/ (u.open = s.open /\ u.close <= s.close)).close

Visit(n) == IF n \in Places THEN problem.docs[n].visit ELSE 0

Begins(n, arrival) ==
  IF n \in Places THEN EarliestStart(window[n], arrival, Visit(n)) ELSE arrival

Leg(a, b) == IF <<a, b>> \in DOMAIN problem.legs THEN problem.legs[<<a, b>>] ELSE Never

(* schedule_route(): node by node, [arrival, departure], both Never from   *)
(* the first node on that cannot be reached or visited.                    *)
Schedule(r) ==
  LET Stop == [arrival |-> Never, departure |-> Never]
      At(n, arrival) ==
        LET b == Begins(n, arrival)
        IN IF b = Never THEN Stop ELSE [arrival |-> arrival, departure |-> b + Visit(n)]
      times[k \in 1..Len(r)] ==
        IF k = 1 THEN At(r[1], problem.day_start)
        ELSE IF times[k-1] = Stop \/ Leg(r[k-1], r[k]) = Never THEN Stop
        ELSE At(r[k], times[k-1].departure + Leg(r[k-1], r[k]))
  IN times

IsFeasible(r) ==
  LET last == Schedule(r)[Len(r)].departure IN last # Never /\ last <= problem.day_end

(* _route_travel_time(), for routes all of whose legs are known.           *)
TravelTime(r) ==
  LET total[k \in 0..Len(r)] == IF k <= 1 THEN 0 ELSE total[k-1] + Leg(r[k-1], r[k])
  IN total[Len(r)]

AllLegs(r) == \A k \in 1..(Len(r) - 1) : Leg(r[k], r[k+1]) # Never

-----------------------------------------------------------------------------
(* Priorities.                                                             *)
Priority(p) == problem.docs[p].priority

Visited(r) == ToSet(r) \cap Places

OfPriority(S, priority) == {p \in S : Priority(p) = priority}

RouteScore(r) ==
    1000000 * Cardinality(OfPriority(Visited(r), "must_see"))
  + 1000 * Cardinality(OfPriority(Visited(r), "normal"))
  + Cardinality(OfPriority(Visited(r), "optional"))

MustSee(S) == OfPriority(S, "must_see")

Schedulable == {p \in Places : window[p] # {}}

(* The candidate set of each tier.                                         *)
Tier(k) ==
  CASE k = 1 -> Schedulable
    [] k = 2 -> {p \in Schedulable : Priority(p) # "optional"}
    [] k = 3 -> MustSee(Schedulable)

NoAttempt == [route |-> <<>>, candidates |-> {}]

Init ==
  /\ problem \in Problems
  /\ pc = "filter"
  /\ window = [p \in Places |-> {}]
  /\ skipped = [p \in Places |-> "none"]
  /\ tier = 0 /\ candidates = {} /\ starts = {}
  /\ route = <<>> /\ clock = 0 /\ round = <<>>
  /\ best = NoAttempt /\ sweeps = 0 /\ plan = <<>>
  /\ attempts = {}

-----------------------------------------------------------------------------
(* Places that cannot be planned at all are set aside, each for its reason.*)
Filter ==
  /\ pc = "filter"
  /\ window' = [p \in Places |->
       IF problem.docs[p].located THEN ParseTimeWindow(problem.docs[p]) ELSE {}]
  /\ skipped' = [p \in Places |->
       CASE ~problem.docs[p].located -> "NO_COORDINATES"
         [] problem.docs[p].located /\ window'[p] = {} -> "TIME_WINDOW_INFEASIBLE"
         [] problem.docs[p].located /\ window'[p] # {} -> "none"]
  /\ pc' = IF \A p \in Places : window'[p] = {} THEN "done" ELSE "matrix"
  /\ UNCHANGED <<problem, tier, candidates, starts, route, clock, round, best,
                 sweeps, plan, attempts>>

(* get_matrix(): the legs, some of them missing, or none at all (503).     *)
GetMatrix ==
  /\ pc = "matrix"
  /\ pc' \in {"tier", "failed"}
  /\ UNCHANGED <<given, searching, tier, candidates, starts, route, clock, round,
                 best, attempts>>

-----------------------------------------------------------------------------
(* _solve_with_priorities(): a tier that removes nothing is skipped; after *)
(* the third the best attempt is the route.                                *)
BeginTier ==
  /\ pc = "tier" /\ tier < 3
  /\ tier' = tier + 1
  /\ IF Cardinality(Tier(tier + 1)) = Cardinality(candidates)
     THEN UNCHANGED <<pc, candidates, starts, round>>
     ELSE /\ candidates' = Tier(tier + 1)
          /\ starts' = IF problem.start_anchor THEN {Start} ELSE Tier(tier + 1)
          /\ round' = <<>>
          /\ pc' = "start"
  /\ UNCHANGED <<given, searching, route, clock, best, attempts>>

Settle ==
  /\ pc' = "improve"
  /\ route' = best'.route

TiersExhausted ==
  /\ pc = "tier" /\ tier = 3
  /\ UNCHANGED best
  /\ Settle
  /\ UNCHANGED <<given, searching, tier, candidates, starts, clock, round, attempts>>

(* nn_from_start() from the next node; a start that cannot be visited      *)
(* within the day gives no route.                                          *)
BeginStart ==
  /\ pc = "start" /\ starts # {}
  /\ LET s == Min(starts)
         begins == Begins(s, problem.day_start)
     IN /\ starts' = starts \ {s}
        /\ IF begins = Never \/ begins + Visit(s) > problem.day_end
           THEN UNCHANGED <<pc, route, clock>>
           ELSE pc' = "grow" /\ route' = <<s>> /\ clock' = begins + Visit(s)
  /\ UNCHANGED <<given, searching, tier, candidates, round, best, attempts>>

Unvisited == candidates \ ToSet(route)

Departs(c) ==
  LET b == Begins(c, clock + Leg(Last(route), c)) IN IF b = Never THEN Never ELSE b + Visit(c)

CanVisit(c) ==
  /\ Leg(Last(route), c) # Never /\ Departs(c) # Never
  /\ problem.end_anchor =>
       Leg(c, End) # Never /\ Departs(c) + Leg(c, End) <= problem.day_end

(* (Defect: the loosest deadline first.)                                   *)
NextNodesLatest ==
  LET open == {c \in Unvisited : CanVisit(c)}
  IN {c \in open : \A o \in open : Deadline(window[c]) >= Deadline(window[o])}

(* Earliest deadline first, then the shortest leg.  `unvisited` is a set,  *)
(* so which of several equals is met first is open.                        *)
NextNodes ==
  LET open == {c \in Unvisited : CanVisit(c)}
      Leads(c, o) ==
        \/ Deadline(window[c]) < Deadline(window[o])
        \/ /\ Deadline(window[c]) = Deadline(window[o])
           /\ Leg(Last(route), c) <= Leg(Last(route), o)
  IN {c \in open : \A o \in open : Leads(c, o)}

Extend ==
  /\ pc = "grow"
  /\ \E c \in NextNodes :
       IF Departs(c) > problem.day_end
       THEN pc' = "close" /\ UNCHANGED <<route, clock>>
       ELSE route' = Append(route, c) /\ clock' = Departs(c) /\ UNCHANGED pc
  /\ UNCHANGED <<given, searching, tier, candidates, starts, round, best, attempts>>

NothingMore ==
  /\ pc = "grow" /\ NextNodes = {}
  /\ pc' = "close"
  /\ UNCHANGED <<given, searching, tier, candidates, starts, route, clock, round,
                 best, attempts>>

(* The end anchor is appended; the attempt keeps the better route.         *)
Better(r, s) ==
  \/ RouteScore(r) > RouteScore(s)
  \/ RouteScore(r) = RouteScore(s) /\ TravelTime(r) < TravelTime(s)

EndStart ==
  /\ pc = "close"
  /\ LET reaches == /\ Leg(Last(route), End) # Never
                    /\ clock + Leg(Last(route), End) <= problem.day_end
         whole == IF problem.end_anchor THEN Append(route, End) ELSE route
     IN round' = IF (problem.end_anchor => reaches) /\ (round = <<>> \/ Better(whole, round))
                 THEN whole ELSE round
  /\ pc' = "start"
  /\ UNCHANGED <<given, searching, tier, candidates, starts, route, clock, best, attempts>>

(* (Defect: the first attempt is always good enough.)                      *)
EndTierFirst ==
  /\ pc = "start" /\ starts = {}
  /\ LET attempt == [route |-> round, candidates |-> candidates]
     IN /\ best' = IF best = NoAttempt THEN attempt ELSE best
        /\ attempts' = attempts \cup {attempt}
  /\ Settle
  /\ UNCHANGED <<given, searching, tier, candidates, starts, clock, round>>

(* The attempt is compared with the earlier ones; the search goes on while *)
(* it leaves out a must-see place.                                         *)
EndTier ==
  /\ pc = "start" /\ starts = {}
  /\ LET attempt == [route |-> round, candidates |-> candidates]
     IN /\ best' = IF best = NoAttempt \/ RouteScore(round) > RouteScore(best.route)
                   THEN attempt ELSE best
        /\ attempts' = attempts \cup {attempt}
        /\ IF MustSee(candidates \ ToSet(round)) = {}
           THEN Settle
           ELSE pc' = "tier" /\ UNCHANGED route
  /\ UNCHANGED <<given, searching, tier, candidates, starts, clock, round>>

-----------------------------------------------------------------------------
(* two_opt(): the segment a+1..b reversed.  The first node never moves,    *)
(* nor does an end anchor.  (Defect: the first node of a cut moves too.)   *)
FlipFromA(r, a, b) == [k \in 1..Len(r) |-> IF a <= k /\ k <= b THEN r[a + b - k] ELSE r[k]]

Flip(r, a, b) == [k \in 1..Len(r) |-> IF a < k /\ k <= b THEN r[a + 1 + b - k] ELSE r[k]]

Cuts == {ab \in (1..Len(route)) \X (1..Len(route)) :
           ab[1] + 2 <= ab[2] /\ (problem.end_anchor => ab[2] < Len(route))}

(* (Defect: shorter is enough.)                                            *)
ShorterOnly(ab) ==
  LET r == Flip(route, ab[1], ab[2]) IN AllLegs(r) /\ TravelTime(r) < TravelTime(route)

Improves(ab) ==
  LET r == Flip(route, ab[1], ab[2])
  IN AllLegs(r) /\ TravelTime(r) < TravelTime(route) /\ IsFeasible(r)

Improving == {ab \in Cuts : Improves(ab)}

Searches == Len(route) >= 4 /\ sweeps < MaxSweeps

Swap ==
  /\ pc = "improve" /\ Searches
  /\ \E ab \in Improving :
       /\ \A other \in Improving :
            ab[1] < other[1] \/ (ab[1] = other[1] /\ ab[2] <= other[2])
       /\ route' = Flip(route, ab[1], ab[2])
  /\ sweeps' = sweeps + 1
  /\ UNCHANGED <<given, pc, skipped, tier, candidates, starts, clock, round, best,
                 plan, attempts>>

-----------------------------------------------------------------------------
(* Why the solver left a place out.  The edges expected of a place named   *)
(* twice include one to itself, which no matrix has.                       *)
SkipReason(p) ==
  LET others == best.candidates \ {p}
      edges == {o \in others : Leg(p, o) # Never \/ Leg(o, p) # Never}
      whole == edges = others /\ problem.copies[p] = 1
  IN CASE edges = {} -> "NO_MATRIX_ENTRY"
       [] edges # {} /\ ~whole -> "MATRIX_INCOMPLETE"
       [] edges # {} /\ whole -> "TIME_WINDOW_INFEASIBLE"

(* (Defect: only the places the kept attempt left out are reported.)       *)
FinalReasonsOfAttempt(p) ==
  IF p \in best.candidates \ ToSet(best.route) THEN SkipReason(p) ELSE skipped[p]

FinalReason(p) ==
  IF p \in Schedulable \ best.candidates THEN "DROPPED_LOW_PRIORITY"
  ELSE IF p \in best.candidates \ ToSet(best.route) THEN SkipReason(p)
  ELSE skipped[p]

(* How many entries of the answer's `skipped` name the place: as many as   *)
(* the request, but one if it was left over by a route from the day's      *)
(* start location (nn_from_start() returns what remains of a set).         *)
Entries(p) ==
  IF skipped[p] = "none" THEN 0
  ELSE IF p \in best.candidates /\ problem.start_anchor /\ best.route # <<>> THEN 1
  ELSE problem.copies[p]

(* The wall-clock schedule; seconds_to_time() wraps at midnight.           *)
Finish ==
  /\ pc = "improve" /\ (Searches => Improving = {})
  /\ skipped' = [p \in Places |-> FinalReason(p)]
  /\ LET times == Schedule(route)
         stops == IF route # <<>> /\ times[Len(route)].departure # Never
                  THEN {k \in 1..Len(route) : route[k] \in Places} ELSE {}
         Stop(i) == CHOOSE k \in stops : Cardinality({j \in stops : j < k}) = i - 1
     IN plan' = [i \in 1..Cardinality(stops) |->
                   [place |-> route[Stop(i)],
                    arrival |-> times[Stop(i)].arrival % 24,
                    departure |-> times[Stop(i)].departure % 24]]
  /\ pc' = "done"
  /\ UNCHANGED <<given, tier, candidates, starts, route, clock, round, best, sweeps, attempts>>

Next ==
  \/ Filter \/ GetMatrix
  \/ BeginTier \/ TiersExhausted \/ BeginStart \/ Extend \/ NothingMore \/ EndStart \/ EndTier
  \/ Swap \/ Finish

Spec == Init /\ [][Next]_vars

-----------------------------------------------------------------------------
(* No place of the request is lost: each is one step of the plan, however  *)
(* often it was named, or it is skipped for one reason, whatever attempt   *)
(* won and whatever two_opt did to its route afterwards.  A skipped place  *)
(* is listed once if it was named once, and never more often than that.    *)
EveryPlaceAccounted ==
  pc = "done" =>
    \A p \in Places :
      LET visits == Cardinality({i \in 1..Len(plan) : plan[i].place = p})
      IN \/ visits = 1 /\ Entries(p) = 0
         \/ visits = 0 /\ Entries(p) \in 1..problem.copies[p]

(* The plan can be walked: the first place is reached from the day's start *)
(* and each next one from its predecessor, every visit lies within the     *)
(* user's hours and one opening period of that day, and the day's end      *)
(* location is reached before the day is over.                             *)
Leaves(step) == IF step.departure = 0 THEN 24 ELSE step.departure

WhileOpen(doc, from, to) ==
  /\ doc.from # Never => doc.from <= from
  /\ doc.to # Never => to <= doc.to
  /\ doc.dated => \E p \in doc.hours :
       p.open <= from /\ (p.close = Never \/ p.overnight \/ to <= p.close)

PlanIsFeasible ==
  pc = "done" =>
    \A i \in 1..Len(plan) :
      LET step == plan[i]
          p == step.place
      IN /\ step.arrival =
              IF i > 1 THEN Leaves(plan[i-1]) + Leg(plan[i-1].place, p)
              ELSE problem.day_start + IF problem.start_anchor THEN Leg(Start, p) ELSE 0
         /\ step.arrival <= Leaves(step) - Visit(p)
         /\ WhileOpen(problem.docs[p], Leaves(step) - Visit(p), Leaves(step))
         /\ Leaves(step) <= problem.day_end
         /\ i = Len(plan) /\ problem.end_anchor =>
              Leg(p, End) # Never /\ Leaves(step) + Leg(p, End) <= problem.day_end

(* The "hard must-see guarantee" of _solve_with_priorities(): a must-see   *)
(* place is never dropped for its priority, and it is left out only when   *)
(* even the attempt with nothing but must-sees left one out and no attempt *)
(* visits more of them than the plan does.                                 *)
MustSeeGuarantee ==
  pc = "done" =>
    LET planned == MustSee({plan[i].place : i \in 1..Len(plan)})
    IN \A m \in MustSee(Schedulable) \ planned :
         /\ skipped[m] # "DROPPED_LOW_PRIORITY"
         /\ \E a \in attempts : a.candidates = MustSee(Schedulable)
         /\ \A a \in attempts :
              Cardinality(MustSee(Visited(a.route))) <= Cardinality(planned)

(* The search gives up at the first earliest-deadline place that would end *)
(* after the day, and still misses no place whose deadline is within it;   *)
(* with an end location "the anchor is [...] only appended once no further *)
(* real place can be visited" (nn_from_start).                             *)
StopsWhenNothingFits ==
  pc = "close" =>
    \A c \in Unvisited :
      Deadline(window[c]) <= problem.day_end \/ problem.end_anchor =>
        ~(CanVisit(c) /\ Departs(c) <= problem.day_end)

(* What two_opt() may do to the attempt that won: "position 0 is           *)
(* structurally never moved", an end location stays last, and the route    *)
(* does not travel longer than before.                                     *)
TwoOptKeepsTheEnds ==
  pc = "done" /\ best.route # <<>> =>
    /\ Head(route) = Head(best.route)
    /\ problem.end_anchor => Last(route) = End
    /\ TravelTime(route) <= TravelTime(best.route)
=============================================================================
