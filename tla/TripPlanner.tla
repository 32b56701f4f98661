---------------------------- MODULE TripPlanner ----------------------------
(***************************************************************************)
(* A multi-day trip: optimize_trip() of                                    *)
(* src/optimizer/solver/multi_day_service.py.  The places are partitioned  *)
(* over the days, one after the other, and each day is then solved on its  *)
(* own: an ordinary day in one call of optimize_route, a day with a        *)
(* transfer between two accommodations in up to two, before and after it   *)
(* (ADR-16, ADR-17).                                                       *)
(*                                                                         *)
(* DayPlanner is about one such call; all that is used of it here is that  *)
(* every place of the call is visited or skipped (EveryPlaceAccounted), or *)
(* that the call fails for want of a distance matrix.                      *)
(*                                                                         *)
(* Days are numbered as their dates are.  Locations are points of a line,  *)
(* times and visit lengths whole hours.                                    *)
(***************************************************************************)
EXTENDS Integers, Sequences, FiniteSets, SequencesExt, FiniteSetsExt

CONSTANTS
  N, D,       \* number of places and of days
  Problems,   \* valid requests, with the documents of their places
  None        \* not set

Places == 1..N
Days == 1..D

(* resolve_day_bound_s(): an explicit time wins over the hour.             *)
Bound(hour, time) == IF time = None THEN hour ELSE time

(* The fields and validators of DayConfig.                                 *)
ValidDay(c) ==
  /\ c.start_hour \in 0..23 /\ c.start_time \in 0..23 \cup {None}
  /\ c.end_hour \in 1..24 /\ c.end_time \in 0..23 \cup {None}
  /\ c.end_time = None \/ (c.end_time # 0 /\ c.end_hour # 24)
  /\ Bound(c.start_hour, c.start_time) < Bound(c.end_hour, c.end_time)

(* Stays cover at least one night and share none.                          *)
ValidStays(stays) ==
  /\ \A s \in stays :
       /\ s.check_in \in Int /\ s.check_out \in Int /\ s.check_in < s.check_out
       /\ s.check_in_from \in 0..23 \cup {None} /\ s.check_out_by \in 0..23 \cup {None}
  /\ \A s, t \in stays : s # t => s.check_out <= t.check_in \/ t.check_out <= s.check_in

(* A transfer is over on the same day.                                     *)
ValidTransfer(t) ==
  t.departure \in 0..23 /\ t.arrival \in 0..23 /\ t.departure < t.arrival

(* A visit takes some time: the validator of its length, and the default;  *)
(* there are three priorities, must_see the lowest number.                 *)
ValidDoc(doc) == doc.visit \in Nat \ {0} /\ doc.priority \in 0..2

(* The validators of MultiDayRequest: preferred days are days of the trip, *)
(* and a transfer falls on a change of stays, on a day without locations   *)
(* of its own.                                                             *)
ValidRequest(q) ==
  /\ \A p \in Places : q.prefs[p] \in Seq(Days) /\ ValidDoc(q.docs[p])
  /\ \A d \in Days : ValidDay(q.days[d])
  /\ ValidStays(q.stays)
  /\ \A d \in Days : q.transfers[d] # None =>
       /\ ValidTransfer(q.transfers[d])
       /\ \E s, t \in q.stays : s.check_out = d /\ t.check_in = d
       /\ q.days[d].start_at = None /\ q.days[d].end_at = None

ASSUME NoneAssumption == None \notin Int
ASSUME CountAssumption == N \in Nat /\ D \in Nat \ {0}
ASSUME ProblemsAssumption == \A q \in Problems : ValidRequest(q)

(* "DAY" stands for the only part of an ordinary day.                      *)
Sides == {"DAY", "ORIGIN", "DESTINATION"}

VARIABLES
  problem,     \* days, stays, transfers, places and their documents
  packed,      \* the places that have been through _partition_places
  bucket,      \* day, side -> places assigned
  unassigned,  \* place -> why no day takes it, or "none"
  turned,      \* pinned places set aside before the solver (NO_COORDINATES)
  now,         \* the part of the trip to be solved next, or "done", "failed"
  requests,    \* the calls of optimize_route made so far
  visited,     \* day, side -> places in the steps of its plan
  left         \* day -> pairs of a place and why the plan skips it

vars == <<problem, packed, bucket, unassigned, turned, now, requests, visited, left>>

-----------------------------------------------------------------------------
Cfg(d) == problem.days[d]
Doc(p) == problem.docs[p]
Pref(p) == problem.prefs[p]

DayStart(d) == Bound(Cfg(d).start_hour, Cfg(d).start_time)
DayEnd(d) == Bound(Cfg(d).end_hour, Cfg(d).end_time)

(* resolve_day_anchors(): where the traveller woke up and where they will  *)
(* sleep.                                                                  *)
StayOf(d) ==
  [start |-> {s \in problem.stays : s.check_in < d /\ d <= s.check_out},
   end |-> {s \in problem.stays : s.check_in <= d /\ d < s.check_out}]

ChangesStay(d) == StayOf(d).start # {} /\ StayOf(d).end # {} /\ StayOf(d).start # StayOf(d).end

(* (Defect: the two stays are taken for one another.)                      *)
OriginSwapped(d) == CHOOSE s \in StayOf(d).end : TRUE

Origin(d) == CHOOSE s \in StayOf(d).start : TRUE
Destination(d) == CHOOSE s \in StayOf(d).end : TRUE

(* A day with a TransitionDayContext: a transfer between two stays.        *)
HasContext(d) == problem.transfers[d] # None /\ ChangesStay(d)

SidesOf(d) == IF HasContext(d) THEN {"ORIGIN", "DESTINATION"} ELSE {"DAY"}

PreEnd(d) ==
  Min({problem.transfers[d].departure, DayEnd(d),
       Bound(problem.transfers[d].departure, Origin(d).check_out_by)})

PostStart(d) ==
  Max({problem.transfers[d].arrival, DayStart(d),
       Bound(DayStart(d), Destination(d).check_in_from)})

Window(d, side) ==
  CASE side = "DAY" -> [from |-> DayStart(d), to |-> DayEnd(d)]
    [] side = "ORIGIN" -> [from |-> DayStart(d), to |-> PreEnd(d)]
    [] side = "DESTINATION" -> [from |-> PostStart(d), to |-> DayEnd(d)]

(* The visit budget of a side of a transition day.                         *)
Budget(d, side) == Max({0, Window(d, side).to - Window(d, side).from})

-----------------------------------------------------------------------------
(* _transition_side(): the nearer of the two stays, the origin if even.    *)
Distance(a, b) == IF a < b THEN b - a ELSE a - b

Side(p, d) ==
  CASE ~HasContext(d) -> "DAY"
    [] HasContext(d) /\ Doc(p).at = None -> "NO_COORDINATES"
    [] HasContext(d) /\ Doc(p).at # None ->
         IF Distance(Doc(p).at, Destination(d).at) < Distance(Doc(p).at, Origin(d).at)
         THEN "DESTINATION" ELSE "ORIGIN"

Visits == [p \in Places |-> Doc(p).visit]

Fill(d, side) == SumFunctionOnSet(Visits, bucket[d][side])

(* remaining_capacity(): of an ordinary day by its hours alone.            *)
Remaining(d, side) ==
  CASE side = "DAY" -> Cfg(d).end_hour - Cfg(d).start_hour - Fill(d, "DAY")
    [] side = "ORIGIN" -> Budget(d, "ORIGIN") - Fill(d, "ORIGIN")
    [] side \in {"DESTINATION", "NO_COORDINATES"} ->
         Budget(d, "DESTINATION") - Fill(d, "DESTINATION")

(* (Defect: any room left is enough.)                                      *)
AdmissibleOverfull(p, d) ==
  \/ ~HasContext(d)
  \/ Side(p, d) # "NO_COORDINATES" /\ Remaining(d, Side(p, d)) > 0

Admissible(p, d) ==
  \/ ~HasContext(d)
  \/ Side(p, d) # "NO_COORDINATES" /\ Remaining(d, Side(p, d)) >= Doc(p).visit

(* _open_day_indices(): no opening hours on any day of the trip is taken   *)
(* as open on all of them.                                                 *)
OpenDays(p) == IF Doc(p).open \cap Days = {} THEN Days ELSE Doc(p).open \cap Days

Preferred(p) == ToSet(Pref(p))

(* (Defect: a preferred day on which the place is closed is replaced.)     *)
CandidateDaysOpen(p) == OpenDays(p)

CandidateDays(p) ==
  CASE Preferred(p) = {} -> OpenDays(p)
    [] Preferred(p) # {} /\ Preferred(p) \cap OpenDays(p) # {} -> Preferred(p) \cap OpenDays(p)
    [] Preferred(p) # {} /\ Preferred(p) \cap OpenDays(p) = {} -> Preferred(p)

(* The day with the most remaining capacity, of several the first: in the  *)
(* order of the preferences, and of the trip if there are none.            *)
Listed(p, d) ==
  Min({i \in 1..Len(Pref(p)) : Pref(p)[i] = d} \cup {Len(Pref(p)) + d})

Room(p, d) == Remaining(d, Side(p, d))

Roomiest(p, days) ==
  CHOOSE d \in days :
    \A e \in days : \/ Room(p, e) < Room(p, d)
                    \/ Room(p, e) = Room(p, d) /\ Listed(p, d) <= Listed(p, e)

(* Pinned places first, then the flexible ones, then the others, the       *)
(* latter two in order of priority.                                        *)
Pinned(p) == Len(Pref(p)) = 1

Rank(p) ==
  CASE Pinned(p) -> 0
    [] Len(Pref(p)) > 1 -> 1 + Doc(p).priority
    [] Len(Pref(p)) = 0 -> 4 + Doc(p).priority

Precedes(p, q) == Rank(p) < Rank(q) \/ (Rank(p) = Rank(q) /\ p < q)

Turn(p) ==
  /\ p \in Places \ packed
  /\ \A q \in Places \ packed : q = p \/ Precedes(p, q)

Put(p, d, side) == bucket' = [bucket EXCEPT ![d][side] = @ \cup {p}]

FirstSide(d) == IF HasContext(d) THEN "ORIGIN" ELSE "DAY"

Init ==
  /\ problem \in Problems
  /\ packed = {}
  /\ bucket = [d \in Days |-> [s \in Sides |-> {}]]
  /\ unassigned = [p \in Places |-> "none"]
  /\ turned = {}
  /\ now = [day |-> 1, side |-> FirstSide(1)]
  /\ requests = <<>>
  /\ visited = [d \in Days |-> [s \in Sides |-> {}]]
  /\ left = [d \in Days |-> {}]

-----------------------------------------------------------------------------
(* _partition_places(), one place at a time.                               *)
PackPinned(p) ==
  /\ Turn(p) /\ Pinned(p)
  /\ packed' = packed \cup {p}
  /\ LET d == Pref(p)[1]
     IN IF Side(p, d) = "NO_COORDINATES"
        THEN turned' = turned \cup {p} /\ UNCHANGED bucket
        ELSE Put(p, d, Side(p, d)) /\ UNCHANGED turned
  /\ UNCHANGED <<problem, unassigned, now, requests, visited, left>>

Rejection(side) ==
  CASE side = "NO_COORDINATES" -> "NO_COORDINATES"
    [] side = "ORIGIN" -> "PRE_TRANSFER_CAPACITY_EXCEEDED"
    [] side = "DESTINATION" -> "CAPACITY_EXCEEDED"

(* (Defect, named by ADR-16: the roomiest day is picked first and its      *)
(* budget looked at afterwards.)                                           *)
PackUnpinnedRankFirst(p) ==
  /\ Turn(p) /\ ~Pinned(p)
  /\ packed' = packed \cup {p}
  /\ LET d == Roomiest(p, CandidateDays(p))
     IN IF Admissible(p, d)
        THEN Put(p, d, Side(p, d)) /\ UNCHANGED unassigned
        ELSE /\ unassigned' = [unassigned EXCEPT ![p] = Rejection(Side(p, d))]
             /\ UNCHANGED bucket
  /\ UNCHANGED <<problem, turned, now, requests, visited, left>>

PackUnpinned(p) ==
  /\ Turn(p) /\ ~Pinned(p)
  /\ packed' = packed \cup {p}
  /\ LET admissible == {d \in CandidateDays(p) : Admissible(p, d)}
         best == Roomiest(p, IF admissible # {} THEN admissible ELSE CandidateDays(p))
     IN IF admissible # {}
        THEN Put(p, best, Side(p, best)) /\ UNCHANGED unassigned
        ELSE /\ unassigned' = [unassigned EXCEPT ![p] = Rejection(Side(p, best))]
             /\ UNCHANGED bucket
  /\ UNCHANGED <<problem, turned, now, requests, visited, left>>

-----------------------------------------------------------------------------
(* The days are solved in order.                                           *)
After(part) ==
  IF part.side = "ORIGIN" THEN [day |-> part.day, side |-> "DESTINATION"]
  ELSE IF part.day < D THEN [day |-> part.day + 1, side |-> FirstSide(part.day + 1)]
  ELSE [day |-> D + 1, side |-> "done"]

Solving(d, side) ==
  /\ packed = Places
  /\ now = [day |-> d, side |-> side]

(* _resolve_segment_end_bound_fields(): 24 is the only way to say midnight.*)
EndBound(end) ==
  IF end >= 24 THEN [hour |-> 24, time |-> None] ELSE [hour |-> 23, time |-> end]

(* explicit DayConfig anchor, else the accommodation's unless the day      *)
(* changes stays, else the trip's.                                         *)
Anchor(explicit, stays, d, global) ==
  IF explicit # None THEN explicit
  ELSE IF stays # {} /\ ~ChangesStay(d) THEN (CHOOSE s \in stays : TRUE).at
  ELSE global

Call(d, side, startTime, end, from, to) ==
  [day |-> d, side |-> side, places |-> bucket[d][side],
   start_hour |-> Cfg(d).start_hour, start_time |-> startTime,
   end_hour |-> end.hour, end_time |-> end.time, start_at |-> from, end_at |-> to]

(* The day's own end.                                                      *)
OwnEnd(d) == [hour |-> Cfg(d).end_hour, time |-> Cfg(d).end_time]

DayRequest(d) ==
  Call(d, "DAY", Cfg(d).start_time, OwnEnd(d),
       Anchor(Cfg(d).start_at, StayOf(d).start, d, problem.start_at),
       Anchor(Cfg(d).end_at, StayOf(d).end, d, problem.end_at))

(* (Defect, named by ADR-17: the day's end hour is forwarded as it is.)    *)
PreRequestForwarded(d) ==
  Call(d, "ORIGIN", Cfg(d).start_time, [hour |-> Cfg(d).end_hour, time |-> PreEnd(d)],
       Origin(d).at, Origin(d).at)

PreRequest(d) ==
  Call(d, "ORIGIN", Cfg(d).start_time, EndBound(PreEnd(d)), Origin(d).at, Origin(d).at)

PostRequest(d) ==
  Call(d, "DESTINATION", PostStart(d) % 24, OwnEnd(d), Destination(d).at, Destination(d).at)

Request(d, side) ==
  CASE side = "DAY" -> DayRequest(d)
    [] side = "ORIGIN" -> PreRequest(d)
    [] side = "DESTINATION" -> PostRequest(d)

(* optimize_route() answers: some places are visited, the others skipped.  *)
Solve(d, side) ==
  /\ Solving(d, side)
  /\ bucket[d][side] # {}
  /\ side \in {"ORIGIN", "DESTINATION"} => Budget(d, side) > 0
  /\ requests' = Append(requests, Request(d, side))
  /\ \E steps \in SUBSET bucket[d][side] :
       /\ visited' = [visited EXCEPT ![d][side] = steps]
       /\ left' = [left EXCEPT ![d] = @ \cup {<<p, "SOLVER">> : p \in bucket[d][side] \ steps}]
  /\ now' = After(now)
  /\ UNCHANGED <<problem, packed, bucket, unassigned, turned>>

(* The matrix is unavailable: the whole request fails (503).               *)
SolveFails(d, side) ==
  /\ Solving(d, side)
  /\ bucket[d][side] # {}
  /\ side \in {"ORIGIN", "DESTINATION"} => Budget(d, side) > 0
  /\ requests' = Append(requests, Request(d, side))
  /\ now' = [day |-> d, side |-> "failed"]
  /\ UNCHANGED <<problem, packed, bucket, unassigned, turned, visited, left>>

(* (Defect: the pinned places of a side without a window are not reported.)*)
NothingToSolveSilent(d, side) ==
  /\ Solving(d, side)
  /\ bucket[d][side] = {} \/ (side \in {"ORIGIN", "DESTINATION"} /\ Budget(d, side) = 0)
  /\ now' = After(now)
  /\ UNCHANGED <<problem, packed, bucket, unassigned, turned, requests, visited, left>>

(* Nothing is assigned, or the side has no window: its (pinned) places are *)
(* reported instead.                                                       *)
NothingToSolve(d, side) ==
  /\ Solving(d, side)
  /\ bucket[d][side] = {} \/ (side \in {"ORIGIN", "DESTINATION"} /\ Budget(d, side) = 0)
  /\ left' = [left EXCEPT ![d] = @ \cup
       {<<p, IF side = "ORIGIN" THEN "PRE_TRANSFER_WINDOW_INFEASIBLE"
             ELSE "TRANSFER_WINDOW_INFEASIBLE">> : p \in bucket[d][side]}]
  /\ now' = After(now)
  /\ UNCHANGED <<problem, packed, bucket, unassigned, turned, requests, visited>>

Next ==
  \/ \E p \in Places : PackPinned(p) \/ PackUnpinned(p)
  \/ \E d \in Days, side \in Sides :
       Solve(d, side) \/ SolveFails(d, side) \/ NothingToSolve(d, side)

Spec == Init /\ [][Next]_vars

-----------------------------------------------------------------------------
(* "Every place has exactly one outcome" (ADR-17, decision 13): visited in *)
(* one part of one day, skipped on one day for one reason, or unassigned.  *)
Outcomes(p) ==
  Cardinality({ds \in Days \X Sides : p \in visited[ds[1]][ds[2]]})
  + Cardinality({e \in UNION {{d} \X left[d] : d \in Days} : e[2][1] = p})
  + (IF p \in turned THEN 1 ELSE 0)
  + (IF unassigned[p] # "none" THEN 1 ELSE 0)

ExactlyOneOutcome == now.side = "done" => \A p \in Places : Outcomes(p) = 1

(* The budget of a side is a ceiling for places that were not pinned to    *)
(* it: as soon as one was admitted, the visits together fit the budget.    *)
BudgetIsACeiling ==
  \A d \in Days : HasContext(d) =>
    \A s \in {"ORIGIN", "DESTINATION"} :
      (\E p \in bucket[d][s] : ~Pinned(p)) => Fill(d, s) <= Budget(d, s)

(* "Admissible first, then rank" (ADR-16, decision 7): a place is          *)
(* unassigned only if each day it could be on is a transition day whose    *)
(* matching side has no room for it.                                       *)
UnassignedHadNoRoom ==
  \A p \in Places : unassigned[p] # "none" =>
    \A d \in CandidateDays(p) : ~Admissible(p, d)

(* A place with preferred days is planned, skipped or set aside on one of  *)
(* them, and on a transition day with the stay it is nearer to, whatever   *)
(* room there is elsewhere.                                                *)
PreferencesAreKept ==
  \A p \in Places, d \in Days, s \in Sides :
    p \in bucket[d][s] =>
      /\ Pref(p) # <<>> => d \in Preferred(p)
      /\ HasContext(d) => s = Side(p, d)

(* Every day request the trip derives is one that OptimizeRequest accepts  *)
(* (ADR-17, decision 7): its validators raise on none of them.             *)
RequestsAreValid ==
  \A i \in 1..Len(requests) :
    LET q == requests[i]
    IN /\ q.places # {}
       /\ q.end_time # 0
       /\ ~(q.end_hour = 24 /\ q.end_time # None)
       /\ Bound(q.start_hour, q.start_time) < Bound(q.end_hour, q.end_time)

(* Accommodation anchors connect the days: without explicit anchors a day  *)
(* never starts at another place than the one where the day before ended.  *)
Explicit ==
  problem.start_at # None \/ problem.end_at # None
  \/ \E d \in Days : Cfg(d).start_at # None \/ Cfg(d).end_at # None

DaysConnect ==
  ~Explicit =>
    \A i, j \in 1..Len(requests) :
      LET q == requests[i]
          r == requests[j]
      IN /\ r.day = q.day + 1 /\ q.side # "ORIGIN" /\ r.side # "DESTINATION"
         /\ q.end_at # None /\ r.start_at # None
         => q.end_at = r.start_at
=============================================================================
