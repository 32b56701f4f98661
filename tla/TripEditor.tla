----------------------------- MODULE TripEditor -----------------------------
(***************************************************************************)
(* src/trips/editing: MultiDayTripEditor.apply() loads a trip, applies a   *)
(* batch of operations to a copy of its request, has the plan recomputed   *)
(* and writes both with a compare-and-set, while other editors and the     *)
(* pages of the frontend write the same trip.                              *)
(*                                                                         *)
(* apply_operations() runs without an await and is one step: stays first,  *)
(* by selectors that count the stays as they were before the batch, then   *)
(* the other operations in their order, then the transfers that lost their *)
(* changeover are dropped, then the validators run, once.  Dates are the   *)
(* numbers of the days; the coordinates of a stay go with its name.        *)
(***************************************************************************)
EXTENDS Integers, Sequences, FiniteSets, SequencesExt, FiniteSetsExt

CONSTANTS
  D,            \* days of the trip, dates 1..D
  Requests,     \* valid requests the trip may begin with, or a page may save
  Editors, Batches,  \* editor -> the batches it may be asked to apply
  MaxRevision,  \* bound: revisions of the trip
  None          \* not set; no trip, no request

VARIABLES
  head,     \* the trip's current revision, or None when it is deleted
  history,  \* revision -> request it was stored and shown with, or None
  stage,    \* editor -> what it awaits, or what it answered
  job       \* editor -> its batch and what it read and computed

vars == <<head, history, stage, job>>

Days == 1..D
Revisions == 0..MaxRevision

ASSUME BoundAssumption == MaxRevision \in Nat
ASSUME NoneAssumption == None \notin Revisions

-----------------------------------------------------------------------------
(* The operations that take optional fields and flags to clear some.       *)
Patched(rec, op) ==
  [f \in DOMAIN rec |->
     IF f \in op.clear THEN None
     ELSE IF f \in DOMAIN op.set THEN op.set[f] ELSE rec[f]]

Bound(hour, time) == IF time = None THEN hour ELSE time

(* resolve_day_anchors() and _is_transition_day(): positions in the list.  *)
WokeUpIn(stays, d) == {i \in DOMAIN stays : stays[i].check_in < d /\ d <= stays[i].check_out}
SleepsIn(stays, d) == {i \in DOMAIN stays : stays[i].check_in <= d /\ d < stays[i].check_out}

Changeover(stays, d) ==
  /\ d \in Days
  /\ WokeUpIn(stays, d) # {} /\ SleepsIn(stays, d) # {}
  /\ Min(WokeUpIn(stays, d)) # Min(SleepsIn(stays, d))

ValidStay(s) == s.check_in < s.check_out

ValidDay(c) ==
  /\ c.end_time = None \/ (c.end_time # 0 /\ c.end_hour # 24)
  /\ Bound(c.start_hour, c.start_time) < Bound(c.end_hour, c.end_time)

(* The validators of MultiDayRequest and of the models inside it.          *)
Valid(q) ==
  /\ Cardinality(DOMAIN q.places) >= 2
  /\ \A p \in DOMAIN q.places : \A i \in DOMAIN q.places[p] : q.places[p][i].day \in Days
  /\ \A d \in Days : ValidDay(q.days[d])
  /\ \A i \in DOMAIN q.stays : ValidStay(q.stays[i])
  /\ \A i, j \in DOMAIN q.stays :
       i # j => \/ q.stays[i].check_out <= q.stays[j].check_in
                \/ q.stays[j].check_out <= q.stays[i].check_in
  /\ \A i \in DOMAIN q.transfers :
       LET t == q.transfers[i]
       IN /\ t.departure < t.arrival
          /\ Changeover(q.stays, t.date)
          /\ q.days[t.date].at = None
  /\ \A i, j \in DOMAIN q.transfers : i # j => q.transfers[i].date # q.transfers[j].date

(* What the fields of the models hold, as far as it matters here.          *)
IsList(s) == s \in Seq(ToSet(s))
Dated(s) == s.check_in \in Int /\ s.check_out \in Int

Shaped(q) ==
  /\ DOMAIN q = {"places", "days", "mode", "stays", "transfers"}
  /\ DOMAIN q.days = Days
  /\ IsList(q.stays) /\ IsList(q.transfers)
  /\ \A s \in ToSet(q.stays) : {"check_in", "check_out"} \subseteq DOMAIN s /\ Dated(s)
  /\ \A t \in ToSet(q.transfers) : "date" \in DOMAIN t

ASSUME RequestsAssumption == \A q \in Requests : Shaped(q) /\ Valid(q)

(* The models of operations.py: a key that is not the operation's own is   *)
(* refused, and no operation clears or moves a date, except a stay's.      *)
Keys(name) ==
  CASE name \in {"set_place_auto", "remove_place"} -> {"op", "place"}
    [] name = "set_place_pinned" -> {"op", "place", "slot"}
    [] name = "set_place_flexible" -> {"op", "place", "slots"}
    [] name = "update_day_window" -> {"op", "day", "set", "clear"}
    [] name = "set_transport_mode" -> {"op", "mode"}
    [] name = "add_transfer" -> {"op", "transfer"}
    [] name = "update_transfer" -> {"op", "date", "set", "clear"}
    [] name = "remove_transfer" -> {"op", "date"}
    [] name = "add_accommodation" -> {"op", "stay"}
    [] name = "update_accommodation" -> {"op", "stay_index", "set", "clear"}
    [] name = "remove_accommodation" -> {"op", "stay_index"}

OpNames ==
  {"set_place_auto", "set_place_pinned", "set_place_flexible", "remove_place",
   "update_day_window", "set_transport_mode", "add_transfer", "update_transfer",
   "remove_transfer", "add_accommodation", "update_accommodation", "remove_accommodation"}

WellFormed(op) ==
  /\ op.op \in OpNames /\ DOMAIN op = Keys(op.op)
  /\ op.op = "set_place_flexible" => IsList(op.slots)
  /\ op.op = "add_transfer" => "date" \in DOMAIN op.transfer
  /\ op.op = "update_transfer" => "date" \notin op.clear \cup DOMAIN op.set
  /\ op.op = "add_accommodation" =>
       {"check_in", "check_out"} \subseteq DOMAIN op.stay /\ Dated(op.stay)
  /\ "stay_index" \in DOMAIN op => op.stay_index \in Nat
  /\ op.op = "update_accommodation" =>
       \A f \in {"check_in", "check_out"} :
         f \notin op.clear /\ (f \in DOMAIN op.set => op.set[f] \in Int)

ASSUME BatchesAssumption ==
  \A e \in Editors : \A batch \in Batches[e] :
    IsList(batch) /\ \A op \in ToSet(batch) : WellFormed(op)

-----------------------------------------------------------------------------
(* Stays: resolve_accommodation_selectors() and _apply_accommodation_ops().*)
StayOps == {"add_accommodation", "update_accommodation", "remove_accommodation"}
Named(batch, name) == {i \in DOMAIN batch : batch[i].op = name}
Selecting(batch) == Named(batch, "update_accommodation") \cup Named(batch, "remove_accommodation")

(* The position of the stay that k others check in before.                 *)
Selected(stays, k) ==
  CHOOSE i \in DOMAIN stays :
    Cardinality({j \in DOMAIN stays : stays[j].check_in < stays[i].check_in}) = k

SelectorsFail(stays, batch) ==
  \/ \E i \in Selecting(batch) : batch[i].stay_index >= Len(stays)
  \/ \E i, j \in Selecting(batch) : i # j /\ batch[i].stay_index = batch[j].stay_index

(* The entries of a list at the positions of S, in their order.            *)
Positions(S) ==
  [k \in 1..Cardinality(S) |-> CHOOSE i \in S : Cardinality({j \in S : j < i}) = k - 1]

Pick(list, S) == [k \in 1..Cardinality(S) |-> list[Positions(S)[k]]]

(* (Defect: a selector counts the stays as the operations before it left   *)
(* them.)                                                                  *)
StaysOneByOne(stays, batch) ==
  FoldLeft(LAMBDA s, op :
             CASE op.op = "update_accommodation" /\ op.stay_index < Len(s) ->
                    [s EXCEPT ![Selected(s, op.stay_index)] = Patched(@, op)]
               [] op.op = "remove_accommodation" /\ op.stay_index < Len(s) ->
                    RemoveAt(s, Selected(s, op.stay_index))
               [] op.op = "add_accommodation" -> Append(s, op.stay)
               [] OTHER -> s,
           stays, batch)

(* Updates in place, then removals, then additions.                        *)
StaysAfter(stays, batch) ==
  LET chosen(i) == Selected(stays, batch[i].stay_index)
      updated == [k \in DOMAIN stays |->
        IF \E i \in Named(batch, "update_accommodation") : chosen(i) = k
        THEN Patched(stays[k], batch[CHOOSE i \in Named(batch, "update_accommodation") : chosen(i) = k])
        ELSE stays[k]]
      kept == DOMAIN stays \ {chosen(i) : i \in Named(batch, "remove_accommodation")}
      added == Pick(batch, Named(batch, "add_accommodation"))
  IN Pick(updated, kept) \o [k \in DOMAIN added |-> added[k].stay]

-----------------------------------------------------------------------------
(* The other operations: what each refuses and what it changes.            *)
Slot(slots, day) == {i \in DOMAIN slots : slots[i].day = day}

(* merge_preserved_hours(): a bound the operation leaves open is taken     *)
(* over from the slot of that day.                                         *)
Merged(slots, new) ==
  LET old == IF Slot(slots, new.day) = {} THEN [from |-> None, to |-> None]
             ELSE slots[Min(Slot(slots, new.day))]
  IN [day |-> new.day, from |-> Bound(old.from, new.from), to |-> Bound(old.to, new.to)]

(* A pin without hours also carries the hours of the only slot along.      *)
Pinned(slots, new) ==
  LET m == Merged(slots, new)
  IN IF m.from = None /\ m.to = None /\ Len(slots) = 1
     THEN [m EXCEPT !.from = slots[1].from, !.to = slots[1].to] ELSE m

OnDate(q, d) == {i \in DOMAIN q.transfers : q.transfers[i].date = d}

Refused(q, op) ==
  CASE op.op \in {"set_place_auto", "set_place_pinned", "set_place_flexible", "remove_place"} ->
         \/ op.place \notin DOMAIN q.places
         \/ op.op = "remove_place" /\ Cardinality(DOMAIN q.places) - 1 < 2
         \/ op.op = "set_place_pinned" /\ op.slot.day \notin Days
         \/ op.op = "set_place_flexible" /\
              \/ \E i \in DOMAIN op.slots : op.slots[i].day \notin Days
              \/ \E i, j \in DOMAIN op.slots : i # j /\ op.slots[i].day = op.slots[j].day
    [] op.op = "update_day_window" -> op.day \notin Days
    [] op.op = "add_transfer" ->
         OnDate(q, op.transfer.date) # {} \/ op.transfer.date \notin Days
    [] op.op \in {"update_transfer", "remove_transfer"} -> OnDate(q, op.date) = {}
    [] OTHER -> FALSE

Handled(q, op) ==
  CASE op.op = "set_place_auto" -> [q EXCEPT !.places[op.place] = <<>>]
    [] op.op = "set_place_pinned" ->
         [q EXCEPT !.places[op.place] = <<Pinned(@, op.slot)>>]
    [] op.op = "set_place_flexible" ->
         [q EXCEPT !.places[op.place] = [i \in DOMAIN op.slots |-> Merged(@, op.slots[i])]]
    [] op.op = "remove_place" ->
         [q EXCEPT !.places = [p \in DOMAIN q.places \ {op.place} |-> q.places[p]]]
    [] op.op = "update_day_window" -> [q EXCEPT !.days[op.day] = Patched(@, op)]
    [] op.op = "set_transport_mode" -> [q EXCEPT !.mode = op.mode]
    [] op.op = "add_transfer" -> [q EXCEPT !.transfers = Append(@, op.transfer)]
    [] op.op = "update_transfer" ->
         [q EXCEPT !.transfers[Min(OnDate(q, op.date))] = Patched(@, op)]
    [] op.op = "remove_transfer" ->
         [q EXCEPT !.transfers = Pick(@, DOMAIN @ \ OnDate(q, op.date))]
    [] OTHER -> q

(* (Defect: an operation that is refused is passed over.)                  *)
InOrderLenient(q, batch) ==
  FoldLeft(LAMBDA acc, op :
             IF Refused(acc.q, op) THEN acc ELSE [acc EXCEPT !.q = Handled(acc.q, op)],
           [q |-> q, ok |-> TRUE], batch)

InOrder(q, batch) ==
  LET after[n \in 0..Len(batch)] ==
        IF n = 0 THEN [q |-> q, ok |-> TRUE]
        ELSE LET acc == after[n - 1]
             IN IF acc.ok /\ ~Refused(acc.q, batch[n])
                THEN [q |-> Handled(acc.q, batch[n]), ok |-> TRUE]
                ELSE [q |-> acc.q, ok |-> FALSE]
  IN after[Len(batch)]

-----------------------------------------------------------------------------
(* reconcile_transfers_after_transition_change(): a transfer on a date     *)
(* that had one before the batch is dropped when the date is no changeover *)
(* any more; any other is left for the validator to refuse.                *)
(* (Defect: every transfer from before the batch goes once stays change.)  *)
OrphanedByAnyChange(before, q) ==
  {t \in ToSet(q.transfers) : q.stays # before.stays /\ OnDate(before, t.date) # {}}

Orphaned(before, q) ==
  {t \in ToSet(q.transfers) : ~Changeover(q.stays, t.date) /\ OnDate(before, t.date) # {}}

(* apply_operations(): the new request and the dates of dropped transfers. *)
Rejected == [ok |-> FALSE, request |-> None, dropped |-> {}]

Apply(before, batch) ==
  IF SelectorsFail(before.stays, batch) THEN Rejected
  ELSE LET stays == StaysAfter(before.stays, batch)
           run == InOrder([before EXCEPT !.stays = stays], batch)
           gone == Orphaned(before, run.q)
           after == [run.q EXCEPT !.transfers = Pick(@, {i \in DOMAIN @ : @[i] \notin gone})]
       IN IF run.ok /\ (\A i \in DOMAIN stays : ValidStay(stays[i])) /\ Valid(after)
          THEN [ok |-> TRUE, request |-> after, dropped |-> {t.date : t \in gone}]
          ELSE Rejected

-----------------------------------------------------------------------------
Waiting == {"idle", "optimize", "persist", "recheck"}
Answers == {"applied", "conflict", "deleted", "rejected", "failed"}

Init ==
  /\ head = 0
  /\ \E q \in Requests : history = [r \in Revisions |-> IF r = 0 THEN q ELSE None]
  /\ stage = [e \in Editors |-> "idle"]
  /\ job = [e \in Editors |-> None]

Go(e, s) == stage' = [stage EXCEPT ![e] = s]

(* get(), the three checks, and apply_operations() on what was read; the   *)
(* revision the user confirmed was the current one at some time.           *)
Load(e, batch, expected) ==
  /\ stage[e] = "idle" /\ history[expected] # None
  /\ IF head = None THEN Go(e, "deleted") /\ UNCHANGED job
     ELSE IF head # expected THEN Go(e, "conflict") /\
            job' = [job EXCEPT ![e] = [batch |-> <<>>, expected |-> expected, before |-> None,
                                       after |-> None, dropped |-> {}]]
     ELSE LET out == Apply(history[head], batch)
          IN IF out.ok
             THEN /\ Go(e, "optimize")
                  /\ job' = [job EXCEPT ![e] =
                       [batch |-> batch, expected |-> expected, before |-> history[head],
                        after |-> out.request, dropped |-> out.dropped]]
             ELSE Go(e, "rejected") /\ UNCHANGED job
  /\ UNCHANGED <<head, history>>

(* optimize_trip(): no matrix, or an answer.                               *)
Optimize(e) ==
  /\ stage[e] = "optimize"
  /\ Go(e, "persist") \/ Go(e, "failed")
  /\ UNCHANGED <<head, history, job>>

(* (Defect: the revision is read again instead of the one confirmed.)      *)
PersistLatest(e) ==
  /\ stage[e] = "persist" /\ head # None /\ head < MaxRevision
  /\ head' = head + 1
  /\ history' = [history EXCEPT ![head + 1] = job[e].after]
  /\ Go(e, "applied")
  /\ UNCHANGED job

(* update(): a miss; the same snapshot again; or a new revision, which may *)
(* have the same request, with another plan computed for it.               *)
Persist(e) ==
  /\ stage[e] = "persist"
  /\ \/ head = None /\ Go(e, "deleted") /\ UNCHANGED <<head, history>>
     \/ head # None /\ head # job[e].expected /\ Go(e, "recheck") /\ UNCHANGED <<head, history>>
     \/ /\ head = job[e].expected /\ job[e].after = history[head]
        /\ Go(e, "applied") /\ UNCHANGED <<head, history>>
     \/ /\ head = job[e].expected /\ head < MaxRevision
        /\ head' = head + 1
        /\ history' = [history EXCEPT ![head + 1] = job[e].after]
        /\ Go(e, "applied")
  /\ UNCHANGED job

(* The driver fails the write.                                             *)
PersistFails(e) ==
  /\ stage[e] = "persist"
  /\ Go(e, "failed")
  /\ UNCHANGED <<head, history, job>>

(* "disambiguate here": moved on, or deleted.                              *)
Recheck(e) ==
  /\ stage[e] = "recheck"
  /\ Go(e, IF head = None THEN "deleted" ELSE "conflict")
  /\ UNCHANGED <<head, history, job>>

(* The pages of the frontend: PUT (of another name or plan with the same   *)
(* request, too) and DELETE.                                               *)
Save(q) ==
  /\ head # None /\ head < MaxRevision
  /\ head' = head + 1
  /\ history' = [history EXCEPT ![head + 1] = q]
  /\ UNCHANGED <<stage, job>>

Delete ==
  /\ head # None
  /\ head' = None
  /\ UNCHANGED <<history, stage, job>>

Next ==
  \/ \E e \in Editors :
       \/ \E batch \in Batches[e], expected \in Revisions : Load(e, batch, expected)
       \/ Optimize(e) \/ Persist(e) \/ PersistFails(e) \/ Recheck(e)
  \/ \E q \in Requests : Save(q)
  \/ Delete

Spec == Init /\ [][Next]_vars

-----------------------------------------------------------------------------
(* What is reported is so: a trip answered as deleted is gone, a conflict  *)
(* was about a revision that is no longer the current one, and an edit     *)
(* answered as applied is the next revision after the one its user         *)
(* confirmed it for, whoever wrote while the plan was being recomputed.    *)
AnswersAreTrue ==
  \A e \in Editors :
    /\ stage[e] = "deleted" => head = None
    /\ stage[e] = "conflict" => head # job[e].expected
    /\ stage[e] = "applied" =>
         /\ history[job[e].expected] = job[e].before
         /\ job[e].after # job[e].before =>
              history[job[e].expected + 1] = job[e].after

Computed(e) == stage[e] \in {"optimize", "persist", "recheck", "applied"}

(* "stay_index counts positions" before the batch (reconcile.py): whatever *)
(* the order and the mix of operations, the stay the user saw under a      *)
(* number is the one that was changed or removed, every other one is as it *)
(* was, and the additions follow.                                          *)
StaysAreThoseMeant ==
  \A e \in Editors : Computed(e) =>
    LET old == job[e].before.stays
        batch == job[e].batch
        earlier(s) == Cardinality({t \in ToSet(old) : t.check_in < s.check_in})
        meant(s) == {i \in Selecting(batch) : batch[i].stay_index = earlier(s)}
        survivors == {s \in ToSet(old) : \A i \in meant(s) : batch[i].op # "remove_accommodation"}
        changed(s) == IF meant(s) = {} THEN s ELSE Patched(s, batch[CHOOSE i \in meant(s) : TRUE])
        adds == Named(batch, "add_accommodation")
    IN /\ ToSet(job[e].after.stays) = {changed(s) : s \in survivors} \cup {batch[i].stay : i \in adds}
       /\ Len(job[e].after.stays) = Cardinality(survivors) + Cardinality(adds)

(* An operation removes the transfer of the date and none adds it again.   *)
TakenOff(batch, d) ==
  \E i \in Named(batch, "remove_transfer") :
    /\ batch[i].date = d
    /\ \A j \in Named(batch, "add_transfer") : batch[j].transfer.date = d => j < i

(* A transfer never disappears in silence: one that was there before the   *)
(* batch, or that the batch adds, is on its date afterwards or its date is *)
(* reported as dropped, unless the batch took it off last.  Only a date is *)
(* reported that had a transfer before and is no changeover any more, and  *)
(* one the batch adds to only if it first removed the earlier transfer.    *)
NoTransferLostSilently ==
  \A e \in Editors : Computed(e) =>
    LET before == job[e].before
        after == job[e].after
        batch == job[e].batch
        adds(d) == {j \in Named(batch, "add_transfer") : batch[j].transfer.date = d}
    IN /\ \A d \in {t.date : t \in ToSet(before.transfers)}
                   \cup {batch[j].transfer.date : j \in Named(batch, "add_transfer")} :
            TakenOff(batch, d) <=> (OnDate(after, d) = {} /\ d \notin job[e].dropped)
       /\ \A d \in job[e].dropped :
            /\ OnDate(before, d) # {} /\ OnDate(after, d) = {} /\ ~Changeover(after.stays, d)
            /\ \A j \in adds(d) : \E i \in Named(batch, "remove_transfer") :
                                  i < j /\ batch[i].date = d

(* "A transfer *added* in the batch on a non-transition day is left for    *)
(* [the validator] to reject" (ADR-20, reconcile.py): so of a batch that   *)
(* is accepted every transfer it adds, and does not take off again, is in  *)
(* the request.  (It is not: if the batch removed the date's transfer      *)
(* first, the date is among those of before the batch, and both go.)       *)
AddedIsKeptOrRefused ==
  \A e \in Editors : Computed(e) =>
    \A j \in Named(job[e].batch, "add_transfer") :
      LET d == job[e].batch[j].transfer.date
      IN OnDate(job[e].after, d) # {} \/ TakenOff(job[e].batch, d)

(* A batch is applied whole: each operation on a place, a day or the mode  *)
(* shows in the result unless a later one is about the same thing, and     *)
(* what no operation names is as it was.                                   *)
Subject(op) ==
  CASE "place" \in DOMAIN op -> <<"place", op.place>>
    [] "day" \in DOMAIN op -> <<"day", op.day>>
    [] "mode" \in DOMAIN op -> <<"mode">>
    [] OTHER -> <<"stay or transfer">>

Shows(q, op) ==
  CASE op.op = "set_place_auto" -> op.place \in DOMAIN q.places /\ q.places[op.place] = <<>>
    [] op.op = "remove_place" -> op.place \notin DOMAIN q.places
    [] op.op = "set_place_pinned" ->
         op.place \in DOMAIN q.places
           /\ Len(q.places[op.place]) = 1 /\ q.places[op.place][1].day = op.slot.day
    [] op.op = "set_place_flexible" ->
         op.place \in DOMAIN q.places
           /\ [i \in DOMAIN q.places[op.place] |-> q.places[op.place][i].day]
                = [i \in DOMAIN op.slots |-> op.slots[i].day]
    [] op.op = "update_day_window" -> q.days[op.day] = Patched(q.days[op.day], op)
    [] op.op = "set_transport_mode" -> q.mode = op.mode
    [] OTHER -> TRUE

BatchIsAppliedWhole ==
  \A e \in Editors : Computed(e) =>
    LET before == job[e].before
        after == job[e].after
        batch == job[e].batch
        named == {Subject(o) : o \in ToSet(batch)}
    IN /\ \A i \in DOMAIN batch :
            \/ Shows(after, batch[i])
            \/ \E j \in DOMAIN batch : j > i /\ Subject(batch[j]) = Subject(batch[i])
       /\ DOMAIN after.places \subseteq DOMAIN before.places
       /\ \A p \in DOMAIN before.places :
            <<"place", p>> \notin named =>
              p \in DOMAIN after.places /\ after.places[p] = before.places[p]
       /\ \A d \in Days : <<"day", d>> \notin named => after.days[d] = before.days[d]
       /\ <<"mode">> \notin named => after.mode = before.mode
=============================================================================
