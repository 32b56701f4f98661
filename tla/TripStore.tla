----------------------------- MODULE TripStore -----------------------------
(***************************************************************************)
(* What the trips domain promises (ADR-21), with nothing of how it is      *)
(* done: every live trip is one immutable, gap-free history of entries and *)
(* a head, the number of the entry that is its current state.  There are   *)
(* no requests, no tables and no second copy of the current state here;    *)
(* TripRepository implements it.                                           *)
(***************************************************************************)
EXTENDS Naturals

CONSTANTS
  TripIds,        \* trip identifiers (Mongo ObjectId strings)
  Snapshots,      \* canonical snapshots; equal snapshots have equal hashes
  PlanType,       \* snapshot -> "SINGLE_DAY" or "MULTI_DAY"
  MaxRevision,    \* bound on revision numbers
  UpdateSources,  \* who may call update(): "MANUAL", "ORCHESTRATOR"
  NoRow,          \* an absent row
  NoRevision      \* no revision number: the trip does not exist / not a restore

VARIABLES
  history,        \* trip -> revision number -> entry, or NoRow
  head            \* trip -> number of its current entry, or NoRevision

storeVars == <<history, head>>

Revisions == 0..MaxRevision

Entry(snapshot, source, restoredFrom) ==
  [snapshot |-> snapshot, source |-> source, restored_from |-> restoredFrom]

NoHistory == [r \in Revisions |-> NoRow]

StoreInit ==
  /\ history = [t \in TripIds |-> NoHistory]
  /\ head = [t \in TripIds |-> NoRevision]

(* A trip comes into existence with one entry, at revision b. *)
Begin(t, b, entry) ==
  /\ head[t] = NoRevision
  /\ history' = [history EXCEPT ![t] = [NoHistory EXCEPT ![b] = entry]]
  /\ head' = [head EXCEPT ![t] = b]

(* A trip moves one revision forward; what was recorded stays as it was. *)
Advance(t, entry) ==
  /\ head[t] # NoRevision
  /\ head[t] + 1 \in Revisions
  /\ history' = [history EXCEPT ![t][head[t] + 1] = entry]
  /\ head' = [head EXCEPT ![t] = @ + 1]

Create(t, s) == Begin(t, 0, Entry(s, "CREATED", NoRevision))

Migrate(t, b, s) == Begin(t, b, Entry(s, "MIGRATION", NoRevision))

(* An edit changes the content (an identical snapshot is a no-op) and      *)
(* never the kind of plan.                                                 *)
Edit(t, s, source) ==
  /\ head[t] # NoRevision
  /\ history[t][head[t]].snapshot # s
  /\ PlanType[history[t][head[t]].snapshot] = PlanType[s]
  /\ Advance(t, Entry(s, source, NoRevision))

(* A restore copies an earlier entry of this very history forward. *)
Revert(t, k) ==
  /\ head[t] # NoRevision
  /\ k < head[t]
  /\ history[t][k] # NoRow
  /\ Advance(t, Entry(history[t][k].snapshot, "REVERT", k))

Remove(t) ==
  /\ head[t] # NoRevision
  /\ history' = [history EXCEPT ![t] = NoHistory]
  /\ head' = [head EXCEPT ![t] = NoRevision]

(* Every operation moves the head of the one trip it is about.             *)
StoreNext ==
  \E t \in {u \in TripIds : head'[u] # head[u]} :
    \/ \E s \in Snapshots : Create(t, s)
    \/ \E s \in Snapshots, b \in Revisions : Migrate(t, b, s)
    \/ \E s \in Snapshots, source \in UpdateSources : Edit(t, s, source)
    \/ \E k \in Revisions : Revert(t, k)
    \/ Remove(t)

StoreSpec == StoreInit /\ [][StoreNext]_storeVars
=============================================================================
