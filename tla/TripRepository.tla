--------------------------- MODULE TripRepository ---------------------------
(***************************************************************************)
(* src/trips/repository.py over the two tables of the trips database.      *)
(*                                                                         *)
(* Clients run requests concurrently on one connection.  Every block       *)
(* `async with self._conn.transaction()` and every single autocommit       *)
(* statement is one atomic step (module TripConnection is about when the   *)
(* adapter really gives that); between two of them other requests run, so  *)
(* a method that reads outside its transaction keeps what it read in       *)
(* req[c].  A database error rolls its block back: the request then ends   *)
(* as Abandon, with nothing written.                                       *)
(***************************************************************************)
EXTENDS Naturals

CONSTANTS
  TripIds, Snapshots, PlanType, MaxRevision, UpdateSources,
  NoRow, NoRevision,  \* as in TripStore
  NoSnapshot,         \* no content
  Clients,            \* API clients and the migration script
  Legacy              \* Mongo documents: trip -> [revision, snapshot]

Revisions == 0..MaxRevision
Tokens == Revisions \cup {NoRevision}

ASSUME NoRevisionAssumption == NoRevision \notin Nat
ASSUME BoundAssumption == MaxRevision \in Nat
ASSUME LegacyAssumption ==
  /\ DOMAIN Legacy \subseteq TripIds
  /\ \A t \in DOMAIN Legacy :
       Legacy[t].revision \in Revisions /\ Legacy[t].snapshot \in Snapshots
ASSUME SourceAssumption ==
  UpdateSources \cap {"CREATED", "REVERT", "MIGRATION"} = {}

VARIABLES
  serving,    \* FALSE while trip writes are frozen for the migration (ADR-21)
  trips,      \* table trips: trip -> current row or NoRow
  revisions,  \* table trip_revisions, primary key (trip, revision)
  minted,     \* identifiers handed out so far; an ObjectId is never reused
  req,        \* client -> its request in flight and what that has read
  view,       \* client -> the persisted state it last saw, with its revision
  basis       \* auxiliary: (trip, revision) -> what its author had seen

vars == <<serving, trips, revisions, minted, req, view, basis>>

-----------------------------------------------------------------------------
Sources == {"CREATED", "REVERT", "MIGRATION"} \cup UpdateSources
TripRow == [revision : Revisions, snapshot : Snapshots]
RevisionRow == [snapshot : Snapshots, source : Sources, restored_from : Tokens]
View == [trip : TripIds, revision : Revisions, snapshot : Snapshots]

ASSUME SentinelAssumption ==
  /\ NoSnapshot \notin Snapshots
  /\ NoRow \notin TripRow \cup RevisionRow \cup View

Idle == [op |-> "idle"]
Request ==
  [op : {"idle"}]
  \cup [op : {"list"}, trip : TripIds, current : Revisions]
  \cup [op : {"listed"}, trip : TripIds, current : Revisions, rows : SUBSET Revisions]
  \cup [op : {"restore"}, trip : TripIds, target : Revisions, expected : Revisions]
  \cup [op : {"restore_tx"}, trip : TripIds, target : Revisions,
        expected : Revisions, snapshot : Snapshots]
  \cup [op : {"import", "import_tx"}, trip : DOMAIN Legacy]

Free(c) == req[c].op \in {"idle", "listed"}
Stage(c, r) == req' = [req EXCEPT ![c] = r]
Ends(c) == Stage(c, Idle)

(* The client is shown revision r of trip t.  The answer to a write may be *)
(* lost on its way, and the client then keeps what it knew.                *)
Sees(c, t, r, s) ==
  view' = [view EXCEPT ![c] = [trip |-> t, revision |-> r, snapshot |-> s]]
Answered(c, t, r, s) == Sees(c, t, r, s) \/ UNCHANGED view

Row(s, source, restoredFrom) ==
  [snapshot |-> s, source |-> source, restored_from |-> restoredFrom]

NoHistory == [r \in Revisions |-> NoRow]

(* What client c had seen when it sends token e for trip t.                *)
Seen(c, t, e) ==
  IF view[c] # NoRow /\ view[c].trip = t /\ view[c].revision = e
  THEN view[c].snapshot ELSE NoSnapshot

Init ==
  /\ serving = FALSE
  /\ trips = [t \in TripIds |-> NoRow]
  /\ revisions = [t \in TripIds |-> NoHistory]
  /\ minted = DOMAIN Legacy
  /\ req = [c \in Clients |-> Idle]
  /\ view = [c \in Clients |-> NoRow]
  /\ basis = [t \in TripIds |-> [r \in Revisions |-> NoSnapshot]]

-----------------------------------------------------------------------------
(* Inserts: both rows of one revision in the running transaction.  The     *)
(* primary keys make each a guard: a clash raises and rolls back.          *)
InsertBoth(t, b, row) ==
  /\ trips[t] = NoRow
  /\ revisions[t][b] = NoRow
  /\ trips' = [trips EXCEPT ![t] = [revision |-> b, snapshot |-> row.snapshot]]
  /\ revisions' = [revisions EXCEPT ![t][b] = row]

(* (Defect: the counter is left where it was, the current row overwritten  *)
(* in place.)                                                              *)
CasAdvanceInPlace(t, e, n, row) ==
  /\ trips[t] # NoRow
  /\ trips[t].revision = e
  /\ trips' = [trips EXCEPT ![t] = [revision |-> e, snapshot |-> row.snapshot]]
  /\ revisions' = [revisions EXCEPT ![t][e] = row]

(* UPDATE trips ... WHERE id = t AND revision = e, one row affected, then  *)
(* the matching history row at n.                                          *)
CasAdvance(t, e, n, row) ==
  /\ trips[t] # NoRow
  /\ trips[t].revision = e
  /\ trips[t].revision < MaxRevision
  /\ revisions[t][n] = NoRow
  /\ trips' = [trips EXCEPT ![t] =
                 [revision |-> trips[t].revision + 1, snapshot |-> row.snapshot]]
  /\ revisions' = [revisions EXCEPT ![t][n] = row]

Save(c, t, s) ==
  /\ serving /\ Free(c)
  /\ t \in TripIds \ minted
  /\ InsertBoth(t, 0, Row(s, "CREATED", NoRevision))
  /\ minted' = minted \cup {t}
  /\ Ends(c)
  /\ Answered(c, t, 0, s)
  /\ UNCHANGED <<serving, basis>>

Get(c, t) ==
  /\ serving /\ Free(c)
  /\ IF trips[t] = NoRow
     THEN Ends(c) /\ UNCHANGED view
     ELSE Ends(c) /\ Sees(c, t, trips[t].revision, trips[t].snapshot)
  /\ UNCHANGED <<serving, trips, revisions, minted, basis>>

GetRevision(c, t, k) ==
  /\ serving /\ Free(c)
  /\ IF revisions[t][k] = NoRow
     THEN Ends(c) /\ UNCHANGED view
     ELSE Ends(c) /\ Sees(c, t, k, revisions[t][k].snapshot)
  /\ UNCHANGED <<serving, trips, revisions, minted, basis>>

-----------------------------------------------------------------------------
(* update(): SELECT, checks and write in one transaction.                  *)
Refused(t, s, e) ==
  \/ trips[t] = NoRow                                    \* 404
  \/ /\ trips[t] # NoRow
     /\ \/ PlanType[trips[t].snapshot] # PlanType[s]      \* 409
        \/ e = NoRevision                                \* 428
        \/ e # NoRevision /\ e # trips[t].revision        \* 409

UpdateRefused(c, t) ==
  /\ serving /\ Free(c)
  /\ {se \in Snapshots \X Tokens : Refused(t, se[1], se[2])} # {}
  /\ Ends(c)
  /\ UNCHANGED <<serving, trips, revisions, minted, view, basis>>

(* (Two defects: the plan type, or the token, is not looked at.)           *)
TokenAcceptedAnyPlan(t, s, e) == trips[t] # NoRow /\ e = trips[t].revision

TokenAcceptedUnread(t, s, e) ==
  trips[t] # NoRow /\ PlanType[trips[t].snapshot] = PlanType[s]

TokenAccepted(t, s, e) ==
  /\ trips[t] # NoRow
  /\ PlanType[trips[t].snapshot] = PlanType[s]
  /\ e = trips[t].revision

UpdateNoOp(c, t, s, e) ==
  /\ serving /\ Free(c)
  /\ TokenAccepted(t, s, e)
  /\ s = trips[t].snapshot
  /\ Ends(c)
  /\ Answered(c, t, trips[t].revision, s)
  /\ UNCHANGED <<serving, trips, revisions, minted, basis>>

(* (Defect: an identical snapshot is written as a new revision.)           *)
UpdateWritesAlways(c, t, s, e, source) ==
  /\ serving /\ Free(c)
  /\ TokenAccepted(t, s, e)
  /\ CasAdvance(t, trips[t].revision, trips[t].revision + 1, Row(s, source, NoRevision))
  /\ Ends(c)
  /\ UNCHANGED <<serving, minted, view, basis>>

UpdateWrites(c, t, s, e, source) ==
  /\ serving /\ Free(c)
  /\ TokenAccepted(t, s, e)
  /\ s # trips[t].snapshot
  /\ CasAdvance(t, trips[t].revision, trips[t].revision + 1, Row(s, source, NoRevision))
  /\ basis' = [basis EXCEPT ![t][trips[t].revision + 1] = Seen(c, t, e)]
  /\ Ends(c)
  /\ Answered(c, t, trips[t].revision + 1, s)
  /\ UNCHANGED <<serving, minted>>

(* (Defect: the history rows survive their trip.)                          *)
DeleteTripOnly(c, t) ==
  /\ serving /\ Free(c)
  /\ Ends(c)
  /\ trips' = [trips EXCEPT ![t] = NoRow]
  /\ UNCHANGED <<serving, revisions, minted, view, basis>>

Delete(c, t) ==
  /\ serving /\ Free(c)
  /\ Ends(c)
  /\ revisions' = [revisions EXCEPT ![t] = NoHistory]
  /\ trips' = [trips EXCEPT ![t] = NoRow]
  /\ basis' = [basis EXCEPT ![t] = [r \in Revisions |-> NoSnapshot]]
  /\ UNCHANGED <<serving, minted, view>>

-----------------------------------------------------------------------------
(* list_revisions(): the current revision, then the rows, in two reads.    *)
ListReadCurrent(c, t) ==
  /\ serving /\ Free(c)
  /\ IF trips[t] = NoRow
     THEN Ends(c)
     ELSE Stage(c, [op |-> "list", trip |-> t, current |-> trips[t].revision])
  /\ UNCHANGED <<serving, trips, revisions, minted, view, basis>>

(* (Defect: only the rows below the current revision are listed.)          *)
ListReadOlderRows(c) ==
  /\ req[c].op = "list"
  /\ Stage(c, [op |-> "listed", trip |-> req[c].trip, current |-> req[c].current,
               rows |-> {r \in Revisions : r < req[c].current
                                             /\ revisions[req[c].trip][r] # NoRow}])
  /\ UNCHANGED <<serving, trips, revisions, minted, view, basis>>

ListReadRows(c) ==
  /\ req[c].op = "list"
  /\ Stage(c, [op |-> "listed", trip |-> req[c].trip, current |-> req[c].current,
               rows |-> {r \in Revisions : revisions[req[c].trip][r] # NoRow}])
  /\ UNCHANGED <<serving, trips, revisions, minted, view, basis>>

-----------------------------------------------------------------------------
(* restore_revision(): two reads before the transaction opens.             *)
RestoreRefuses(t, k, e) ==
  \/ trips[t] = NoRow                                    \* 404
  \/ trips[t] # NoRow /\ e # trips[t].revision           \* 409
  \/ trips[t] # NoRow /\ e = trips[t].revision /\ k = e  \* 400

RestoreRefused(c, t) ==
  /\ serving /\ Free(c)
  /\ {ke \in Revisions \X Revisions : RestoreRefuses(t, ke[1], ke[2])} # {}
  /\ Ends(c)
  /\ UNCHANGED <<serving, trips, revisions, minted, view, basis>>

RestoreReadTrip(c, t, k, e) ==
  /\ serving /\ Free(c)
  /\ ~RestoreRefuses(t, k, e)
  /\ Stage(c, [op |-> "restore", trip |-> t, target |-> k, expected |-> e])
  /\ UNCHANGED <<serving, trips, revisions, minted, view, basis>>

(* (Defect: a missing target restores an empty plan.)                      *)
RestoreReadTargetUnchecked(c) ==
  /\ req[c].op = "restore"
  /\ LET r == req[c]
         row == revisions[r.trip][r.target]
     IN Stage(c, [op |-> "restore_tx", trip |-> r.trip, target |-> r.target,
                  expected |-> r.expected,
                  snapshot |-> IF row = NoRow THEN NoSnapshot ELSE row.snapshot])
  /\ UNCHANGED <<serving, trips, revisions, minted, view, basis>>

RestoreReadTarget(c) ==
  /\ req[c].op = "restore"
  /\ LET r == req[c]
         row == revisions[r.trip][r.target]
     IN IF row = NoRow
        THEN Ends(c)
        ELSE Stage(c, [op |-> "restore_tx", trip |-> r.trip, target |-> r.target,
                       expected |-> r.expected, snapshot |-> row.snapshot])
  /\ UNCHANGED <<serving, trips, revisions, minted, view, basis>>

RestoreCommits(c) ==
  /\ req[c].op = "restore_tx"
  /\ LET r == req[c]
     IN /\ CasAdvance(r.trip, r.expected, r.expected + 1,
                      Row(r.snapshot, "REVERT", r.target))
        /\ basis' = [basis EXCEPT ![r.trip][r.expected + 1] = Seen(c, r.trip, r.expected)]
        /\ Answered(c, r.trip, r.expected + 1, r.snapshot)
  /\ Ends(c)
  /\ UNCHANGED <<serving, minted>>

RestoreCasMiss(c) ==
  /\ req[c].op = "restore_tx"
  /\ \/ trips[req[c].trip] = NoRow
     \/ trips[req[c].trip] # NoRow /\ trips[req[c].trip].revision # req[c].expected
  /\ Ends(c)
  /\ UNCHANGED <<serving, trips, revisions, minted, view, basis>>

-----------------------------------------------------------------------------
(* import_migration_baseline(): two reads, then both inserts.              *)
HasBaseline(t) ==
  LET row == revisions[t][Legacy[t].revision]
  IN row # NoRow /\ row.source = "MIGRATION"

ImportReadBaseline(c, t) ==
  /\ ~serving /\ Free(c)
  /\ t \in DOMAIN Legacy
  /\ IF HasBaseline(t)
     THEN Ends(c)  \* "skipped_identical", or a conflict when the hashes differ
     ELSE Stage(c, [op |-> "import", trip |-> t])
  /\ UNCHANGED <<serving, trips, revisions, minted, view, basis>>

ImportReadTrip(c) ==
  /\ req[c].op = "import"
  /\ IF trips[req[c].trip] # NoRow
     THEN Ends(c)
     ELSE Stage(c, [op |-> "import_tx", trip |-> req[c].trip])
  /\ UNCHANGED <<serving, trips, revisions, minted, view, basis>>

ImportCommits(c) ==
  /\ req[c].op = "import_tx"
  /\ LET t == req[c].trip
     IN InsertBoth(t, Legacy[t].revision, Row(Legacy[t].snapshot, "MIGRATION", NoRevision))
  /\ Ends(c)
  /\ UNCHANGED <<serving, minted, view, basis>>

-----------------------------------------------------------------------------
(* A request dies between two of its database calls, or its transaction    *)
(* fails and is rolled back: process exit, cancelled task, driver error.   *)
Abandon(c) ==
  /\ ~Free(c)
  /\ Ends(c)
  /\ UNCHANGED <<serving, trips, revisions, minted, view, basis>>

(* The migration is over and verified: writes are opened, once.            *)
OpenWrites ==
  /\ ~serving
  /\ \A c \in Clients : Free(c)
  /\ serving' = TRUE
  /\ UNCHANGED <<trips, revisions, minted, req, view, basis>>

ClientStep(c) ==
  \/ \E t \in TripIds :
       \/ Get(c, t) \/ Delete(c, t) \/ ListReadCurrent(c, t) \/ ImportReadBaseline(c, t)
       \/ UpdateRefused(c, t) \/ RestoreRefused(c, t)
       \/ \E s \in Snapshots : Save(c, t, s)
       \/ \E k \in Revisions : GetRevision(c, t, k)
       \/ \E k, e \in Revisions : RestoreReadTrip(c, t, k, e)
       \/ \E s \in Snapshots, e \in Tokens :
            \/ UpdateNoOp(c, t, s, e)
            \/ \E source \in UpdateSources : UpdateWrites(c, t, s, e, source)
  \/ ListReadRows(c)
  \/ RestoreReadTarget(c) \/ RestoreCommits(c) \/ RestoreCasMiss(c)
  \/ ImportReadTrip(c) \/ ImportCommits(c)
  \/ Abandon(c)

Next == OpenWrites \/ \E c \in Clients : ClientStep(c)

Spec == Init /\ [][Next]_vars

-----------------------------------------------------------------------------
(* The tables and every request record keep their shape.                   *)
TypeOK ==
  /\ serving \in BOOLEAN
  /\ trips \in [TripIds -> TripRow \cup {NoRow}]
  /\ revisions \in [TripIds -> [Revisions -> RevisionRow \cup {NoRow}]]
  /\ minted \in SUBSET TripIds
  /\ req \in [Clients -> Request]
  /\ view \in [Clients -> View \cup {NoRow}]
  /\ basis \in [TripIds -> [Revisions -> Snapshots \cup {NoSnapshot}]]

(* "Every write pairs a current-state row with an immutable revision row"  *)
(* (repository.py, module docstring): the current row is backed by the     *)
(* history row of its number with the same content, nothing is recorded    *)
(* above it, and a trip that is gone left no row behind.                   *)
CurrentIsBacked ==
  \A t \in TripIds :
    IF trips[t] = NoRow
    THEN revisions[t] = NoHistory
    ELSE /\ revisions[t][trips[t].revision] # NoRow
         /\ revisions[t][trips[t].revision].snapshot = trips[t].snapshot
         /\ \A r \in Revisions : r > trips[t].revision => revisions[t][r] = NoRow

(* A history starts at its baseline (CREATED at 0, MIGRATION where Mongo   *)
(* was), every other row follows a predecessor without a gap, a restore    *)
(* row is a copy of the earlier row it names, and no row changes the kind  *)
(* of plan the trip began with.                                            *)
HistoryIsWellFormed ==
  \A t \in TripIds, r \in Revisions :
    LET row == revisions[t][r]
    IN row # NoRow =>
         /\ row.source = "CREATED" => r = 0
         /\ row.source = "MIGRATION" =>
              t \in DOMAIN Legacy /\ r = Legacy[t].revision
         /\ row.source \notin {"CREATED", "MIGRATION"} =>
              r > 0 /\ revisions[t][r - 1] # NoRow
         /\ row.source = "REVERT" =>
              /\ row.restored_from \in Revisions /\ row.restored_from < r
              /\ revisions[t][row.restored_from] # NoRow
              /\ revisions[t][row.restored_from].snapshot = row.snapshot
         /\ \A q \in Revisions :
              revisions[t][q] # NoRow =>
                PlanType[revisions[t][q].snapshot] = PlanType[row.snapshot]

(* What a client was shown as revision n of a trip is, as long as the trip *)
(* lives, still its revision n: no answer was about a state that was never *)
(* committed, none is rewritten later, and a deleted trip never returns    *)
(* under the identifier somebody still holds.                              *)
SeenStaysTrue ==
  \A c \in Clients :
    view[c] # NoRow =>
      LET v == view[c]
      IN /\ v.trip \in minted
         /\ trips[v.trip] # NoRow =>
              /\ v.revision <= trips[v.trip].revision
              /\ revisions[v.trip][v.revision] # NoRow
              /\ revisions[v.trip][v.revision].snapshot = v.snapshot

(* No lost update: an edit or restore whose author sent the token of the   *)
(* state it had seen was written on top of exactly that state.             *)
NoLostUpdate ==
  \A t \in TripIds, r \in Revisions :
    r > 0 /\ basis[t][r] # NoSnapshot =>
      /\ revisions[t][r - 1] # NoRow
      /\ revisions[t][r - 1].snapshot = basis[t][r]

(* list_revisions() reads twice.  Its two halves may be of different       *)
(* moments, but a listing with rows has the current revision it reports    *)
(* among them, so the client can tell which row to mark as current.        *)
ListingCoversCurrent ==
  \A c \in Clients :
    req[c].op = "listed" =>
      req[c].rows = {} \/ req[c].current \in req[c].rows

CurrentRevision == [t \in TripIds |-> IF trips[t] = NoRow THEN NoRevision ELSE trips[t].revision]

Store == INSTANCE TripStore WITH history <- revisions, head <- CurrentRevision

(* The two tables, the in-flight requests and the stale reads implement    *)
(* the single-history store of TripStore: every step is one of its         *)
(* operations or invisible.  A restore commits what it read before its     *)
(* transaction, and that is still the target's content.                    *)
ImplementsTripStore == Store!StoreSpec
=============================================================================
