---------------------------- MODULE TripMigration ----------------------------
(***************************************************************************)
(* scripts/migrate_trips_to_turso.py, statement by statement, between the  *)
(* Mongo collection it reads and the trips database it fills; the marker   *)
(* it stamps (src/core/turso/migration_state.py) and the start-up gate     *)
(* that asks for it (src/config/lifespan.py).                              *)
(*                                                                         *)
(* Several runs may be started, one after the other or at once, and each   *)
(* may die at any await.  The old application goes on writing to Mongo     *)
(* until it is frozen; the new one writes to the trips database once it    *)
(* has started.  `rollout` says whether the operator has kept to the order *)
(* README and ADR-21 item 12 ask for; the script itself never checks.      *)
(***************************************************************************)
EXTENDS Integers

CONSTANTS
  N,            \* documents of the legacy collection, in the order of _id
  Contents,     \* valid trips, compared by their snapshot hash
  Early,        \* bound: those among them that documents begin with
  Malformed,    \* a document SaveTripRequest does not accept
  NoDoc, NoRow, NoMarker,
  AtOnce,       \* runs that may be alive at once
  MaxRevision,  \* bound: revisions of one trip
  MaxRuns,      \* bound: runs started in all
  MaxWrites     \* bound: writes of the old and the new application

Trips == 1..N
Scripts == 1..AtOnce
Doc == [revision : 0..MaxRevision, content : Contents]
LegacyDoc == [revision : 0..MaxRevision, content : Contents \cup {Malformed}]

ASSUME BoundsAssumption ==
  /\ N \in Nat /\ AtOnce \in Nat
  /\ MaxRevision \in Nat /\ MaxRuns \in Nat /\ MaxWrites \in Nat
ASSUME ContentsAssumption == Malformed \notin Contents /\ Early \subseteq Contents
ASSUME AbsentAssumption == NoDoc \notin LegacyDoc /\ NoRow \notin Doc

VARIABLES
  rollout,    \* auxiliary: the documented order of the cutover was kept
  source,     \* Mongo: trip -> document
  frozen,     \* the old application no longer writes
  trips,      \* table trips: current revision and content
  baselines,  \* the MIGRATION row of trip_revisions, at most one per trip
  marker,     \* the row of app_migrations
  serving,    \* the new application passed its gate and takes writes
  run,        \* script -> its run
  started,    \* runs started so far
  writes,     \* writes of the two applications so far
  deleted     \* auxiliary: trips a user deleted in the new application

dbVars == <<trips, baselines>>
vars == <<rollout, source, frozen, trips, baselines, marker, serving, run,
          started, writes, deleted>>

-----------------------------------------------------------------------------
(* A run: its flags, what the cursor fetched up to where, and how far  *)
(* the loop got.  `fresh` says that it began after the freeze, `alone`     *)
(* that no other run was alive with it.  A dry run never writes, so that   *)
(* --skip-invalid, which only changes where it stops, is left out of it.   *)
Alive == {"scan", "import", "import_tx", "verify", "stamp"}
Modes == {"strict", "skip", "dry"}
Ended == {"over", "killed", "stamped"}

Run == [stage : Alive \cup Ended, mode : Modes,
        docs : [Trips -> LegacyDoc \cup {NoDoc}], fetched : 0..N, at : 0..N,
        problems : BOOLEAN, fresh : BOOLEAN, alone : BOOLEAN]

NoDocs == [t \in Trips |-> NoDoc]

IsValid(d) == d # NoDoc /\ d.content # Malformed

(* expected and invalid are functions of what was fetched.                 *)
Expected(s) == {t \in Trips : IsValid(run[s].docs[t])}
Invalid(s) == {t \in Trips : run[s].docs[t] # NoDoc /\ ~IsValid(run[s].docs[t])}

IsAlive(s) == run[s].stage \in Alive

NewRun(stage, mode, fresh, alone) ==
  [stage |-> stage, mode |-> mode, docs |-> NoDocs, fetched |-> 0,
   at |-> 0, problems |-> FALSE, fresh |-> fresh, alone |-> alone]

Go(s, stage) == run' = [run EXCEPT ![s].stage = stage]
End(s, stage) ==
  run' = [run EXCEPT ![s] =
            NewRun(stage, "strict", FALSE, stage # "over" \/ run[s].alone)]
Handled(s, t) == run' = [run EXCEPT ![s].stage = "scan", ![s].at = t]

Init ==
  /\ rollout = TRUE
  /\ source \in [Trips ->
       [revision : {0}, content : Early \cup {Malformed}] \cup {NoDoc}]
  /\ frozen = FALSE
  /\ trips = [t \in Trips |-> NoRow]
  /\ baselines = [t \in Trips |-> NoRow]
  /\ marker = NoMarker
  /\ serving = FALSE
  /\ run = [s \in Scripts |-> NewRun("over", "strict", FALSE, TRUE)]
  /\ started = 0 /\ writes = 0
  /\ deleted = {}

-----------------------------------------------------------------------------
(* The old application, until its writes are stopped.                      *)
Writes == writes < MaxWrites /\ writes' = writes + 1

(* A document from before the field `revision` existed keeps its number.   *)
LegacyEdit(t, c) ==
  /\ ~frozen
  /\ source[t] # NoDoc /\ source[t].content # c /\ Writes
  /\ \E r \in {source[t].revision, source[t].revision + 1} :
       /\ r <= MaxRevision
       /\ source' = [source EXCEPT ![t] = [revision |-> r, content |-> c]]
  /\ UNCHANGED <<rollout, frozen, dbVars, marker, serving, run, started, deleted>>

LegacyDelete(t) ==
  /\ ~frozen
  /\ source[t] # NoDoc /\ Writes
  /\ source' = [source EXCEPT ![t] = NoDoc]
  /\ UNCHANGED <<rollout, frozen, dbVars, marker, serving, run, started, deleted>>

Freeze ==
  /\ ~frozen
  /\ frozen' = TRUE
  /\ UNCHANGED <<rollout, source, dbVars, marker, serving, run, started, writes, deleted>>

-----------------------------------------------------------------------------
(* `just migrate-trips-to-turso [--dry-run] [--skip-invalid]`              *)
Start(s, mode) ==
  /\ ~IsAlive(s) /\ \A r \in Scripts : r < s => IsAlive(r)
  /\ started < MaxRuns
  /\ rollout' = (rollout /\ (mode = "dry" \/ (frozen /\ ~serving)))
  /\ LET others == {r \in Scripts \ {s} : IsAlive(r)}
     IN run' = [r \in Scripts |->
          IF r = s THEN NewRun("scan", mode, frozen, others = {})
          ELSE IF r \in others THEN [run[r] EXCEPT !.alone = FALSE] ELSE run[r]]
  /\ started' = started + 1
  /\ UNCHANGED <<source, frozen, dbVars, marker, serving, writes, deleted>>

(* The process dies, or an exception nothing catches ends it.              *)
Kill(s) ==
  /\ IsAlive(s)
  /\ End(s, "killed")
  /\ UNCHANGED <<rollout, source, frozen, dbVars, marker, serving, started, writes, deleted>>

(* `async for doc in cursor`: one batch of the sorted cursor, of any size. *)
Fetch(s, upTo) ==
  /\ run[s].stage = "scan" /\ run[s].at = run[s].fetched
  /\ upTo > run[s].fetched
  /\ run' = [run EXCEPT
       ![s].docs = [t \in Trips |->
          IF run[s].fetched < t /\ t <= upTo THEN source[t] ELSE run[s].docs[t]],
       ![s].fetched = upTo]
  /\ UNCHANGED <<rollout, source, frozen, dbVars, marker, serving, started, writes, deleted>>

(* (Defect: a baseline that is already there is a conflict.)               *)
ImportReadsBaselineOnce(s, t) ==
  IF baselines[t] # NoRow /\ baselines[t].revision = run[s].docs[t].revision
  THEN End(s, "over")
  ELSE Go(s, "import")

(* import_migration_baseline, its first read.                              *)
ImportReadsBaseline(s, t) ==
  IF baselines[t] # NoRow /\ baselines[t].revision = run[s].docs[t].revision
  THEN IF baselines[t] = run[s].docs[t] THEN Handled(s, t) ELSE End(s, "over")
  ELSE Go(s, "import")

(* The body of the loop for the next document.                             *)
Take(s) ==
  LET t == run[s].at + 1
      d == run[s].docs[t]
  IN /\ run[s].stage = "scan" /\ run[s].at < run[s].fetched
     /\ CASE d = NoDoc -> Handled(s, t)
          [] d # NoDoc /\ ~IsValid(d) ->
               IF run[s].mode = "skip" THEN Handled(s, t) ELSE End(s, "over")
          [] IsValid(d) /\ run[s].mode = "dry" -> Handled(s, t)
          [] IsValid(d) /\ run[s].mode # "dry" -> ImportReadsBaseline(s, t)
     /\ UNCHANGED <<rollout, source, frozen, dbVars, marker, serving, started, writes, deleted>>

(* Its second read: "trip present without a matching MIGRATION baseline".  *)
ImportReadsTrip(s) ==
  /\ run[s].stage = "import"
  /\ IF trips[run[s].at + 1] = NoRow THEN Go(s, "import_tx") ELSE End(s, "over")
  /\ UNCHANGED <<rollout, source, frozen, dbVars, marker, serving, started, writes, deleted>>

(* (Defect: the rows are upserted.)                                        *)
ImportUpserts(s) ==
  LET t == run[s].at + 1
  IN /\ run[s].stage = "import_tx"
     /\ trips' = [trips EXCEPT ![t] = run[s].docs[t]]
     /\ baselines' = [baselines EXCEPT ![t] = run[s].docs[t]]
     /\ Handled(s, t)
     /\ UNCHANGED <<rollout, source, frozen, marker, serving, started, writes, deleted>>

(* Its transaction.  The primary key refuses a trip that appeared since.   *)
ImportCommits(s) ==
  LET t == run[s].at + 1
  IN /\ run[s].stage = "import_tx"
     /\ IF trips[t] = NoRow
        THEN /\ trips' = [trips EXCEPT ![t] = run[s].docs[t]]
             /\ baselines' = [baselines EXCEPT ![t] = run[s].docs[t]]
             /\ Handled(s, t)
        ELSE End(s, "over") /\ UNCHANGED dbVars
     /\ UNCHANGED <<rollout, source, frozen, marker, serving, started, writes, deleted>>

(* The loop is over: a dry run ends here.                                  *)
ScanEnds(s) ==
  /\ run[s].stage = "scan" /\ run[s].at = N
  /\ IF run[s].mode = "dry"
     THEN End(s, "over")
     ELSE run' = [run EXCEPT ![s].stage = "verify", ![s].at = 0]
  /\ UNCHANGED <<rollout, source, frozen, dbVars, marker, serving, started, writes, deleted>>

(* has_matching_migration_baseline for each expected trip.                 *)
Verify(s) ==
  LET t == run[s].at + 1
  IN /\ run[s].stage = "verify" /\ run[s].at < N
     /\ run' = [run EXCEPT
          ![s].at = t,
          ![s].problems = run[s].problems \/ (t \in Expected(s) /\ baselines[t] # run[s].docs[t])]
     /\ UNCHANGED <<rollout, source, frozen, dbVars, marker, serving, started, writes, deleted>>

(* (Defect: documents that were skipped do not count.)                     *)
JudgeIgnoringInvalid(s) ==
  LET stray == {t \in Trips : baselines[t] # NoRow} \ Expected(s)
  IN /\ run[s].stage = "verify" /\ run[s].at = N
     /\ IF stray = {} /\ ~run[s].problems THEN Go(s, "stamp") ELSE End(s, "over")
     /\ UNCHANGED <<rollout, source, frozen, dbVars, marker, serving, started, writes, deleted>>

(* migration_baseline_ids() - expected, then the three reasons to refuse.  *)
Judge(s) ==
  LET stray == {t \in Trips : baselines[t] # NoRow} \ Expected(s)
  IN /\ run[s].stage = "verify" /\ run[s].at = N
     /\ IF stray = {} /\ Invalid(s) = {} /\ ~run[s].problems
        THEN Go(s, "stamp") ELSE End(s, "over")
     /\ UNCHANGED <<rollout, source, frozen, dbVars, marker, serving, started, writes, deleted>>

(* mark_complete: an upsert of the marker row.                             *)
Stamp(s) ==
  /\ run[s].stage = "stamp"
  /\ marker' = [fresh |-> run[s].fresh]
  /\ End(s, "stamped")
  /\ UNCHANGED <<rollout, source, frozen, dbVars, serving, started, writes, deleted>>

ScriptStep(s) ==
  \/ \E upTo \in Trips : Fetch(s, upTo)
  \/ Take(s) \/ ImportReadsTrip(s) \/ ImportCommits(s) \/ ScanEnds(s)
  \/ Verify(s) \/ Judge(s) \/ Stamp(s)

-----------------------------------------------------------------------------
(* The new application.  Its gate asks for the marker, unless              *)
(* TRIPS_REQUIRE_MIGRATION_MARKER is off, which a rollout never has.       *)
(* (Defect: the gate looks at no marker.)                                  *)
StartAppUngated(required) ==
  /\ ~serving
  /\ rollout' = (rollout /\ required /\ \A s \in Scripts : ~IsAlive(s))
  /\ serving' = TRUE
  /\ UNCHANGED <<source, frozen, dbVars, marker, run, started, writes, deleted>>

StartApp(required) ==
  /\ ~serving
  /\ required => marker # NoMarker
  /\ rollout' = (rollout /\ required /\ \A s \in Scripts : ~IsAlive(s))
  /\ serving' = TRUE
  /\ UNCHANGED <<source, frozen, dbVars, marker, run, started, writes, deleted>>

Update(t, c) ==
  /\ serving /\ Writes
  /\ trips[t] # NoRow /\ trips[t].revision < MaxRevision /\ trips[t].content # c
  /\ trips' = [trips EXCEPT ![t] = [revision |-> trips[t].revision + 1, content |-> c]]
  /\ UNCHANGED <<rollout, source, frozen, baselines, marker, serving, run, started, deleted>>

(* The history goes with its trip, the baseline among it.                  *)
Delete(t) ==
  /\ serving /\ Writes
  /\ trips[t] # NoRow
  /\ trips' = [trips EXCEPT ![t] = NoRow]
  /\ baselines' = [baselines EXCEPT ![t] = NoRow]
  /\ deleted' = deleted \cup {t}
  /\ UNCHANGED <<rollout, source, frozen, marker, serving, run, started>>

Next ==
  \/ \E t \in Trips : LegacyDelete(t) \/ Delete(t)
  \/ \E t \in Trips, c \in Contents : LegacyEdit(t, c) \/ Update(t, c)
  \/ Freeze
  \/ \E required \in BOOLEAN : StartApp(required)
  \/ \E s \in Scripts :
       \/ \E mode \in Modes : Start(s, mode)
       \/ ScriptStep(s)
       \/ Kill(s)

(* A run that is not killed goes on; nobody must start one, or write.      *)
Spec == Init /\ [][Next]_vars /\ \A s \in Scripts : WF_vars(ScriptStep(s))

-----------------------------------------------------------------------------
(* Shape of the state.                                                     *)
TypeOK ==
  /\ rollout \in BOOLEAN /\ frozen \in BOOLEAN /\ serving \in BOOLEAN
  /\ source \in [Trips -> LegacyDoc \cup {NoDoc}]
  /\ trips \in [Trips -> Doc \cup {NoRow}]
  /\ baselines \in [Trips -> Doc \cup {NoRow}]
  /\ marker \in [fresh : BOOLEAN] \cup {NoMarker}
  /\ run \in [Scripts -> Run]
  /\ started \in 0..MaxRuns /\ writes \in 0..MaxWrites
  /\ deleted \in SUBSET Trips

(* "stamps the marker only if everything is clean" (ADR-21 item 11): once  *)
(* a run that began after the freeze has stamped it, every legacy document *)
(* is a valid trip and stands in the database as its baseline, unless a    *)
(* user deleted it there; whatever other runs, crashes and writes of the   *)
(* new application came between the verification and now.                  *)
MarkerIsEarned ==
  marker # NoMarker /\ marker.fresh =>
    \A t \in Trips :
      source[t] # NoDoc =>
        /\ source[t].content # Malformed
        /\ baselines[t] = source[t] \/ t \in deleted

(* When the operator keeps to the documented order, the new application    *)
(* serves exactly the trips Mongo held when it was frozen, each at its     *)
(* legacy revision or later, and none that Mongo no longer had; and a trip *)
(* a user deleted stays deleted, although its document is still there.     *)
CutoverIsComplete ==
  rollout /\ serving =>
    \A t \in Trips :
      IF source[t] = NoDoc \/ t \in deleted
      THEN trips[t] = NoRow /\ baselines[t] = NoRow
      ELSE /\ baselines[t] = source[t]
           /\ trips[t] # NoRow /\ trips[t].revision >= source[t].revision

(* "never UPDATEs or DELETEs": a run leaves a trip that exists alone.  The *)
(* current row only moves on by one revision or goes, and its baseline     *)
(* stays what it was for as long as the trip lives.                        *)
RunsNeverOverwrite ==
  [][\A t \in Trips :
       trips[t] # NoRow =>
         \/ trips'[t] = NoRow /\ baselines'[t] = NoRow
         \/ /\ trips'[t] # NoRow
            /\ trips'[t] = trips[t] \/ trips'[t].revision = trips[t].revision + 1
            /\ baselines'[t] = baselines[t]]_vars

(* A run that nothing disturbs - documented order, valid documents, no     *)
(* other run beside it - ends with the marker, wherever the runs before it *)
(* died.                                                                   *)
MayStamp(s) ==
  /\ rollout /\ run[s].mode # "dry"
  /\ run[s].stage = "scan" /\ run[s].at = 0
  /\ \A t \in Trips : source[t] = NoDoc \/ IsValid(source[t])

CleanRunStamps ==
  \A s \in Scripts :
    MayStamp(s) ~>
      run[s].stage \in {"stamped", "killed"} \/ ~run[s].alone \/ ~rollout
=============================================================================
