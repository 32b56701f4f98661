------------------------ MODULE TripMigrationProofs ------------------------
(***************************************************************************)
(* Theorems about TripMigration, for any number of documents and of runs   *)
(* at once, any contents and any bounds.                                   *)
(*                                                                         *)
(* MarkerIsEarned and CutoverIsComplete are not inductive: they speak of   *)
(* the moment after the marker, and what makes them true is what a run     *)
(* found out step by step before.  The inductive invariant adds what a run *)
(* may rely on at each stage (Sane), that the two rows of a trip come and  *)
(* go together (RowsTogether), and what the documented order leaves in the *)
(* database before the new application starts (Ordered).                   *)
(***************************************************************************)
EXTENDS TripMigration, TLAPS

(* A trip has a current row for exactly as long as it has its baseline,    *)
(* and never an older revision than that.                                  *)
RowsTogether ==
  \A t \in Trips :
    /\ trips[t] = NoRow <=> baselines[t] = NoRow
    /\ trips[t] # NoRow => trips[t].revision >= baselines[t].revision

(* The trip's document was found in the database, or deleted there since.  *)
Settled(d, t) == IsValid(d) => baselines[t] = d \/ t \in deleted

Sane(s) ==
  /\ run[s].at <= run[s].fetched
  /\ run[s].mode = "dry" => run[s].stage = "scan"
  /\ run[s].fresh =>
       frozen /\ \A t \in Trips : t <= run[s].fetched => run[s].docs[t] = source[t]
  /\ run[s].stage \in {"import", "import_tx"} =>
       /\ run[s].at < run[s].fetched
       /\ IsValid(run[s].docs[run[s].at + 1])
  /\ run[s].stage \in {"verify", "stamp"} => run[s].fetched = N
  /\ run[s].stage = "verify" /\ ~run[s].problems =>
       \A t \in Trips : t <= run[s].at => Settled(run[s].docs[t], t)
  /\ run[s].stage = "stamp" =>
       \A t \in Trips :
         /\ run[s].docs[t] = NoDoc \/ IsValid(run[s].docs[t])
         /\ Settled(run[s].docs[t], t)

RunsAreSane == \A s \in Scripts : IsAlive(s) => Sane(s)

FreshIsFrozen == marker # NoMarker /\ marker.fresh => frozen

(* What holds while the documented order is kept.                          *)
Ordered ==
  /\ ~serving => deleted = {}
  /\ rollout =>
       /\ \A s \in Scripts : IsAlive(s) /\ run[s].mode # "dry" => run[s].fresh /\ ~serving
       /\ marker # NoMarker => marker.fresh
       /\ serving => marker # NoMarker
       /\ ~serving => \A t \in Trips :
            baselines[t] # NoRow => frozen /\ baselines[t] = source[t]

IInv ==
  /\ TypeOK
  /\ RowsTogether
  /\ RunsAreSane
  /\ FreshIsFrozen
  /\ MarkerIsEarned
  /\ Ordered
  /\ CutoverIsComplete

-----------------------------------------------------------------------------
(* A valid document is what a row may hold, and is not an absent row.      *)
LEMMA ValidIsARow ==
  ASSUME NEW d \in LegacyDoc \cup {NoDoc}, IsValid(d)
  PROVE  d \in Doc /\ d # NoRow
BY ContentsAssumption, AbsentAssumption DEF IsValid, LegacyDoc, Doc

(* The record a run is reset to is a run.                                  *)
LEMMA NewRunIsTyped ==
  ASSUME NEW stage \in Alive \cup Ended, NEW mode \in Modes,
         NEW fresh \in BOOLEAN, NEW alone \in BOOLEAN
  PROVE  NewRun(stage, mode, fresh, alone) \in Run
BY BoundsAssumption DEF NewRun, Run, NoDocs

(* Ending, going on and having handled a document keep the runs typed.     *)
LEMMA MovesAreTyped ==
  ASSUME TypeOK, NEW s \in Scripts,
         \/ \E stage \in Ended : End(s, stage)
         \/ \E stage \in Alive : Go(s, stage)
         \/ run[s].at < N /\ Handled(s, run[s].at + 1)
  PROVE  run' \in [Scripts -> Run]
<1> USE BoundsAssumption
<1>1. ASSUME NEW stage \in Ended, End(s, stage) PROVE run' \in [Scripts -> Run]
  <2>1. (stage # "over" \/ run[s].alone) \in BOOLEAN
    BY DEF TypeOK, Run
  <2>2. NewRun(stage, "strict", FALSE, stage # "over" \/ run[s].alone) \in Run
    BY <2>1, NewRunIsTyped DEF Modes
  <2>3. QED
    BY <1>1, <2>2 DEF End, TypeOK
<1>2. ASSUME NEW stage \in Alive, Go(s, stage) PROVE run' \in [Scripts -> Run]
  <2>1. [run[s] EXCEPT !.stage = stage] \in Run
    BY DEF TypeOK, Run
  <2>2. QED
    BY <1>2, <2>1 DEF Go, TypeOK
<1>3. ASSUME run[s].at < N, Handled(s, run[s].at + 1) PROVE run' \in [Scripts -> Run]
  <2>1. run[s].at + 1 \in 0..N
    BY <1>3 DEF TypeOK, Run
  <2>2. [run[s] EXCEPT !.stage = "scan", !.at = run[s].at + 1] \in Run
    BY <2>1 DEF TypeOK, Run, Alive
  <2>3. QED
    BY <1>3, <2>2 DEF Handled, TypeOK
<1>4. QED
  BY <1>1, <1>2, <1>3

(* What a run does to its own record only: when it is still alive after    *)
(* that, it was alive before in the same mode, and what it relies on holds.*)
LEMMA RunStepKeepsInvariant ==
  ASSUME IInv, NEW s \in Scripts,
         run' \in [Scripts -> Run],
         \A r \in Scripts \ {s} : run'[r] = run[r],
         IsAlive(s)' => /\ IsAlive(s)
                        /\ run'[s].mode = run[s].mode
                        /\ run'[s].fresh = run[s].fresh
                        /\ Sane(s)',
         UNCHANGED <<rollout, source, frozen, dbVars, marker, serving, started,
                     writes, deleted>>
  PROVE  IInv'
<1>1. TypeOK'
  BY DEF IInv, TypeOK, dbVars
<1>2. RowsTogether' /\ FreshIsFrozen' /\ MarkerIsEarned' /\ CutoverIsComplete'
  BY DEF IInv, RowsTogether, FreshIsFrozen, MarkerIsEarned, CutoverIsComplete, dbVars
<1>3. RunsAreSane'
  <2>1. ASSUME NEW r \in Scripts, r # s, IsAlive(r)' PROVE Sane(r)'
    <3>1. IsAlive(r) /\ run'[r] = run[r]
      BY <2>1 DEF IsAlive
    <3>2. Sane(r)
      BY <3>1 DEF IInv, RunsAreSane
    <3>3. QED
      BY <3>1, <3>2 DEF Sane, Settled, dbVars
  <2>2. QED
    BY <2>1 DEF RunsAreSane
<1>4. Ordered'
  BY DEF IInv, Ordered, IsAlive, dbVars
<1>5. QED
  BY <1>1, <1>2, <1>3, <1>4 DEF IInv

(* A run that ends, by whatever path, is not alive.                        *)
LEMMA EndKeepsInvariant ==
  ASSUME IInv, NEW s \in Scripts, NEW stage \in Ended, End(s, stage),
         UNCHANGED <<rollout, source, frozen, dbVars, marker, serving, started,
                     writes, deleted>>
  PROVE  IInv'
<1>1. run' \in [Scripts -> Run]
  BY MovesAreTyped DEF IInv
<1>2. ~IsAlive(s)'
  BY DEF End, NewRun, IsAlive, IInv, TypeOK, Alive, Ended
<1>3. \A r \in Scripts \ {s} : run'[r] = run[r]
  BY DEF End, IInv, TypeOK
<1>4. QED
  BY <1>1, <1>2, <1>3, RunStepKeepsInvariant

(* A document that was dealt with: the run goes back to its cursor.        *)
LEMMA HandledKeepsInvariant ==
  ASSUME IInv, NEW s \in Scripts, IsAlive(s),
         run[s].at < run[s].fetched, Handled(s, run[s].at + 1),
         UNCHANGED <<rollout, source, frozen, dbVars, marker, serving, started,
                     writes, deleted>>
  PROVE  IInv'
<1>0. run[s] \in Run /\ run[s].at \in 0..N /\ run[s].fetched \in 0..N
  BY DEF IInv, TypeOK, Run
<1>1. run' \in [Scripts -> Run]
  BY <1>0, MovesAreTyped, BoundsAssumption DEF IInv
<1>2. run'[s] = [run[s] EXCEPT !.stage = "scan", !.at = run[s].at + 1]
  BY DEF Handled, IInv, TypeOK
<1>3. \A r \in Scripts \ {s} : run'[r] = run[r]
  BY DEF Handled, IInv, TypeOK
<1>4. run'[s].stage = "scan" /\ run'[s].at = run[s].at + 1
      /\ run'[s].fetched = run[s].fetched /\ run'[s].docs = run[s].docs
      /\ run'[s].mode = run[s].mode /\ run'[s].fresh = run[s].fresh
  BY <1>0, <1>2 DEF Run
<1>5. Sane(s)
  BY DEF IInv, RunsAreSane
<1>6. Sane(s)'
  BY <1>0, <1>4, <1>5, BoundsAssumption DEF Sane
<1>7. QED
  BY <1>1, <1>3, <1>4, <1>6, RunStepKeepsInvariant

(* The next stage of a run, when what that stage relies on holds.          *)
LEMMA GoKeepsInvariant ==
  ASSUME IInv, NEW s \in Scripts, IsAlive(s), run[s].mode # "dry",
         NEW stage \in Alive, Go(s, stage),
         stage \in {"import", "import_tx"} =>
           /\ run[s].at < run[s].fetched
           /\ IsValid(run[s].docs[run[s].at + 1]),
         stage # "verify",
         stage = "stamp" =>
           /\ run[s].fetched = N
           /\ \A t \in Trips :
                /\ run[s].docs[t] = NoDoc \/ IsValid(run[s].docs[t])
                /\ Settled(run[s].docs[t], t),
         UNCHANGED <<rollout, source, frozen, dbVars, marker, serving, started,
                     writes, deleted>>
  PROVE  IInv'
<1>0. run[s] \in Run
  BY DEF IInv, TypeOK
<1>1. run' \in [Scripts -> Run]
  BY MovesAreTyped DEF IInv
<1>2. run'[s] = [run[s] EXCEPT !.stage = stage]
  BY DEF Go, IInv, TypeOK
<1>3. \A r \in Scripts \ {s} : run'[r] = run[r]
  BY DEF Go, IInv, TypeOK
<1>4. run'[s].stage = stage /\ run'[s].at = run[s].at
      /\ run'[s].fetched = run[s].fetched /\ run'[s].docs = run[s].docs
      /\ run'[s].mode = run[s].mode /\ run'[s].fresh = run[s].fresh
  BY <1>0, <1>2 DEF Run
<1>5. Sane(s)
  BY DEF IInv, RunsAreSane
<1>6. Sane(s)'
  BY <1>4, <1>5 DEF Sane, Settled, dbVars
<1>7. QED
  BY <1>1, <1>3, <1>4, <1>6, RunStepKeepsInvariant

(* The cursor: a run that began after the freeze reads the frozen source.  *)
LEMMA FetchKeepsInvariant ==
  ASSUME IInv, NEW s \in Scripts, NEW upTo \in Trips, Fetch(s, upTo)
  PROVE  IInv'
<1> DEFINE docs == [t \in Trips |->
               IF run[s].fetched < t /\ t <= upTo THEN source[t] ELSE run[s].docs[t]]
<1>0. run[s] \in Run /\ run[s].at \in 0..N /\ run[s].fetched \in 0..N
      /\ upTo \in 0..N /\ docs \in [Trips -> LegacyDoc \cup {NoDoc}]
  BY BoundsAssumption DEF IInv, TypeOK, Run, Trips
<1>2. run'[s] = [run[s] EXCEPT !.docs = docs, !.fetched = upTo]
  BY DEF Fetch, IInv, TypeOK
<1>3. \A r \in Scripts \ {s} : run'[r] = run[r]
  BY DEF Fetch, IInv, TypeOK
<1>4. run'[s] \in Run
  BY <1>0, <1>2 DEF Run
<1>5. run' \in [Scripts -> Run]
  BY <1>3, <1>4 DEF Fetch, IInv, TypeOK
<1>6. run'[s].stage = run[s].stage /\ run'[s].at = run[s].at
      /\ run'[s].fetched = upTo /\ run'[s].docs = docs
      /\ run'[s].mode = run[s].mode /\ run'[s].fresh = run[s].fresh
  BY <1>0, <1>2 DEF Run
<1>7. IsAlive(s) /\ run[s].stage = "scan" /\ run[s].at = run[s].fetched
      /\ upTo > run[s].fetched
  BY DEF Fetch, IsAlive, Alive
<1>8. Sane(s)
  BY <1>7 DEF IInv, RunsAreSane
<1>9. Sane(s)'
  <2>1. run'[s].at <= run'[s].fetched
    BY <1>0, <1>6, <1>7, BoundsAssumption
  <2>2. ASSUME run'[s].fresh, NEW t \in Trips, t <= run'[s].fetched
        PROVE  frozen' /\ run'[s].docs[t] = source'[t]
    <3>1. frozen /\ (t <= run[s].fetched => run[s].docs[t] = source[t])
      BY <1>6, <1>8, <2>2 DEF Sane
    <3>2. t \in Int
      BY DEF Trips
    <3>3. run'[s].docs[t] = source[t]
      BY <1>0, <1>6, <2>2, <3>1, <3>2
    <3>4. QED
      BY <3>1, <3>3 DEF Fetch
  <2>3. run'[s].fresh => frozen'
    BY <1>6, <1>8 DEF Sane, Fetch
  <2>4. QED
    BY <1>6, <1>7, <1>8, <2>1, <2>2, <2>3 DEF Sane
<1>10. QED
  BY <1>3, <1>5, <1>6, <1>7, <1>9, RunStepKeepsInvariant DEF Fetch

(* The body of the loop.                                                   *)
LEMMA TakeKeepsInvariant ==
  ASSUME IInv, NEW s \in Scripts, Take(s)
  PROVE  IInv'
<1> DEFINE t == run[s].at + 1
           d == run[s].docs[t]
<1>1. IsAlive(s) /\ run[s].stage = "scan" /\ run[s].at < run[s].fetched
  BY DEF Take, IsAlive, Alive
<1>2. UNCHANGED <<rollout, source, frozen, dbVars, marker, serving, started,
                  writes, deleted>>
  BY DEF Take
<1>3. CASE Handled(s, t)
  BY <1>1, <1>2, <1>3, HandledKeepsInvariant
<1>4. CASE End(s, "over")
  BY <1>2, <1>4, EndKeepsInvariant DEF Ended
<1>5. CASE IsValid(d) /\ run[s].mode # "dry" /\ Go(s, "import")
  BY <1>1, <1>2, <1>5, GoKeepsInvariant DEF Alive
<1>6. QED
  BY <1>3, <1>4, <1>5 DEF Take, ImportReadsBaseline

(* The second read of an import.                                           *)
LEMMA ImportReadsTripKeepsInvariant ==
  ASSUME IInv, NEW s \in Scripts, ImportReadsTrip(s)
  PROVE  IInv'
<1>1. IsAlive(s) /\ run[s].stage = "import"
  BY DEF ImportReadsTrip, IsAlive, Alive
<1>2. UNCHANGED <<rollout, source, frozen, dbVars, marker, serving, started,
                  writes, deleted>>
  BY DEF ImportReadsTrip
<1>3. CASE End(s, "over")
  BY <1>2, <1>3, EndKeepsInvariant DEF Ended
<1>4. CASE Go(s, "import_tx")
  <2>1. run[s].mode # "dry" /\ run[s].at < run[s].fetched
        /\ IsValid(run[s].docs[run[s].at + 1])
    BY <1>1 DEF IInv, RunsAreSane, Sane
  <2>2. QED
    BY <1>1, <1>2, <1>4, <2>1, GoKeepsInvariant DEF Alive
<1>5. QED
  BY <1>3, <1>4 DEF ImportReadsTrip

(* The loop is over: the run has seen every document.                      *)
LEMMA ScanEndsKeepsInvariant ==
  ASSUME IInv, NEW s \in Scripts, ScanEnds(s)
  PROVE  IInv'
<1> DEFINE next == [run[s] EXCEPT !.stage = "verify", !.at = 0]
<1>0. run[s] \in Run /\ run[s].at \in 0..N /\ run[s].fetched \in 0..N
  BY DEF IInv, TypeOK, Run
<1>1. IsAlive(s) /\ run[s].stage = "scan" /\ run[s].at = N
  BY DEF ScanEnds, IsAlive, Alive
<1>2. UNCHANGED <<rollout, source, frozen, dbVars, marker, serving, started,
                  writes, deleted>>
  BY DEF ScanEnds
<1>3. CASE End(s, "over")
  BY <1>2, <1>3, EndKeepsInvariant DEF Ended
<1>4. CASE run[s].mode # "dry" /\ run' = [run EXCEPT ![s].stage = "verify", ![s].at = 0]
  <2>1. run'[s] = next /\ \A r \in Scripts \ {s} : run'[r] = run[r]
    BY <1>4 DEF IInv, TypeOK
  <2>2. next \in Run
    <3>1. 0 \in 0..N
      BY BoundsAssumption
    <3>2. QED
      BY <1>0, <3>1 DEF Run, Alive
  <2>3. run' \in [Scripts -> Run]
    BY <1>4, <2>2 DEF IInv, TypeOK
  <2>4. run'[s].stage = "verify" /\ run'[s].at = 0
        /\ run'[s].fetched = run[s].fetched /\ run'[s].docs = run[s].docs
        /\ run'[s].mode = run[s].mode /\ run'[s].fresh = run[s].fresh
    BY <1>0, <2>1 DEF Run
  <2>5. Sane(s)
    BY <1>1 DEF IInv, RunsAreSane
  <2>6. run[s].fetched = N
    BY <1>0, <1>1, <2>5, BoundsAssumption DEF Sane
  <2>7. \A t \in Trips : ~(t <= 0)
    BY BoundsAssumption DEF Trips
  <2>8. run'[s].at <= run'[s].fetched
    BY <2>4, <2>6, BoundsAssumption
  <2>9. run'[s].fresh => frozen' /\ \A t \in Trips :
           t <= run'[s].fetched => run'[s].docs[t] = source'[t]
    BY <1>2, <2>4, <2>5 DEF Sane
  <2>10. Sane(s)'
    BY <1>4, <2>4, <2>6, <2>7, <2>8, <2>9 DEF Sane
  <2>11. QED
    BY <1>1, <1>2, <2>1, <2>3, <2>4, <2>10, RunStepKeepsInvariant
<1>5. QED
  BY <1>3, <1>4 DEF ScanEnds

(* The verification pass: what it has passed over is settled, or it has    *)
(* noted a problem.                                                        *)
LEMMA VerifyKeepsInvariant ==
  ASSUME IInv, NEW s \in Scripts, Verify(s)
  PROVE  IInv'
<1> DEFINE u == run[s].at + 1
           bad == run[s].problems \/ (u \in Expected(s) /\ baselines[u] # run[s].docs[u])
           next == [run[s] EXCEPT !.at = u, !.problems = bad]
<1>0. run[s] \in Run /\ run[s].at \in 0..N /\ run[s].fetched \in 0..N
      /\ run[s].problems \in BOOLEAN
  BY DEF IInv, TypeOK, Run
<1>1. IsAlive(s) /\ run[s].stage = "verify" /\ run[s].at < N
  BY DEF Verify, IsAlive, Alive
<1>2. UNCHANGED <<rollout, source, frozen, dbVars, marker, serving, started,
                  writes, deleted>>
  BY DEF Verify
<1>3. run'[s] = next /\ \A r \in Scripts \ {s} : run'[r] = run[r]
  BY DEF Verify, IInv, TypeOK
<1>4. u \in 0..N /\ u \in Trips
  BY <1>0, <1>1, BoundsAssumption DEF Trips
<1>5. bad \in BOOLEAN
  BY <1>0
<1> HIDE DEF bad, u
<1>6. next \in Run
  BY <1>0, <1>4, <1>5 DEF Run
<1>7. run' \in [Scripts -> Run]
  BY <1>3, <1>6 DEF Verify, IInv, TypeOK
<1>8. run'[s].stage = run[s].stage /\ run'[s].at = u /\ run'[s].problems = bad
      /\ run'[s].fetched = run[s].fetched /\ run'[s].docs = run[s].docs
      /\ run'[s].mode = run[s].mode /\ run'[s].fresh = run[s].fresh
  BY <1>0, <1>3 DEF Run
<1>9. Sane(s)
  BY <1>1 DEF IInv, RunsAreSane
<1>10. ASSUME ~bad, NEW t \in Trips, t <= u PROVE Settled(run[s].docs[t], t)
  <2>1. CASE t = u
    BY <1>10, <2>1 DEF bad, u, Expected, Settled
  <2>2. CASE t # u
    <3>1. t <= run[s].at
      BY <1>0, <1>10, <2>2 DEF u, Trips
    <3>2. QED
      BY <1>1, <1>9, <1>10, <3>1 DEF bad, Sane
  <2>3. QED
    BY <2>1, <2>2
<1>11. run'[s].at <= run'[s].fetched
  <2>1. run[s].fetched = N
    BY <1>1, <1>9 DEF Sane
  <2>2. QED
    BY <1>4, <1>8, <2>1
<1>12. Sane(s)'
  BY <1>1, <1>2, <1>8, <1>9, <1>10, <1>11 DEF Sane, Settled, dbVars
<1>13. QED
  BY <1>1, <1>2, <1>3, <1>7, <1>8, <1>12, RunStepKeepsInvariant

(* The judgement: only a run that settled every document goes on to stamp. *)
LEMMA JudgeKeepsInvariant ==
  ASSUME IInv, NEW s \in Scripts, Judge(s)
  PROVE  IInv'
<1>1. IsAlive(s) /\ run[s].stage = "verify" /\ run[s].at = N
  BY DEF Judge, IsAlive, Alive
<1>2. UNCHANGED <<rollout, source, frozen, dbVars, marker, serving, started,
                  writes, deleted>>
  BY DEF Judge
<1>3. CASE End(s, "over")
  BY <1>2, <1>3, EndKeepsInvariant DEF Ended
<1>4. CASE Invalid(s) = {} /\ ~run[s].problems /\ Go(s, "stamp")
  <2>1. Sane(s)
    BY <1>1 DEF IInv, RunsAreSane
  <2>2. run[s].mode # "dry" /\ run[s].fetched = N
    BY <1>1, <2>1 DEF Sane
  <2>3. ASSUME NEW t \in Trips
        PROVE  /\ run[s].docs[t] = NoDoc \/ IsValid(run[s].docs[t])
               /\ Settled(run[s].docs[t], t)
    <3>1. t <= run[s].at
      BY <1>1, BoundsAssumption DEF Trips
    <3>2. QED
      BY <1>1, <1>4, <2>1, <3>1 DEF Sane, Invalid
  <2>4. QED
    BY <1>1, <1>2, <1>4, <2>2, <2>3, GoKeepsInvariant DEF Alive
<1>5. QED
  BY <1>3, <1>4 DEF Judge

(* The stamp: what a fresh run settled is what the frozen source holds.    *)
LEMMA StampKeepsInvariant ==
  ASSUME IInv, NEW s \in Scripts, Stamp(s)
  PROVE  IInv'
<1>0. run[s] \in Run
  BY DEF IInv, TypeOK
<1>1. IsAlive(s) /\ run[s].stage = "stamp" /\ End(s, "stamped")
      /\ marker' = [fresh |-> run[s].fresh]
  BY DEF Stamp, IsAlive, Alive
<1>2. UNCHANGED <<rollout, source, frozen, trips, baselines, serving, started,
                  writes, deleted>>
  BY DEF Stamp, dbVars
<1>3. Sane(s)
  BY <1>1 DEF IInv, RunsAreSane
<1>4. run[s].mode # "dry" /\ run[s].fetched = N /\ run[s].fresh \in BOOLEAN
  BY <1>0, <1>1, <1>3 DEF Sane, Run
<1>5. run' \in [Scripts -> Run] /\ ~IsAlive(s)'
      /\ \A r \in Scripts \ {s} : run'[r] = run[r]
  <2>1. run' \in [Scripts -> Run]
    BY <1>1, MovesAreTyped DEF IInv, Ended
  <2>2. QED
    BY <1>1, <2>1 DEF End, NewRun, IsAlive, IInv, TypeOK, Alive
<1>6. TypeOK'
  BY <1>1, <1>2, <1>4, <1>5 DEF IInv, TypeOK
<1>7. RowsTogether' /\ CutoverIsComplete'
  BY <1>2 DEF IInv, RowsTogether, CutoverIsComplete
<1>8. RunsAreSane'
  <2>1. ASSUME NEW r \in Scripts, r # s, IsAlive(r)' PROVE Sane(r)'
    <3>1. IsAlive(r) /\ run'[r] = run[r]
      BY <1>5, <2>1 DEF IsAlive
    <3>2. Sane(r)
      BY <3>1 DEF IInv, RunsAreSane
    <3>3. QED
      BY <1>2, <3>1, <3>2 DEF Sane, Settled
  <2>2. QED
    BY <1>5, <2>1 DEF RunsAreSane
<1>9. FreshIsFrozen'
  BY <1>1, <1>2, <1>3 DEF FreshIsFrozen, Sane
<1>10. MarkerIsEarned'
  <2>1. SUFFICES ASSUME run[s].fresh, NEW t \in Trips, source[t] # NoDoc
                 PROVE  /\ source[t].content # Malformed
                        /\ baselines[t] = source[t] \/ t \in deleted
    BY <1>1, <1>2 DEF MarkerIsEarned
  <2>2. run[s].docs[t] = source[t]
    BY <1>3, <1>4, <2>1, BoundsAssumption DEF Sane, Trips
  <2>3. QED
    BY <1>1, <1>3, <2>1, <2>2 DEF Sane, IsValid, Settled
<1>11. Ordered'
  <2>1. rollout => run[s].fresh /\ ~serving
    BY <1>1, <1>4 DEF IInv, Ordered
  <2>2. QED
    BY <1>1, <1>2, <1>5, <2>1 DEF IInv, Ordered, IsAlive
<1>12. QED
  BY <1>6, <1>7, <1>8, <1>9, <1>10, <1>11 DEF IInv

(* The transaction of an import: it only adds the rows of a trip that has  *)
(* none, and that no other run has settled unless a user deleted it.       *)
LEMMA ImportCommitsKeepsInvariant ==
  ASSUME IInv, NEW s \in Scripts, ImportCommits(s)
  PROVE  IInv'
<1> DEFINE u == run[s].at + 1
           d == run[s].docs[u]
<1>0. run[s] \in Run /\ run[s].at \in 0..N /\ run[s].fetched \in 0..N
  BY DEF IInv, TypeOK, Run
<1>1. IsAlive(s) /\ run[s].stage = "import_tx"
  BY DEF ImportCommits, IsAlive, Alive
<1>2. UNCHANGED <<rollout, source, frozen, marker, serving, started, writes, deleted>>
  BY DEF ImportCommits
<1>3. Sane(s)
  BY <1>1 DEF IInv, RunsAreSane
<1>4. run[s].mode # "dry" /\ run[s].at < run[s].fetched /\ IsValid(d)
  BY <1>1, <1>3 DEF Sane
<1>5. u \in Trips /\ u <= run[s].fetched
  BY <1>0, <1>4, BoundsAssumption DEF Trips
<1>6. d \in Doc /\ d # NoRow
  BY <1>0, <1>4, <1>5, ValidIsARow DEF Run
<1>7. CASE trips[u] # NoRow
  BY <1>1, <1>2, <1>7, EndKeepsInvariant DEF ImportCommits, Ended
<1>8. CASE trips[u] = NoRow
  <2>1. /\ trips' = [trips EXCEPT ![u] = d]
        /\ baselines' = [baselines EXCEPT ![u] = d]
        /\ Handled(s, u)
    BY <1>8 DEF ImportCommits
  <2>2. baselines[u] = NoRow
    BY <1>5, <1>8 DEF IInv, RowsTogether
  <2>3. run' \in [Scripts -> Run]
    BY <1>0, <1>4, <2>1, MovesAreTyped, BoundsAssumption DEF IInv
  <2>4. run'[s] = [run[s] EXCEPT !.stage = "scan", !.at = u]
        /\ \A r \in Scripts \ {s} : run'[r] = run[r]
    BY <2>1 DEF Handled, IInv, TypeOK
  <2>5. run'[s].stage = "scan" /\ run'[s].at = u
        /\ run'[s].fetched = run[s].fetched /\ run'[s].docs = run[s].docs
        /\ run'[s].mode = run[s].mode /\ run'[s].fresh = run[s].fresh
    BY <1>0, <2>4 DEF Run
  <2>6. /\ trips'[u] = d /\ baselines'[u] = d
        /\ \A t \in Trips \ {u} : trips'[t] = trips[t] /\ baselines'[t] = baselines[t]
    BY <1>5, <2>1 DEF IInv, TypeOK
  <2>7. TypeOK'
    BY <1>2, <1>5, <1>6, <2>1, <2>3 DEF IInv, TypeOK
  <2>8. RowsTogether'
    BY <1>6, <2>6 DEF IInv, RowsTogether, Doc
  <2>9. \A r \in Scripts : IsAlive(r)' <=> IsAlive(r)
    BY <1>1, <2>4, <2>5 DEF IsAlive, Alive
  <2>10. ASSUME NEW x \in LegacyDoc \cup {NoDoc}, NEW t \in Trips, Settled(x, t)
         PROVE  Settled(x, t)'
    <3>1. IsValid(x) => x # NoRow
      BY ValidIsARow
    <3>2. QED
      BY <1>2, <2>2, <2>6, <2>10, <3>1 DEF Settled
  <2>11. Sane(s)'
    <3>1. run'[s].at <= run'[s].fetched
      BY <1>5, <2>5
    <3>2. run'[s].fresh => frozen' /\ \A t \in Trips :
            t <= run'[s].fetched => run'[s].docs[t] = source'[t]
      BY <1>2, <1>3, <2>5 DEF Sane
    <3>3. QED
      BY <2>5, <3>1, <3>2 DEF Sane
  <2>12. ASSUME NEW r \in Scripts, r # s, IsAlive(r) PROVE Sane(r)'
    <3>1. run'[r] = run[r] /\ Sane(r) /\ run[r] \in Run
      BY <2>4, <2>12 DEF IInv, RunsAreSane, TypeOK
    <3>2. \A t \in Trips : run[r].docs[t] \in LegacyDoc \cup {NoDoc}
      BY <3>1 DEF Run
    <3>3. \A t \in Trips : Settled(run[r].docs[t], t) => Settled(run[r].docs[t], t)'
      BY <2>10, <3>1, <3>2 DEF Settled
    <3>4. QED
      BY <1>2, <3>1, <3>3 DEF Sane, Settled
  <2>13. RunsAreSane'
    BY <2>9, <2>11, <2>12 DEF RunsAreSane
  <2>14. FreshIsFrozen'
    BY <1>2 DEF IInv, FreshIsFrozen
  <2>15. MarkerIsEarned'
    <3>1. SUFFICES ASSUME marker # NoMarker, marker.fresh,
                          NEW t \in Trips, source[t] # NoDoc
                   PROVE  /\ source[t].content # Malformed
                          /\ baselines'[t] = source[t] \/ t \in deleted
      BY <1>2 DEF MarkerIsEarned
    <3>2. source[t].content # Malformed /\ (baselines[t] = source[t] \/ t \in deleted)
      BY <3>1 DEF IInv, MarkerIsEarned
    <3>3. source[t] # NoRow
      BY <3>1, <3>2, ValidIsARow DEF IInv, TypeOK, IsValid
    <3>4. QED
      BY <2>2, <2>6, <3>2, <3>3
  <2>16. rollout => ~serving /\ frozen /\ d = source[u]
    <3>1. rollout => run[s].fresh /\ ~serving
      BY <1>1, <1>4 DEF IInv, Ordered
    <3>2. QED
      BY <1>3, <1>5, <3>1 DEF Sane
  <2>17. Ordered'
    <3>1. \A r \in Scripts : IsAlive(r)' /\ run'[r].mode # "dry" =>
            IsAlive(r) /\ run[r].mode # "dry" /\ run'[r].fresh = run[r].fresh
      BY <2>4, <2>5, <2>9
    <3>2. QED
      BY <1>2, <2>6, <2>16, <3>1 DEF IInv, Ordered
  <2>18. CutoverIsComplete'
    BY <1>2, <2>16 DEF CutoverIsComplete
  <2>19. QED
    BY <2>7, <2>8, <2>13, <2>14, <2>15, <2>17, <2>18 DEF IInv
<1>9. QED
  BY <1>7, <1>8

(* A new run: a run that could write keeps to the order only when it begins *)
(* after the freeze and before the new application.                        *)
LEMMA StartKeepsInvariant ==
  ASSUME IInv, NEW s \in Scripts, NEW mode \in Modes, Start(s, mode)
  PROVE  IInv'
<1> DEFINE others == {r \in Scripts \ {s} : IsAlive(r)}
           new == NewRun("scan", mode, frozen, others = {})
<1>1. UNCHANGED <<source, frozen, trips, baselines, marker, serving, writes, deleted>>
  BY DEF Start, dbVars
<1>2. /\ rollout' = (rollout /\ (mode = "dry" \/ (frozen /\ ~serving)))
      /\ run' = [r \in Scripts |->
            IF r = s THEN new
            ELSE IF r \in others THEN [run[r] EXCEPT !.alone = FALSE] ELSE run[r]]
      /\ started < MaxRuns /\ started' = started + 1
  BY DEF Start
<1>3. new \in Run
  BY NewRunIsTyped DEF Alive, IInv, TypeOK
<1>4. new.stage = "scan" /\ new.mode = mode /\ new.fresh = frozen
      /\ new.at = 0 /\ new.fetched = 0
  BY DEF NewRun
<1> HIDE DEF new
<1>5. ASSUME NEW r \in Scripts, r # s
      PROVE  /\ run'[r] \in Run
             /\ run'[r].stage = run[r].stage /\ run'[r].mode = run[r].mode
             /\ run'[r].docs = run[r].docs /\ run'[r].fetched = run[r].fetched
             /\ run'[r].at = run[r].at /\ run'[r].problems = run[r].problems
             /\ run'[r].fresh = run[r].fresh
  <2>1. run[r] \in Run
    BY DEF IInv, TypeOK
  <2>2. run'[r] = [run[r] EXCEPT !.alone = FALSE] \/ run'[r] = run[r]
    BY <1>2, <1>5
  <2>3. QED
    BY <2>1, <2>2 DEF Run
<1>6. run'[s] = new
  BY <1>2
<1>7. TypeOK'
  <2>1. run' \in [Scripts -> Run]
    BY <1>2, <1>3, <1>5, <1>6
  <2>2. rollout' \in BOOLEAN
    BY <1>2
  <2>3. started' \in 0..MaxRuns
    BY <1>2, BoundsAssumption DEF IInv, TypeOK
  <2>4. QED
    BY <1>1, <2>1, <2>2, <2>3 DEF IInv, TypeOK
<1>8. RowsTogether' /\ FreshIsFrozen' /\ MarkerIsEarned'
  BY <1>1 DEF IInv, RowsTogether, FreshIsFrozen, MarkerIsEarned
<1>9. CutoverIsComplete'
  BY <1>1, <1>2 DEF IInv, CutoverIsComplete
<1>10. RunsAreSane'
  <2>1. Sane(s)'
    <3>1. \A t \in Trips : ~(t <= 0)
      BY DEF Trips
    <3>2. QED
      BY <1>1, <1>4, <1>6, <3>1 DEF Sane
  <2>2. ASSUME NEW r \in Scripts, r # s, IsAlive(r)' PROVE Sane(r)'
    <3>1. IsAlive(r)
      BY <1>5, <2>2 DEF IsAlive
    <3>2. Sane(r)
      BY <3>1 DEF IInv, RunsAreSane
    <3>3. QED
      BY <1>1, <1>5, <2>2, <3>2 DEF Sane, Settled
  <2>3. QED
    BY <2>1, <2>2 DEF RunsAreSane
<1>11. Ordered'
  <2>1. ASSUME rollout', NEW r \in Scripts, IsAlive(r)', run'[r].mode # "dry"
        PROVE  run'[r].fresh /\ ~serving'
    <3>1. CASE r = s
      BY <1>1, <1>2, <1>4, <1>6, <2>1, <3>1
    <3>2. CASE r # s
      BY <1>1, <1>2, <1>5, <2>1, <3>2 DEF IInv, Ordered, IsAlive
    <3>3. QED
      BY <3>1, <3>2
  <2>2. QED
    BY <1>1, <1>2, <2>1 DEF IInv, Ordered
<1>12. QED
  BY <1>7, <1>8, <1>9, <1>10, <1>11 DEF IInv

(* The gate: under the documented order the marker is fresh, so that every *)
(* legacy trip is there, and nothing else is.                              *)
LEMMA StartAppKeepsInvariant ==
  ASSUME IInv, NEW required \in BOOLEAN, StartApp(required)
  PROVE  IInv'
<1>1. UNCHANGED <<source, frozen, trips, baselines, marker, run, started, writes, deleted>>
      /\ ~serving /\ serving'
  BY DEF StartApp, dbVars
<1>2. /\ rollout' = (rollout /\ required /\ \A s \in Scripts : ~IsAlive(s))
      /\ required => marker # NoMarker
  BY DEF StartApp
<1>3. TypeOK'
  <2>1. rollout' \in BOOLEAN /\ serving' \in BOOLEAN
    BY <1>2 DEF StartApp
  <2>2. QED
    BY <1>1, <2>1 DEF IInv, TypeOK
<1>4. RowsTogether' /\ FreshIsFrozen' /\ MarkerIsEarned'
  BY <1>1 DEF IInv, RowsTogether, FreshIsFrozen, MarkerIsEarned
<1>5. RunsAreSane'
  BY <1>1 DEF IInv, RunsAreSane, IsAlive, Sane, Settled
<1>6. Ordered'
  BY <1>1, <1>2 DEF IInv, Ordered, IsAlive
<1>7. CutoverIsComplete'
  <2>1. SUFFICES ASSUME rollout', NEW t \in Trips
                 PROVE  IF source[t] = NoDoc \/ t \in deleted
                        THEN trips[t] = NoRow /\ baselines[t] = NoRow
                        ELSE /\ baselines[t] = source[t]
                             /\ trips[t] # NoRow
                             /\ trips[t].revision >= source[t].revision
    BY <1>1 DEF CutoverIsComplete
  <2>2. /\ deleted = {} /\ marker # NoMarker /\ marker.fresh
        /\ baselines[t] # NoRow => baselines[t] = source[t]
    BY <1>1, <1>2, <2>1 DEF IInv, Ordered
  <2>3. baselines[t] \in Doc \cup {NoRow} /\ source[t] \in LegacyDoc \cup {NoDoc}
    BY DEF IInv, TypeOK
  <2>4. CASE source[t] = NoDoc
    <3>1. NoDoc \notin Doc
      BY AbsentAssumption DEF Doc, LegacyDoc
    <3>2. baselines[t] = NoRow
      BY <2>2, <2>3, <2>4, <3>1
    <3>3. QED
      BY <2>4, <3>2 DEF IInv, RowsTogether
  <2>5. CASE source[t] # NoDoc
    <3>1. IsValid(source[t]) /\ baselines[t] = source[t]
      BY <2>2, <2>5 DEF IInv, MarkerIsEarned, IsValid
    <3>2. baselines[t] # NoRow
      BY <2>3, <3>1, ValidIsARow
    <3>3. QED
      BY <2>2, <2>5, <3>1, <3>2 DEF IInv, RowsTogether
  <2>6. QED
    BY <2>4, <2>5
<1>8. QED
  BY <1>3, <1>4, <1>5, <1>6, <1>7 DEF IInv

(* The old application writes only before the freeze, when no fresh run    *)
(* has read anything and nothing fresh is stamped.                         *)
LEMMA LegacyKeepsInvariant ==
  ASSUME IInv, NEW t \in Trips,
         LegacyDelete(t) \/ \E c \in Contents : LegacyEdit(t, c)
  PROVE  IInv'
<1>1. ~frozen /\ source[t] # NoDoc
      /\ UNCHANGED <<rollout, frozen, trips, baselines, marker, serving, run,
                     started, deleted>>
  BY DEF LegacyDelete, LegacyEdit, dbVars
<1>2. writes < MaxWrites /\ writes' = writes + 1
  BY DEF LegacyDelete, LegacyEdit, Writes
<1>3. source' \in [Trips -> LegacyDoc \cup {NoDoc}]
  <2>1. CASE LegacyDelete(t)
    BY <2>1 DEF LegacyDelete, IInv, TypeOK
  <2>2. CASE \E c \in Contents : LegacyEdit(t, c)
    <3>1. PICK c \in Contents : LegacyEdit(t, c)
      BY <2>2
    <3>2. source[t].revision \in 0..MaxRevision
      BY <1>1 DEF IInv, TypeOK, LegacyDoc
    <3>3. PICK r \in {source[t].revision, source[t].revision + 1} :
            /\ r <= MaxRevision
            /\ source' = [source EXCEPT ![t] = [revision |-> r, content |-> c]]
      BY <3>1 DEF LegacyEdit
    <3>4. r \in 0..MaxRevision
      BY <3>2, <3>3, BoundsAssumption
    <3>5. [revision |-> r, content |-> c] \in LegacyDoc
      BY <3>4 DEF LegacyDoc
    <3>6. QED
      BY <3>3, <3>5 DEF IInv, TypeOK
  <2>3. QED
    BY <2>1, <2>2
<1>4. TypeOK'
  <2>1. writes' \in 0..MaxWrites
    BY <1>2, BoundsAssumption DEF IInv, TypeOK
  <2>2. QED
    BY <1>1, <1>3, <2>1 DEF IInv, TypeOK
<1>5. RowsTogether' /\ FreshIsFrozen' /\ MarkerIsEarned'
  BY <1>1 DEF IInv, RowsTogether, FreshIsFrozen, MarkerIsEarned
<1>6. RunsAreSane'
  <2>1. \A s \in Scripts : IsAlive(s) => Sane(s) /\ ~run[s].fresh
    BY <1>1 DEF IInv, RunsAreSane, Sane
  <2>2. QED
    BY <1>1, <2>1 DEF RunsAreSane, IsAlive, Sane, Settled
<1>7. Ordered'
  BY <1>1 DEF IInv, Ordered, IsAlive
<1>8. CutoverIsComplete'
  BY <1>1 DEF IInv, Ordered, FreshIsFrozen, CutoverIsComplete
<1>9. QED
  BY <1>4, <1>5, <1>6, <1>7, <1>8 DEF IInv

(* The freeze itself.                                                      *)
LEMMA FreezeKeepsInvariant ==
  ASSUME IInv, Freeze
  PROVE  IInv'
<1>1. frozen' /\ frozen' \in BOOLEAN
      /\ UNCHANGED <<rollout, source, trips, baselines, marker, serving, run,
                     started, writes, deleted>>
  BY DEF Freeze, dbVars
<1>2. TypeOK'
  BY <1>1 DEF IInv, TypeOK
<1>3. RowsTogether' /\ FreshIsFrozen' /\ MarkerIsEarned' /\ CutoverIsComplete'
  BY <1>1 DEF IInv, RowsTogether, FreshIsFrozen, MarkerIsEarned, CutoverIsComplete
<1>4. RunsAreSane'
  BY <1>1 DEF IInv, RunsAreSane, IsAlive, Sane, Settled
<1>5. Ordered'
  BY <1>1 DEF IInv, Ordered, IsAlive
<1>6. QED
  BY <1>2, <1>3, <1>4, <1>5 DEF IInv

(* The row an edit writes is a row, one revision on.                       *)
LEMMA EditedIsARow ==
  ASSUME TypeOK, NEW t \in Trips, NEW c \in Contents,
         trips[t] # NoRow, trips[t].revision < MaxRevision
  PROVE  LET row == [revision |-> trips[t].revision + 1, content |-> c]
         IN row \in Doc /\ row # NoRow
<1>1. trips[t] \in Doc
  BY DEF TypeOK
<1>2. trips[t].revision + 1 \in 0..MaxRevision
  BY <1>1, BoundsAssumption DEF Doc
<1>3. [revision |-> trips[t].revision + 1, content |-> c] \in Doc
  BY <1>2 DEF Doc
<1>4. NoRow \notin Doc
  BY AbsentAssumption
<1>5. QED
  BY <1>3, <1>4

(* An edit in the new application advances a current row only.             *)
LEMMA UpdateKeepsInvariant ==
  ASSUME IInv, NEW t \in Trips, NEW c \in Contents, Update(t, c)
  PROVE  IInv'
<1> DEFINE row == [revision |-> trips[t].revision + 1, content |-> c]
<1>1. UNCHANGED <<rollout, source, frozen, baselines, marker, serving, run,
                  started, deleted>>
      /\ serving
  BY DEF Update
<1>2. /\ trips[t] # NoRow /\ trips[t].revision < MaxRevision
      /\ trips' = [trips EXCEPT ![t] = row]
      /\ writes < MaxWrites /\ writes' = writes + 1
  BY DEF Update, Writes
<1>3. trips[t] \in Doc
  BY <1>2 DEF IInv, TypeOK
<1>4. row \in Doc /\ row # NoRow /\ row.revision = trips[t].revision + 1
  BY <1>2, EditedIsARow DEF IInv
<1> HIDE DEF row
<1>5. trips'[t] = row /\ \A u \in Trips \ {t} : trips'[u] = trips[u]
  BY <1>2 DEF IInv, TypeOK
<1>6. TypeOK'
  <2>1. writes' \in 0..MaxWrites
    BY <1>2, BoundsAssumption DEF IInv, TypeOK
  <2>2. QED
    BY <1>1, <1>2, <1>4, <2>1 DEF IInv, TypeOK
<1>7. RowsTogether'
  <2>1. RowsTogether /\ baselines[t] # NoRow /\ baselines[t] \in Doc
    BY <1>2 DEF IInv, RowsTogether, TypeOK
  <2>2. trips'[t].revision >= baselines'[t].revision
    BY <1>1, <1>2, <1>3, <1>4, <1>5, <2>1, BoundsAssumption DEF RowsTogether, Doc
  <2>3. QED
    BY <1>1, <1>4, <1>5, <2>1, <2>2 DEF RowsTogether
<1>8. RunsAreSane' /\ FreshIsFrozen' /\ MarkerIsEarned' /\ Ordered'
  BY <1>1 DEF IInv, RunsAreSane, IsAlive, Sane, Settled, FreshIsFrozen,
              MarkerIsEarned, Ordered
<1>9. CutoverIsComplete'
  <2>1. SUFFICES ASSUME rollout, NEW u \in Trips
                 PROVE  IF source[u] = NoDoc \/ u \in deleted
                        THEN trips'[u] = NoRow /\ baselines[u] = NoRow
                        ELSE /\ baselines[u] = source[u]
                             /\ trips'[u] # NoRow
                             /\ trips'[u].revision >= source[u].revision
    BY <1>1 DEF CutoverIsComplete
  <2>2. IF source[u] = NoDoc \/ u \in deleted
        THEN trips[u] = NoRow /\ baselines[u] = NoRow
        ELSE /\ baselines[u] = source[u]
             /\ trips[u] # NoRow /\ trips[u].revision >= source[u].revision
    BY <1>1, <2>1 DEF IInv, CutoverIsComplete
  <2>3. CASE u # t
    BY <1>5, <2>2, <2>3
  <2>4. CASE u = t
    BY <1>1, <1>2, <1>4, <1>5, <1>7, <2>2, <2>4 DEF RowsTogether
  <2>5. QED
    BY <2>3, <2>4
<1>10. QED
  BY <1>6, <1>7, <1>8, <1>9 DEF IInv

(* A deletion takes both rows, and is remembered.                          *)
LEMMA DeleteKeepsInvariant ==
  ASSUME IInv, NEW t \in Trips, Delete(t)
  PROVE  IInv'
<1>1. UNCHANGED <<rollout, source, frozen, marker, serving, run, started>>
      /\ serving
  BY DEF Delete
<1>2. /\ trips' = [trips EXCEPT ![t] = NoRow]
      /\ baselines' = [baselines EXCEPT ![t] = NoRow]
      /\ deleted' = deleted \cup {t}
      /\ writes < MaxWrites /\ writes' = writes + 1
  BY DEF Delete, Writes
<1>3. /\ trips'[t] = NoRow /\ baselines'[t] = NoRow
      /\ \A u \in Trips \ {t} : trips'[u] = trips[u] /\ baselines'[u] = baselines[u]
  BY <1>2 DEF IInv, TypeOK
<1>4. TypeOK'
  <2>1. writes' \in 0..MaxWrites
    BY <1>2, BoundsAssumption DEF IInv, TypeOK
  <2>2. QED
    BY <1>1, <1>2, <2>1 DEF IInv, TypeOK
<1>5. RowsTogether'
  BY <1>3 DEF IInv, RowsTogether
<1>6. RunsAreSane'
  <2>1. ASSUME NEW s \in Scripts, IsAlive(s)' PROVE Sane(s)'
    <3>1. Sane(s)
      BY <1>1, <2>1 DEF IInv, RunsAreSane, IsAlive
    <3>2. \A u \in Trips : Settled(run[s].docs[u], u) => Settled(run[s].docs[u], u)'
      BY <1>1, <1>2, <1>3 DEF Settled
    <3>3. QED
      BY <1>1, <3>1, <3>2 DEF Sane, Settled
  <2>2. QED
    BY <2>1 DEF RunsAreSane
<1>7. FreshIsFrozen' /\ Ordered'
  BY <1>1 DEF IInv, FreshIsFrozen, Ordered, IsAlive
<1>8. MarkerIsEarned' /\ CutoverIsComplete'
  BY <1>1, <1>2, <1>3 DEF IInv, MarkerIsEarned, CutoverIsComplete
<1>9. QED
  BY <1>4, <1>5, <1>6, <1>7, <1>8 DEF IInv

-----------------------------------------------------------------------------
(* Before anything ran, the database is empty and nothing is stamped.      *)
LEMMA InitHasInvariant == Init => IInv
<1> SUFFICES ASSUME Init PROVE IInv
  OBVIOUS
<1>1. TypeOK
  <2>1. source \in [Trips -> LegacyDoc \cup {NoDoc}]
    <3>1. [revision : {0}, content : Early \cup {Malformed}] \subseteq LegacyDoc
      BY BoundsAssumption, ContentsAssumption DEF LegacyDoc
    <3>2. QED
      BY <3>1 DEF Init
  <2>2. NewRun("over", "strict", FALSE, TRUE) \in Run
    BY NewRunIsTyped DEF Ended, Modes
  <2>3. run \in [Scripts -> Run]
    BY <2>2 DEF Init
  <2>4. started \in 0..MaxRuns /\ writes \in 0..MaxWrites
    BY BoundsAssumption DEF Init
  <2>5. trips \in [Trips -> Doc \cup {NoRow}] /\ baselines \in [Trips -> Doc \cup {NoRow}]
    BY DEF Init
  <2>6. rollout \in BOOLEAN /\ frozen \in BOOLEAN /\ serving \in BOOLEAN
        /\ marker = NoMarker /\ deleted \in SUBSET Trips
    BY DEF Init
  <2>7. QED
    BY <2>1, <2>3, <2>4, <2>5, <2>6 DEF TypeOK
<1>2. \A s \in Scripts : ~IsAlive(s)
  BY DEF Init, NewRun, IsAlive, Alive
<1>3. QED
  BY <1>1, <1>2 DEF Init, IInv, RowsTogether, RunsAreSane, FreshIsFrozen,
                    MarkerIsEarned, Ordered, CutoverIsComplete

(* Every step keeps the invariant.                                         *)
LEMMA NextKeepsInvariant == IInv /\ [Next]_vars => IInv'
<1> SUFFICES ASSUME IInv, [Next]_vars PROVE IInv'
  OBVIOUS
<1>1. CASE UNCHANGED vars
  <2>1. TypeOK' /\ RowsTogether' /\ FreshIsFrozen' /\ MarkerIsEarned' /\ CutoverIsComplete'
    BY <1>1 DEF vars, dbVars, IInv, TypeOK, RowsTogether, FreshIsFrozen,
                MarkerIsEarned, CutoverIsComplete
  <2>2. RunsAreSane' /\ Ordered'
    BY <1>1 DEF vars, dbVars, IInv, RunsAreSane, IsAlive, Sane, Settled, Ordered
  <2>3. QED
    BY <2>1, <2>2 DEF IInv
<1>2. ASSUME NEW t \in Trips, LegacyDelete(t) \/ Delete(t) PROVE IInv'
  BY <1>2, LegacyKeepsInvariant, DeleteKeepsInvariant
<1>3. ASSUME NEW t \in Trips, NEW c \in Contents, LegacyEdit(t, c) \/ Update(t, c)
      PROVE  IInv'
  BY <1>3, LegacyKeepsInvariant, UpdateKeepsInvariant
<1>4. CASE Freeze
  BY <1>4, FreezeKeepsInvariant
<1>5. ASSUME NEW required \in BOOLEAN, StartApp(required) PROVE IInv'
  BY <1>5, StartAppKeepsInvariant
<1>6. ASSUME NEW s \in Scripts, NEW mode \in Modes, Start(s, mode) PROVE IInv'
  BY <1>6, StartKeepsInvariant
<1>7. ASSUME NEW s \in Scripts, ScriptStep(s) PROVE IInv'
  BY <1>7, FetchKeepsInvariant, TakeKeepsInvariant, ImportReadsTripKeepsInvariant,
     ImportCommitsKeepsInvariant, ScanEndsKeepsInvariant, VerifyKeepsInvariant,
     JudgeKeepsInvariant, StampKeepsInvariant DEF ScriptStep
<1>8. ASSUME NEW s \in Scripts, Kill(s) PROVE IInv'
  BY <1>8, EndKeepsInvariant DEF Kill, Ended
<1>9. QED
  BY <1>1, <1>2, <1>3, <1>4, <1>5, <1>6, <1>7, <1>8 DEF Next

(* The inductive invariant holds in every reachable state.                 *)
THEOREM Invariant == Spec => []IInv
BY InitHasInvariant, NextKeepsInvariant, PTL DEF Spec

(* The tables, the source and the runs keep their shape.                   *)
THEOREM TypeCorrect == Spec => []TypeOK
<1>1. IInv => TypeOK
  BY DEF IInv
<1>2. QED
  BY <1>1, Invariant, PTL

(* The marker of a run that began after the freeze vouches for every       *)
(* legacy document, whatever ran, died or wrote in between (Judge, Stamp). *)
THEOREM MarkerEarned == Spec => []MarkerIsEarned
<1>1. IInv => MarkerIsEarned
  BY DEF IInv
<1>2. QED
  BY <1>1, Invariant, PTL

(* When the documented order was kept, the new application serves what     *)
(* Mongo held when it was frozen, no less and no more (StartApp).          *)
THEOREM CutoverComplete == Spec => []CutoverIsComplete
<1>1. IInv => CutoverIsComplete
  BY DEF IInv
<1>2. QED
  BY <1>1, Invariant, PTL

(* No run changes a trip that is there: ImportCommits is the only step of  *)
(* a run that writes rows, and it needs the trip to be absent.             *)
THEOREM NeverOverwrites == Spec => RunsNeverOverwrite
<1> DEFINE Kept == \A t \in Trips :
       trips[t] # NoRow =>
         \/ trips'[t] = NoRow /\ baselines'[t] = NoRow
         \/ /\ trips'[t] # NoRow
            /\ trips'[t] = trips[t] \/ trips'[t].revision = trips[t].revision + 1
            /\ baselines'[t] = baselines[t]
<1>1. ASSUME IInv, [Next]_vars PROVE Kept \/ UNCHANGED vars
  <2>1. CASE UNCHANGED <<trips, baselines>>
    BY <2>1
  <2>2. ASSUME NEW s \in Scripts, ImportCommits(s) PROVE Kept
    BY <1>1, <2>2 DEF ImportCommits, IInv, TypeOK, dbVars
  <2>3. ASSUME NEW t \in Trips, Delete(t) PROVE Kept
    BY <1>1, <2>3 DEF Delete, IInv, TypeOK
  <2>4. ASSUME NEW t \in Trips, NEW c \in Contents, Update(t, c) PROVE Kept
    <3>1. trips' = [trips EXCEPT ![t] = [revision |-> trips[t].revision + 1, content |-> c]]
          /\ baselines' = baselines
      BY <2>4 DEF Update
    <3>2. trips'[t].revision = trips[t].revision + 1
      BY <1>1, <3>1 DEF IInv, TypeOK
    <3>3. trips'[t] # NoRow
      BY <1>1, <2>4, <3>1, EditedIsARow DEF Update, IInv, TypeOK
    <3>4. QED
      BY <1>1, <3>1, <3>2, <3>3 DEF IInv, TypeOK
  <2>5. QED
    BY <1>1, <2>1, <2>2, <2>3, <2>4
    DEF Next, ScriptStep, LegacyDelete, LegacyEdit, Freeze, StartApp, Start, Kill,
        Fetch, Take, ImportReadsTrip, ScanEnds, Verify, Judge, Stamp, vars, dbVars
<1>2. QED
  BY <1>1, Invariant, PTL DEF Spec, RunsNeverOverwrite
=============================================================================
