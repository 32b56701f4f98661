------------------------ MODULE TripRepositoryProofs ------------------------
(***************************************************************************)
(* Theorems about TripRepository, for every set of clients, trips and      *)
(* snapshots and every bound on revisions.                                 *)
(*                                                                         *)
(* CurrentIsBacked, HistoryIsWellFormed, SeenStaysTrue and NoLostUpdate    *)
(* are not inductive alone: a restore commits a snapshot it read in an     *)
(* earlier step, and an import inserts a trip it once found absent.  The   *)
(* inductive invariant adds what those requests in flight may rely on      *)
(* (InFlight) and that the write freeze separates imports from everything  *)
(* else (Freeze).                                                          *)
(***************************************************************************)
EXTENDS TripRepository, TLAPS

(* What a request in flight read is still true, unless its trip is gone,   *)
(* and imports run only while writes are frozen, the others afterwards.    *)
(* A listing has the row of the revision that it read first, or none.      *)
Sound(q) ==
  /\ q.op \in {"restore", "restore_tx"} => q.target # q.expected
  /\ q.op = "restore_tx" =>
       /\ q.trip \in minted
       /\ trips[q.trip] # NoRow =>
            /\ revisions[q.trip][q.target] # NoRow
            /\ revisions[q.trip][q.target].snapshot = q.snapshot
  /\ q.op = "list" =>
       /\ q.trip \in minted
       /\ trips[q.trip] # NoRow => revisions[q.trip][q.current] # NoRow
  /\ q.op = "listed" => q.rows = {} \/ q.current \in q.rows
  /\ q.op \in {"import", "import_tx"} => ~serving
  /\ q.op \notin {"idle", "import", "import_tx"} => serving

InFlight == \A c \in Clients : Sound(req[c])

(* Nobody is shown a trip before writes open, and a live trip's identifier *)
(* is never minted again.                                                  *)
Freeze ==
  /\ \A c \in Clients : view[c] # NoRow => serving
  /\ \A t \in TripIds : trips[t] # NoRow => t \in minted
  /\ DOMAIN Legacy \subseteq minted

(* What SeenStaysTrue says of one view.                                    *)
True(v) ==
  /\ v.trip \in minted
  /\ trips[v.trip] # NoRow =>
       /\ v.revision <= trips[v.trip].revision
       /\ revisions[v.trip][v.revision] # NoRow
       /\ revisions[v.trip][v.revision].snapshot = v.snapshot

(* A step is gentle to a trip that somebody may have read from if it       *)
(* removes it or only adds to it.                                          *)
Gentle(t) ==
  \/ trips'[t] = NoRow
  \/ /\ trips[t] # NoRow /\ trips'[t] # NoRow
     /\ trips[t].revision <= trips'[t].revision
     /\ \A r \in Revisions : revisions[t][r] # NoRow => revisions'[t][r] = revisions[t][r]

IInv ==
  /\ TypeOK
  /\ CurrentIsBacked
  /\ HistoryIsWellFormed
  /\ SeenStaysTrue
  /\ NoLostUpdate
  /\ InFlight
  /\ Freeze

-----------------------------------------------------------------------------
(* A request that ends leaves a well-formed request table behind.          *)
LEMMA EndsIsTyped ==
  ASSUME TypeOK, NEW c \in Clients, Ends(c)
  PROVE  req' \in [Clients -> Request]
<1>1. Idle \in Request
  BY DEF Idle, Request
<1>2. QED
  BY <1>1 DEF TypeOK, Ends, Stage

(* A client that is, or may be, shown a revision has a well-formed view.   *)
LEMMA AnsweredIsTyped ==
  ASSUME TypeOK, NEW c \in Clients, NEW t \in TripIds, NEW r \in Revisions,
         NEW s \in Snapshots, Answered(c, t, r, s)
  PROVE  view' \in [Clients -> View \cup {NoRow}]
<1>1. [trip |-> t, revision |-> r, snapshot |-> s] \in View
  BY DEF View
<1>2. QED
  BY <1>1 DEF TypeOK, Answered, Sees

(* A step leaves the tables, requests and views well typed.                *)
LEMMA StepKeepsTypes == TypeOK /\ [Next]_vars => TypeOK'
<1> SUFFICES ASSUME TypeOK, [Next]_vars PROVE TypeOK'
  OBVIOUS
<1> USE BoundAssumption, LegacyAssumption, SentinelAssumption
<1>1. CASE OpenWrites
  BY <1>1 DEF OpenWrites, TypeOK
<1>2. ASSUME NEW c \in Clients, ClientStep(c) PROVE TypeOK'
  <2>1. ASSUME NEW t \in TripIds, Get(c, t) PROVE TypeOK'
    <3>1. CASE trips[t] = NoRow
      BY <2>1, <3>1, EndsIsTyped DEF Get, TypeOK
    <3>2. CASE trips[t] # NoRow
      <4>1. trips[t].revision \in Revisions /\ trips[t].snapshot \in Snapshots
        BY <3>2 DEF TypeOK, TripRow
      <4>2. QED
        BY <2>1, <3>2, <4>1, EndsIsTyped, AnsweredIsTyped DEF Get, Answered, TypeOK
    <3>3. QED
      BY <3>1, <3>2
  <2>2. ASSUME NEW t \in TripIds, Delete(c, t) PROVE TypeOK'
    BY <2>2 DEF Delete, TypeOK, Ends, Stage, Idle, Request, NoHistory
  <2>3. ASSUME NEW t \in TripIds, ListReadCurrent(c, t) PROVE TypeOK'
    BY <2>3 DEF ListReadCurrent, TypeOK, Ends, Stage, Idle, Request, TripRow
  <2>4. ASSUME NEW t \in TripIds, ImportReadBaseline(c, t) PROVE TypeOK'
    BY <2>4 DEF ImportReadBaseline, TypeOK, Ends, Stage, Idle, Request
  <2>5. ASSUME NEW t \in TripIds, NEW s \in Snapshots, Save(c, t, s) PROVE TypeOK'
    <3>1. 0 \in Revisions
      BY DEF Revisions
    <3>2. QED
      BY <2>5, <3>1 DEF Save, TypeOK, Ends, Stage, Idle, Request, Answered, Sees, View,
        InsertBoth, Row, RevisionRow, TripRow, Sources, Tokens
  <2>6. ASSUME NEW t \in TripIds, NEW k \in Revisions, GetRevision(c, t, k) PROVE TypeOK'
    <3>1. CASE revisions[t][k] = NoRow
      BY <2>6, <3>1, EndsIsTyped DEF GetRevision, TypeOK
    <3>2. CASE revisions[t][k] # NoRow
      <4>1. revisions[t][k].snapshot \in Snapshots
        BY <3>2 DEF TypeOK, RevisionRow
      <4>2. QED
        BY <2>6, <3>2, <4>1, EndsIsTyped, AnsweredIsTyped DEF GetRevision, Answered, TypeOK
    <3>3. QED
      BY <3>1, <3>2
  <2>7. ASSUME NEW t \in TripIds, NEW k \in Revisions, NEW e \in Revisions,
               RestoreReadTrip(c, t, k, e)
        PROVE TypeOK'
    BY <2>7 DEF RestoreReadTrip, TypeOK, Ends, Stage, Idle, Request
  <2>refused. ASSUME NEW t \in TripIds, UpdateRefused(c, t) \/ RestoreRefused(c, t)
              PROVE TypeOK'
    BY <2>refused, EndsIsTyped DEF UpdateRefused, RestoreRefused, TypeOK
  <2>8. ASSUME NEW t \in TripIds, NEW s \in Snapshots, NEW e \in Tokens, UpdateNoOp(c, t, s, e)
        PROVE TypeOK'
    <3>1. trips[t].revision \in Revisions
      BY <2>8 DEF UpdateNoOp, TokenAccepted, TypeOK, TripRow
    <3>2. QED
      BY <2>8, <3>1, EndsIsTyped, AnsweredIsTyped DEF UpdateNoOp, TypeOK
  <2>9. ASSUME NEW t \in TripIds, NEW s \in Snapshots, NEW e \in Tokens,
               NEW source \in UpdateSources, UpdateWrites(c, t, s, e, source)
        PROVE TypeOK'
    <3>1. trips[t] \in TripRow /\ trips[t].revision + 1 \in Revisions
      BY <2>9 DEF UpdateWrites, CasAdvance, TypeOK, TripRow, Revisions
    <3>2. Row(s, source, NoRevision) \in RevisionRow
      BY DEF Row, RevisionRow, Sources, Tokens
    <3>3. Seen(c, t, e) \in Snapshots \cup {NoSnapshot}
      BY DEF Seen, TypeOK, View
    <3>4. trips' \in [TripIds -> TripRow \cup {NoRow}]
      BY <2>9, <3>1 DEF UpdateWrites, CasAdvance, TypeOK, TripRow, Row
    <3>5. revisions' \in [TripIds -> [Revisions -> RevisionRow \cup {NoRow}]]
      BY <2>9, <3>1, <3>2 DEF UpdateWrites, CasAdvance, TypeOK
    <3>6. basis' \in [TripIds -> [Revisions -> Snapshots \cup {NoSnapshot}]]
      BY <2>9, <3>1, <3>3 DEF UpdateWrites, TypeOK
    <3>7. view' \in [Clients -> View \cup {NoRow}]
      BY <2>9, <3>1, AnsweredIsTyped DEF UpdateWrites
    <3>8. QED
      BY <2>9, <3>4, <3>5, <3>6, <3>7, EndsIsTyped DEF UpdateWrites, TypeOK
  <2>10. CASE ListReadRows(c)
    BY <2>10 DEF ListReadRows, TypeOK, Stage, Request
  <2>11. CASE RestoreReadTarget(c)
    BY <2>11 DEF RestoreReadTarget, TypeOK, Ends, Stage, Idle, Request, RevisionRow
  <2>12. CASE RestoreCommits(c)
    <3> DEFINE r == req[c]
    <3>1. /\ r.trip \in TripIds /\ r.target \in Revisions /\ r.snapshot \in Snapshots
          /\ r.expected \in Revisions
      BY <2>12 DEF RestoreCommits, TypeOK, Request
    <3>2. trips[r.trip] \in TripRow /\ r.expected + 1 \in Revisions
          /\ trips[r.trip].revision + 1 = r.expected + 1
      BY <2>12, <3>1 DEF RestoreCommits, CasAdvance, TypeOK, TripRow, Revisions
    <3>3. Row(r.snapshot, "REVERT", r.target) \in RevisionRow
      BY <3>1 DEF Row, RevisionRow, Sources, Tokens
    <3>4. Seen(c, r.trip, r.expected) \in Snapshots \cup {NoSnapshot}
      BY DEF Seen, TypeOK, View
    <3>5. trips' \in [TripIds -> TripRow \cup {NoRow}]
      BY <2>12, <3>1, <3>2 DEF RestoreCommits, CasAdvance, TypeOK, TripRow, Row
    <3>6. revisions' \in [TripIds -> [Revisions -> RevisionRow \cup {NoRow}]]
      BY <2>12, <3>1, <3>2, <3>3 DEF RestoreCommits, CasAdvance, TypeOK
    <3>7. basis' \in [TripIds -> [Revisions -> Snapshots \cup {NoSnapshot}]]
      BY <2>12, <3>1, <3>2, <3>4 DEF RestoreCommits, TypeOK
    <3>8. view' \in [Clients -> View \cup {NoRow}]
      BY <2>12, <3>1, <3>2 DEF RestoreCommits, Answered, Sees, View, TypeOK
    <3>9. QED
      BY <2>12, <3>5, <3>6, <3>7, <3>8 DEF RestoreCommits, TypeOK, Ends, Stage, Idle, Request
  <2>13. CASE RestoreCasMiss(c) \/ Abandon(c)
    BY <2>13 DEF RestoreCasMiss, Abandon, TypeOK, Ends, Stage, Idle, Request
  <2>14. CASE ImportReadTrip(c)
    BY <2>14 DEF ImportReadTrip, TypeOK, Ends, Stage, Idle, Request
  <2>15. CASE ImportCommits(c)
    <3>1. req[c].trip \in DOMAIN Legacy
      BY <2>15 DEF ImportCommits, TypeOK, Request
    <3>2. QED
      BY <2>15, <3>1 DEF ImportCommits, TypeOK, Ends, Stage, Idle, Request, InsertBoth,
        Row, RevisionRow, TripRow, Sources, Tokens
  <2>16. QED
    BY <1>2, <2>1, <2>2, <2>3, <2>4, <2>5, <2>6, <2>7, <2>refused, <2>8, <2>9, <2>10, <2>11, <2>12,
      <2>13, <2>14, <2>15 DEF ClientStep
<1>3. CASE UNCHANGED vars
  BY <1>3 DEF vars, TypeOK
<1>4. QED
  BY <1>1, <1>2, <1>3 DEF Next

(* Every state has well-typed tables, requests and views.                  *)
THEOREM TypeCorrect == Spec => []TypeOK
<1>1. Init => TypeOK
  <2>1. Idle \in Request
    BY DEF Idle, Request
  <2>2. QED
    BY <2>1, LegacyAssumption DEF Init, TypeOK, NoHistory
<1>2. QED
  BY <1>1, StepKeepsTypes, PTL DEF Spec

-----------------------------------------------------------------------------
(* The three ways a transaction changes the tables.                        *)

(* A first row makes a well-formed history of one entry.                   *)
LEMMA InsertKeepsHistory ==
  ASSUME TypeOK, TypeOK', CurrentIsBacked, HistoryIsWellFormed,
         NEW t \in TripIds, NEW b \in Revisions, NEW row \in RevisionRow,
         \/ row.source = "CREATED" /\ b = 0
         \/ row.source = "MIGRATION" /\ t \in DOMAIN Legacy /\ b = Legacy[t].revision,
         InsertBoth(t, b, row)
  PROVE  CurrentIsBacked' /\ HistoryIsWellFormed'
<1> USE SentinelAssumption DEF InsertBoth
<1>1. revisions[t] = NoHistory
  BY DEF CurrentIsBacked
<1>2. revisions'[t][b] = row /\ \A q \in Revisions \ {b} : revisions'[t][q] = NoRow
  BY <1>1 DEF TypeOK, NoHistory
<1>3. \A u \in TripIds \ {t} : revisions'[u] = revisions[u] /\ trips'[u] = trips[u]
  BY DEF TypeOK
<1>4. trips'[t] = [revision |-> b, snapshot |-> row.snapshot]
  BY DEF TypeOK
<1>5. trips'[t] \in TripRow /\ trips'[t] # NoRow /\ row # NoRow
  BY <1>4 DEF TripRow, RevisionRow
<1>6. CurrentIsBacked'
  <2> SUFFICES ASSUME NEW u \in TripIds
               PROVE  (IF trips[u] = NoRow
                       THEN revisions[u] = NoHistory
                       ELSE /\ revisions[u][trips[u].revision] # NoRow
                            /\ revisions[u][trips[u].revision].snapshot = trips[u].snapshot
                            /\ \A r \in Revisions :
                                 r > trips[u].revision => revisions[u][r] = NoRow)'
    BY DEF CurrentIsBacked
  <2>1. CASE u = t
    <3>1. \A r \in Revisions : r > b => revisions'[t][r] = NoRow
      BY <1>2, BoundAssumption DEF Revisions
    <3>2. QED
      BY <2>1, <3>1, <1>2, <1>4, <1>5
  <2>2. CASE u # t
    BY <2>2, <1>3 DEF CurrentIsBacked
  <2>3. QED
    BY <2>1, <2>2
<1>7. HistoryIsWellFormed'
  BY <1>2, <1>3 DEF HistoryIsWellFormed
<1>8. QED
  BY <1>6, <1>7

(* A compare-and-set extends a well-formed history at its head, when the   *)
(* new row is an edit of the same plan type or a copy of an earlier row.   *)
LEMMA AdvanceKeepsHistory ==
  ASSUME TypeOK, TypeOK', CurrentIsBacked, HistoryIsWellFormed,
         NEW t \in TripIds, NEW e \in Revisions, NEW row \in RevisionRow,
         CasAdvance(t, e, e + 1, row),
         row.source \notin {"CREATED", "MIGRATION"},
         PlanType[row.snapshot] = PlanType[trips[t].snapshot],
         row.source = "REVERT" =>
           /\ row.restored_from \in Revisions /\ row.restored_from < e + 1
           /\ revisions[t][row.restored_from] # NoRow
           /\ revisions[t][row.restored_from].snapshot = row.snapshot
  PROVE  CurrentIsBacked' /\ HistoryIsWellFormed'
<1> USE SentinelAssumption, BoundAssumption DEF CasAdvance
<1>1. e + 1 \in Revisions /\ e \in Nat
  BY DEF TypeOK, TripRow, Revisions
<1>2. revisions'[t][e + 1] = row
      /\ \A q \in Revisions \ {e + 1} : revisions'[t][q] = revisions[t][q]
  BY <1>1 DEF TypeOK
<1>3. \A u \in TripIds \ {t} : revisions'[u] = revisions[u] /\ trips'[u] = trips[u]
  BY DEF TypeOK
<1>4. trips'[t] = [revision |-> e + 1, snapshot |-> row.snapshot]
  BY DEF TypeOK
<1>5. trips'[t] \in TripRow /\ trips'[t] # NoRow /\ row # NoRow
  BY <1>1, <1>4 DEF TripRow, RevisionRow
<1>6. /\ revisions[t][e] # NoRow /\ revisions[t][e].snapshot = trips[t].snapshot
      /\ \A r \in Revisions : r > e => revisions[t][r] = NoRow
  BY DEF CurrentIsBacked
<1>7. CurrentIsBacked'
  <2> SUFFICES ASSUME NEW u \in TripIds
               PROVE  (IF trips[u] = NoRow
                       THEN revisions[u] = NoHistory
                       ELSE /\ revisions[u][trips[u].revision] # NoRow
                            /\ revisions[u][trips[u].revision].snapshot = trips[u].snapshot
                            /\ \A r \in Revisions :
                                 r > trips[u].revision => revisions[u][r] = NoRow)'
    BY DEF CurrentIsBacked
  <2>1. CASE u = t
    <3>1. \A r \in Revisions : r > e + 1 => revisions'[t][r] = NoRow
      BY <1>1, <1>2, <1>6 DEF Revisions
    <3>2. QED
      BY <2>1, <3>1, <1>2, <1>4, <1>5
  <2>2. CASE u # t
    BY <2>2, <1>3 DEF CurrentIsBacked
  <2>3. QED
    BY <2>1, <2>2
<1>8. HistoryIsWellFormed'
  <2> SUFFICES ASSUME NEW u \in TripIds, NEW r \in Revisions, revisions'[u][r] # NoRow
               PROVE  (/\ revisions[u][r].source = "CREATED" => r = 0
                       /\ revisions[u][r].source = "MIGRATION" =>
                            u \in DOMAIN Legacy /\ r = Legacy[u].revision
                       /\ revisions[u][r].source \notin {"CREATED", "MIGRATION"} =>
                            r > 0 /\ revisions[u][r - 1] # NoRow
                       /\ revisions[u][r].source = "REVERT" =>
                            /\ revisions[u][r].restored_from \in Revisions
                            /\ revisions[u][r].restored_from < r
                            /\ revisions[u][revisions[u][r].restored_from] # NoRow
                            /\ revisions[u][revisions[u][r].restored_from].snapshot
                                 = revisions[u][r].snapshot
                       /\ \A q \in Revisions :
                            revisions[u][q] # NoRow =>
                              PlanType[revisions[u][q].snapshot]
                                = PlanType[revisions[u][r].snapshot])'
    BY DEF HistoryIsWellFormed
  <2>1. CASE u # t
    BY <2>1, <1>3 DEF HistoryIsWellFormed
  <2>2. CASE u = t /\ r = e + 1
    <3>1. \A q \in Revisions :
            revisions[t][q] # NoRow =>
              PlanType[revisions[t][q].snapshot] = PlanType[row.snapshot]
      BY <1>6 DEF HistoryIsWellFormed
    <3>2. r - 1 = e /\ r > 0 /\ revisions'[t][e] = revisions[t][e]
      BY <2>2, <1>1, <1>2 DEF Revisions
    <3>3. QED
      BY <2>2, <3>1, <3>2, <1>1, <1>2, <1>6 DEF Revisions
  <2>3. CASE u = t /\ r # e + 1
    <3>1. revisions'[t][r] = revisions[t][r] /\ r <= e
      BY <2>3, <1>1, <1>2, <1>6 DEF Revisions
    <3>2. \A q \in Revisions : q < r => revisions'[t][q] = revisions[t][q]
      BY <3>1, <1>1, <1>2 DEF Revisions
    <3>3. r > 0 => r - 1 \in Revisions /\ r - 1 < r
      BY DEF Revisions
    <3>4. \A q \in Revisions :
            revisions'[t][q] # NoRow =>
              PlanType[revisions'[t][q].snapshot] = PlanType[revisions[t][r].snapshot]
      BY <2>3, <3>1, <1>2, <1>6 DEF HistoryIsWellFormed
    <3>5. QED
      BY <2>3, <3>1, <3>2, <3>3, <3>4 DEF HistoryIsWellFormed
  <2>4. QED
    BY <2>1, <2>2, <2>3
<1>9. QED
  BY <1>7, <1>8

-----------------------------------------------------------------------------
(* A gentle step leaves what others have read, or were shown, true.        *)
LEMMA GentleKeepsReads ==
  ASSUME TypeOK, TypeOK', serving' = serving, minted \subseteq minted',
         \A t \in TripIds : t \in minted /\ serving => Gentle(t)
  PROVE  /\ \A q \in Request : Sound(q) => Sound(q)'
         /\ \A v \in View : True(v) /\ serving => True(v)'
<1>1. ASSUME NEW q \in Request, Sound(q) PROVE Sound(q)'
  <2>1. CASE q.op = "restore_tx"
    <3>1. q.trip \in TripIds /\ q.target \in Revisions
      BY <2>1 DEF Request
    <3>2. Gentle(q.trip)
      BY <1>1, <2>1, <3>1 DEF Sound
    <3>3. QED
      BY <1>1, <2>1, <3>1, <3>2 DEF Sound, Gentle
  <2>2. CASE q.op = "list"
    <3>1. q.trip \in TripIds /\ q.current \in Revisions
      BY <2>2 DEF Request
    <3>2. Gentle(q.trip)
      BY <1>1, <2>2, <3>1 DEF Sound
    <3>3. trips'[q.trip] # NoRow => revisions'[q.trip][q.current] # NoRow
      BY <1>1, <2>2, <3>1, <3>2 DEF Sound, Gentle
    <3>4. QED
      BY <1>1, <2>2, <3>3 DEF Sound
  <2>3. CASE q.op \notin {"restore_tx", "list"}
    BY <1>1, <2>3 DEF Sound
  <2>4. QED
    BY <2>1, <2>2, <2>3
<1>2. ASSUME NEW v \in View, True(v), serving PROVE True(v)'
  <2>1. v.trip \in TripIds /\ v.revision \in Revisions /\ v.trip \in minted
    BY <1>2 DEF View, True
  <2>2. Gentle(v.trip)
    BY <1>2, <2>1
  <2>3. CASE trips'[v.trip] = NoRow
    BY <2>1, <2>3 DEF True
  <2>4. CASE trips'[v.trip] # NoRow
    <3>1. /\ trips[v.trip] # NoRow
          /\ trips[v.trip].revision <= trips'[v.trip].revision
          /\ \A r \in Revisions : revisions[v.trip][r] # NoRow
                                    => revisions'[v.trip][r] = revisions[v.trip][r]
      BY <2>2, <2>4 DEF Gentle
    <3>2. v.revision <= trips[v.trip].revision
          /\ revisions[v.trip][v.revision] # NoRow
          /\ revisions[v.trip][v.revision].snapshot = v.snapshot
      BY <1>2, <3>1 DEF True
    <3>3. v.revision <= trips'[v.trip].revision
      <4>1. trips[v.trip] \in TripRow
        BY <2>1, <3>1 DEF TypeOK
      <4>2. trips[v.trip].revision \in Nat /\ v.revision \in Nat
        BY <2>1, <4>1, BoundAssumption DEF TripRow, Revisions
      <4>3. trips'[v.trip].revision \in Nat
        BY <2>1, <2>4, BoundAssumption DEF TypeOK, TripRow, Revisions
      <4>4. QED
        BY <3>1, <3>2, <4>2, <4>3
    <3>4. QED
      BY <2>1, <3>1, <3>2, <3>3 DEF True
  <2>5. QED
    BY <2>3, <2>4
<1>3. QED
  BY <1>1, <1>2

(* A step of client c keeps the invariant if the tables stay well formed,  *)
(* it is gentle to every minted trip while writes are open, and c's own    *)
(* request and view are right in the new state.                            *)
LEMMA StepOfClient ==
  ASSUME IInv, TypeOK', NEW c \in Clients,
         CurrentIsBacked', HistoryIsWellFormed', NoLostUpdate',
         serving' = serving, minted \subseteq minted',
         \A t \in TripIds : t \in minted /\ serving => Gentle(t),
         \A t \in TripIds : trips'[t] # NoRow => t \in minted',
         \A d \in Clients \ {c} : req'[d] = req[d] /\ view'[d] = view[d],
         Sound(req[c])',
         view'[c] = view[c] \/ (serving /\ True(view[c])')
  PROVE  IInv'
<1>1. InFlight'
  <2> SUFFICES ASSUME NEW d \in Clients PROVE Sound(req[d])'
    BY DEF InFlight
  <2>1. CASE d = c
    BY <2>1
  <2>2. CASE d # c
    <3>1. PICK q \in Request : q = req[d]
      BY DEF IInv, TypeOK
    <3>2. Sound(q)
      BY <3>1 DEF IInv, InFlight
    <3>3. Sound(q)'
      BY <3>2, GentleKeepsReads DEF IInv
    <3>4. req'[d] = q
      BY <2>2, <3>1
    <3>5. QED
      BY <3>3, <3>4 DEF Sound
  <2>3. QED
    BY <2>1, <2>2
<1>2. SeenStaysTrue'
  <2> SUFFICES ASSUME NEW d \in Clients, view'[d] # NoRow PROVE True(view[d])'
    BY DEF SeenStaysTrue, True
  <2>1. CASE view'[d] = view[d]
    <3>1. PICK v \in View : v = view[d]
      BY <2>1 DEF IInv, TypeOK
    <3>2. serving /\ True(v)
      BY <2>1, <3>1 DEF IInv, Freeze, SeenStaysTrue, True
    <3>3. True(v)'
      BY <3>2, GentleKeepsReads DEF IInv
    <3>4. QED
      BY <2>1, <3>1, <3>3 DEF True
  <2>2. CASE view'[d] # view[d]
    BY <2>2
  <2>3. QED
    BY <2>1, <2>2
<1>3. Freeze'
  BY DEF Freeze, IInv
<1>4. QED
  BY <1>1, <1>2, <1>3 DEF IInv

(* The same for a step that writes no table.                               *)
LEMMA StepOfReader ==
  ASSUME IInv, TypeOK', NEW c \in Clients,
         UNCHANGED <<serving, trips, revisions, minted, basis>>,
         \A d \in Clients \ {c} : req'[d] = req[d] /\ view'[d] = view[d],
         Sound(req[c])',
         view'[c] = view[c] \/ (serving /\ True(view[c])')
  PROVE  IInv'
<1>1. CurrentIsBacked' /\ HistoryIsWellFormed' /\ NoLostUpdate'
  BY DEF IInv, CurrentIsBacked, HistoryIsWellFormed, NoLostUpdate
<1>2. ASSUME NEW t \in TripIds PROVE Gentle(t)
  <2>1. trips[t] # NoRow => trips[t].revision \in Nat
    BY BoundAssumption DEF IInv, TypeOK, TripRow, Revisions
  <2>2. QED
    BY <2>1 DEF Gentle
<1>3. \A t \in TripIds : trips'[t] # NoRow => t \in minted'
  BY DEF IInv, Freeze
<1>4. QED
  BY <1>1, <1>2, <1>3, StepOfClient

(* An idle client has nothing in flight.                                   *)
LEMMA IdleIsSound ==
  ASSUME TypeOK, NEW c \in Clients, Ends(c)
  PROVE  Sound(req[c])'
BY DEF TypeOK, Ends, Stage, Idle, Sound

(* The current row is a true view, and so is any row of the history.       *)
LEMMA RowsAreTrue ==
  ASSUME IInv, NEW t \in TripIds, NEW r \in Revisions, revisions[t][r] # NoRow
  PROVE  /\ t \in minted /\ trips[t] # NoRow /\ r <= trips[t].revision
         /\ trips[t].revision \in Revisions /\ trips[t].snapshot \in Snapshots
<1>1. trips[t] # NoRow
  BY DEF IInv, CurrentIsBacked, NoHistory
<1>2. trips[t].revision \in Revisions /\ trips[t].snapshot \in Snapshots
  BY <1>1 DEF IInv, TypeOK, TripRow
<1>3. ~(r > trips[t].revision)
  BY <1>1 DEF IInv, CurrentIsBacked
<1>4. r <= trips[t].revision
  BY <1>2, <1>3, BoundAssumption DEF Revisions
<1>5. QED
  BY <1>1, <1>2, <1>4 DEF IInv, Freeze

(* A compare-and-set by client c at the revision it asked for.             *)
LEMMA AdvanceKeepsInv ==
  ASSUME IInv, TypeOK', NEW c \in Clients, serving,
         NEW t \in TripIds, NEW e \in Revisions, NEW row \in RevisionRow,
         CasAdvance(t, e, e + 1, row),
         row.source \notin {"CREATED", "MIGRATION"},
         PlanType[row.snapshot] = PlanType[trips[t].snapshot],
         row.source = "REVERT" =>
           /\ row.restored_from \in Revisions /\ row.restored_from < e + 1
           /\ revisions[t][row.restored_from] # NoRow
           /\ revisions[t][row.restored_from].snapshot = row.snapshot,
         basis' = [basis EXCEPT ![t][e + 1] = Seen(c, t, e)],
         Ends(c), Answered(c, t, e + 1, row.snapshot),
         UNCHANGED <<serving, minted>>
  PROVE  IInv'
<1> USE SentinelAssumption, BoundAssumption
<1>1. CurrentIsBacked' /\ HistoryIsWellFormed'
  BY AdvanceKeepsHistory DEF IInv
<1>2. /\ trips[t] # NoRow /\ trips[t].revision = e /\ revisions[t][e + 1] = NoRow
      /\ e \in Nat /\ e + 1 \in Revisions /\ t \in minted
  BY DEF IInv, TypeOK, TripRow, Revisions, CasAdvance, Freeze
<1>3. trips'[t] = [revision |-> e + 1, snapshot |-> row.snapshot]
  BY DEF IInv, TypeOK, CasAdvance
<1>4. trips'[t] # NoRow /\ row # NoRow
  BY <1>2, <1>3 DEF TripRow, RevisionRow
<1>5. revisions'[t][e + 1] = row
      /\ \A q \in Revisions \ {e + 1} : revisions'[t][q] = revisions[t][q]
  BY <1>2 DEF IInv, TypeOK, CasAdvance
<1>6. \A u \in TripIds \ {t} :
        revisions'[u] = revisions[u] /\ trips'[u] = trips[u] /\ basis'[u] = basis[u]
  BY DEF IInv, TypeOK, CasAdvance
<1>7. ASSUME NEW u \in TripIds PROVE Gentle(u)
  <2>1. CASE u = t
    BY <2>1, <1>2, <1>3, <1>4, <1>5 DEF Gentle
  <2>2. CASE u # t
    <3>1. trips[u] # NoRow => trips[u].revision \in Nat
      BY DEF IInv, TypeOK, TripRow, Revisions
    <3>2. QED
      BY <2>2, <3>1, <1>6 DEF Gentle
  <2>3. QED
    BY <2>1, <2>2
<1>8. NoLostUpdate'
  <2> SUFFICES ASSUME NEW u \in TripIds, NEW r \in Revisions,
                      r > 0, basis'[u][r] # NoSnapshot
               PROVE  revisions'[u][r - 1] # NoRow
                      /\ revisions'[u][r - 1].snapshot = basis'[u][r]
    BY DEF NoLostUpdate
  <2>1. CASE u # t
    BY <2>1, <1>6 DEF IInv, NoLostUpdate
  <2>2. CASE u = t /\ r # e + 1
    <3>1. basis'[t][r] = basis[t][r]
      BY <2>2 DEF IInv, TypeOK
    <3>2. r - 1 \in Revisions /\ revisions[t][r - 1] # NoRow
          /\ revisions[t][r - 1].snapshot = basis[t][r]
      BY <2>2, <3>1 DEF IInv, NoLostUpdate, Revisions
    <3>3. revisions'[t][r - 1] = revisions[t][r - 1]
      BY <3>2, <1>2, <1>5
    <3>4. QED
      BY <2>2, <3>1, <3>2, <3>3
  <2>3. CASE u = t /\ r = e + 1
    <3>1. basis'[t][e + 1] = Seen(c, t, e)
      BY <1>2 DEF IInv, TypeOK
    <3>2. view[c] # NoRow /\ view[c].trip = t /\ view[c].revision = e
          /\ view[c].snapshot = basis'[t][e + 1]
      BY <2>3, <3>1 DEF Seen
    <3>3. revisions[t][e] # NoRow /\ revisions[t][e].snapshot = view[c].snapshot
      BY <3>2, <1>2 DEF IInv, SeenStaysTrue
    <3>4. revisions'[t][e] = revisions[t][e] /\ r - 1 = e
      BY <2>3, <1>2, <1>5
    <3>5. QED
      BY <2>3, <3>2, <3>3, <3>4
  <2>4. QED
    BY <2>1, <2>2, <2>3
<1>9. view'[c] = view[c] \/ (serving /\ True(view[c])')
  <2>1. CASE UNCHANGED view
    BY <2>1
  <2>2. CASE Sees(c, t, e + 1, row.snapshot)
    <3>1. view'[c] = [trip |-> t, revision |-> e + 1, snapshot |-> row.snapshot]
      BY <2>2 DEF Sees, IInv, TypeOK
    <3>2. QED
      BY <3>1, <1>2, <1>3, <1>4, <1>5 DEF True
  <2>3. QED
    BY <2>1, <2>2 DEF Answered
<1>10. \A d \in Clients \ {c} : req'[d] = req[d] /\ view'[d] = view[d]
  BY DEF Ends, Stage, Answered, Sees, IInv, TypeOK
<1>11. \A u \in TripIds : trips'[u] # NoRow => u \in minted'
  BY <1>2, <1>6 DEF IInv, Freeze
<1>12. Sound(req[c])'
  BY IdleIsSound DEF IInv
<1>13. QED
  BY <1>1, <1>7, <1>8, <1>9, <1>10, <1>11, <1>12, StepOfClient
-----------------------------------------------------------------------------
(* A step of client c that writes no table: it ends its request, stages    *)
(* one that is sound, or is shown a row of the history.                    *)
LEMMA QuietStep ==
  ASSUME IInv, TypeOK', NEW c \in Clients, NEW q \in Request, Stage(c, q), Sound(q),
         UNCHANGED <<serving, trips, revisions, minted, view, basis>>
  PROVE  IInv'
<1>1. \A d \in Clients \ {c} : req'[d] = req[d] /\ view'[d] = view[d]
  BY DEF Stage, IInv, TypeOK
<1>2. req'[c] = q
  BY DEF Stage, IInv, TypeOK
<1>3. Sound(req[c])'
  BY <1>2 DEF Sound
<1>4. QED
  BY <1>1, <1>3, StepOfReader

(* Ending a request without an answer is such a step.                      *)
LEMMA QuietEnd ==
  ASSUME IInv, TypeOK', NEW c \in Clients, Ends(c),
         UNCHANGED <<serving, trips, revisions, minted, view, basis>>
  PROVE  IInv'
<1>1. Idle \in Request /\ Sound(Idle)
  BY DEF Idle, Request, Sound
<1>2. QED
  BY <1>1, QuietStep DEF Ends

(* Being shown a row of the history, or perhaps not, keeps the invariant.  *)
LEMMA ShownRow ==
  ASSUME IInv, TypeOK', NEW c \in Clients, serving, Ends(c),
         NEW t \in TripIds, NEW r \in Revisions, revisions[t][r] # NoRow,
         Answered(c, t, r, revisions[t][r].snapshot),
         UNCHANGED <<serving, trips, revisions, minted, basis>>
  PROVE  IInv'
<1>1. \A d \in Clients \ {c} : req'[d] = req[d] /\ view'[d] = view[d]
  BY DEF Ends, Stage, Answered, Sees, IInv, TypeOK
<1>2. view'[c] = view[c] \/ (serving /\ True(view[c])')
  <2>1. CASE UNCHANGED view
    BY <2>1
  <2>2. CASE Sees(c, t, r, revisions[t][r].snapshot)
    <3>1. view'[c] = [trip |-> t, revision |-> r, snapshot |-> revisions[t][r].snapshot]
      BY <2>2 DEF Sees, IInv, TypeOK
    <3>2. t \in minted /\ r <= trips[t].revision
      BY RowsAreTrue
    <3>3. QED
      BY <3>1, <3>2 DEF True
  <2>3. QED
    BY <2>1, <2>2 DEF Answered
<1>3. Sound(req[c])'
  BY IdleIsSound DEF IInv
<1>4. QED
  BY <1>1, <1>2, <1>3, StepOfReader

(* The current row is backed by a row of the history.                      *)
LEMMA HeadIsARow ==
  ASSUME IInv, NEW t \in TripIds, trips[t] # NoRow
  PROVE  /\ trips[t].revision \in Revisions
         /\ revisions[t][trips[t].revision] # NoRow
         /\ revisions[t][trips[t].revision].snapshot = trips[t].snapshot
BY DEF IInv, TypeOK, TripRow, CurrentIsBacked

(* The first row of a trip, written by client c.                           *)
LEMMA InsertKeepsInv ==
  ASSUME IInv, TypeOK', NEW c \in Clients,
         NEW t \in TripIds, NEW b \in Revisions, NEW row \in RevisionRow,
         InsertBoth(t, b, row),
         \/ row.source = "CREATED" /\ b = 0
         \/ row.source = "MIGRATION" /\ t \in DOMAIN Legacy /\ b = Legacy[t].revision,
         ~serving \/ t \notin minted,
         minted' = minted \cup {t},
         UNCHANGED <<serving, basis>>, Ends(c),
         UNCHANGED view \/ (serving /\ Sees(c, t, b, row.snapshot))
  PROVE  IInv'
<1> USE SentinelAssumption, BoundAssumption
<1>1. CurrentIsBacked' /\ HistoryIsWellFormed'
  BY InsertKeepsHistory DEF IInv
<1>2. trips[t] = NoRow /\ revisions[t] = NoHistory
  BY DEF InsertBoth, IInv, CurrentIsBacked
<1>3. trips'[t] = [revision |-> b, snapshot |-> row.snapshot] /\ revisions'[t][b] = row
  BY DEF InsertBoth, IInv, TypeOK
<1>4. \A u \in TripIds \ {t} : revisions'[u] = revisions[u] /\ trips'[u] = trips[u]
  BY DEF InsertBoth, IInv, TypeOK
<1>5. ASSUME NEW u \in TripIds, u \in minted, serving PROVE Gentle(u)
  <2>1. u # t
    BY <1>5
  <2>2. trips[u] # NoRow => trips[u].revision \in Nat
    BY DEF IInv, TypeOK, TripRow, Revisions
  <2>3. QED
    BY <2>1, <2>2, <1>4 DEF Gentle
<1>6. NoLostUpdate'
  <2> SUFFICES ASSUME NEW u \in TripIds, NEW r \in Revisions,
                      r > 0, basis'[u][r] # NoSnapshot
               PROVE  revisions'[u][r - 1] # NoRow
                      /\ revisions'[u][r - 1].snapshot = basis'[u][r]
    BY DEF NoLostUpdate
  <2>1. /\ r - 1 \in Revisions /\ revisions[u][r - 1] # NoRow
        /\ revisions[u][r - 1].snapshot = basis[u][r]
    BY DEF IInv, NoLostUpdate, Revisions
  <2>2. u # t
    BY <2>1, <1>2 DEF NoHistory
  <2>3. QED
    BY <2>1, <2>2, <1>4
<1>7. view'[c] = view[c] \/ (serving /\ True(view[c])')
  <2>1. CASE UNCHANGED view
    BY <2>1
  <2>2. CASE serving /\ Sees(c, t, b, row.snapshot)
    <3>1. view'[c] = [trip |-> t, revision |-> b, snapshot |-> row.snapshot]
      BY <2>2 DEF Sees, IInv, TypeOK
    <3>2. b <= b /\ row # NoRow
      BY DEF Revisions
    <3>3. QED
      BY <2>2, <3>1, <3>2, <1>3 DEF True
  <2>3. QED
    BY <2>1, <2>2
<1>8. \A d \in Clients \ {c} : req'[d] = req[d] /\ view'[d] = view[d]
  BY DEF Ends, Stage, Sees, IInv, TypeOK
<1>9. \A u \in TripIds : trips'[u] # NoRow => u \in minted'
  BY <1>4 DEF IInv, Freeze
<1>10. Sound(req[c])'
  BY IdleIsSound DEF IInv
<1>11. QED
  BY <1>1, <1>5, <1>6, <1>7, <1>8, <1>9, <1>10, StepOfClient
-----------------------------------------------------------------------------
(* Empty tables, no requests, and writes not opened yet.                   *)
LEMMA InitEstablishesInv == Init => IInv
<1> SUFFICES ASSUME Init PROVE IInv
  OBVIOUS
<1>1. TypeOK
  <2>1. Idle \in Request
    BY DEF Idle, Request
  <2>2. QED
    BY <2>1, LegacyAssumption DEF Init, TypeOK, NoHistory
<1>2. CurrentIsBacked /\ HistoryIsWellFormed /\ SeenStaysTrue
  BY DEF Init, CurrentIsBacked, HistoryIsWellFormed, SeenStaysTrue, NoHistory
<1>3. NoLostUpdate /\ InFlight /\ Freeze
  BY DEF Init, NoLostUpdate, InFlight, Freeze, Sound, Idle
<1>4. QED
  BY <1>1, <1>2, <1>3 DEF IInv

(* A restore commits: its two earlier reads are still good, because its    *)
(* compare-and-set found the revision it had read the target under.        *)
LEMMA RestoreKeepsInv ==
  ASSUME IInv, TypeOK', NEW c \in Clients, RestoreCommits(c)
  PROVE  IInv'
<1> USE BoundAssumption
<1>1. PICK q \in Request : q = req[c]
  BY DEF IInv, TypeOK
<1>2. /\ q.op = "restore_tx" /\ q.trip \in TripIds /\ q.target \in Revisions
      /\ q.expected \in Revisions /\ q.snapshot \in Snapshots
  BY <1>1 DEF RestoreCommits, Request
<1> DEFINE row == Row(q.snapshot, "REVERT", q.target)
<1>3. row \in RevisionRow /\ row.snapshot = q.snapshot /\ row.source = "REVERT"
      /\ row.restored_from = q.target
  BY <1>2 DEF Row, RevisionRow, Sources, Tokens
<1>4. CasAdvance(q.trip, q.expected, q.expected + 1, row)
  BY <1>1 DEF RestoreCommits
<1>5. trips[q.trip] # NoRow /\ trips[q.trip].revision = q.expected
  BY <1>4 DEF CasAdvance
<1>6. Sound(q)
  BY <1>1 DEF IInv, InFlight
<1>7. /\ q.target # q.expected /\ revisions[q.trip][q.target] # NoRow
      /\ revisions[q.trip][q.target].snapshot = q.snapshot /\ serving
  BY <1>2, <1>5, <1>6 DEF Sound
<1>8. q.target < q.expected + 1
  <2>1. q.target <= q.expected
    BY <1>2, <1>5, <1>7, RowsAreTrue
  <2>2. QED
    BY <2>1, <1>2 DEF Revisions
<1>9. PlanType[row.snapshot] = PlanType[trips[q.trip].snapshot]
  <2>1. /\ revisions[q.trip][q.expected] # NoRow
        /\ revisions[q.trip][q.expected].snapshot = trips[q.trip].snapshot
    BY <1>2, <1>5, HeadIsARow
  <2>2. PlanType[revisions[q.trip][q.target].snapshot]
          = PlanType[revisions[q.trip][q.expected].snapshot]
    BY <1>2, <1>7, <2>1 DEF IInv, HistoryIsWellFormed
  <2>3. QED
    BY <1>3, <1>7, <2>1, <2>2
<1>10. /\ basis' = [basis EXCEPT ![q.trip][q.expected + 1] = Seen(c, q.trip, q.expected)]
       /\ Ends(c) /\ Answered(c, q.trip, q.expected + 1, row.snapshot)
       /\ UNCHANGED <<serving, minted>>
  BY <1>1, <1>3 DEF RestoreCommits
<1>11. /\ row.source \notin {"CREATED", "MIGRATION"}
       /\ row.restored_from \in Revisions /\ row.restored_from < q.expected + 1
       /\ revisions[q.trip][row.restored_from] # NoRow
       /\ revisions[q.trip][row.restored_from].snapshot = row.snapshot
  BY <1>2, <1>3, <1>7, <1>8
<1> HIDE DEF row
<1>12. QED
  BY <1>2, <1>3, <1>4, <1>7, <1>9, <1>10, <1>11, AdvanceKeepsInv

(* An update in one transaction.                                           *)
LEMMA UpdateKeepsInv ==
  ASSUME IInv, TypeOK', NEW c \in Clients, NEW t \in TripIds, NEW s \in Snapshots,
         NEW e \in Tokens, NEW source \in UpdateSources, UpdateWrites(c, t, s, e, source)
  PROVE  IInv'
<1> DEFINE row == Row(s, source, NoRevision)
<1>1. row \in RevisionRow /\ row.snapshot = s /\ row.source = source
  BY DEF Row, RevisionRow, Sources, Tokens
<1>2. row.source \notin {"CREATED", "MIGRATION", "REVERT"}
  BY <1>1, SourceAssumption
<1>3. /\ trips[t] # NoRow /\ e = trips[t].revision
      /\ PlanType[row.snapshot] = PlanType[trips[t].snapshot]
      /\ CasAdvance(t, e, e + 1, row)
  BY <1>1 DEF UpdateWrites, TokenAccepted
<1>4. e \in Revisions
  BY <1>3, HeadIsARow
<1>5. /\ basis' = [basis EXCEPT ![t][e + 1] = Seen(c, t, e)]
      /\ Ends(c) /\ Answered(c, t, e + 1, row.snapshot)
      /\ UNCHANGED <<serving, minted>> /\ serving
  BY <1>1, <1>3 DEF UpdateWrites
<1> HIDE DEF row
<1>6. QED
  BY <1>1, <1>2, <1>3, <1>4, <1>5, AdvanceKeepsInv

(* A delete takes the whole history with it.                               *)
LEMMA DeleteKeepsInv ==
  ASSUME IInv, TypeOK', NEW c \in Clients, NEW t \in TripIds, Delete(c, t)
  PROVE  IInv'
<1>1. /\ trips'[t] = NoRow /\ revisions'[t] = NoHistory
      /\ basis'[t] = [r \in Revisions |-> NoSnapshot]
  BY DEF Delete, IInv, TypeOK
<1>2. \A u \in TripIds \ {t} :
        revisions'[u] = revisions[u] /\ trips'[u] = trips[u] /\ basis'[u] = basis[u]
  BY DEF Delete, IInv, TypeOK
<1>3. CurrentIsBacked'
  <2> SUFFICES ASSUME NEW u \in TripIds
               PROVE  (IF trips[u] = NoRow
                       THEN revisions[u] = NoHistory
                       ELSE /\ revisions[u][trips[u].revision] # NoRow
                            /\ revisions[u][trips[u].revision].snapshot = trips[u].snapshot
                            /\ \A r \in Revisions :
                                 r > trips[u].revision => revisions[u][r] = NoRow)'
    BY DEF CurrentIsBacked
  <2>1. CASE u = t
    BY <2>1, <1>1 DEF NoHistory
  <2>2. CASE u # t
    BY <2>2, <1>2 DEF IInv, CurrentIsBacked
  <2>3. QED
    BY <2>1, <2>2
<1>4. HistoryIsWellFormed'
  BY <1>1, <1>2 DEF IInv, HistoryIsWellFormed, NoHistory
<1>5. NoLostUpdate'
  BY <1>1, <1>2 DEF IInv, NoLostUpdate
<1>6. ASSUME NEW u \in TripIds PROVE Gentle(u)
  <2>1. trips[u] # NoRow => trips[u].revision \in Nat
    BY BoundAssumption DEF IInv, TypeOK, TripRow, Revisions
  <2>2. QED
    BY <2>1, <1>1, <1>2 DEF Gentle
<1>7. \A d \in Clients \ {c} : req'[d] = req[d] /\ view'[d] = view[d]
  BY DEF Delete, Ends, Stage, IInv, TypeOK
<1>8. \A u \in TripIds : trips'[u] # NoRow => u \in minted'
  BY <1>1, <1>2 DEF Delete, IInv, Freeze
<1>9. Sound(req[c])' /\ UNCHANGED <<serving, minted, view>>
  BY IdleIsSound DEF Delete, IInv
<1>10. QED
  BY <1>3, <1>4, <1>5, <1>6, <1>7, <1>8, <1>9, StepOfClient
(* Every step of every client keeps the invariant.                         *)
LEMMA StepKeepsInv == IInv /\ [Next]_vars => IInv'
<1> SUFFICES ASSUME IInv, [Next]_vars PROVE IInv'
  OBVIOUS
<1>1. TypeOK'
  BY StepKeepsTypes DEF IInv
<1>2. CASE OpenWrites
  <2>1. InFlight'
    <3> SUFFICES ASSUME NEW c \in Clients PROVE Sound(req[c])'
      BY DEF InFlight
    <3>1. req[c].op \in {"idle", "listed"}
      BY <1>2 DEF OpenWrites, Free
    <3>2. UNCHANGED req /\ serving' /\ Sound(req[c])
      BY <1>2 DEF OpenWrites, IInv, InFlight
    <3>3. QED
      BY <3>1, <3>2 DEF Sound
  <2>2. QED
    BY <1>1, <1>2, <2>1 DEF OpenWrites, IInv, CurrentIsBacked, HistoryIsWellFormed,
      SeenStaysTrue, NoLostUpdate, Freeze
<1>3. ASSUME NEW c \in Clients, ClientStep(c) PROVE IInv'
  <2>1. ASSUME NEW t \in TripIds, Get(c, t) PROVE IInv'
    <3>1. CASE trips[t] = NoRow
      BY <1>1, <2>1, <3>1, QuietEnd DEF Get
    <3>2. CASE trips[t] # NoRow
      <4> DEFINE r == trips[t].revision
      <4>1. r \in Revisions /\ revisions[t][r] # NoRow /\ revisions[t][r].snapshot = trips[t].snapshot
        BY <3>2, HeadIsARow
      <4>2. serving /\ Ends(c) /\ Answered(c, t, r, revisions[t][r].snapshot)
            /\ UNCHANGED <<serving, trips, revisions, minted, basis>>
        BY <2>1, <3>2, <4>1 DEF Get, Answered
      <4> HIDE DEF r
      <4>3. QED
        BY <1>1, <4>1, <4>2, ShownRow
    <3>3. QED
      BY <3>1, <3>2
  <2>2. ASSUME NEW t \in TripIds, Delete(c, t) PROVE IInv'
    BY <1>1, <2>2, DeleteKeepsInv
  <2>3. ASSUME NEW t \in TripIds, ListReadCurrent(c, t) PROVE IInv'
    <3>1. CASE trips[t] = NoRow
      BY <1>1, <2>3, <3>1, QuietEnd DEF ListReadCurrent
    <3>2. CASE trips[t] # NoRow
      <4>1. PICK q \in Request :
              q = [op |-> "list", trip |-> t, current |-> trips[t].revision]
        BY <3>2, HeadIsARow DEF Request
      <4>2. t \in minted /\ revisions[t][trips[t].revision] # NoRow
        BY <3>2, HeadIsARow DEF IInv, Freeze
      <4>3. Sound(q) /\ Stage(c, q)
        BY <2>3, <3>2, <4>1, <4>2 DEF Sound, ListReadCurrent
      <4>4. QED
        BY <1>1, <2>3, <4>3, QuietStep DEF ListReadCurrent
    <3>3. QED
      BY <3>1, <3>2
  <2>4. ASSUME NEW t \in TripIds, ImportReadBaseline(c, t) PROVE IInv'
    <3>1. CASE HasBaseline(t)
      BY <1>1, <2>4, <3>1, QuietEnd DEF ImportReadBaseline
    <3>2. CASE ~HasBaseline(t)
      <4>1. PICK q \in Request : q = [op |-> "import", trip |-> t]
        BY <2>4 DEF Request, ImportReadBaseline
      <4>2. Sound(q) /\ Stage(c, q)
        BY <2>4, <3>2, <4>1 DEF Sound, ImportReadBaseline
      <4>3. QED
        BY <1>1, <2>4, <4>2, QuietStep DEF ImportReadBaseline
    <3>3. QED
      BY <3>1, <3>2
  <2>5. ASSUME NEW t \in TripIds, NEW s \in Snapshots, Save(c, t, s) PROVE IInv'
    <3> DEFINE row == Row(s, "CREATED", NoRevision)
    <3>1. 0 \in Revisions /\ row \in RevisionRow /\ row.source = "CREATED" /\ row.snapshot = s
      BY BoundAssumption DEF Revisions, Row, RevisionRow, Sources, Tokens
    <3>2. /\ InsertBoth(t, 0, row) /\ t \notin minted /\ minted' = minted \cup {t}
          /\ UNCHANGED <<serving, basis>> /\ Ends(c)
          /\ UNCHANGED view \/ (serving /\ Sees(c, t, 0, row.snapshot))
      BY <2>5, <3>1 DEF Save, Answered
    <3> HIDE DEF row
    <3>3. QED
      BY <1>1, <3>1, <3>2, InsertKeepsInv
  <2>6. ASSUME NEW t \in TripIds, NEW k \in Revisions, GetRevision(c, t, k) PROVE IInv'
    <3>1. CASE revisions[t][k] = NoRow
      BY <1>1, <2>6, <3>1, QuietEnd DEF GetRevision
    <3>2. CASE revisions[t][k] # NoRow
      BY <1>1, <2>6, <3>2, ShownRow DEF GetRevision, Answered
    <3>3. QED
      BY <3>1, <3>2
  <2>7. ASSUME NEW t \in TripIds, NEW k \in Revisions, NEW e \in Revisions,
               RestoreReadTrip(c, t, k, e)
        PROVE  IInv'
    <3>1. PICK q \in Request :
            q = [op |-> "restore", trip |-> t, target |-> k, expected |-> e]
      BY DEF Request
    <3>2. k # e
      BY <2>7 DEF RestoreReadTrip, RestoreRefuses
    <3>3. Sound(q) /\ Stage(c, q)
      BY <2>7, <3>1, <3>2 DEF Sound, RestoreReadTrip
    <3>4. QED
      BY <1>1, <2>7, <3>3, QuietStep DEF RestoreReadTrip
  <2>8. ASSUME NEW t \in TripIds, UpdateRefused(c, t) \/ RestoreRefused(c, t)
        PROVE  IInv'
    BY <1>1, <2>8, QuietEnd DEF UpdateRefused, RestoreRefused
  <2>9. ASSUME NEW t \in TripIds, NEW s \in Snapshots, NEW e \in Tokens,
               UpdateNoOp(c, t, s, e)
        PROVE  IInv'
    <3> DEFINE r == trips[t].revision
    <3>1. r \in Revisions /\ revisions[t][r] # NoRow /\ revisions[t][r].snapshot = s
      BY <2>9, HeadIsARow DEF UpdateNoOp, TokenAccepted
    <3>2. serving /\ Ends(c) /\ Answered(c, t, r, revisions[t][r].snapshot)
          /\ UNCHANGED <<serving, trips, revisions, minted, basis>>
      BY <2>9, <3>1 DEF UpdateNoOp
    <3> HIDE DEF r
    <3>3. QED
      BY <1>1, <3>1, <3>2, ShownRow
  <2>10. ASSUME NEW t \in TripIds, NEW s \in Snapshots, NEW e \in Tokens,
                NEW source \in UpdateSources, UpdateWrites(c, t, s, e, source)
         PROVE  IInv'
    BY <1>1, <2>10, UpdateKeepsInv
  <2>11. CASE ListReadRows(c)
    <3>1. PICK p \in Request : p = req[c]
      BY DEF IInv, TypeOK
    <3>2. serving /\ p.op = "list"
      BY <2>11, <3>1 DEF ListReadRows, IInv, InFlight, Sound
    <3> DEFINE q == [op |-> "listed", trip |-> p.trip, current |-> p.current,
                     rows |-> {r \in Revisions : revisions[p.trip][r] # NoRow}]
    <3>3. q \in Request
      BY <3>2 DEF Request
    <3>4. q.rows = {} \/ q.current \in q.rows
      <4>1. /\ p.trip \in TripIds /\ p.current \in Revisions
            /\ trips[p.trip] # NoRow => revisions[p.trip][p.current] # NoRow
        BY <3>1, <3>2 DEF IInv, InFlight, Sound, Request
      <4>2. trips[p.trip] = NoRow => \A r \in Revisions : revisions[p.trip][r] = NoRow
        BY <4>1 DEF IInv, CurrentIsBacked, NoHistory
      <4>3. QED
        BY <4>1, <4>2
    <3>5. q.op = "listed"
      OBVIOUS
    <3>6. Stage(c, q)
      BY <2>11, <3>1 DEF ListReadRows
    <3> HIDE DEF q
    <3>7. Sound(q)
      BY <3>2, <3>4, <3>5 DEF Sound
    <3>8. QED
      BY <1>1, <2>11, <3>3, <3>6, <3>7, QuietStep DEF ListReadRows
  <2>12. CASE RestoreReadTarget(c)
    <3>1. PICK p \in Request : p = req[c]
      BY DEF IInv, TypeOK
    <3>2. /\ serving /\ p.op = "restore" /\ p.target # p.expected /\ p.trip \in TripIds
          /\ p.target \in Revisions /\ p.expected \in Revisions
      BY <2>12, <3>1 DEF RestoreReadTarget, IInv, InFlight, Sound, Request
    <3>3. CASE revisions[p.trip][p.target] = NoRow
      BY <1>1, <2>12, <3>1, <3>3, QuietEnd DEF RestoreReadTarget
    <3>4. CASE revisions[p.trip][p.target] # NoRow
      <4> DEFINE q == [op |-> "restore_tx", trip |-> p.trip, target |-> p.target,
                       expected |-> p.expected, snapshot |-> revisions[p.trip][p.target].snapshot]
      <4>1. q \in Request
        BY <3>2, <3>4 DEF Request, IInv, TypeOK, RevisionRow
      <4>2. Stage(c, q)
        BY <2>12, <3>1, <3>4 DEF RestoreReadTarget
      <4>3. Sound(q)
        BY <3>2, <3>4, RowsAreTrue DEF Sound
      <4> HIDE DEF q
      <4>4. QED
        BY <1>1, <2>12, <4>1, <4>2, <4>3, QuietStep DEF RestoreReadTarget
    <3>5. QED
      BY <3>3, <3>4
  <2>13. CASE RestoreCommits(c)
    BY <1>1, <2>13, RestoreKeepsInv
  <2>14. CASE RestoreCasMiss(c) \/ Abandon(c)
    BY <1>1, <2>14, QuietEnd DEF RestoreCasMiss, Abandon
  <2>15. CASE ImportReadTrip(c)
    <3>1. PICK p \in Request : p = req[c]
      BY DEF IInv, TypeOK
    <3>2. ~serving /\ p.op = "import"
      BY <2>15, <3>1 DEF ImportReadTrip, IInv, InFlight, Sound
    <3>3. CASE trips[p.trip] # NoRow
      BY <1>1, <2>15, <3>1, <3>3, QuietEnd DEF ImportReadTrip
    <3>4. CASE trips[p.trip] = NoRow
      <4>1. PICK q \in Request : q = [op |-> "import_tx", trip |-> p.trip]
        BY <3>2 DEF Request
      <4>2. Sound(q) /\ Stage(c, q)
        BY <2>15, <3>1, <3>2, <3>4, <4>1 DEF Sound, ImportReadTrip
      <4>3. QED
        BY <1>1, <2>15, <4>2, QuietStep DEF ImportReadTrip
    <3>5. QED
      BY <3>3, <3>4
  <2>16. CASE ImportCommits(c)
    <3>1. PICK p \in Request : p = req[c]
      BY DEF IInv, TypeOK
    <3>2. ~serving /\ p.op = "import_tx" /\ p.trip \in DOMAIN Legacy
      BY <2>16, <3>1 DEF ImportCommits, IInv, InFlight, Sound, Request
    <3> DEFINE t == p.trip
               row == Row(Legacy[t].snapshot, "MIGRATION", NoRevision)
    <3>3. /\ t \in TripIds /\ Legacy[t].revision \in Revisions /\ row \in RevisionRow
          /\ row.source = "MIGRATION" /\ row.snapshot = Legacy[t].snapshot /\ t \in minted
      BY <3>2, LegacyAssumption DEF Row, RevisionRow, Sources, Tokens, IInv, Freeze
    <3>4. /\ InsertBoth(t, Legacy[t].revision, row) /\ Ends(c)
          /\ UNCHANGED <<serving, minted, view, basis>>
      BY <2>16, <3>1 DEF ImportCommits
    <3>5. minted' = minted \cup {t} /\ t \in DOMAIN Legacy
      BY <3>2, <3>3, <3>4
    <3> HIDE DEF row, t
    <3>6. QED
      BY <1>1, <3>2, <3>3, <3>4, <3>5, InsertKeepsInv
  <2>17. QED
    BY <1>3, <2>1, <2>2, <2>3, <2>4, <2>5, <2>6, <2>7, <2>8, <2>9, <2>10, <2>11, <2>12,
      <2>13, <2>14, <2>15, <2>16 DEF ClientStep
<1>4. CASE UNCHANGED vars
  BY <1>4 DEF vars, IInv, TypeOK, CurrentIsBacked, HistoryIsWellFormed, SeenStaysTrue,
    NoLostUpdate, InFlight, Sound, Freeze
<1>5. QED
  BY <1>2, <1>3, <1>4 DEF Next

(* The inductive invariant holds in every reachable state.                 *)
THEOREM Invariant == Spec => []IInv
BY InitEstablishesInv, StepKeepsInv, PTL DEF Spec

(* Both tables always agree: the current row of a live trip is its newest  *)
(* history row, and a deleted trip has no rows at all.                     *)
THEOREM CurrentRowsAreBacked == Spec => []CurrentIsBacked
BY Invariant, PTL DEF IInv

(* Every history is a gap-free chain from its baseline, of one plan type,  *)
(* and a restore row is a true copy of the row it names - although the     *)
(* restore read that row before its transaction.                           *)
THEOREM HistoriesAreWellFormed == Spec => []HistoryIsWellFormed
BY Invariant, PTL DEF IInv

(* What a client was shown as revision n stays the trip's revision n until *)
(* the trip is deleted, and no identifier comes back.                      *)
THEOREM ShownRevisionsStayTrue == Spec => []SeenStaysTrue
BY Invariant, PTL DEF IInv

(* With any number of clients, an accepted token means the write went on   *)
(* top of what its author had seen.                                        *)
THEOREM NoUpdateIsLost == Spec => []NoLostUpdate
BY Invariant, PTL DEF IInv

(* A listing with rows has the row of the revision it reports as current,  *)
(* whatever was written or deleted between the two reads: rows are only    *)
(* ever added to a trip, or all taken at once.                             *)
THEOREM ListingsCoverCurrent == Spec => []ListingCoversCurrent
<1>1. IInv => ListingCoversCurrent
  BY DEF IInv, InFlight, Sound, ListingCoversCurrent
<1>2. QED
  BY <1>1, Invariant, PTL

-----------------------------------------------------------------------------
(* The refinement.  A step of the repository on one trip is an operation   *)
(* of the store on that trip, the head moving with the current row.        *)
LEMMA InitRefines == Init => Store!StoreInit
BY DEF Init, Store!StoreInit, CurrentRevision, Store!NoHistory, NoHistory,
       Store!Revisions, Revisions

(* A step that writes no table is a stutter of the store.                  *)
LEMMA NoTableWritten ==
  ASSUME UNCHANGED <<trips, revisions>>
  PROVE  UNCHANGED Store!storeVars
BY DEF Store!storeVars, CurrentRevision

(* The first row of a trip begins its history.                             *)
LEMMA InsertBegins ==
  ASSUME IInv, TypeOK', NEW t \in TripIds, NEW b \in Revisions, NEW row \in RevisionRow,
         InsertBoth(t, b, row)
  PROVE  /\ Store!Begin(t, b, row)
         /\ CurrentRevision'[t] # CurrentRevision[t]
<1> USE NoRevisionAssumption, SentinelAssumption, BoundAssumption
<1>1. trips[t] = NoRow /\ revisions[t] = NoHistory
  BY DEF InsertBoth, IInv, CurrentIsBacked
<1>2. trips' = [trips EXCEPT ![t] = [revision |-> b, snapshot |-> row.snapshot]]
      /\ revisions' = [revisions EXCEPT ![t][b] = row]
  BY DEF InsertBoth
<1>3. trips'[t] = [revision |-> b, snapshot |-> row.snapshot] /\ trips'[t] # NoRow
  BY <1>2 DEF IInv, TypeOK, RevisionRow, TripRow
<1>4. CurrentRevision' = [CurrentRevision EXCEPT ![t] = b]
  BY <1>2, <1>3 DEF CurrentRevision, IInv, TypeOK
<1>5. revisions' = [revisions EXCEPT ![t] = [Store!NoHistory EXCEPT ![b] = row]]
  BY <1>1, <1>2 DEF Store!NoHistory, NoHistory, Store!Revisions, Revisions, IInv, TypeOK
<1>6. CurrentRevision[t] = NoRevision /\ CurrentRevision'[t] = b
  BY <1>1, <1>4 DEF CurrentRevision
<1>7. b # NoRevision
  BY DEF Revisions
<1>8. QED
  BY <1>4, <1>5, <1>6, <1>7 DEF Store!Begin

(* A compare-and-set moves the head of its trip one entry forward.         *)
LEMMA CasAdvances ==
  ASSUME IInv, TypeOK', NEW t \in TripIds, NEW e \in Revisions, NEW row \in RevisionRow,
         CasAdvance(t, e, e + 1, row)
  PROVE  /\ Store!Advance(t, row)
         /\ CurrentRevision[t] = e /\ CurrentRevision[t] # NoRevision
         /\ CurrentRevision'[t] # CurrentRevision[t]
<1> USE NoRevisionAssumption, SentinelAssumption, BoundAssumption
<1>1. trips[t] # NoRow /\ trips[t].revision = e /\ e \in Nat /\ e + 1 \in Revisions
  BY DEF CasAdvance, IInv, TypeOK, TripRow, Revisions
<1>2. trips' = [trips EXCEPT ![t] = [revision |-> e + 1, snapshot |-> row.snapshot]]
      /\ revisions' = [revisions EXCEPT ![t][e + 1] = row]
  BY <1>1 DEF CasAdvance
<1>3. trips'[t] = [revision |-> e + 1, snapshot |-> row.snapshot] /\ trips'[t] # NoRow
  BY <1>1, <1>2 DEF IInv, TypeOK, RevisionRow, TripRow
<1>4. CurrentRevision[t] = e /\ e # NoRevision
  BY <1>1 DEF CurrentRevision
<1>5. CurrentRevision' = [CurrentRevision EXCEPT ![t] = e + 1]
  BY <1>2, <1>3 DEF CurrentRevision, IInv, TypeOK
<1>6. CurrentRevision' = [CurrentRevision EXCEPT ![t] = @ + 1] /\ CurrentRevision'[t] = e + 1
  BY <1>4, <1>5 DEF CurrentRevision
<1>7. revisions' = [revisions EXCEPT ![t][CurrentRevision[t] + 1] = row]
  BY <1>2, <1>4
<1>8. CurrentRevision[t] + 1 \in Store!Revisions
  BY <1>1, <1>4 DEF Store!Revisions, Revisions
<1>9. QED
  BY <1>1, <1>4, <1>6, <1>7, <1>8 DEF Store!Advance

(* save() is the store's create.                                           *)
LEMMA SaveCreates ==
  ASSUME IInv, TypeOK', NEW c \in Clients, NEW t \in TripIds, NEW s \in Snapshots, Save(c, t, s)
  PROVE  Store!StoreNext
<1> DEFINE row == Row(s, "CREATED", NoRevision)
<1>1. 0 \in Revisions /\ row \in RevisionRow /\ row = Store!Entry(s, "CREATED", NoRevision)
  BY BoundAssumption DEF Revisions, Row, RevisionRow, Sources, Tokens, Store!Entry
<1>2. InsertBoth(t, 0, row)
  BY DEF Save
<1> HIDE DEF row
<1>3. Store!Begin(t, 0, row) /\ CurrentRevision'[t] # CurrentRevision[t]
  BY <1>1, <1>2, InsertBegins
<1>4. Store!Create(t, s)
  BY <1>1, <1>3 DEF Store!Create
<1>5. QED
  BY <1>3, <1>4 DEF Store!StoreNext

(* import_migration_baseline() is the store's migrate.                     *)
LEMMA ImportMigrates ==
  ASSUME IInv, TypeOK', NEW c \in Clients, ImportCommits(c)
  PROVE  Store!StoreNext
<1>1. PICK p \in Request : p = req[c]
  BY DEF IInv, TypeOK
<1>2. p.op = "import_tx" /\ p.trip \in DOMAIN Legacy
  BY <1>1 DEF ImportCommits, Request
<1> DEFINE t == p.trip
           row == Row(Legacy[t].snapshot, "MIGRATION", NoRevision)
<1>3. /\ t \in TripIds /\ Legacy[t].revision \in Revisions /\ Legacy[t].snapshot \in Snapshots
      /\ row \in RevisionRow /\ row = Store!Entry(Legacy[t].snapshot, "MIGRATION", NoRevision)
  BY <1>2, LegacyAssumption DEF Row, RevisionRow, Sources, Tokens, Store!Entry
<1>4. InsertBoth(t, Legacy[t].revision, row)
  BY <1>1 DEF ImportCommits
<1> HIDE DEF row, t
<1>5. Store!Begin(t, Legacy[t].revision, row) /\ CurrentRevision'[t] # CurrentRevision[t]
  BY <1>3, <1>4, InsertBegins
<1>6. Store!Migrate(t, Legacy[t].revision, Legacy[t].snapshot)
  BY <1>3, <1>5 DEF Store!Migrate
<1>7. Legacy[t].revision \in Store!Revisions
  BY <1>3 DEF Store!Revisions, Revisions
<1>8. QED
  BY <1>3, <1>5, <1>6, <1>7 DEF Store!StoreNext

(* update() with a new snapshot is the store's edit.                       *)
LEMMA UpdateEdits ==
  ASSUME IInv, TypeOK', NEW c \in Clients, NEW t \in TripIds, NEW s \in Snapshots,
         NEW e \in Tokens, NEW source \in UpdateSources, UpdateWrites(c, t, s, e, source)
  PROVE  Store!StoreNext
<1> DEFINE row == Row(s, source, NoRevision)
<1>1. row \in RevisionRow /\ row = Store!Entry(s, source, NoRevision)
  BY DEF Row, RevisionRow, Sources, Tokens, Store!Entry
<1>2. /\ trips[t] # NoRow /\ e = trips[t].revision /\ s # trips[t].snapshot
      /\ PlanType[trips[t].snapshot] = PlanType[s] /\ CasAdvance(t, e, e + 1, row)
  BY DEF UpdateWrites, TokenAccepted
<1>3. e \in Revisions /\ revisions[t][e].snapshot = trips[t].snapshot
  BY <1>2, HeadIsARow
<1> HIDE DEF row
<1>4. /\ Store!Advance(t, row) /\ CurrentRevision[t] = e /\ CurrentRevision[t] # NoRevision
      /\ CurrentRevision'[t] # CurrentRevision[t]
  BY <1>1, <1>2, <1>3, CasAdvances
<1>5. Store!Edit(t, s, source)
  BY <1>1, <1>2, <1>3, <1>4 DEF Store!Edit
<1>6. QED
  BY <1>4, <1>5 DEF Store!StoreNext

(* restore_revision() is the store's revert, to the content its target     *)
(* still has.                                                              *)
LEMMA RestoreReverts ==
  ASSUME IInv, TypeOK', NEW c \in Clients, RestoreCommits(c)
  PROVE  Store!StoreNext
<1>1. PICK q \in Request : q = req[c]
  BY DEF IInv, TypeOK
<1>2. /\ q.op = "restore_tx" /\ q.trip \in TripIds /\ q.target \in Revisions
      /\ q.expected \in Revisions /\ q.snapshot \in Snapshots
  BY <1>1 DEF RestoreCommits, Request
<1> DEFINE row == Row(q.snapshot, "REVERT", q.target)
<1>3. row \in RevisionRow /\ row = Store!Entry(q.snapshot, "REVERT", q.target)
  BY <1>2 DEF Row, RevisionRow, Sources, Tokens, Store!Entry
<1>4. CasAdvance(q.trip, q.expected, q.expected + 1, row)
  BY <1>1 DEF RestoreCommits
<1>5. trips[q.trip] # NoRow /\ trips[q.trip].revision = q.expected
  BY <1>4 DEF CasAdvance
<1>6. /\ q.target # q.expected /\ revisions[q.trip][q.target] # NoRow
      /\ revisions[q.trip][q.target].snapshot = q.snapshot
  BY <1>1, <1>2, <1>5 DEF IInv, InFlight, Sound
<1>7. q.target < q.expected
  <2>1. q.target <= q.expected
    BY <1>2, <1>5, <1>6, RowsAreTrue
  <2>2. QED
    BY <2>1, <1>2, <1>6 DEF Revisions
<1> HIDE DEF row
<1>8. /\ Store!Advance(q.trip, row) /\ CurrentRevision[q.trip] = q.expected
      /\ CurrentRevision[q.trip] # NoRevision
      /\ CurrentRevision'[q.trip] # CurrentRevision[q.trip]
  BY <1>2, <1>3, <1>4, CasAdvances
<1>9. Store!Revert(q.trip, q.target)
  BY <1>3, <1>6, <1>7, <1>8 DEF Store!Revert
<1>10. q.target \in Store!Revisions
  BY <1>2 DEF Store!Revisions, Revisions
<1>11. QED
  BY <1>2, <1>8, <1>9, <1>10 DEF Store!StoreNext

(* delete() is the store's remove, or finds nothing.                       *)
LEMMA DeleteRemoves ==
  ASSUME IInv, TypeOK', NEW c \in Clients, NEW t \in TripIds, Delete(c, t)
  PROVE  Store!StoreNext \/ UNCHANGED Store!storeVars
<1> USE NoRevisionAssumption
<1>1. trips' = [trips EXCEPT ![t] = NoRow] /\ revisions' = [revisions EXCEPT ![t] = NoHistory]
  BY DEF Delete
<1>2. CASE trips[t] = NoRow
  <2>1. revisions[t] = NoHistory
    BY <1>2 DEF IInv, CurrentIsBacked
  <2>2. UNCHANGED <<trips, revisions>>
    BY <1>1, <1>2, <2>1 DEF IInv, TypeOK
  <2>3. QED
    BY <2>2, NoTableWritten
<1>3. CASE trips[t] # NoRow
  <2>1. CurrentRevision[t] = trips[t].revision /\ trips[t].revision \in Nat
    BY <1>3, HeadIsARow, BoundAssumption DEF CurrentRevision, Revisions
  <2>2. CurrentRevision' = [CurrentRevision EXCEPT ![t] = NoRevision]
        /\ CurrentRevision'[t] = NoRevision
    BY <1>1 DEF CurrentRevision, IInv, TypeOK
  <2>3. revisions' = [revisions EXCEPT ![t] = Store!NoHistory]
    BY <1>1 DEF Store!NoHistory, NoHistory, Store!Revisions, Revisions
  <2>4. Store!Remove(t) /\ CurrentRevision'[t] # CurrentRevision[t]
    BY <2>1, <2>2, <2>3 DEF Store!Remove
  <2>5. QED
    BY <2>4 DEF Store!StoreNext
<1>4. QED
  BY <1>2, <1>3

(* Every step of the repository is one of the store, or a stutter.         *)
LEMMA StepRefines ==
  IInv /\ [Next]_vars => [Store!StoreNext]_(Store!storeVars)
<1> SUFFICES ASSUME IInv, [Next]_vars
             PROVE  Store!StoreNext \/ UNCHANGED Store!storeVars
  OBVIOUS
<1>0. TypeOK'
  BY StepKeepsTypes DEF IInv
<1>1. CASE OpenWrites \/ UNCHANGED vars
  BY <1>1, NoTableWritten DEF OpenWrites, vars
<1>2. ASSUME NEW c \in Clients, ClientStep(c)
      PROVE  Store!StoreNext \/ UNCHANGED Store!storeVars
  <2>1. ASSUME NEW t \in TripIds,
               \/ Get(c, t) \/ ListReadCurrent(c, t) \/ ImportReadBaseline(c, t)
               \/ UpdateRefused(c, t) \/ RestoreRefused(c, t)
        PROVE  UNCHANGED Store!storeVars
    BY <2>1, NoTableWritten DEF Get, ListReadCurrent, ImportReadBaseline, UpdateRefused,
      RestoreRefused
  <2>2. ASSUME NEW t \in TripIds, NEW k \in Revisions, NEW e \in Revisions,
               GetRevision(c, t, k) \/ RestoreReadTrip(c, t, k, e)
        PROVE  UNCHANGED Store!storeVars
    BY <2>2, NoTableWritten DEF GetRevision, RestoreReadTrip
  <2>3. ASSUME NEW t \in TripIds, NEW s \in Snapshots, NEW e \in Tokens,
               UpdateNoOp(c, t, s, e)
        PROVE  UNCHANGED Store!storeVars
    BY <2>3, NoTableWritten DEF UpdateNoOp
  <2>4. CASE ListReadRows(c) \/ RestoreReadTarget(c) \/ RestoreCasMiss(c) \/ ImportReadTrip(c)
             \/ Abandon(c)
    BY <2>4, NoTableWritten DEF ListReadRows, RestoreReadTarget, RestoreCasMiss, ImportReadTrip,
      Abandon
  <2>5. QED
    BY <1>0, <1>2, <2>1, <2>2, <2>3, <2>4, SaveCreates, ImportMigrates, UpdateEdits, RestoreReverts,
      DeleteRemoves, BoundAssumption DEF ClientStep, Revisions
<1>3. QED
  BY <1>1, <1>2 DEF Next

(* The repository over its two tables, its stale reads and its frozen      *)
(* migration phase implements the abstract store of immutable histories.   *)
THEOREM Refinement == Spec => ImplementsTripStore
BY Invariant, InitRefines, StepRefines, PTL DEF Spec, ImplementsTripStore, Store!StoreSpec
=============================================================================
