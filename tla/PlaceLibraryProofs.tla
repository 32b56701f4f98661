------------------------ MODULE PlaceLibraryProofs ------------------------
(***************************************************************************)
(* Theorems about PlaceLibrary, as a part of MatrixCache, and then about   *)
(* the cache itself, for any number of places, handlers and requests, any  *)
(* lifetimes and bounds and any answers of the two APIs.                   *)
(*                                                                         *)
(* HoursStayOrdered is carried by what a patch was checked against between *)
(* its check and its write (PatchesAreChecked), StatusIsOfTheLastCall by   *)
(* what every update still to be written says of its own attempt           *)
(* (EnrichersAreSane, BatchIsSane), TurnsAreFair by the dates: who was     *)
(* passed over has the older one, and what a batch has in hand is newer    *)
(* than all that waits for the next (Turns, BatchTurns).  The properties   *)
(* of an answer of the cache are carried by what each entry owes to the    *)
(* request that stored it (CacheIsSane) and by what each request in flight *)
(* owes to its stage (SolversAreSane).                                     *)
(***************************************************************************)
EXTENDS MatrixCache, FiniteSetTheorems, TLAPS

-----------------------------------------------------------------------------
(* Preferred hours.                                                        *)
New(p, f, old) == IF f \in DOMAIN p THEN p[f] ELSE old
Fits(p, from, to) == Ordered(New(p, "from", from), New(p, "to", to))

(* A patch that is about to be written was checked: against any hours, or  *)
(* against those it read.                                                  *)
CheckedFor(j) ==
  /\ j.id \in Ids
  /\ DOMAIN j.patch \subseteq {"from", "to"}
  /\ j.read = <<>> => \A from, to : Fits(j.patch, from, to)
  /\ \A from, to : j.read = <<from, to>> => Fits(j.patch, from, to)

PatchesAreChecked == \A u \in Patchers : patcher[u] # None => CheckedFor(patcher[u])

LibraryInv ==
  /\ DOMAIN docs = Ids /\ DOMAIN patcher = Patchers
  /\ \A id \in Ids : Live(id) => {"from", "to"} \subseteq DOMAIN docs[id]
  /\ HoursStayOrdered
  /\ PatchesAreChecked

(* No documents and no patches.                                            *)
LEMMA LibraryInitInv == LibraryInit => LibraryInv
BY DEF LibraryInit, LibraryInv, Live, HoursStayOrdered, PatchesAreChecked

(* One document changes and no patch is on its way: the invariant is kept  *)
(* if the document has its hours in order.                                 *)
LEMMA OneDocument ==
  ASSUME LibraryInv, NEW id \in Ids, NEW doc, docs' = [docs EXCEPT ![id] = doc],
         UNCHANGED <<patcher, raced>>,
         doc \notin {Unborn, Gone} =>
           /\ {"from", "to"} \subseteq DOMAIN doc
           /\ id \notin raced => Ordered(doc.from, doc.to)
  PROVE  LibraryInv'
<1>1. /\ DOMAIN docs = Ids /\ docs'[id] = doc
      /\ \A o \in Ids : o # id => docs'[o] = docs[o]
  BY DEF LibraryInv
<1>2. DOMAIN docs' = Ids /\ DOMAIN patcher' = Patchers
  BY <1>1 DEF LibraryInv
<1>3. \A o \in Ids : Live(o)' => {"from", "to"} \subseteq DOMAIN docs'[o]
  BY <1>1 DEF LibraryInv, Live
<1>4. HoursStayOrdered'
  BY <1>1 DEF LibraryInv, HoursStayOrdered, Live
<1>5. PatchesAreChecked'
  BY DEF LibraryInv, PatchesAreChecked
<1> QED
  BY <1>2, <1>3, <1>4, <1>5 DEF LibraryInv

(* An import leaves the hours of a document it finds, and gives a new one  *)
(* none.                                                                   *)
LEMMA UpsertKeeps ==
  ASSUME LibraryInv, NEW item \in Items, Upsert(item)
  PROVE  LibraryInv'
<1>1. "from" \notin DOMAIN item /\ "to" \notin DOMAIN item
  BY ItemsAssumption
<1>2. PICK id \in Ids :
        \/ /\ Matches(id, item)
           /\ docs' = [docs EXCEPT ![id] =
                [f \in DOMAIN @ |-> IF f \in DOMAIN item THEN item[f] ELSE @[f]]]
        \/ docs' = [docs EXCEPT ![id] =
             Fresh(item.url, item.name, item.address, item.gid, item.coords, None, None)]
  BY DEF Upsert
<1>3. UNCHANGED <<patcher, raced>> /\ DOMAIN docs = Ids
  BY DEF Upsert, LibraryInv
<1>4. CASE /\ Matches(id, item)
           /\ docs' = [docs EXCEPT ![id] =
                [f \in DOMAIN @ |-> IF f \in DOMAIN item THEN item[f] ELSE @[f]]]
  <2> DEFINE doc == [f \in DOMAIN docs[id] |->
                       IF f \in DOMAIN item THEN item[f] ELSE docs[id][f]]
  <2>1. Live(id) /\ {"from", "to"} \subseteq DOMAIN docs[id]
    BY <1>4 DEF Matches, LibraryInv
  <2>2. doc.from = docs[id].from /\ doc.to = docs[id].to /\ DOMAIN doc = DOMAIN docs[id]
    BY <1>1, <2>1
  <2>3. docs' = [docs EXCEPT ![id] = doc]
    BY <1>3, <1>4
  <2>4. id \notin raced => Ordered(doc.from, doc.to)
    BY <2>1, <2>2 DEF LibraryInv, HoursStayOrdered
  <2> HIDE DEF doc
  <2> QED
    BY <1>3, <2>1, <2>2, <2>3, <2>4, OneDocument
<1>5. CASE docs' = [docs EXCEPT ![id] =
             Fresh(item.url, item.name, item.address, item.gid, item.coords, None, None)]
  BY <1>3, <1>5, OneDocument DEF Fresh, Ordered
<1> QED
  BY <1>2, <1>4, <1>5

(* The hours of a new place were validated.                                *)
LEMMA InsertKeeps ==
  ASSUME LibraryInv, NEW c \in Creates, Insert(c)
  PROVE  LibraryInv'
<1>1. PICK id \in Ids :
        docs' = [docs EXCEPT ![id] =
          Fresh(Missing, c.name, c.address, None, c.coords, c.from, c.to)]
  BY DEF Insert
<1> QED
  BY <1>1, OneDocument, CreatesAssumption DEF Insert, Fresh

(* A deleted document has no hours.                                        *)
LEMMA DeleteKeeps ==
  ASSUME LibraryInv, NEW id \in Ids, DeletePlace(id)
  PROVE  LibraryInv'
BY OneDocument DEF DeletePlace

(* Stamp() leaves the hours as they are.                                   *)
LEMMA StampKeeps ==
  ASSUME LibraryInv, NEW id, NEW read, NEW update, Stamp(id, read, update),
         UNCHANGED <<patcher, raced>>
  PROVE  LibraryInv'
<1>1. CASE Live(id) /\ id \in Ids
  <2> DEFINE doc == Enriched(read, docs[id], update)
  <2>1. {"from", "to"} \subseteq DOMAIN docs[id]
    BY <1>1 DEF LibraryInv
  <2>2. DOMAIN doc = DOMAIN docs[id] /\ doc.from = docs[id].from /\ doc.to = docs[id].to
    BY <2>1 DEF Enriched
  <2>3. docs' = [docs EXCEPT ![id] = doc]
    BY <1>1 DEF Stamp, LibraryInv
  <2>4. id \notin raced => Ordered(doc.from, doc.to)
    BY <1>1, <2>2 DEF LibraryInv, HoursStayOrdered
  <2> HIDE DEF doc
  <2> QED
    BY <1>1, <2>1, <2>2, <2>3, <2>4, OneDocument
<1>2. CASE ~Live(id)
  BY <1>2 DEF Stamp, LibraryInv, HoursStayOrdered, PatchesAreChecked, Live
<1>3. CASE Live(id) /\ id \notin Ids
  <2>1. DOMAIN docs' = Ids /\ \A o \in Ids : docs'[o] = docs[o]
    BY <1>3 DEF Stamp, LibraryInv
  <2> QED
    BY <2>1 DEF LibraryInv, HoursStayOrdered, PatchesAreChecked, Live
<1> QED
  BY <1>1, <1>2, <1>3

(* A patch that starts was checked against the hours it read.              *)
LEMMA PatchStartKeeps ==
  ASSUME LibraryInv, NEW u \in Patchers, NEW id \in Ids, NEW p \in Patches,
         PatchStart(u, id, p)
  PROVE  LibraryInv'
<1> DEFINE read == IF OneSided(p) THEN <<docs[id].from, docs[id].to>> ELSE <<>>
           j == [id |-> id, patch |-> p, read |-> read]
<1>1. DOMAIN p \subseteq {"from", "to"} /\ (DOMAIN p = {"from", "to"} => Ordered(p.from, p.to))
  BY PatchesAssumption
<1>2. OneSided(p) => Fits(p, docs[id].from, docs[id].to)
  <2> SUFFICES ASSUME OneSided(p) PROVE Fits(p, docs[id].from, docs[id].to)
    OBVIOUS
  <2>1. Live(id) /\ Ordered(Patched(docs[id], p).from, Patched(docs[id], p).to)
    BY DEF PatchStart, Checked
  <2>2. /\ Patched(docs[id], p).from = New(p, "from", docs[id].from)
        /\ Patched(docs[id], p).to = New(p, "to", docs[id].to)
    BY <2>1 DEF LibraryInv, Patched, New
  <2> QED
    BY <2>1, <2>2 DEF Fits
<1>3. ~OneSided(p) => \A from, to : Fits(p, from, to)
  <2> SUFFICES ASSUME ~OneSided(p), NEW from, NEW to PROVE Fits(p, from, to)
    OBVIOUS
  <2>1. CASE DOMAIN p = {"from", "to"}
    BY <1>1, <2>1 DEF Fits, New
  <2>2. CASE {p[f] : f \in DOMAIN p} = {None}
    <3>1. \E f \in {"from", "to"} : f \in DOMAIN p /\ p[f] = None
      BY <1>1, <2>2
    <3> QED
      BY <3>1 DEF Fits, New, Ordered
  <2> QED
    BY <2>1, <2>2 DEF OneSided
<1>4. <<docs[id].from, docs[id].to>> # <<>>
  OBVIOUS
<1>5. CheckedFor(j)
  BY <1>1, <1>2, <1>3, <1>4 DEF CheckedFor
<1>6. patcher' = [patcher EXCEPT ![u] = j] /\ UNCHANGED <<docs, raced>>
  BY DEF PatchStart
<1> HIDE DEF j
<1>7. PatchesAreChecked' /\ DOMAIN patcher' = Patchers
  BY <1>5, <1>6 DEF LibraryInv, PatchesAreChecked
<1> QED
  BY <1>6, <1>7 DEF LibraryInv, HoursStayOrdered, Live

(* A checked patch is written in order, or onto other hours: a race.       *)
LEMMA PatchWriteKeeps ==
  ASSUME LibraryInv, NEW u \in Patchers, PatchWrite(u)
  PROVE  LibraryInv'
<1> DEFINE id == patcher[u].id
           p == patcher[u].patch
           doc == Patched(docs[id], p)
<1>1. CheckedFor(patcher[u]) /\ patcher' = [patcher EXCEPT ![u] = None]
  BY DEF PatchWrite, LibraryInv, PatchesAreChecked
<1>2. PatchesAreChecked' /\ DOMAIN patcher' = Patchers
  BY <1>1 DEF LibraryInv, PatchesAreChecked
<1>3. CASE ~Live(id)
  BY <1>2, <1>3 DEF PatchWrite, LibraryInv, HoursStayOrdered, Live
<1>4. CASE Live(id)
  <2>1. /\ docs' = [docs EXCEPT ![id] = doc]
        /\ raced' = IF patcher[u].read \in {<<>>, <<docs[id].from, docs[id].to>>}
                    THEN raced \ {id} ELSE raced \cup {id}
    BY <1>4 DEF PatchWrite
  <2>2. id \in Ids /\ DOMAIN docs = Ids /\ {"from", "to"} \subseteq DOMAIN docs[id]
    BY <1>1, <1>4 DEF CheckedFor, LibraryInv
  <2>3. /\ doc.from = New(p, "from", docs[id].from) /\ doc.to = New(p, "to", docs[id].to)
        /\ DOMAIN doc = DOMAIN docs[id]
    BY <2>2 DEF Patched, New
  <2>4. patcher[u].read \in {<<>>, <<docs[id].from, docs[id].to>>} => Ordered(doc.from, doc.to)
    BY <1>1, <2>3 DEF CheckedFor, Fits
  <2> HIDE DEF id, doc
  <2>5. docs'[id] = doc /\ \A o \in Ids : o # id => docs'[o] = docs[o]
    BY <2>1, <2>2
  <2>6. id \notin raced' => Ordered(doc.from, doc.to)
    BY <2>1, <2>4
  <2>7. \A o \in Ids : o # id => (o \in raced' <=> o \in raced)
    BY <2>1
  <2>8. HoursStayOrdered'
    BY <2>5, <2>6, <2>7 DEF LibraryInv, HoursStayOrdered, Live
  <2>9. DOMAIN docs' = Ids /\ \A o \in Ids : Live(o)' => {"from", "to"} \subseteq DOMAIN docs'[o]
    BY <2>1, <2>2, <2>3, <2>5 DEF LibraryInv, Live
  <2> QED
    BY <1>2, <2>8, <2>9 DEF LibraryInv
<1> QED
  BY <1>3, <1>4

(* Hours stay in order over every step of the library.                     *)
LEMMA LibraryKeeps ==
  ASSUME LibraryInv, LibraryNext \/ Tick \/ UNCHANGED libraryVars
  PROVE  LibraryInv'
<1>1. ASSUME UNCHANGED <<docs, patcher, raced>> PROVE LibraryInv'
  BY <1>1 DEF LibraryInv, HoursStayOrdered, PatchesAreChecked, Live
<1>2. ASSUME NEW item \in Items, Upsert(item) PROVE LibraryInv'
  BY <1>2, UpsertKeeps
<1>3. ASSUME NEW c \in Creates, Insert(c) PROVE LibraryInv'
  BY <1>3, InsertKeeps
<1>4. ASSUME NEW id \in Ids, DeletePlace(id) PROVE LibraryInv'
  BY <1>4, DeleteKeeps
<1>5. ASSUME NEW u \in Patchers, PatchWrite(u) PROVE LibraryInv'
  BY <1>5, PatchWriteKeeps
<1>6. ASSUME NEW u \in Patchers, NEW id \in Ids, NEW p \in Patches, PatchStart(u, id, p)
      PROVE  LibraryInv'
  BY <1>6, PatchStartKeeps
<1>7. ASSUME NEW e \in Enrichers, EnrichWrite(e) PROVE LibraryInv'
  BY <1>7, StampKeeps DEF EnrichWrite
<1>8. CASE BatchWrite
  BY <1>8, StampKeeps DEF BatchWrite
<1>9. ASSUME NEW e \in Enrichers,
             \/ EnrichFails(e)
             \/ \E id \in Ids : EnrichRead(e, id)
             \/ \E f1, f2 \in FetchAnswers, s \in SearchAnswers : EnrichBuild(e, f1, s, f2)
      PROVE  LibraryInv'
  BY <1>1, <1>9 DEF EnrichFails, EnrichRead, EnrichBuild
<1>10. CASE \/ BatchRead \/ BatchFails \/ BatchEnds \/ Tick \/ UNCHANGED libraryVars
           \/ \E f1, f2 \in FetchAnswers, s \in SearchAnswers : BatchBuild(f1, s, f2)
  BY <1>1, <1>10 DEF BatchRead, BatchFails, BatchEnds, Tick, BatchBuild, libraryVars
<1> QED
  BY <1>2, <1>3, <1>4, <1>5, <1>6, <1>7, <1>8, <1>9, <1>10 DEF LibraryNext

-----------------------------------------------------------------------------
(* Preferences.                                                            *)
HoursKept ==
  \A id \in Ids : Live(id) /\ Live(id)' =>
    <<docs[id].from, docs[id].to>>' = <<docs[id].from, docs[id].to>>

(* One document changes and has the hours it had.                          *)
LEMMA OneDocumentKept ==
  ASSUME LibraryInv, NEW id \in Ids, NEW doc, docs' = [docs EXCEPT ![id] = doc],
         Live(id) /\ doc \notin {Unborn, Gone} =>
           doc.from = docs[id].from /\ doc.to = docs[id].to
  PROVE  HoursKept
<1>1. docs'[id] = doc /\ \A o \in Ids : o # id => docs'[o] = docs[o]
  BY DEF LibraryInv
<1> QED
  BY <1>1 DEF HoursKept, Live

(* The $set of an enrichment names no preference.                          *)
LEMMA StampKeepsHours ==
  ASSUME LibraryInv, NEW id, NEW read, NEW update, Stamp(id, read, update)
  PROVE  HoursKept
<1>1. CASE Live(id) /\ id \in Ids
  <2> DEFINE doc == Enriched(read, docs[id], update)
  <2>1. {"from", "to"} \subseteq DOMAIN docs[id]
    BY <1>1 DEF LibraryInv
  <2>2. doc.from = docs[id].from /\ doc.to = docs[id].to
    BY <2>1 DEF Enriched
  <2>3. docs' = [docs EXCEPT ![id] = doc]
    BY <1>1 DEF Stamp, LibraryInv
  <2> HIDE DEF doc
  <2> QED
    BY <1>1, <2>2, <2>3, OneDocumentKept
<1>2. CASE ~(Live(id) /\ id \in Ids)
  <2>1. \A o \in Ids : docs'[o] = docs[o]
    BY <1>2 DEF Stamp, LibraryInv
  <2> QED
    BY <2>1 DEF HoursKept, Live
<1> QED
  BY <1>1, <1>2

(* The $set of an import names no preference.                              *)
LEMMA UpsertKeepsHours ==
  ASSUME LibraryInv, NEW item \in Items, Upsert(item)
  PROVE  HoursKept
<1>1. "from" \notin DOMAIN item /\ "to" \notin DOMAIN item
  BY ItemsAssumption
<1>2. PICK id \in Ids :
        \/ /\ Matches(id, item)
           /\ docs' = [docs EXCEPT ![id] =
                [f \in DOMAIN @ |-> IF f \in DOMAIN item THEN item[f] ELSE @[f]]]
        \/ /\ docs[id] = Unborn
           /\ docs' = [docs EXCEPT ![id] =
                Fresh(item.url, item.name, item.address, item.gid, item.coords, None, None)]
  BY DEF Upsert
<1>3. CASE docs[id] = Unborn
  BY <1>2, <1>3, OneDocumentKept DEF Live, Matches
<1>4. CASE Matches(id, item)
           /\ docs' = [docs EXCEPT ![id] =
                [f \in DOMAIN @ |-> IF f \in DOMAIN item THEN item[f] ELSE @[f]]]
  <2> DEFINE doc == [f \in DOMAIN docs[id] |->
                       IF f \in DOMAIN item THEN item[f] ELSE docs[id][f]]
  <2>1. {"from", "to"} \subseteq DOMAIN docs[id] /\ DOMAIN docs = Ids
    BY <1>4 DEF Matches, LibraryInv
  <2>2. doc.from = docs[id].from /\ doc.to = docs[id].to
    BY <1>1, <2>1
  <2>3. docs' = [docs EXCEPT ![id] = doc]
    BY <1>4, <2>1
  <2> HIDE DEF doc
  <2> QED
    BY <2>2, <2>3, OneDocumentKept
<1> QED
  BY <1>2, <1>3, <1>4

OnlyByPatch ==
  \A id \in Ids :
    Live(id) /\ Live(id)' /\ <<docs[id].from, docs[id].to>>' # <<docs[id].from, docs[id].to>>
      => \E u \in Patchers : patcher[u] # None /\ patcher[u].id = id /\ patcher'[u] = None

(* Whoever else writes a document, its hours are a patch's.                *)
LEMMA StepIsByPatch ==
  ASSUME LibraryInv, LibraryNext \/ UNCHANGED docs
  PROVE  OnlyByPatch
<1>1. HoursKept => OnlyByPatch
  BY DEF HoursKept, OnlyByPatch
<1>2. UNCHANGED docs => HoursKept
  BY DEF HoursKept, Live
<1>3. ASSUME NEW item \in Items, Upsert(item) PROVE OnlyByPatch
  BY <1>1, <1>3, UpsertKeepsHours
<1>4. ASSUME NEW c \in Creates, Insert(c) PROVE OnlyByPatch
  <2>1. PICK id \in Ids :
          /\ docs[id] = Unborn
          /\ docs' = [docs EXCEPT ![id] =
               Fresh(Missing, c.name, c.address, None, c.coords, c.from, c.to)]
    BY <1>4 DEF Insert
  <2> QED
    BY <1>1, <2>1, OneDocumentKept DEF Live
<1>5. ASSUME NEW id \in Ids, DeletePlace(id) PROVE OnlyByPatch
  BY <1>1, <1>5, OneDocumentKept DEF DeletePlace
<1>6. ASSUME NEW u \in Patchers, PatchWrite(u) PROVE OnlyByPatch
  <2>1. patcher[u] # None /\ patcher'[u] = None
    BY <1>6 DEF PatchWrite, LibraryInv
  <2>2. \A o \in Ids : o # patcher[u].id => docs'[o] = docs[o]
    BY <1>6 DEF PatchWrite, LibraryInv
  <2> QED
    BY <2>1, <2>2 DEF OnlyByPatch
<1>7. ASSUME NEW e \in Enrichers, EnrichWrite(e) PROVE OnlyByPatch
  BY <1>1, <1>7, StampKeepsHours DEF EnrichWrite
<1>8. CASE BatchWrite
  BY <1>1, <1>8, StampKeepsHours DEF BatchWrite
<1> QED
  BY <1>1, <1>2, <1>3, <1>4, <1>5, <1>6, <1>7, <1>8
     DEF LibraryNext, PatchStart, EnrichFails, EnrichRead, EnrichBuild, BatchRead, BatchFails,
         BatchEnds, BatchBuild

-----------------------------------------------------------------------------
(* Status of an enrichment.                                                *)
Says(u) == u.last # None => u.status = u.last

EnrichersAreSane ==
  \A e \in Enrichers : enricher[e] # None =>
    /\ DOMAIN enricher[e] = {"id", "read", "update"} /\ enricher[e].id \in Ids
    /\ enricher[e].update # None => Says(enricher[e].update)

BatchIsSane ==
  batch # None =>
    /\ DOMAIN batch = {"queue", "read", "waiting", "updates", "written"}
    /\ Len(batch.queue) \in Nat /\ batch.written \in Nat
    /\ \E S : batch.updates \in Seq(S) /\ \A u \in S : Says(u)
    /\ batch.written # 0 => Len(batch.updates) >= Len(batch.queue)

StatusInv ==
  /\ \A id \in Ids : Live(id) => {"status", "last"} \subseteq DOMAIN docs[id]
  /\ StatusIsOfTheLastCall
  /\ DOMAIN enricher = Enrichers
  /\ EnrichersAreSane
  /\ BatchIsSane

(* No status before the first attempt.                                     *)
LEMMA StatusInitInv == LibraryInit => StatusInv
BY DEF LibraryInit, StatusInv, Live, StatusIsOfTheLastCall, EnrichersAreSane, BatchIsSane

(* build_enrichment_update() reports the last call of its chain.           *)
LEMMA EnrichmentSays ==
  ASSUME NEW gid, NEW f1 \in FetchAnswers, NEW f2 \in FetchAnswers, NEW s \in SearchAnswers
  PROVE  Says(Enrichment(gid, f1, s, f2))
BY DEF Says, Enrichment, FinalStatus, Or

(* One document changes and no update is on its way.                       *)
LEMMA OneStatus ==
  ASSUME LibraryInv, StatusInv, NEW id \in Ids, NEW doc, docs' = [docs EXCEPT ![id] = doc],
         doc \notin {Unborn, Gone} => {"status", "last"} \subseteq DOMAIN doc /\ Says(doc),
         DOMAIN enricher' = Enrichers, EnrichersAreSane', BatchIsSane'
  PROVE  StatusInv'
<1>1. docs'[id] = doc /\ \A o \in Ids : o # id => docs'[o] = docs[o]
  BY DEF LibraryInv
<1> QED
  BY <1>1 DEF StatusInv, StatusIsOfTheLastCall, Live, Says

(* A document that gets an outcome gets a consistent one.                  *)
LEMMA StampKeepsStatus ==
  ASSUME LibraryInv, StatusInv, NEW id, NEW read, NEW update, Stamp(id, read, update),
         Says(update), DOMAIN enricher' = Enrichers, EnrichersAreSane', BatchIsSane'
  PROVE  StatusInv'
<1>1. CASE Live(id) /\ id \in Ids
  <2> DEFINE doc == Enriched(read, docs[id], update)
  <2>1. {"status", "last"} \subseteq DOMAIN docs[id]
    BY <1>1 DEF StatusInv
  <2>2. DOMAIN doc = DOMAIN docs[id] /\ doc.status = update.status /\ doc.last = update.last
    BY <2>1 DEF Enriched
  <2>3. docs' = [docs EXCEPT ![id] = doc]
    BY <1>1 DEF Stamp, LibraryInv
  <2> HIDE DEF doc
  <2> QED
    BY <1>1, <2>1, <2>2, <2>3, OneStatus DEF Says
<1>2. CASE ~(Live(id) /\ id \in Ids)
  <2>1. \A o \in Ids : docs'[o] = docs[o]
    BY <1>2 DEF Stamp, LibraryInv
  <2> QED
    BY <2>1 DEF StatusInv, StatusIsOfTheLastCall, Live
<1> QED
  BY <1>1, <1>2

(* An import touches no status.                                            *)
LEMMA UpsertKeepsStatus ==
  ASSUME LibraryInv, StatusInv, NEW item \in Items, Upsert(item)
  PROVE  StatusInv'
<1>1. "status" \notin DOMAIN item /\ "last" \notin DOMAIN item
  BY ItemsAssumption
<1>2. PICK id \in Ids :
        \/ /\ Matches(id, item)
           /\ docs' = [docs EXCEPT ![id] =
                [f \in DOMAIN @ |-> IF f \in DOMAIN item THEN item[f] ELSE @[f]]]
        \/ docs' = [docs EXCEPT ![id] =
             Fresh(item.url, item.name, item.address, item.gid, item.coords, None, None)]
  BY DEF Upsert
<1>3. DOMAIN enricher' = Enrichers /\ EnrichersAreSane' /\ BatchIsSane' /\ DOMAIN docs = Ids
  BY DEF Upsert, StatusInv, LibraryInv, EnrichersAreSane, BatchIsSane
<1>4. CASE Matches(id, item)
           /\ docs' = [docs EXCEPT ![id] =
                [f \in DOMAIN @ |-> IF f \in DOMAIN item THEN item[f] ELSE @[f]]]
  <2> DEFINE doc == [f \in DOMAIN docs[id] |->
                       IF f \in DOMAIN item THEN item[f] ELSE docs[id][f]]
  <2>1. Live(id) /\ {"status", "last"} \subseteq DOMAIN docs[id]
    BY <1>4 DEF Matches, StatusInv
  <2>2. /\ doc.status = docs[id].status /\ doc.last = docs[id].last
        /\ DOMAIN doc = DOMAIN docs[id]
    BY <1>1, <2>1
  <2>3. docs' = [docs EXCEPT ![id] = doc]
    BY <1>3, <1>4
  <2>4. Says(doc)
    BY <2>1, <2>2 DEF StatusInv, StatusIsOfTheLastCall, Says
  <2> HIDE DEF doc
  <2> QED
    BY <1>3, <2>1, <2>2, <2>3, <2>4, OneStatus
<1>5. CASE docs' = [docs EXCEPT ![id] =
             Fresh(item.url, item.name, item.address, item.gid, item.coords, None, None)]
  BY <1>3, <1>5, OneStatus DEF Fresh, Says
<1> QED
  BY <1>2, <1>4, <1>5

(* A patch touches no status.                                              *)
LEMMA PatchWriteKeepsStatus ==
  ASSUME LibraryInv, StatusInv, NEW u \in Patchers, PatchWrite(u)
  PROVE  StatusInv'
<1> DEFINE id == patcher[u].id
           doc == Patched(docs[id], patcher[u].patch)
<1>1. CheckedFor(patcher[u])
  BY DEF PatchWrite, LibraryInv, PatchesAreChecked
<1>2. DOMAIN enricher' = Enrichers /\ EnrichersAreSane' /\ BatchIsSane'
  BY DEF PatchWrite, StatusInv, EnrichersAreSane, BatchIsSane
<1>3. CASE Live(id)
  <2>1. id \in Ids /\ docs' = [docs EXCEPT ![id] = doc] /\ {"status", "last"} \subseteq DOMAIN docs[id]
    BY <1>1, <1>3 DEF PatchWrite, CheckedFor, StatusInv
  <2>2. /\ doc.status = docs[id].status /\ doc.last = docs[id].last
        /\ DOMAIN doc = DOMAIN docs[id]
    BY <1>1, <2>1 DEF Patched, CheckedFor
  <2>3. Says(doc)
    BY <1>3, <2>1, <2>2 DEF StatusInv, StatusIsOfTheLastCall, Says
  <2> HIDE DEF doc, id
  <2> QED
    BY <1>2, <2>1, <2>2, <2>3, OneStatus
<1>4. CASE ~Live(id)
  <2>1. UNCHANGED docs
    BY <1>4 DEF PatchWrite
  <2> QED
    BY <1>2, <2>1 DEF StatusInv, StatusIsOfTheLastCall, Live
<1> QED
  BY <1>3, <1>4

(* One enricher moves and the documents are as they were.                  *)
LEMMA OneEnricher ==
  ASSUME StatusInv, NEW e \in Enrichers, NEW job, enricher' = [enricher EXCEPT ![e] = job],
         UNCHANGED <<docs, batch>>,
         job # None => DOMAIN job = {"id", "read", "update"} /\ job.id \in Ids
                       /\ (job.update # None => Says(job.update))
  PROVE  StatusInv'
<1>1. DOMAIN enricher' = Enrichers /\ enricher'[e] = job
      /\ \A o \in Enrichers : o # e => enricher'[o] = enricher[o]
  BY DEF StatusInv
<1>2. EnrichersAreSane'
  BY <1>1 DEF StatusInv, EnrichersAreSane
<1> QED
  BY <1>1, <1>2 DEF StatusInv, StatusIsOfTheLastCall, Live, BatchIsSane

(* What an attempt on one place is going to write is consistent.           *)
LEMMA EnrichBuildKeeps ==
  ASSUME StatusInv, NEW e \in Enrichers, NEW f1 \in FetchAnswers, NEW f2 \in FetchAnswers,
         NEW s \in SearchAnswers, EnrichBuild(e, f1, s, f2)
  PROVE  StatusInv'
<1> DEFINE update == Enrichment(enricher[e].read.gid, f1, s, f2)
           job == [enricher[e] EXCEPT !.update = update]
<1>1. Says(update)
  BY EnrichmentSays
<1>2. DOMAIN enricher[e] = {"id", "read", "update"} /\ enricher[e].id \in Ids
  BY DEF EnrichBuild, StatusInv, EnrichersAreSane
<1>3. enricher' = [enricher EXCEPT ![e] = job] /\ UNCHANGED <<docs, batch>>
  BY DEF EnrichBuild
<1> HIDE DEF update
<1>4. DOMAIN job = {"id", "read", "update"} /\ job.update = update /\ job.id \in Ids
  BY <1>2
<1> HIDE DEF job
<1> QED
  BY <1>1, <1>3, <1>4, OneEnricher

(* The attempt on one place is written.                                    *)
LEMMA EnrichWriteKeeps ==
  ASSUME LibraryInv, StatusInv, NEW e \in Enrichers, EnrichWrite(e)
  PROVE  StatusInv'
<1>1. Says(enricher[e].update)
  BY DEF EnrichWrite, StatusInv, EnrichersAreSane
<1>2. DOMAIN enricher' = Enrichers /\ EnrichersAreSane' /\ BatchIsSane'
  BY DEF EnrichWrite, StatusInv, EnrichersAreSane, BatchIsSane
<1> QED
  BY <1>1, <1>2, StampKeepsStatus DEF EnrichWrite

(* The batch moves and the documents are as they were.                     *)
LEMMA BatchMoves ==
  ASSUME StatusInv, UNCHANGED <<docs, enricher>>, BatchIsSane'
  PROVE  StatusInv'
BY DEF StatusInv, StatusIsOfTheLastCall, Live, EnrichersAreSane

(* A batch begins without updates.                                         *)
LEMMA BatchReadKeeps ==
  ASSUME StatusInv, BatchRead
  PROVE  StatusInv'
<1> DEFINE n == IF Cardinality(Candidates) < Limit THEN Cardinality(Candidates) ELSE Limit
<1>1. n \in Nat
  <2>1. IsFiniteSet(Candidates)
    BY BatchAssumption, FS_Subset DEF Candidates
  <2> QED
    BY <2>1, BatchAssumption, FS_CardinalityType
<1>2. PICK queue \in [1..n -> Candidates] :
        batch' = [queue |-> queue, read |-> [i \in DOMAIN queue |-> docs[queue[i]]],
                  waiting |-> {<<p, docs[p].at>> : p \in Candidates \ ToSet(queue)},
                  updates |-> <<>>, written |-> 0]
  BY DEF BatchRead
<1> HIDE DEF n
<1>3. Len(queue) \in Nat
  BY <1>1
<1>4. /\ DOMAIN batch' = {"queue", "read", "waiting", "updates", "written"}
      /\ batch'.queue = queue /\ batch'.updates = <<>> /\ batch'.written = 0
  BY <1>2
<1>5. \E S : batch'.updates \in Seq(S) /\ \A u \in S : Says(u)
  <2> DEFINE S == {}
  <2>1. <<>> \in Seq(S) /\ \A u \in S : Says(u)
    OBVIOUS
  <2> HIDE DEF S
  <2> QED
    BY <1>4, <2>1
<1>6. /\ Len(batch'.queue) \in Nat /\ batch'.written \in Nat
      /\ batch'.written # 0 => Len(batch'.updates) >= Len(batch'.queue)
  BY <1>3, <1>4
<1>7. BatchIsSane'
  BY <1>4, <1>5, <1>6, Zenon DEF BatchIsSane
<1> QED
  BY <1>7, BatchMoves DEF BatchRead

(* What a batch is going to write is consistent.                           *)
LEMMA BatchBuildKeeps ==
  ASSUME StatusInv, NEW f1 \in FetchAnswers, NEW f2 \in FetchAnswers, NEW s \in SearchAnswers,
         BatchBuild(f1, s, f2)
  PROVE  StatusInv'
<1> DEFINE update == Enrichment(batch.read[Len(batch.updates) + 1].gid, f1, s, f2)
<1>1. Says(update)
  BY EnrichmentSays
<1>2. /\ DOMAIN batch = {"queue", "read", "waiting", "updates", "written"}
      /\ Len(batch.queue) \in Nat /\ batch.written = 0 /\ batch # None
  BY DEF BatchBuild, Building, StatusInv, BatchIsSane
<1>3. PICK S : batch.updates \in Seq(S) /\ \A u \in S : Says(u)
  BY <1>2 DEF StatusInv, BatchIsSane
<1>4. batch' = [batch EXCEPT !.updates = Append(@, update)]
  BY DEF BatchBuild
<1> HIDE DEF update
<1>5. Append(batch.updates, update) \in Seq(S \cup {update})
  BY <1>3
<1>6. /\ DOMAIN batch' = {"queue", "read", "waiting", "updates", "written"}
      /\ batch'.queue = batch.queue /\ batch'.written = 0
      /\ batch'.updates = Append(batch.updates, update)
  BY <1>2, <1>4
<1>7. BatchIsSane'
  BY <1>1, <1>2, <1>3, <1>5, <1>6 DEF BatchIsSane
<1> QED
  BY <1>7, BatchMoves DEF BatchBuild

(* One update of the batch is written.                                     *)
LEMMA BatchWriteKeeps ==
  ASSUME LibraryInv, StatusInv, BatchWrite
  PROVE  StatusInv'
<1> DEFINE i == batch.written + 1
<1>1. /\ batch # None /\ ~Building /\ batch.written < Len(batch.queue)
      /\ DOMAIN batch = {"queue", "read", "waiting", "updates", "written"}
      /\ Len(batch.queue) \in Nat /\ batch.written \in Nat
      /\ batch.written # 0 => Len(batch.updates) >= Len(batch.queue)
  BY DEF BatchWrite, StatusInv, BatchIsSane
<1>2. PICK S : batch.updates \in Seq(S) /\ \A u \in S : Says(u)
  BY <1>1 DEF StatusInv, BatchIsSane
<1>3. Len(batch.updates) \in Nat /\ Len(batch.updates) >= Len(batch.queue)
  BY <1>1, <1>2 DEF Building
<1>4. batch.updates[i] \in S
  BY <1>1, <1>2, <1>3
<1>5. batch' = [batch EXCEPT !.written = @ + 1]
  BY DEF BatchWrite
<1>6. /\ DOMAIN batch' = {"queue", "read", "waiting", "updates", "written"}
      /\ batch'.queue = batch.queue /\ batch'.updates = batch.updates
      /\ batch'.written = batch.written + 1
  BY <1>1, <1>5
<1>7. BatchIsSane'
  BY <1>1, <1>2, <1>3, <1>6 DEF BatchIsSane
<1>8. DOMAIN enricher' = Enrichers /\ EnrichersAreSane'
  BY DEF BatchWrite, StatusInv, EnrichersAreSane
<1> QED
  BY <1>2, <1>4, <1>7, <1>8, StampKeepsStatus DEF BatchWrite

(* Statuses stay consistent over every step of the library.                *)
LEMMA StatusKeeps ==
  ASSUME LibraryInv, StatusInv,
         LibraryNext \/ UNCHANGED <<docs, enricher, batch>>
  PROVE  StatusInv'
<1>1. ASSUME UNCHANGED <<docs, enricher, batch>> PROVE StatusInv'
  BY <1>1 DEF StatusInv, StatusIsOfTheLastCall, Live, EnrichersAreSane, BatchIsSane
<1>2. ASSUME NEW item \in Items, Upsert(item) PROVE StatusInv'
  BY <1>2, UpsertKeepsStatus
<1>3. ASSUME UNCHANGED <<enricher, batch>>
      PROVE  DOMAIN enricher' = Enrichers /\ EnrichersAreSane' /\ BatchIsSane'
  BY <1>3 DEF StatusInv, EnrichersAreSane, BatchIsSane
<1>4. ASSUME NEW c \in Creates, Insert(c) PROVE StatusInv'
  <2>1. PICK id \in Ids :
          docs' = [docs EXCEPT ![id] =
            Fresh(Missing, c.name, c.address, None, c.coords, c.from, c.to)]
    BY <1>4 DEF Insert
  <2> QED
    BY <1>3, <1>4, <2>1, OneStatus DEF Insert, Fresh, Says
<1>5. ASSUME NEW id \in Ids, DeletePlace(id) PROVE StatusInv'
  BY <1>3, <1>5, OneStatus DEF DeletePlace
<1>6. ASSUME NEW u \in Patchers, PatchWrite(u) PROVE StatusInv'
  BY <1>6, PatchWriteKeepsStatus
<1>7. ASSUME NEW u \in Patchers, NEW id \in Ids, NEW p \in Patches, PatchStart(u, id, p)
      PROVE  StatusInv'
  BY <1>1, <1>7 DEF PatchStart
<1>8. ASSUME NEW e \in Enrichers, EnrichFails(e) \/ \E id \in Ids : EnrichRead(e, id)
      PROVE  StatusInv'
  BY <1>8, OneEnricher DEF EnrichFails, EnrichRead
<1>9. ASSUME NEW e \in Enrichers, EnrichWrite(e) PROVE StatusInv'
  BY <1>9, EnrichWriteKeeps
<1>10. ASSUME NEW e \in Enrichers, NEW f1 \in FetchAnswers, NEW f2 \in FetchAnswers,
              NEW s \in SearchAnswers, EnrichBuild(e, f1, s, f2)
       PROVE  StatusInv'
  BY <1>10, EnrichBuildKeeps
<1>11. ASSUME BatchFails \/ BatchEnds PROVE StatusInv'
  BY <1>11, BatchMoves DEF BatchFails, BatchEnds, BatchIsSane
<1>12. ASSUME NEW f1 \in FetchAnswers, NEW f2 \in FetchAnswers, NEW s \in SearchAnswers,
              BatchBuild(f1, s, f2)
       PROVE  StatusInv'
  BY <1>12, BatchBuildKeeps
<1> QED
  BY <1>1, <1>2, <1>4, <1>5, <1>6, <1>7, <1>8, <1>9, <1>10, <1>11, <1>12, BatchReadKeeps,
     BatchWriteKeeps DEF LibraryNext

-----------------------------------------------------------------------------
(* Turns of a batch.                                                       *)

(* The marks of an identifier without a document differ, and are not       *)
(* documents.                                                              *)
MarksAreApart == Unborn # Gone /\ \A d : "at" \in DOMAIN d => d \notin {Unborn, Gone}

Dated(t) == t \in Int /\ t <= stamped

Dates ==
  /\ now \in Int /\ stamped \in Int
  /\ \A id \in Ids : Live(id) =>
       "at" \in DOMAIN docs[id] /\ (docs[id].at # None => Dated(docs[id].at))
  /\ \A e \in Enrichers : enricher[e] # None /\ enricher[e].update # None =>
       Dated(enricher[e].update.at)

(* Whoever was passed over has the older date, so comes first.             *)
Turns ==
  /\ passed \in [Ids -> [Ids -> Nat]]
  /\ TurnsAreFair
  /\ \A p, q \in Ids : docs[p] = Unborn => passed[p][q] = 0 /\ passed[q][p] = 0
  /\ \A p \in Ids, q \in Ids \ late : Live(p) /\ Live(q) /\ passed[p][q] # 0 => Before(p, q)

StillWaits(p) == Live(p) /\ <<p, docs[p].at>> \in batch.waiting

(* What a batch took was not ahead of what it left, and once written has a *)
(* date after what still waits.                                            *)
BatchTurns ==
  batch # None =>
    /\ DOMAIN batch.queue = 1..Len(batch.queue) /\ Len(batch.queue) \in Nat
    /\ batch.written \in 0..Len(batch.queue)
    /\ \A i \in DOMAIN batch.queue : batch.queue[i] \in Ids /\ docs[batch.queue[i]] # Unborn
    /\ \A i \in 1..Len(batch.updates) : Dated(batch.updates[i].at)
    /\ \A w \in batch.waiting : w[2] # None =>
         Dated(w[2]) /\ \A i \in 1..Len(batch.updates) : w[2] < batch.updates[i].at
    /\ \A p \in Ids, i \in DOMAIN batch.queue :
         StillWaits(p) /\ batch.queue[i] \notin late => passed[p][batch.queue[i]] = 0
    /\ \A i \in 1..batch.written :
         LET q == batch.queue[i]
         IN  Live(q) /\ q \notin late => docs[q].at # None /\ docs[q].at >= batch.updates[i].at

TurnInv == Dates /\ Turns /\ BatchTurns

(* Nothing is dated, nobody has waited.                                    *)
LEMMA TurnInitInv == LibraryInit => TurnInv
BY DEF LibraryInit, TurnInv, Dates, Turns, TurnsAreFair, BatchTurns, Live

(* Documents come, go and change, and none is dated.                       *)
LEMMA NothingDated ==
  ASSUME TurnInv, UNCHANGED <<now, stamped, enricher, batch, late, passed>>,
         \A id \in Ids :
           /\ docs'[id] = Unborn => docs[id] = Unborn
           /\ Live(id)' =>
                /\ "at" \in DOMAIN docs'[id]
                /\ \/ Live(id) /\ docs'[id].at = docs[id].at
                   \/ docs[id] = Unborn /\ docs'[id].at = None
  PROVE  TurnInv'
<1>1. Dates'
  BY DEF TurnInv, Dates, Dated
<1>2. Turns'
  BY DEF TurnInv, Turns, TurnsAreFair, Before
<1>3. BatchTurns'
  <2> SUFFICES ASSUME batch # None PROVE BatchTurns'
    BY DEF BatchTurns
  <2>1. \A i \in DOMAIN batch.queue : batch.queue[i] \in Ids /\ docs'[batch.queue[i]] # Unborn
    BY DEF TurnInv, BatchTurns
  <2>2. ASSUME NEW p \in Ids, NEW i \in DOMAIN batch.queue, StillWaits(p)',
               batch.queue[i] \notin late
        PROVE  passed[p][batch.queue[i]] = 0
    <3>1. CASE Live(p) /\ docs'[p].at = docs[p].at
      BY <2>2, <3>1 DEF TurnInv, BatchTurns, StillWaits
    <3>2. CASE docs[p] = Unborn
      BY <2>1, <3>2 DEF TurnInv, Turns
    <3> QED
      BY <2>2, <3>1, <3>2 DEF StillWaits
  <2>3. ASSUME NEW i \in 1..batch.written, Live(batch.queue[i])', batch.queue[i] \notin late
        PROVE  docs'[batch.queue[i]].at # None
               /\ docs'[batch.queue[i]].at >= batch.updates[i].at
    <3>1. i \in DOMAIN batch.queue
      BY DEF TurnInv, BatchTurns
    <3>2. Live(batch.queue[i]) /\ docs'[batch.queue[i]].at = docs[batch.queue[i]].at
      BY <2>3, <3>1 DEF TurnInv, BatchTurns
    <3> QED
      BY <2>3, <3>2 DEF TurnInv, BatchTurns
  <2> QED
    BY <2>1, <2>2, <2>3 DEF TurnInv, BatchTurns, Dated
<1> QED
  BY <1>1, <1>2, <1>3 DEF TurnInv

(* An import dates no document.                                            *)
LEMMA UpsertDatesNothing ==
  ASSUME LibraryInv, TurnInv, MarksAreApart, NEW item \in Items, Upsert(item)
  PROVE  TurnInv'
<1>1. "at" \notin DOMAIN item /\ DOMAIN docs = Ids
  BY ItemsAssumption DEF LibraryInv
<1>2. UNCHANGED <<now, stamped, enricher, batch, late, passed>>
  BY DEF Upsert, turnVars
<1>3. PICK id \in Ids :
        \/ /\ Matches(id, item)
           /\ docs' = [docs EXCEPT ![id] =
                [f \in DOMAIN @ |-> IF f \in DOMAIN item THEN item[f] ELSE @[f]]]
        \/ /\ docs[id] = Unborn
           /\ docs' = [docs EXCEPT ![id] =
                Fresh(item.url, item.name, item.address, item.gid, item.coords, None, None)]
  BY DEF Upsert
<1>4. \A o \in Ids : o # id => docs'[o] = docs[o]
  BY <1>1, <1>3
<1>5. /\ docs'[id] = Unborn => docs[id] = Unborn
      /\ Live(id)' =>
           /\ "at" \in DOMAIN docs'[id]
           /\ \/ Live(id) /\ docs'[id].at = docs[id].at
              \/ docs[id] = Unborn /\ docs'[id].at = None
  <2>1. CASE Matches(id, item)
             /\ docs' = [docs EXCEPT ![id] =
                  [f \in DOMAIN @ |-> IF f \in DOMAIN item THEN item[f] ELSE @[f]]]
    <3> DEFINE doc == [f \in DOMAIN docs[id] |->
                         IF f \in DOMAIN item THEN item[f] ELSE docs[id][f]]
    <3>1. Live(id) /\ "at" \in DOMAIN docs[id]
      BY <2>1 DEF Matches, TurnInv, Dates
    <3>2. docs'[id] = doc
      BY <1>1, <2>1
    <3>3. DOMAIN doc = DOMAIN docs[id] /\ doc.at = docs[id].at
      BY <1>1, <3>1
    <3> HIDE DEF doc
    <3> QED
      BY <3>1, <3>2, <3>3 DEF MarksAreApart
  <2>2. CASE docs[id] = Unborn
             /\ docs' = [docs EXCEPT ![id] =
                  Fresh(item.url, item.name, item.address, item.gid, item.coords, None, None)]
    BY <1>1, <2>2 DEF Fresh
  <2> QED
    BY <1>3, <2>1, <2>2
<1>6. \A o \in Ids \ {id} : Live(o)' =>
        Live(o) /\ "at" \in DOMAIN docs'[o] /\ docs'[o].at = docs[o].at
  BY <1>4 DEF Live, TurnInv, Dates
<1> QED
  BY <1>2, <1>4, <1>5, <1>6, NothingDated

(* A new place has never been attempted.                                   *)
LEMMA InsertDatesNothing ==
  ASSUME LibraryInv, TurnInv, NEW c \in Creates, Insert(c)
  PROVE  TurnInv'
<1>1. PICK id \in Ids :
        /\ docs[id] = Unborn
        /\ docs' = [docs EXCEPT ![id] =
             Fresh(Missing, c.name, c.address, None, c.coords, c.from, c.to)]
  BY DEF Insert
<1>2. /\ docs'[id] = Fresh(Missing, c.name, c.address, None, c.coords, c.from, c.to)
      /\ \A o \in Ids : o # id => docs'[o] = docs[o]
  BY <1>1 DEF LibraryInv
<1>3. "at" \in DOMAIN docs'[id] /\ docs'[id].at = None
  BY <1>2 DEF Fresh
<1>4. \A o \in Ids \ {id} : Live(o)' =>
        Live(o) /\ "at" \in DOMAIN docs'[o] /\ docs'[o].at = docs[o].at
  BY <1>2 DEF Live, TurnInv, Dates
<1> QED
  BY <1>1, <1>2, <1>3, <1>4, NothingDated DEF Insert, turnVars

(* A deleted place waits for nothing.                                      *)
LEMMA DeleteDatesNothing ==
  ASSUME LibraryInv, TurnInv, MarksAreApart, NEW id \in Ids, DeletePlace(id)
  PROVE  TurnInv'
<1>1. docs'[id] = Gone /\ \A o \in Ids : o # id => docs'[o] = docs[o]
  BY DEF DeletePlace, LibraryInv
<1>2. ~Live(id)' /\ (docs'[id] = Unborn => docs[id] = Unborn)
  BY <1>1 DEF Live, MarksAreApart
<1>3. \A o \in Ids \ {id} : Live(o)' =>
        Live(o) /\ "at" \in DOMAIN docs'[o] /\ docs'[o].at = docs[o].at
  BY <1>1 DEF Live, TurnInv, Dates
<1> QED
  BY <1>1, <1>2, <1>3, NothingDated DEF DeletePlace, turnVars

(* A patch dates no document.                                              *)
LEMMA PatchDatesNothing ==
  ASSUME LibraryInv, TurnInv, MarksAreApart, NEW u \in Patchers, PatchWrite(u)
  PROVE  TurnInv'
<1> DEFINE id == patcher[u].id
           doc == Patched(docs[id], patcher[u].patch)
<1>1. CheckedFor(patcher[u]) /\ UNCHANGED <<now, stamped, enricher, batch, late, passed>>
  BY DEF PatchWrite, LibraryInv, PatchesAreChecked, turnVars
<1>2. \A o \in Ids : Live(o)' /\ docs'[o] = docs[o] =>
        Live(o) /\ "at" \in DOMAIN docs'[o] /\ docs'[o].at = docs[o].at
  BY DEF Live, TurnInv, Dates
<1>3. CASE Live(id)
  <2>1. id \in Ids /\ docs' = [docs EXCEPT ![id] = doc] /\ "at" \in DOMAIN docs[id]
    BY <1>1, <1>3 DEF PatchWrite, CheckedFor, TurnInv, Dates
  <2>2. DOMAIN doc = DOMAIN docs[id] /\ doc.at = docs[id].at
    BY <1>1, <2>1 DEF Patched, CheckedFor
  <2> HIDE DEF doc, id
  <2>3. docs'[id] = doc /\ \A o \in Ids : o # id => docs'[o] = docs[o]
    BY <2>1 DEF LibraryInv
  <2>4. docs'[id] # Unborn /\ "at" \in DOMAIN docs'[id] /\ docs'[id].at = docs[id].at
    BY <2>1, <2>2, <2>3 DEF MarksAreApart
  <2> QED
    BY <1>1, <1>2, <1>3, <2>3, <2>4, NothingDated
<1>4. CASE ~Live(id)
  BY <1>1, <1>2, <1>4, NothingDated DEF PatchWrite
<1> QED
  BY <1>3, <1>4

-----------------------------------------------------------------------------
(* The outcome of an attempt reaches its document.                         *)
Stamped(id, at) ==
  /\ id \in Ids /\ Live(id) /\ Live(id)' /\ docs'[id] # Unborn
  /\ "at" \in DOMAIN docs'[id] /\ docs'[id].at = at
  /\ late' = IF docs[id].at # None /\ docs[id].at > at THEN late \cup {id} ELSE late
  /\ passed' = [passed EXCEPT ![id] = [q \in Ids |-> 0]]
  /\ \A o \in Ids : o # id => docs'[o] = docs[o]

(* apply_enrichment_update() dates the document and nothing else.          *)
LEMMA StampStamps ==
  ASSUME LibraryInv, TurnInv, MarksAreApart, NEW id \in Ids, NEW read, NEW update, Live(id),
         Stamp(id, read, update)
  PROVE  Stamped(id, update.at)
<1> DEFINE doc == Enriched(read, docs[id], update)
<1>1. "at" \in DOMAIN docs[id]
  BY DEF TurnInv, Dates
<1>2. DOMAIN doc = DOMAIN docs[id] /\ doc.at = update.at
  BY <1>1 DEF Enriched
<1>3. docs' = [docs EXCEPT ![id] = doc] /\ DOMAIN docs = Ids /\ DOMAIN passed = Ids
  BY DEF Stamp, LibraryInv, TurnInv, Turns
<1> HIDE DEF doc
<1>4. docs'[id] = doc
  BY <1>3
<1>5. docs'[id] \notin {Unborn, Gone}
  BY <1>1, <1>2, <1>4 DEF MarksAreApart
<1> QED
  BY <1>1, <1>2, <1>3, <1>4, <1>5 DEF Stamped, Stamp, Live

(* A place that was dated has had its turn.                                *)
LEMMA StampKeepsTurns ==
  ASSUME TurnInv, NEW id, NEW at, Dated(at), Stamped(id, at)
  PROVE  Turns'
<1>1. passed' \in [Ids -> [Ids -> Nat]]
  BY DEF Stamped, TurnInv, Turns
<1>2. \A q \in Ids : q \notin late' => q \notin late
  BY DEF Stamped
<1>3. TurnsAreFair'
  BY <1>2 DEF Stamped, TurnInv, Turns, TurnsAreFair
<1>4. \A p, q \in Ids : docs'[p] = Unborn => passed'[p][q] = 0 /\ passed'[q][p] = 0
  BY DEF Stamped, TurnInv, Turns
<1>5. ASSUME NEW p \in Ids, NEW q \in Ids \ late', Live(p)', Live(q)', passed'[p][q] # 0
      PROVE  Before(p, q)'
  <2>1. p # id /\ Live(p) /\ docs'[p] = docs[p] /\ passed[p][q] # 0
    BY <1>5 DEF Stamped, Live, TurnInv, Turns
  <2>2. Live(q)
    BY <1>5 DEF Stamped, Live
  <2>3. Before(p, q)
    BY <1>2, <1>5, <2>1, <2>2 DEF TurnInv, Turns
  <2>4. CASE q # id
    BY <2>1, <2>3, <2>4 DEF Stamped, Before
  <2>5. CASE q = id
    <3>1. docs[q].at \in Int /\ at \in Int /\ docs[q].at <= at /\ docs'[q].at = at
      BY <1>5, <2>2, <2>3, <2>5 DEF Stamped, Before, TurnInv, Dates, Dated
    <3>2. docs[p].at # None => docs[p].at \in Int
      BY <2>1 DEF TurnInv, Dates, Dated
    <3> QED
      BY <2>1, <2>3, <3>1, <3>2, NoneAssumption DEF Before
  <2> QED
    BY <2>4, <2>5
<1> QED
  BY <1>1, <1>3, <1>4, <1>5 DEF Turns

(* Dates in documents are of attempts that were made.                      *)
LEMMA StampKeepsDates ==
  ASSUME TurnInv, NEW id, NEW at, Dated(at), Stamped(id, at), UNCHANGED <<now, stamped>>,
         \A e \in Enrichers : enricher'[e] \in {enricher[e], None}
  PROVE  Dates'
<1>1. ASSUME NEW o \in Ids, Live(o)'
      PROVE  "at" \in DOMAIN docs'[o] /\ (docs'[o].at # None => Dated(docs[o].at)')
  <2>1. CASE o = id
    BY <2>1 DEF Stamped, Dated
  <2>2. CASE o # id
    BY <1>1, <2>2 DEF Stamped, TurnInv, Dates, Dated, Live
  <2> QED
    BY <2>1, <2>2
<1>2. ASSUME NEW e \in Enrichers, (enricher[e] # None /\ enricher[e].update # None)'
      PROVE  Dated(enricher[e].update.at)'
  BY <1>2 DEF TurnInv, Dates, Dated
<1> QED
  BY <1>1, <1>2 DEF TurnInv, Dates

(* Of the batch in flight, the place just written is dated after whatever  *)
(* still waits; any other that is dated back is late.                      *)
LEMMA StampKeepsBatch ==
  ASSUME TurnInv, StatusInv, NEW id, NEW at, Dated(at), Stamped(id, at), UNCHANGED stamped,
         batch # None => /\ batch'.queue = batch.queue /\ batch'.updates = batch.updates
                         /\ batch'.waiting = batch.waiting
                         /\ batch'.written \in 0..Len(batch.queue)
                         /\ \A i \in 1..batch'.written : i \in 1..batch.written
                              \/ (id = batch.queue[i] /\ at = batch.updates[i].at)
                              \/ ~Live(batch.queue[i]),
         batch = None => batch' = None,
         batch # None => \A i \in 1..batch'.written : batch.updates[i].at \in Int
  PROVE  BatchTurns'
<1> SUFFICES ASSUME batch # None PROVE BatchTurns'
  BY DEF BatchTurns
<1>1. \A i \in DOMAIN batch.queue : batch.queue[i] \in Ids /\ docs'[batch.queue[i]] # Unborn
  BY DEF TurnInv, BatchTurns, Stamped
<1>2. \A q \in Ids : q \notin late' => q \notin late
  BY DEF Stamped
<1>3. ASSUME NEW p \in Ids, NEW i \in DOMAIN batch.queue, StillWaits(p)',
             batch.queue[i] \notin late'
      PROVE  passed'[p][batch.queue[i]] = 0
  <2>1. CASE p = id
    BY <1>1, <2>1 DEF Stamped, TurnInv, Turns
  <2>2. CASE p # id
    BY <1>1, <1>2, <1>3, <2>2 DEF Stamped, TurnInv, Turns, BatchTurns, StillWaits, Live
  <2> QED
    BY <2>1, <2>2
<1>4. ASSUME NEW i \in 1..batch'.written, Live(batch.queue[i])', batch.queue[i] \notin late'
      PROVE  docs'[batch.queue[i]].at # None
             /\ docs'[batch.queue[i]].at >= batch.updates[i].at
  <2> DEFINE q == batch.queue[i]
  <2>1. q \in Ids /\ Live(q) /\ q \notin late
    BY <1>1, <1>2, <1>4 DEF TurnInv, BatchTurns, Stamped, Live
  <2>2. CASE q = id /\ at = batch.updates[i].at
    BY <2>2, NoneAssumption DEF Stamped, Dated
  <2>3. CASE i \in 1..batch.written
    <3>1. docs[q].at # None /\ docs[q].at >= batch.updates[i].at
      BY <2>1, <2>3 DEF TurnInv, BatchTurns
    <3>2. docs[q].at \in Int /\ batch.updates[i].at \in Int
      BY <2>1, <3>1 DEF TurnInv, Dates, Dated
    <3>3. CASE q = id
      BY <1>4, <2>1, <3>1, <3>2, <3>3, NoneAssumption DEF Stamped, Dated
    <3>4. CASE q # id
      BY <2>1, <3>1, <3>4 DEF Stamped
    <3> QED
      BY <3>3, <3>4
  <2> QED
    BY <2>1, <2>2, <2>3
<1> QED
  BY <1>1, <1>3, <1>4 DEF TurnInv, BatchTurns, Dated

(* Time goes on, and the documents, the batch and the turns do not.        *)
LEMMA OnlyDates ==
  ASSUME TurnInv, UNCHANGED <<docs, batch, late, passed>>,
         stamped' \in Int, stamped <= stamped', now' \in Int,
         \A e \in Enrichers : enricher'[e] # None /\ enricher'[e].update # None =>
           Dated(enricher[e].update.at)'
  PROVE  TurnInv'
<1>1. stamped \in Int
  BY DEF TurnInv, Dates
<1>2. Dates'
  BY <1>1 DEF TurnInv, Dates, Dated, Live
<1>3. Turns'
  BY DEF TurnInv, Turns, TurnsAreFair, Live, Before
<1>4. BatchTurns'
  BY <1>1 DEF TurnInv, BatchTurns, Dated, StillWaits, Live
<1> QED
  BY <1>2, <1>3, <1>4 DEF TurnInv

(* The attempt on one place is written, however late.                      *)
LEMMA EnrichWriteTurns ==
  ASSUME LibraryInv, StatusInv, TurnInv, MarksAreApart, NEW e \in Enrichers, EnrichWrite(e)
  PROVE  TurnInv'
<1> DEFINE id == enricher[e].id
           at == enricher[e].update.at
<1>1. /\ Dated(at) /\ UNCHANGED <<now, stamped, batch>> /\ id \in Ids
      /\ \A o \in Enrichers : enricher'[o] \in {enricher[o], None}
  BY DEF EnrichWrite, TurnInv, Dates, StatusInv, EnrichersAreSane
<1>2. CASE Live(id)
  <2>1. Stamped(id, at)
    BY <1>1, <1>2, StampStamps DEF EnrichWrite
  <2> HIDE DEF id, at
  <2>2. batch # None => \A i \in 1..batch.written : batch.updates[i].at \in Int
    <3> SUFFICES ASSUME batch # None, NEW i \in 1..batch.written
                 PROVE  batch.updates[i].at \in Int
      OBVIOUS
    <3>1. i \in 1..Len(batch.updates)
      BY DEF StatusInv, BatchIsSane, TurnInv, BatchTurns
    <3> QED
      BY <3>1 DEF TurnInv, BatchTurns, Dated
  <2>3. BatchTurns'
    BY <1>1, <2>1, <2>2, StampKeepsBatch DEF TurnInv, BatchTurns
  <2> QED
    BY <1>1, <2>1, <2>3, StampKeepsTurns, StampKeepsDates DEF TurnInv
<1>3. CASE ~Live(id)
  <2>1. UNCHANGED <<docs, late, passed>>
    BY <1>3 DEF EnrichWrite, Stamp, turnVars
  <2>2. \A o \in Enrichers : enricher'[o] # None /\ enricher'[o].update # None =>
          Dated(enricher[o].update.at)'
    BY <1>1 DEF TurnInv, Dates, Dated
  <2> QED
    BY <1>1, <2>1, <2>2, OnlyDates DEF TurnInv, Dates
<1> QED
  BY <1>2, <1>3

(* An attempt gets a date no document has.                                 *)
LEMMA EnrichBuildTurns ==
  ASSUME StatusInv, TurnInv, NEW e \in Enrichers, NEW f1 \in FetchAnswers,
         NEW f2 \in FetchAnswers, NEW s \in SearchAnswers, EnrichBuild(e, f1, s, f2)
  PROVE  TurnInv'
<1> DEFINE update == Enrichment(enricher[e].read.gid, f1, s, f2)
<1>1. update.at = now
  BY DEF Enrichment
<1>2. /\ now \in Int /\ stamped \in Int /\ stamped < now /\ stamped' = now /\ now' = now
      /\ UNCHANGED <<docs, batch, late, passed>>
      /\ enricher' = [enricher EXCEPT ![e].update = update]
  BY DEF EnrichBuild, TurnInv, Dates, turnVars
<1> HIDE DEF update
<1>3. ASSUME NEW o \in Enrichers, enricher'[o] # None, enricher'[o].update # None
      PROVE  Dated(enricher[o].update.at)'
  <2>1. CASE o = e
    <3>1. "update" \in DOMAIN enricher[e]
      BY DEF EnrichBuild, StatusInv, EnrichersAreSane
    <3>2. enricher'[e].update = update
      BY <1>2, <3>1 DEF StatusInv
    <3> QED
      BY <1>1, <1>2, <2>1, <3>2 DEF Dated
  <2>2. CASE o # e
    BY <1>2, <1>3, <2>2 DEF StatusInv, TurnInv, Dates, Dated
  <2> QED
    BY <2>1, <2>2
<1> QED
  BY <1>2, <1>3, OnlyDates

(* The batch moves, and the documents and their dates do not.              *)
LEMMA OnlyBatch ==
  ASSUME TurnInv, UNCHANGED <<docs, now, enricher>>, stamped' \in Int, stamped <= stamped',
         Turns', BatchTurns'
  PROVE  TurnInv'
BY DEF TurnInv, Dates, Dated, Live

(* What is picked is not behind what is left.                              *)
LEMMA BatchReadTurns ==
  ASSUME TurnInv, BatchRead
  PROVE  TurnInv'
<1> DEFINE n == IF Cardinality(Candidates) < Limit THEN Cardinality(Candidates) ELSE Limit
<1>1. n \in Nat
  <2>1. IsFiniteSet(Candidates)
    BY BatchAssumption, FS_Subset DEF Candidates
  <2> QED
    BY <2>1, BatchAssumption, FS_CardinalityType
<1>2. PICK queue \in [1..n -> Candidates] :
        /\ Picks(queue)
        /\ batch' = [queue |-> queue, read |-> [i \in DOMAIN queue |-> docs[queue[i]]],
                     waiting |-> {<<p, docs[p].at>> : p \in Candidates \ ToSet(queue)},
                     updates |-> <<>>, written |-> 0]
  BY DEF BatchRead
<1> HIDE DEF n
<1>3. Len(queue) \in Nat /\ DOMAIN queue = 1..Len(queue)
  BY <1>1
<1>4. /\ batch'.queue = queue /\ batch'.updates = <<>> /\ batch'.written = 0
      /\ batch'.waiting = {<<p, docs[p].at>> : p \in Candidates \ ToSet(queue)}
  BY <1>2
<1>5. UNCHANGED <<docs, now, enricher, stamped, late, passed>>
  BY DEF BatchRead, turnVars
<1>6. \A i \in DOMAIN queue : queue[i] \in Ids /\ Live(queue[i])
  BY <1>2 DEF Candidates
<1>7. ASSUME NEW w \in batch'.waiting, w[2] # None PROVE Dated(w[2])
  <2>1. PICK p \in Candidates : w = <<p, docs[p].at>>
    BY <1>4, <1>7
  <2> QED
    BY <1>7, <2>1 DEF Candidates, TurnInv, Dates
<1>8. ASSUME NEW p \in Ids, NEW i \in DOMAIN queue, Live(p), <<p, docs[p].at>> \in batch'.waiting,
             queue[i] \notin late
      PROVE  passed[p][queue[i]] = 0
  <2>1. p \in Candidates \ ToSet(queue)
    BY <1>4, <1>8
  <2>2. ~Before(p, queue[i])
    BY <1>2, <2>1 DEF Picks
  <2> QED
    BY <1>6, <1>8, <2>2 DEF TurnInv, Turns
<1>9. Turns'
  BY <1>5 DEF TurnInv, Turns, TurnsAreFair, Before, Live
<1>10. \A i \in DOMAIN queue : docs'[queue[i]] # Unborn
  BY <1>5, <1>6 DEF Live
<1>11. \A w \in batch'.waiting : w[2] # None => w[2] \in Int /\ w[2] <= stamped'
  BY <1>5, <1>7 DEF Dated
<1>12. \A p \in Ids, i \in DOMAIN queue :
         StillWaits(p)' /\ queue[i] \notin late' => passed'[p][queue[i]] = 0
  BY <1>5, <1>8 DEF StillWaits, Live
<1>13. 1..Len(batch'.updates) = {} /\ 1..batch'.written = {}
  BY <1>4
<1>14. BatchTurns'
  <2>1. DOMAIN batch'.queue = 1..Len(batch'.queue) /\ Len(batch'.queue) \in Nat
        /\ batch'.written \in 0..Len(batch'.queue)
    BY <1>3, <1>4
  <2>2. \A i \in DOMAIN batch'.queue : batch'.queue[i] \in Ids /\ docs'[batch'.queue[i]] # Unborn
    BY <1>4, <1>6, <1>10
  <2>3. \A w \in batch'.waiting : w[2] # None => Dated(w[2])'
    BY <1>11 DEF Dated
  <2>4. \A p \in Ids, i \in DOMAIN batch'.queue :
          StillWaits(p)' /\ batch'.queue[i] \notin late' => passed'[p][batch'.queue[i]] = 0
    BY <1>4, <1>12
  <2> QED
    BY <1>13, <2>1, <2>2, <2>3, <2>4 DEF BatchTurns
<1> QED
  BY <1>5, <1>9, <1>14, OnlyBatch DEF TurnInv, Dates

(* An update is newer than the dates of all that wait.                     *)
LEMMA BatchBuildTurns ==
  ASSUME StatusInv, TurnInv, NEW f1 \in FetchAnswers, NEW f2 \in FetchAnswers,
         NEW s \in SearchAnswers, BatchBuild(f1, s, f2)
  PROVE  TurnInv'
<1> DEFINE update == Enrichment(batch.read[Len(batch.updates) + 1].gid, f1, s, f2)
           n == Len(batch.updates)
<1>1. update.at = now
  BY DEF Enrichment
<1>2. /\ now \in Int /\ stamped \in Int /\ stamped < now /\ stamped' = now /\ now' = now
      /\ UNCHANGED <<docs, enricher, late, passed>>
      /\ batch' = [batch EXCEPT !.updates = Append(@, update)]
      /\ batch # None /\ batch.written = 0
      /\ DOMAIN batch = {"queue", "read", "waiting", "updates", "written"}
  BY DEF BatchBuild, Building, TurnInv, Dates, turnVars, StatusInv, BatchIsSane
<1> HIDE DEF update
<1>3. PICK S : batch.updates \in Seq(S)
  BY <1>2 DEF StatusInv, BatchIsSane
<1>4. /\ batch'.queue = batch.queue /\ batch'.waiting = batch.waiting /\ batch'.written = 0
      /\ batch'.updates = Append(batch.updates, update)
  BY <1>2
<1>5. /\ n \in Nat /\ Len(batch'.updates) = n + 1
      /\ \A i \in 1..n : batch'.updates[i] = batch.updates[i]
      /\ batch'.updates[n + 1] = update
  BY <1>3, <1>4
<1> HIDE DEF n
<1>6. \A i \in 1..n + 1 : i \in 1..n \/ i = n + 1
  BY <1>5
<1>7. \A i \in 1..n : Dated(batch.updates[i].at)
  BY <1>2 DEF TurnInv, BatchTurns, n
<1>8. \A i \in 1..n + 1 : batch'.updates[i].at \in Int /\ batch'.updates[i].at <= stamped'
  BY <1>1, <1>2, <1>5, <1>6, <1>7 DEF Dated
<1>9. ASSUME NEW w \in batch.waiting, w[2] # None
      PROVE  w[2] \in Int /\ w[2] <= stamped' /\ \A i \in 1..n + 1 : w[2] < batch'.updates[i].at
  <2>1. Dated(w[2]) /\ \A i \in 1..n : w[2] < batch.updates[i].at
    BY <1>2, <1>9 DEF TurnInv, BatchTurns, n
  <2> QED
    BY <1>1, <1>2, <1>5, <1>6, <2>1 DEF Dated
<1>10. Turns'
  BY <1>2 DEF TurnInv, Turns, TurnsAreFair, Before, Live
<1>11. \A p : StillWaits(p)' <=> StillWaits(p)
  BY <1>2, <1>4 DEF StillWaits, Live
<1>12. 1..batch'.written = {}
  BY <1>4
<1>13. BatchTurns'
  BY <1>2, <1>4, <1>5, <1>8, <1>9, <1>11, <1>12 DEF TurnInv, BatchTurns, Dated
<1> QED
  BY <1>2, <1>10, <1>13, OnlyBatch

(* One update of the batch is written, and gives its place a turn.         *)
LEMMA BatchWriteTurns ==
  ASSUME LibraryInv, StatusInv, TurnInv, MarksAreApart, BatchWrite
  PROVE  TurnInv'
<1> DEFINE k == batch.written + 1
           id == batch.queue[k]
           at == batch.updates[k].at
<1>1. /\ batch # None /\ ~Building /\ batch.written < Len(batch.queue)
      /\ DOMAIN batch = {"queue", "read", "waiting", "updates", "written"}
      /\ batch' = [batch EXCEPT !.written = @ + 1]
      /\ UNCHANGED <<now, stamped, enricher>>
      /\ batch.written # 0 => Len(batch.updates) >= Len(batch.queue)
      /\ Len(batch.queue) \in Nat /\ batch.written \in Nat
      /\ DOMAIN batch.queue = 1..Len(batch.queue)
  BY DEF BatchWrite, StatusInv, BatchIsSane, TurnInv, BatchTurns
<1>2. PICK S : batch.updates \in Seq(S)
  BY <1>1 DEF StatusInv, BatchIsSane
<1>3. /\ k \in 1..Len(batch.updates) /\ k \in DOMAIN batch.queue
      /\ \A i \in 1..k : i \in 1..batch.written \/ i = k
      /\ \A i \in 1..k : i \in 1..Len(batch.updates)
  BY <1>1, <1>2 DEF Building
<1>4. /\ batch'.queue = batch.queue /\ batch'.updates = batch.updates
      /\ batch'.waiting = batch.waiting /\ batch'.written = k
  BY <1>1
<1>5. Dated(at) /\ id \in Ids /\ k \in 0..Len(batch.queue)
  BY <1>1, <1>3 DEF TurnInv, BatchTurns
<1>6. \A i \in 1..k : batch.updates[i].at \in Int
  BY <1>1, <1>3 DEF TurnInv, BatchTurns, Dated
<1>7. Stamp(id, batch.read[k], batch.updates[k])
  BY DEF BatchWrite
<1> HIDE DEF k
<1>8. CASE Live(id)
  <2>1. Stamped(id, at)
    BY <1>5, <1>7, <1>8, StampStamps
  <2>2. BatchTurns'
    BY <1>1, <1>3, <1>4, <1>5, <1>6, <2>1, StampKeepsBatch
  <2> QED
    BY <1>1, <1>5, <2>1, <2>2, StampKeepsTurns, StampKeepsDates DEF TurnInv
<1>9. CASE ~Live(id)
  <2>1. UNCHANGED <<docs, late, passed>>
    BY <1>7, <1>9 DEF Stamp, turnVars
  <2>2. Turns'
    BY <2>1 DEF TurnInv, Turns, TurnsAreFair, Before, Live
  <2>3. BatchTurns'
    <3>1. \A p : StillWaits(p)' <=> StillWaits(p)
      BY <1>4, <2>1 DEF StillWaits, Live
    <3>2. \A i \in 1..k : Live(batch.queue[i]) => i \in 1..batch.written
      BY <1>3, <1>9
    <3> QED
      BY <1>1, <1>4, <1>5, <2>1, <3>1, <3>2 DEF TurnInv, BatchTurns, Dated, Live
  <2> QED
    BY <1>1, <2>1, <2>2, <2>3, OnlyBatch DEF TurnInv, Dates
<1> QED
  BY <1>8, <1>9

(* Whoever waited until the end is now before all that were taken.         *)
LEMMA BatchEndsTurns ==
  ASSUME StatusInv, TurnInv, BatchEnds
  PROVE  TurnInv'
<1>1. /\ batch # None /\ batch.written = Len(batch.queue) /\ batch' = None
      /\ UNCHANGED <<docs, now, stamped, enricher, late>>
      /\ DOMAIN batch.queue = 1..Len(batch.queue) /\ Len(batch.queue) \in Nat
      /\ batch.written # 0 => Len(batch.updates) >= Len(batch.queue)
      /\ passed' = [p \in Ids |->
           IF StillWaits(p)
           THEN [q \in Ids |-> IF q \in ToSet(batch.queue) THEN passed[p][q] + 1 ELSE passed[p][q]]
           ELSE passed[p]]
  BY DEF BatchEnds, StatusInv, BatchIsSane, TurnInv, BatchTurns, StillWaits
<1>2. PICK S : batch.updates \in Seq(S)
  BY <1>1 DEF StatusInv, BatchIsSane
<1> DEFINE Counts(p, q) == StillWaits(p) /\ q \in ToSet(batch.queue)
<1>3. \A p, q \in Ids : /\ Counts(p, q) => passed'[p][q] = passed[p][q] + 1
                        /\ ~Counts(p, q) => passed'[p][q] = passed[p][q]
  BY <1>1
<1>4. ASSUME NEW p \in Ids, NEW q \in Ids \ late, Counts(p, q)
      PROVE  passed[p][q] = 0 /\ docs[q] # Unborn /\ (Live(q) => Before(p, q))
  <2>1. PICK i \in DOMAIN batch.queue : batch.queue[i] = q
    BY <1>4 DEF ToSet
  <2>2. passed[p][q] = 0 /\ docs[q] # Unborn
    BY <1>1, <1>4, <2>1 DEF TurnInv, BatchTurns
  <2>3. i \in 1..batch.written /\ i \in 1..Len(batch.updates)
    BY <1>1, <1>2, <2>1
  <2>4. Live(q) => docs[q].at # None /\ docs[q].at >= batch.updates[i].at
    BY <1>1, <2>1, <2>3 DEF TurnInv, BatchTurns
  <2>5. docs[p].at # None => Dated(docs[p].at) /\ docs[p].at < batch.updates[i].at
    <3>1. <<p, docs[p].at>> \in batch.waiting
      BY <1>4 DEF StillWaits
    <3> QED
      BY <1>1, <2>3, <3>1 DEF TurnInv, BatchTurns
  <2>6. Dated(batch.updates[i].at)
    BY <1>1, <2>3 DEF TurnInv, BatchTurns
  <2>7. Live(q) => docs[q].at \in Int
    BY <2>4 DEF TurnInv, Dates, Dated
  <2> QED
    BY <2>2, <2>4, <2>5, <2>6, <2>7 DEF Before, Dated
<1>5. \A p, q \in Ids : Counts(p, q) => docs[p] # Unborn /\ docs[q] # Unborn
  BY <1>1 DEF ToSet, StillWaits, Live, TurnInv, BatchTurns
<1>6. Turns'
  <2>1. passed' \in [Ids -> [Ids -> Nat]]
    <3>1. passed \in [Ids -> [Ids -> Nat]]
      BY DEF TurnInv, Turns
    <3> QED
      BY <1>1, <3>1
  <2> HIDE DEF Counts
  <2>2. TurnsAreFair'
    <3> SUFFICES ASSUME NEW p \in Ids, NEW q \in Ids \ late PROVE passed'[p][q] <= 1
      BY <1>1 DEF TurnsAreFair
    <3> QED
      BY <1>3, <1>4 DEF TurnInv, Turns, TurnsAreFair
  <2>3. \A p, q \in Ids : docs'[p] = Unborn => passed'[p][q] = 0 /\ passed'[q][p] = 0
    BY <1>1, <1>3, <1>5 DEF TurnInv, Turns
  <2>4. ASSUME NEW p \in Ids, NEW q \in Ids \ late, Live(p)', Live(q)', passed'[p][q] # 0
        PROVE  Before(p, q)'
    <3>1. Live(p) /\ Live(q) /\ (Before(p, q) => Before(p, q)')
      BY <1>1, <2>4 DEF Live, Before
    <3>2. CASE Counts(p, q)
      BY <1>4, <3>1, <3>2
    <3>3. CASE ~Counts(p, q)
      BY <1>3, <2>4, <3>1, <3>3 DEF TurnInv, Turns
    <3> QED
      BY <3>2, <3>3
  <2> QED
    BY <1>1, <2>1, <2>2, <2>3, <2>4 DEF Turns
<1>7. BatchTurns'
  BY <1>1 DEF BatchTurns
<1> QED
  BY <1>1, <1>6, <1>7, OnlyBatch DEF TurnInv, Dates

(* The batch or a single attempt is given up; requests arrive, time goes.  *)
LEMMA OthersTurns ==
  ASSUME StatusInv, TurnInv,
         \/ BatchFails \/ Tick
         \/ UNCHANGED <<docs, now, stamped, enricher, batch, turnVars>>
         \/ \E e \in Enrichers : EnrichFails(e) \/ \E id \in Ids : EnrichRead(e, id)
         \/ \E u \in Patchers, id \in Ids, p \in Patches : PatchStart(u, id, p)
  PROVE  TurnInv'
<1>1. now \in Int /\ stamped \in Int
  BY DEF TurnInv, Dates
<1>2. ASSUME UNCHANGED <<docs, stamped, batch, turnVars>>, now' \in Int,
             \A e \in Enrichers : enricher'[e] = enricher[e] \/ enricher'[e] = None
                                  \/ enricher'[e].update = None
      PROVE  TurnInv'
  <2>1. \A e \in Enrichers : enricher'[e] # None /\ enricher'[e].update # None =>
          Dated(enricher[e].update.at)'
    BY <1>2 DEF TurnInv, Dates, Dated
  <2> QED
    BY <1>1, <1>2, <2>1, OnlyDates DEF turnVars
<1>3. CASE BatchFails
  <2>1. Turns' /\ BatchTurns'
    BY <1>3 DEF BatchFails, turnVars, TurnInv, Turns, TurnsAreFair, Before, Live, BatchTurns
  <2> QED
    BY <1>1, <1>3, <2>1, OnlyBatch DEF BatchFails
<1>4. CASE Tick \/ UNCHANGED <<docs, now, stamped, enricher, batch, turnVars>>
  BY <1>1, <1>2, <1>4 DEF Tick
<1>5. ASSUME NEW u \in Patchers, NEW id \in Ids, NEW p \in Patches, PatchStart(u, id, p)
      PROVE  TurnInv'
  BY <1>1, <1>2, <1>5 DEF PatchStart
<1>6. ASSUME NEW e \in Enrichers, EnrichFails(e) \/ \E id \in Ids : EnrichRead(e, id)
      PROVE  TurnInv'
  BY <1>1, <1>2, <1>6 DEF EnrichFails, EnrichRead, StatusInv
<1> QED
  BY <1>3, <1>4, <1>5, <1>6

-----------------------------------------------------------------------------
(* The steps of MatrixCache that are not the library's leave it alone.     *)
LEMMA LibraryOrNot ==
  ASSUME [Next]_vars
  PROVE  \/ LibraryNext \/ Tick
         \/ UNCHANGED <<docs, now, stamped, patcher, enricher, batch, raced, turnVars>>
<1> DEFINE Same == UNCHANGED <<docs, now, stamped, patcher, enricher, batch, raced, turnVars>>
<1>1. UNCHANGED libraryVars => Same
  BY DEF libraryVars
<1>2. (UNCHANGED vars => Same) /\ (TickInTime => Tick)
  BY <1>1 DEF vars, TickInTime
<1>3. ASSUME NEW r, NEW ids, NEW mode, NEW anchored, Ask(r, ids, mode, anchored) PROVE Same
  BY <1>3 DEF Ask
<1>4. ASSUME NEW r, \/ LoadMatrix(r) \/ Anchors(r) \/ Unavailable(r) \/ Answered(r)
                    \/ \E failed : Compute(r, failed)
                    \/ \E p : StoreOne(r, p)
      PROVE  Same
  BY <1>1, <1>4 DEF LoadMatrix, Compute, StoreOne, Anchors, Unavailable, Answered
<1>5. ASSUME NEW modes, Invalidate(modes) PROVE Same
  BY <1>5 DEF Invalidate
<1> HIDE DEF Same
<1>6. LibraryNext \/ Tick \/ Same
  BY <1>2, <1>3, <1>4, <1>5 DEF Next
<1> QED
  BY <1>6 DEF Same

(* Both invariants are inductive.                                          *)
LEMMA StepKeeps ==
  ASSUME LibraryInv, StatusInv, [Next]_vars
  PROVE  LibraryInv' /\ StatusInv' /\ OnlyByPatch
<1>1. UNCHANGED <<docs, patcher, raced>> => LibraryInv'
  BY DEF LibraryInv, HoursStayOrdered, PatchesAreChecked, Live
<1> QED
  BY <1>1, LibraryOrNot, LibraryKeeps, StatusKeeps, StepIsByPatch DEF Tick

(* Documents, and what patches and attempts in flight are about to write   *)
(* to them.                                                                *)
THEOREM Invariant == Spec => [](LibraryInv /\ StatusInv)
<1>1. Init => LibraryInv /\ StatusInv
  BY LibraryInitInv, StatusInitInv DEF Init
<1> QED
  BY <1>1, StepKeeps, PTL DEF Spec

(* The comment in find_and_update_place() calls the race of two patches    *)
(* acceptable: this is what it can do at most, whoever else imports,       *)
(* inserts, enriches or deletes places.                                    *)
THEOREM OrderedHours == Spec => []HoursStayOrdered
<1>1. LibraryInv => HoursStayOrdered
  BY DEF LibraryInv
<1> QED
  BY <1>1, Invariant, PTL

(* Neither imports nor enrichments, however late, touch preferences.       *)
THEOREM UsersPreferences == Spec => PreferencesAreTheUsers
<1>1. LibraryInv /\ StatusInv /\ [Next]_vars => [OnlyByPatch]_libraryVars
  BY StepKeeps
<1> QED
  BY <1>1, Invariant, PTL DEF Spec, PreferencesAreTheUsers, OnlyByPatch

(* "Status/error must reflect the last operation actually attempted", for  *)
(* one place and in a batch, also when attempts cross.                     *)
THEOREM LastCallsStatus == Spec => []StatusIsOfTheLastCall
<1>1. StatusInv => StatusIsOfTheLastCall
  BY DEF StatusInv
<1> QED
  BY <1>1, Invariant, PTL

(* The invariant about turns is inductive.                                 *)
LEMMA StepKeepsTurns ==
  ASSUME LibraryInv, StatusInv, TurnInv, MarksAreApart, [Next]_vars
  PROVE  TurnInv'
<1>1. CASE Tick \/ UNCHANGED <<docs, now, stamped, patcher, enricher, batch, raced, turnVars>>
  BY <1>1, OthersTurns
<1>2. CASE LibraryNext
  <2>1. ASSUME NEW item \in Items, Upsert(item) PROVE TurnInv'
    BY <2>1, UpsertDatesNothing
  <2>2. ASSUME NEW c \in Creates, Insert(c) PROVE TurnInv'
    BY <2>2, InsertDatesNothing
  <2>3. ASSUME NEW id \in Ids, DeletePlace(id) PROVE TurnInv'
    BY <2>3, DeleteDatesNothing
  <2>4. ASSUME NEW u \in Patchers, PatchWrite(u) PROVE TurnInv'
    BY <2>4, PatchDatesNothing
  <2>5. ASSUME NEW e \in Enrichers, EnrichWrite(e) PROVE TurnInv'
    BY <2>5, EnrichWriteTurns
  <2>6. ASSUME NEW e \in Enrichers, NEW f1 \in FetchAnswers, NEW f2 \in FetchAnswers,
               NEW s \in SearchAnswers, EnrichBuild(e, f1, s, f2)
        PROVE  TurnInv'
    BY <2>6, EnrichBuildTurns
  <2>7. ASSUME NEW f1 \in FetchAnswers, NEW f2 \in FetchAnswers, NEW s \in SearchAnswers,
               BatchBuild(f1, s, f2)
        PROVE  TurnInv'
    BY <2>7, BatchBuildTurns
  <2>8. CASE BatchRead \/ BatchWrite \/ BatchEnds
    BY <2>8, BatchReadTurns, BatchWriteTurns, BatchEndsTurns
  <2>9. CASE \/ BatchFails
             \/ \E e \in Enrichers : EnrichFails(e) \/ \E id \in Ids : EnrichRead(e, id)
             \/ \E u \in Patchers, id \in Ids, p \in Patches : PatchStart(u, id, p)
    BY <2>9, OthersTurns
  <2> QED
    BY <1>2, <2>1, <2>2, <2>3, <2>4, <2>5, <2>6, <2>7, <2>8, <2>9 DEF LibraryNext
<1> QED
  BY <1>1, <1>2, LibraryOrNot

(* The $sort of fetch_enrichment_candidates(): no place is taken twice     *)
(* while another waits, unless a slower attempt dated it back.             *)
THEOREM FairTurns ==
  ASSUME MarksAreApart
  PROVE  Spec => []TurnsAreFair
<1>1. Init => TurnInv
  BY TurnInitInv DEF Init
<1>2. LibraryInv /\ StatusInv /\ TurnInv /\ [Next]_vars => TurnInv'
  BY StepKeepsTurns
<1>3. TurnInv => TurnsAreFair
  BY DEF TurnInv, Turns
<1> QED
  BY <1>1, <1>2, <1>3, Invariant, PTL DEF Spec

-----------------------------------------------------------------------------
(* What an answer is made of.                                              *)
Fields == {"stage", "mode", "anchored", "asOf", "loaded", "coords", "todo", "failed", "matrix"}

(* Who stored an entry had read the coordinates one flight before at most. *)
Owed(e) == e.at \in Int /\ e.asOf \in Int /\ e.at - e.asOf <= Flight

CacheIsSane == \A k \in Keys : cache[k] # None => Owed(cache[k])

Recent(r) ==
  \A p \in DOMAIN solver[r].matrix :
    /\ solver[r].matrix[p].asOf \in Int
    /\ solver[r].loaded - solver[r].matrix[p].asOf <= Ttl[solver[r].mode] + Flight

SolverIsSane(r) ==
  /\ DOMAIN solver[r] = Fields
  /\ DOMAIN solver[r].coords \subseteq Ids /\ solver[r].mode \in Modes
  /\ solver[r].asOf \in Int /\ solver[r].loaded \in Int
  /\ now - solver[r].asOf <= Flight
  /\ solver[r].stage \in {"load", "compute", "store", "anchors", "answered"}
  /\ solver[r].stage \in {"load", "compute"} =>
       solver[r].matrix = <<>> /\ solver[r].failed = {}
  /\ solver[r].stage \in {"store", "anchors", "answered"} =>
       Recent(r) /\ DOMAIN solver[r].matrix \cup solver[r].failed = Asked(r)
  /\ solver[r].stage = "store" =>
       \A p \in solver[r].todo : p \in DOMAIN solver[r].matrix /\ Owed(solver[r].matrix[p])

SolversAreSane == \A r \in Solvers : solver[r] # None => SolverIsSane(r)

CacheInv ==
  /\ now \in Int
  /\ DOMAIN cache = Keys /\ DOMAIN solver = Solvers
  /\ CacheIsSane
  /\ SolversAreSane

(* A request that does not move stays sane while the clock is not too far  *)
(* ahead of it.                                                            *)
LEMMA WaitingIsSafe ==
  ASSUME NEW r, SolverIsSane(r), solver'[r] = solver[r], now' - solver[r].asOf <= Flight
  PROVE  SolverIsSane(r)'
BY DEF SolverIsSane, Recent, Asked

(* An empty cache and no request.                                          *)
LEMMA CacheInitInv == Init => CacheInv
BY DEF Init, LibraryInit, CacheInv, CacheIsSane, SolversAreSane

(* The library does not touch the cache and the requests in flight.        *)
LEMMA LibraryStepIsSafe ==
  ASSUME CacheInv, UNCHANGED <<now, cacheVars>>
  PROVE  CacheInv'
<1>1. UNCHANGED <<now, cache, solver>>
  BY DEF cacheVars
<1>2. ASSUME NEW r \in Solvers, solver'[r] # None PROVE SolverIsSane(r)'
  BY <1>1, <1>2, WaitingIsSafe DEF CacheInv, SolversAreSane, SolverIsSane
<1> QED
  BY <1>1, <1>2 DEF CacheInv, CacheIsSane, SolversAreSane

(* The clock waits for requests that have been in flight as long as they   *)
(* may.                                                                    *)
LEMMA TickKeeps ==
  ASSUME CacheInv, TickInTime
  PROVE  CacheInv'
<1>1. UNCHANGED <<cache, solver>> /\ now' = now + 1 /\ now \in Int /\ Flight \in Nat
  BY TimesAssumption DEF TickInTime, Tick, cacheVars, CacheInv
<1>2. ASSUME NEW r \in Solvers, solver'[r] # None PROVE SolverIsSane(r)'
  <2>1. SolverIsSane(r) /\ now - solver[r].asOf < Flight /\ solver[r].asOf \in Int
    BY <1>1, <1>2 DEF TickInTime, CacheInv, SolversAreSane, SolverIsSane
  <2>2. now' - solver[r].asOf <= Flight
    BY <1>1, <2>1
  <2> QED
    BY <1>1, <2>1, <2>2, WaitingIsSafe
<1> QED
  BY <1>1, <1>2 DEF CacheInv, CacheIsSane, SolversAreSane

(* One request moves, the cache is as it was.                              *)
LEMMA OneSolver ==
  ASSUME CacheInv, NEW r \in Solvers, NEW job, solver' = [solver EXCEPT ![r] = job],
         UNCHANGED <<now, cache>>, job # None => SolverIsSane(r)'
  PROVE  CacheInv'
<1>1. DOMAIN solver' = Solvers /\ solver'[r] = job
      /\ \A q \in Solvers : q # r => solver'[q] = solver[q]
  BY DEF CacheInv
<1>2. ASSUME NEW q \in Solvers, q # r, solver'[q] # None PROVE SolverIsSane(q)'
  BY <1>1, <1>2, WaitingIsSafe DEF CacheInv, SolversAreSane, SolverIsSane
<1> QED
  BY <1>1, <1>2 DEF CacheInv, CacheIsSane, SolversAreSane

(* A request begins with the coordinates of this moment.                   *)
LEMMA AskKeeps ==
  ASSUME CacheInv, NEW r \in Solvers, NEW ids \in SUBSET Ids, NEW mode \in Modes,
         NEW anchored \in BOOLEAN, Ask(r, ids, mode, anchored)
  PROVE  CacheInv'
<1> DEFINE routable == {id \in ids : Live(id) /\ docs[id].coords # None}
           job == [stage |-> "load", mode |-> mode, anchored |-> anchored, asOf |-> now,
                   loaded |-> now, coords |-> [id \in routable |-> docs[id].coords],
                   todo |-> {}, failed |-> {}, matrix |-> <<>>]
<1>1. solver' = [solver EXCEPT ![r] = job] /\ UNCHANGED <<now, cache>>
  BY DEF Ask
<1>2. solver'[r] = job
  BY <1>1 DEF CacheInv
<1>3. DOMAIN job.coords \subseteq Ids /\ DOMAIN job = Fields
  BY DEF Fields
<1>4. now' - job.asOf <= Flight
  BY <1>1, TimesAssumption DEF CacheInv
<1>5. SolverIsSane(r)'
  BY <1>1, <1>2, <1>3, <1>4 DEF SolverIsSane, CacheInv
<1> HIDE DEF job
<1> QED
  BY <1>1, <1>5, OneSolver

(* Answers of the cache: every pair, and each entry young enough.          *)
LEMMA HitIsRecent ==
  ASSUME CacheInv, NEW r \in Solvers, solver[r] # None, Hit(r), NEW p \in Cached(r)
  PROVE  LET e == cache[<<p[1], p[2], solver[r].mode>>]
         IN  e.asOf \in Int /\ now - e.asOf <= Ttl[solver[r].mode] + Flight
<1> DEFINE k == <<p[1], p[2], solver[r].mode>>
<1>1. SolverIsSane(r)
  BY DEF CacheInv, SolversAreSane
<1>2. p \in Pairs(Ids) /\ solver[r].mode \in Modes
  BY <1>1 DEF Cached, Asked, Pairs, SolverIsSane
<1>3. k \in Keys
  BY <1>2 DEF Keys
<1>4. cache[k] # None /\ cache[k].at >= now - Ttl[solver[r].mode]
  BY DEF Cached
<1>5. Owed(cache[k])
  BY <1>3, <1>4 DEF CacheInv, CacheIsSane
<1> QED
  BY <1>2, <1>4, <1>5, TimesAssumption DEF Owed, CacheInv

(* A hit has every pair, none older than the TTL; a miss has nothing.      *)
LEMMA LoadKeeps ==
  ASSUME CacheInv, NEW r \in Solvers, LoadMatrix(r)
  PROVE  CacheInv'
<1> DEFINE entries == [p \in Cached(r) |-> cache[<<p[1], p[2], solver[r].mode>>]]
           job == solver'[r]
<1>1. SolverIsSane(r) /\ solver[r] # None /\ solver[r].stage = "load"
  BY DEF LoadMatrix, CacheInv, SolversAreSane
<1>2. UNCHANGED <<now, cache>>
  BY DEF LoadMatrix, libraryVars
<1>3. /\ solver' = [solver EXCEPT ![r] = job]
      /\ DOMAIN job = Fields /\ job.loaded = now
      /\ job.coords = solver[r].coords /\ job.mode = solver[r].mode
      /\ job.asOf = solver[r].asOf /\ job.anchored = solver[r].anchored
      /\ job.failed = solver[r].failed /\ job.todo = solver[r].todo
      /\ job.stage = IF Hit(r) \/ Asked(r) = {} THEN After(r) ELSE "compute"
      /\ job.matrix = IF Hit(r) THEN entries ELSE solver[r].matrix
  BY <1>1 DEF LoadMatrix, CacheInv, SolverIsSane, Fields
<1> HIDE DEF job
<1>4. Asked(r)' = Asked(r)
  BY <1>3 DEF Asked, job
<1>5. After(r) \in {"anchors", "answered"}
  BY DEF After
<1>6. solver[r].matrix = <<>> /\ solver[r].failed = {} /\ DOMAIN solver[r].matrix = {}
  BY <1>1 DEF SolverIsSane
<1>7. /\ DOMAIN job.coords \subseteq Ids /\ job.mode \in Modes
      /\ job.asOf \in Int /\ job.loaded \in Int /\ now' - job.asOf <= Flight
  BY <1>1, <1>2, <1>3 DEF SolverIsSane, CacheInv
<1>8. CASE Hit(r)
  <2>1. job.matrix = entries /\ DOMAIN job.matrix = Asked(r) /\ job.stage = After(r)
    BY <1>3, <1>8 DEF Hit
  <2>2. Recent(r)'
    BY <1>3, <1>8, <2>1, HitIsRecent, <1>1 DEF Recent, job, Hit
  <2>3. DOMAIN job.matrix \cup job.failed = Asked(r)
    BY <1>3, <1>6, <2>1
  <2>4. SolverIsSane(r)'
    BY <1>3, <1>4, <1>5, <1>7, <2>1, <2>2, <2>3 DEF SolverIsSane, job
  <2> QED
    BY <1>2, <1>3, <2>4, OneSolver
<1>9. CASE ~Hit(r)
  <2>1. Recent(r)'
    BY <1>3, <1>6, <1>9 DEF Recent, job
  <2> QED
    BY <1>2, <1>3, <1>4, <1>5, <1>6, <1>7, <1>9, <2>1, OneSolver DEF SolverIsSane, job
<1> QED
  BY <1>8, <1>9

(* Computed costs are as old as the request that read the coordinates.     *)
LEMMA ComputeKeeps ==
  ASSUME CacheInv, NEW r \in Solvers, NEW failed, Compute(r, failed)
  PROVE  CacheInv'
<1> DEFINE got == Asked(r) \ failed
           entry(p) == [cost |-> <<solver[r].coords[p[1]], solver[r].coords[p[2]]>>,
                        at |-> now, asOf |-> solver[r].asOf]
           job == solver'[r]
<1>1. SolverIsSane(r) /\ solver[r] # None /\ failed \subseteq Asked(r)
  BY DEF Compute, CacheInv, SolversAreSane
<1>2. UNCHANGED <<now, cache>>
  BY DEF Compute, libraryVars
<1>3. /\ solver' = [solver EXCEPT ![r] = job]
      /\ DOMAIN job = Fields /\ job.loaded = now
      /\ job.coords = solver[r].coords /\ job.mode = solver[r].mode
      /\ job.asOf = solver[r].asOf /\ job.failed = failed /\ job.todo = got
      /\ job.stage = IF got = {} THEN After(r) ELSE "store"
      /\ job.matrix = [p \in got |-> entry(p)]
  BY <1>1 DEF Compute, CacheInv, SolverIsSane, Fields
<1> HIDE DEF job
<1>4. Asked(r)' = Asked(r)
  BY <1>3 DEF Asked, job
<1>5. After(r) \in {"anchors", "answered"}
  BY DEF After
<1>6. /\ DOMAIN job.coords \subseteq Ids /\ job.mode \in Modes
      /\ job.asOf \in Int /\ job.loaded \in Int /\ now' - job.asOf <= Flight
  BY <1>1, <1>2, <1>3 DEF SolverIsSane, CacheInv
<1>7. \A p \in got : Owed(entry(p))
  BY <1>1 DEF Owed, SolverIsSane, CacheInv
<1>8. Recent(r)'
  <2>1. ASSUME NEW p \in DOMAIN job.matrix
        PROVE  job.matrix[p].asOf \in Int
               /\ job.loaded - job.matrix[p].asOf <= Ttl[job.mode] + Flight
    BY <1>1, <1>3, <2>1, TimesAssumption DEF SolverIsSane, CacheInv
  <2> QED
    BY <2>1 DEF Recent, job
<1>9. DOMAIN job.matrix \cup job.failed = Asked(r)
  BY <1>1, <1>3
<1>10. \A p \in job.todo : p \in DOMAIN job.matrix /\ Owed(job.matrix[p])
  BY <1>3, <1>7
<1>11. SolverIsSane(r)'
  BY <1>3, <1>4, <1>5, <1>6, <1>8, <1>9, <1>10 DEF SolverIsSane, job
<1> QED
  BY <1>2, <1>3, <1>11, OneSolver

(* An entry goes into the cache with the age it has in its request.        *)
LEMMA StoreKeeps ==
  ASSUME CacheInv, NEW r \in Solvers, NEW p \in Pairs(Ids), StoreOne(r, p)
  PROVE  CacheInv'
<1> DEFINE k == <<p[1], p[2], solver[r].mode>>
           job == solver'[r]
<1>1. SolverIsSane(r) /\ solver[r] # None /\ solver[r].stage = "store" /\ p \in solver[r].todo
  BY DEF StoreOne, CacheInv, SolversAreSane
<1>2. UNCHANGED now /\ cache' = [cache EXCEPT ![k] = solver[r].matrix[p]]
  BY DEF StoreOne, libraryVars
<1>3. /\ solver' = [solver EXCEPT ![r] = job]
      /\ DOMAIN job = Fields /\ job.loaded = solver[r].loaded
      /\ job.coords = solver[r].coords /\ job.mode = solver[r].mode
      /\ job.asOf = solver[r].asOf /\ job.failed = solver[r].failed
      /\ job.todo = solver[r].todo \ {p} /\ job.matrix = solver[r].matrix
      /\ job.stage = IF solver[r].todo = {p} THEN After(r) ELSE "store"
  BY <1>1 DEF StoreOne, CacheInv, SolverIsSane, Fields
<1> HIDE DEF job
<1>4. Asked(r)' = Asked(r) /\ Recent(r)' = Recent(r)
  BY <1>3 DEF Asked, Recent, job
<1>5. After(r) \in {"anchors", "answered"}
  BY DEF After
<1>6. SolverIsSane(r)'
  BY <1>1, <1>2, <1>3, <1>4, <1>5 DEF SolverIsSane, job
<1>7. CacheIsSane' /\ DOMAIN cache' = Keys
  BY <1>1, <1>2 DEF CacheInv, CacheIsSane, SolverIsSane
<1>8. DOMAIN solver' = Solvers /\ \A q \in Solvers : q # r => solver'[q] = solver[q]
  BY <1>3 DEF CacheInv
<1>9. ASSUME NEW q \in Solvers, q # r, solver'[q] # None PROVE SolverIsSane(q)'
  BY <1>2, <1>8, <1>9, WaitingIsSafe DEF CacheInv, SolversAreSane, SolverIsSane
<1> QED
  BY <1>2, <1>6, <1>7, <1>8, <1>9 DEF CacheInv, SolversAreSane

(* The anchors' call changes nothing of the matrix.                        *)
LEMMA AnchorsKeeps ==
  ASSUME CacheInv, NEW r \in Solvers, Anchors(r)
  PROVE  CacheInv'
<1> DEFINE job == solver'[r]
<1>1. SolverIsSane(r) /\ solver[r] # None /\ solver[r].stage = "anchors"
  BY DEF Anchors, CacheInv, SolversAreSane
<1>2. UNCHANGED <<now, cache>>
  BY DEF Anchors, libraryVars
<1>3. /\ solver' = [solver EXCEPT ![r] = job]
      /\ DOMAIN job = Fields /\ job.loaded = solver[r].loaded
      /\ job.coords = solver[r].coords /\ job.mode = solver[r].mode
      /\ job.asOf = solver[r].asOf /\ job.failed = solver[r].failed
      /\ job.matrix = solver[r].matrix /\ job.stage = "answered"
  BY <1>1 DEF Anchors, CacheInv, SolverIsSane, Fields
<1> HIDE DEF job
<1>4. Asked(r)' = Asked(r) /\ Recent(r)' = Recent(r)
  BY <1>3 DEF Asked, Recent, job
<1>5. SolverIsSane(r)'
  BY <1>1, <1>2, <1>3, <1>4 DEF SolverIsSane, job
<1> QED
  BY <1>2, <1>3, <1>5, OneSolver

(* A request that is answered or refused is forgotten.                     *)
LEMMA LeaveKeeps ==
  ASSUME CacheInv, NEW r \in Solvers, Unavailable(r) \/ Answered(r)
  PROVE  CacheInv'
BY OneSolver DEF Unavailable, Answered, libraryVars

(* Entries only disappear.                                                 *)
LEMMA InvalidateKeeps ==
  ASSUME CacheInv, NEW modes, Invalidate(modes)
  PROVE  CacheInv'
<1>1. UNCHANGED <<now, solver>>
      /\ cache' = [k \in Keys |-> IF k[3] \in modes THEN None ELSE cache[k]]
  BY DEF Invalidate
<1>2. ASSUME NEW r \in Solvers, solver'[r] # None PROVE SolverIsSane(r)'
  BY <1>1, <1>2, WaitingIsSafe DEF CacheInv, SolversAreSane, SolverIsSane
<1> QED
  BY <1>1, <1>2 DEF CacheInv, CacheIsSane, SolversAreSane

-----------------------------------------------------------------------------
(* The invariant is inductive.                                             *)
LEMMA CacheStepKeeps ==
  ASSUME CacheInv, [Next]_vars
  PROVE  CacheInv'
<1>1. CASE LibraryNext /\ UNCHANGED cacheVars
  <2>1. UNCHANGED now
    BY <1>1 DEF LibraryNext, Upsert, Insert, DeletePlace, PatchWrite, PatchStart, EnrichFails,
                EnrichWrite, EnrichRead, EnrichBuild, BatchRead, BatchFails, BatchWrite,
                BatchEnds, BatchBuild
  <2> QED
    BY <1>1, <2>1, LibraryStepIsSafe
<1>2. CASE TickInTime
  BY <1>2, TickKeeps
<1>3. ASSUME NEW r \in Solvers, NEW ids \in SUBSET Ids, NEW mode \in Modes,
             NEW anchored \in BOOLEAN, Ask(r, ids, mode, anchored)
      PROVE  CacheInv'
  BY <1>3, AskKeeps
<1>4. ASSUME NEW r \in Solvers, NEW failed \in SUBSET Pairs(Ids), Compute(r, failed)
      PROVE  CacheInv'
  BY <1>4, ComputeKeeps
<1>5. ASSUME NEW r \in Solvers, NEW p \in Pairs(Ids), StoreOne(r, p) PROVE CacheInv'
  BY <1>5, StoreKeeps
<1>6. ASSUME NEW r \in Solvers, \/ LoadMatrix(r) \/ Anchors(r) \/ Unavailable(r) \/ Answered(r)
      PROVE  CacheInv'
  BY <1>6, LoadKeeps, AnchorsKeeps, LeaveKeeps
<1>7. ASSUME NEW modes, Invalidate(modes) PROVE CacheInv'
  BY <1>7, InvalidateKeeps
<1>8. CASE UNCHANGED vars
  BY <1>8, LibraryStepIsSafe DEF vars, libraryVars, cacheVars
<1> QED
  BY <1>1, <1>2, <1>3, <1>4, <1>5, <1>6, <1>7, <1>8 DEF Next

(* Every entry and every request is dated, and no older than get_matrix()  *)
(* lets it be.                                                             *)
THEOREM CacheInvariant == Spec => []CacheInv
<1>1. Init => CacheInv
  BY CacheInitInv
<1> QED
  BY <1>1, CacheStepKeeps, PTL DEF Spec

(* load_cached_matrix() and store_matrix(): no answer uses coordinates     *)
(* that are older than the lifetime of an entry and one request.           *)
THEOREM BoundedStaleness == Spec => []StalenessIsBounded
<1>1. CacheInv => StalenessIsBounded
  BY DEF CacheInv, SolversAreSane, StalenessIsBounded, Ready, SolverIsSane, Recent
<1> QED
  BY <1>1, CacheInvariant, PTL

(* get_matrix(): an answer has every pair the API has a route              *)
(* for, whatever other requests left in the cache.                         *)
THEOREM NoPairForgotten == Spec => []EveryPairAccounted
<1>1. CacheInv => EveryPairAccounted
  BY DEF CacheInv, SolversAreSane, EveryPairAccounted, Ready, SolverIsSane
<1> QED
  BY <1>1, CacheInvariant, PTL
============================================================================
