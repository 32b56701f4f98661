---------------------------- MODULE PlaceLibrary ----------------------------
(***************************************************************************)
(* src/gmaps: the places of the library, one MongoDB document each, and    *)
(* the handlers that write them: the import of a scraped list, the tool    *)
(* that inserts a place, the patch of preferences, deletion, and the       *)
(* enrichment from the Places API, for one place or for a batch.           *)
(*                                                                         *)
(* MongoDB applies each write to one document at once; between a handler's *)
(* read and its write any other handler may run.  Of a document, the       *)
(* fields are kept that a handler decides on; lat and lng are one field.   *)
(***************************************************************************)
EXTENDS Integers, Sequences, FiniteSets, SequencesExt

CONSTANTS
  Ids,                \* ObjectIds, never used twice
  Items, Creates,     \* what the scraper and insert_place() may be given
  Patches,            \* payloads of PATCH: field -> hour, or None to clear it
  Found,              \* usable details the Places API may answer
  Patchers, Enrichers, Limit,  \* requests in flight; places of a batch
  Backoff,            \* 24 hours
  Budgets,            \* bound: requests of each kind, and ticks of the clock,
                      \* one choice per behaviour
  None, Empty,        \* null; {}
  Missing,            \* the field is not there
  Unborn, Gone        \* no document yet, or not any more

VARIABLES
  docs,      \* id -> document
  now,       \* the clock
  stamped,   \* the time of the last attempt to enrich: no two have the same
  patcher,   \* patcher -> the patch it is about to write, or None
  enricher,  \* enricher -> the place it read and the update it built, or None
  batch,     \* POST /enrich: the places picked and the updates built, or None
  left,      \* requests of each kind and ticks still to come
  raced,     \* history: places whose last patch was checked against other hours
  late,      \* history: places a slower attempt has dated back
  passed     \* history: p -> q -> batches that took q and left p since p's last turn

turnVars == <<late, passed>>
libraryVars == <<docs, now, stamped, patcher, enricher, batch, left, raced, turnVars>>

Ordered(from, to) == None \notin {from, to} => from < to

(* What the validators let through (PlaceCreate and PlacePatch in          *)
(* models.py); a scraped place has no preferences and no status; $limit    *)
(* must be positive.                                                       *)
ASSUME ItemsAssumption ==
  \A item \in Items : DOMAIN item \subseteq {"url", "name", "address", "gid", "coords"}
ASSUME CreatesAssumption == \A c \in Creates : Ordered(c.from, c.to)
ASSUME PatchesAssumption ==
  \A p \in Patches :
    /\ DOMAIN p \subseteq {"from", "to"}
    /\ DOMAIN p = {"from", "to"} => Ordered(p.from, p.to)
ASSUME BatchAssumption == IsFiniteSet(Ids) /\ Limit \in Nat \ {0}
ASSUME NoneAssumption == None \notin Int

Live(id) == docs[id] \notin {Unborn, Gone}
Spend(kind) == left[kind] > 0 /\ left' = [left EXCEPT ![kind] = @ - 1]

-----------------------------------------------------------------------------
(* upsert_places(): one UpdateOne(key, {"$set": doc}, upsert=True).  The   *)
(* index on maps_url is unique and sparse: a document without the field is *)
(* not in it, one whose field is null is.                                  *)
KeyOf(item) == IF item.url # None THEN {"url"} ELSE {"name", "address"}
Matches(id, item) == Live(id) /\ \A f \in KeyOf(item) : docs[id][f] = item[f]

UrlFree(id, url) == \A other \in Ids \ {id} : Live(other) => docs[other].url # url

Fresh(url, name, address, gid, coords, from, to) ==
  [url |-> url, name |-> name, address |-> address, gid |-> gid, coords |-> coords,
   from |-> from, to |-> to, status |-> None, at |-> None, last |-> None]

Upsert(item) ==
  /\ Spend("import")
  /\ \E id \in Ids :
       /\ UrlFree(id, item.url)
       /\ \/ /\ Matches(id, item)
             /\ docs' = [docs EXCEPT ![id] =
                  [f \in DOMAIN @ |-> IF f \in DOMAIN item THEN item[f] ELSE @[f]]]
          \/ /\ \A other \in Ids : ~Matches(other, item)
             /\ docs[id] = Unborn
             /\ docs' = [docs EXCEPT ![id] =
                  Fresh(item.url, item.name, item.address, item.gid, item.coords, None, None)]
  /\ UNCHANGED <<now, stamped, patcher, enricher, batch, raced, turnVars>>

(* insert_place(): None fields are left out of the document.               *)
Insert(c) ==
  /\ Spend("insert")
  /\ \E id \in Ids :
       /\ docs[id] = Unborn
       /\ docs' = [docs EXCEPT ![id] =
            Fresh(Missing, c.name, c.address, None, c.coords, c.from, c.to)]
  /\ UNCHANGED <<now, stamped, patcher, enricher, batch, raced, turnVars>>

DeletePlace(id) ==
  /\ Spend("delete")
  /\ Live(id)
  /\ docs' = [docs EXCEPT ![id] = Gone]
  /\ UNCHANGED <<now, stamped, patcher, enricher, batch, raced, turnVars>>

-----------------------------------------------------------------------------
(* find_and_update_place(): a patch of one bound is checked against the    *)
(* other bound as stored, then written.                                    *)
OneSided(p) == DOMAIN p # {"from", "to"} /\ {p[f] : f \in DOMAIN p} # {None}

Patched(doc, p) == [f \in DOMAIN doc |-> IF f \in DOMAIN p THEN p[f] ELSE doc[f]]

(* (Defect: only what the payload itself says is checked.)                 *)
CheckedPayloadOnly(id, p) ==
  OneSided(p) => Live(id) /\ Ordered(IF "from" \in DOMAIN p THEN p.from ELSE None,
                                     IF "to" \in DOMAIN p THEN p.to ELSE None)

Checked(id, p) ==
  OneSided(p) => Live(id) /\ Ordered(Patched(docs[id], p).from, Patched(docs[id], p).to)

PatchStart(u, id, p) ==
  /\ Spend("patch")
  /\ patcher[u] = None
  /\ docs[id] # Unborn
  /\ Checked(id, p)
  /\ patcher' = [patcher EXCEPT ![u] =
       [id |-> id, patch |-> p,
        read |-> IF OneSided(p) THEN <<docs[id].from, docs[id].to>> ELSE <<>>]]
  /\ UNCHANGED <<docs, now, stamped, enricher, batch, raced, turnVars>>

PatchWrite(u) ==
  /\ patcher[u] # None
  /\ LET id == patcher[u].id
     IN IF Live(id)
        THEN /\ docs' = [docs EXCEPT ![id] = Patched(@, patcher[u].patch)]
             /\ raced' = IF patcher[u].read \in {<<>>, <<docs[id].from, docs[id].to>>}
                         THEN raced \ {id} ELSE raced \cup {id}
        ELSE UNCHANGED <<docs, raced>>
  /\ patcher' = [patcher EXCEPT ![u] = None]
  /\ UNCHANGED <<now, stamped, enricher, batch, left, turnVars>>

-----------------------------------------------------------------------------
(* build_enrichment_update(): the stored id is asked when it looks like an *)
(* id of the Places API; without usable details the place is searched by   *)
(* name, and the id that was found is asked.                               *)
FetchAnswers ==
  [details : Found \cup {Empty}, status : {"OK"}]
    \cup [details : {None}, status : {"FETCH_FAILED", None}]
SearchAnswers == {[id |-> "ChI", status |-> "OK"], [id |-> None, status |-> "SEARCH_FAILED"]}

Or(a, b) == IF a # None THEN a ELSE b

(* (Defect: the status of a fetch hides the one of a failed search.)       *)
FinalStatusOfFetch(usable, found, fetched, searched) == Or(fetched, searched)

FinalStatus(usable, found, fetched, searched) ==
  IF usable THEN fetched ELSE IF found THEN Or(fetched, searched) ELSE Or(searched, fetched)

Enrichment(gid, f1, s, f2) ==
  LET first == IF gid = "ChI" THEN f1 ELSE [details |-> None, status |-> None]
      searched == first.details \in {None, Empty}
      found == searched /\ s.id # None
      fetched == IF found THEN f2 ELSE first
      usable == fetched.details \notin {None, Empty}
  IN [status |-> FinalStatus(usable, found, fetched.status, IF searched THEN s.status ELSE None),
      at |-> now,
      gid |-> IF found THEN s.id ELSE None,
      details |-> IF usable THEN fetched.details ELSE None,
      \* what the last call answered
      last |-> IF searched /\ ~found THEN s.status ELSE fetched.status]

(* {"$set": update_fields}: an id or details only when there are any, and  *)
(* coordinates only when the details have them.                            *)
(* (Defect: only an attempt that got details is dated.)                    *)
EnrichedDatedWhenFound(read, current, u) ==
  [current EXCEPT !.status = u.status, !.last = u.last, !.gid = Or(u.gid, @),
     !.at = IF u.details = None THEN @ ELSE u.at,
     !.address = IF u.details = None THEN @ ELSE u.details.address,
     !.coords = IF u.details = None THEN @ ELSE Or(u.details.coords, @)]

(* (Defect: the document is stored as it was read.)                        *)
EnrichedWhole(read, current, u) ==
  [read EXCEPT !.status = u.status, !.at = u.at, !.last = u.last, !.gid = Or(u.gid, @),
     !.address = IF u.details = None THEN @ ELSE u.details.address,
     !.coords = IF u.details = None THEN @ ELSE Or(u.details.coords, @)]

Enriched(read, current, u) ==
  [current EXCEPT !.status = u.status, !.at = u.at, !.last = u.last, !.gid = Or(u.gid, @),
     !.address = IF u.details = None THEN @ ELSE u.details.address,
     !.coords = IF u.details = None THEN @ ELSE Or(u.details.coords, @)]

(* One place gets the outcome of an attempt, and has had its turn.         *)
Stamp(id, read, update) ==
  IF Live(id)
  THEN /\ docs' = [docs EXCEPT ![id] = Enriched(read, @, update)]
       /\ late' = IF docs[id].at # None /\ docs[id].at > update.at THEN late \cup {id} ELSE late
       /\ passed' = [passed EXCEPT ![id] = [q \in Ids |-> 0]]
  ELSE UNCHANGED <<docs, turnVars>>

EnrichRead(e, id) ==
  /\ Spend("enrich")
  /\ enricher[e] = None /\ Live(id)
  /\ enricher' = [enricher EXCEPT ![e] = [id |-> id, read |-> docs[id], update |-> None]]
  /\ UNCHANGED <<docs, now, stamped, patcher, batch, raced, turnVars>>

EnrichBuild(e, f1, s, f2) ==
  /\ enricher[e] # None /\ enricher[e].update = None
  /\ stamped < now /\ stamped' = now
  /\ enricher' = [enricher EXCEPT ![e].update = Enrichment(enricher[e].read.gid, f1, s, f2)]
  /\ UNCHANGED <<docs, now, patcher, batch, left, raced, turnVars>>

(* A call of the API raises: nothing is written.                           *)
EnrichFails(e) ==
  /\ enricher[e] # None /\ enricher[e].update = None
  /\ enricher' = [enricher EXCEPT ![e] = None]
  /\ UNCHANGED <<docs, now, stamped, patcher, batch, left, raced, turnVars>>

EnrichWrite(e) ==
  /\ enricher[e] # None /\ enricher[e].update # None
  /\ Stamp(enricher[e].id, enricher[e].read, enricher[e].update)
  /\ enricher' = [enricher EXCEPT ![e] = None]
  /\ UNCHANGED <<now, stamped, patcher, batch, left, raced>>

-----------------------------------------------------------------------------
(* fetch_enrichment_candidates(): places with an id and no address, except *)
(* those whose attempt failed less than 24 hours ago, never attempted ones *)
(* first, then the stalest; equals in any order.                           *)
RecentFailure(doc) ==
  doc.at # None /\ doc.status \notin {None, "OK"} /\ doc.at >= now - Backoff

Candidates ==
  {id \in Ids : Live(id) /\ docs[id].gid # None /\ docs[id].address = None
                  /\ ~RecentFailure(docs[id])}

Before(p, q) ==
  docs[q].at # None /\ (docs[p].at = None \/ docs[p].at < docs[q].at)

Picks(queue) ==
  /\ \A i, j \in DOMAIN queue : i < j => queue[i] # queue[j] /\ ~Before(queue[j], queue[i])
  /\ \A p \in Candidates \ ToSet(queue), i \in DOMAIN queue : ~Before(p, queue[i])

BatchRead ==
  /\ Spend("batch")
  /\ batch = None
  /\ LET n == IF Cardinality(Candidates) < Limit THEN Cardinality(Candidates) ELSE Limit
     IN \E queue \in {s \in [1..n -> Candidates] : Picks(s)} :
          batch' = [queue |-> queue, read |-> [i \in DOMAIN queue |-> docs[queue[i]]],
                    waiting |-> {<<p, docs[p].at>> : p \in Candidates \ ToSet(queue)},
                    updates |-> <<>>, written |-> 0]
  /\ UNCHANGED <<docs, now, stamped, patcher, enricher, raced, turnVars>>

Building == batch # None /\ batch.written = 0 /\ Len(batch.updates) < Len(batch.queue)

BatchBuild(f1, s, f2) ==
  /\ Building
  /\ stamped < now /\ stamped' = now
  /\ batch' = [batch EXCEPT !.updates =
       Append(@, Enrichment(batch.read[Len(@) + 1].gid, f1, s, f2))]
  /\ UNCHANGED <<docs, now, patcher, enricher, left, raced, turnVars>>

BatchFails ==
  /\ Building
  /\ batch' = None
  /\ UNCHANGED <<docs, now, stamped, patcher, enricher, left, raced, turnVars>>

(* bulk_update_enrichment(): the updates reach the documents one by one.   *)
BatchWrite ==
  /\ batch # None /\ ~Building /\ batch.written < Len(batch.queue)
  /\ LET i == batch.written + 1
     IN Stamp(batch.queue[i], batch.read[i], batch.updates[i])
  /\ batch' = [batch EXCEPT !.written = @ + 1]
  /\ UNCHANGED <<now, stamped, patcher, enricher, left, raced>>

BatchEnds ==
  /\ batch # None /\ batch.written = Len(batch.queue)
  /\ passed' = [p \in Ids |->
       IF Live(p) /\ <<p, docs[p].at>> \in batch.waiting
       THEN [q \in Ids |-> IF q \in ToSet(batch.queue) THEN passed[p][q] + 1 ELSE passed[p][q]]
       ELSE passed[p]]
  /\ batch' = None
  /\ UNCHANGED <<docs, now, stamped, patcher, enricher, left, raced, late>>

-----------------------------------------------------------------------------
Tick ==
  /\ Spend("tick")
  /\ now' = now + 1
  /\ UNCHANGED <<docs, stamped, patcher, enricher, batch, raced, turnVars>>

LibraryInit ==
  /\ docs = [id \in Ids |-> Unborn]
  /\ now = 1 /\ stamped = 0
  /\ patcher = [u \in Patchers |-> None]
  /\ enricher = [e \in Enrichers |-> None]
  /\ batch = None
  /\ left \in Budgets
  /\ raced = {}
  /\ late = {}
  /\ passed = [p \in Ids |-> [q \in Ids |-> 0]]

LibraryNext ==
  \/ \E item \in Items : Upsert(item)
  \/ \E c \in Creates : Insert(c)
  \/ \E id \in Ids : DeletePlace(id)
  \/ \E u \in Patchers :
       PatchWrite(u) \/ \E id \in Ids, p \in Patches : PatchStart(u, id, p)
  \/ \E e \in Enrichers :
       \/ EnrichFails(e) \/ EnrichWrite(e)
       \/ \E id \in Ids : EnrichRead(e, id)
       \/ \E f1, f2 \in FetchAnswers, s \in SearchAnswers : EnrichBuild(e, f1, s, f2)
  \/ BatchRead \/ BatchFails \/ BatchWrite \/ BatchEnds
  \/ \E f1, f2 \in FetchAnswers, s \in SearchAnswers : BatchBuild(f1, s, f2)

-----------------------------------------------------------------------------
(* The comment in find_and_update_place(): "The read-then-update pair is   *)
(* not atomic, which is acceptable".  Preferred hours are in order unless  *)
(* the stored hours changed between the check of the last patch and its    *)
(* write; the next patch puts them in order again.                         *)
HoursStayOrdered ==
  \A id \in Ids \ raced : Live(id) => Ordered(docs[id].from, docs[id].to)

(* Only a patch changes the preferences of a place, neither a new import   *)
(* of its list nor an enrichment that read the document long before.       *)
PreferencesAreTheUsers ==
  [][\A id \in Ids :
       Live(id) /\ Live(id)' /\ <<docs[id].from, docs[id].to>>' # <<docs[id].from, docs[id].to>>
         => \E u \in Patchers : patcher[u] # None /\ patcher[u].id = id /\ patcher'[u] = None]_libraryVars

(* "Status/error must reflect the last operation actually attempted": the  *)
(* stored status is what the last call of that attempt answered; only when *)
(* that was an error without a status it is another call's.                *)
StatusIsOfTheLastCall ==
  \A id \in Ids : Live(id) /\ docs[id].last # None => docs[id].status = docs[id].last

(* "the stalest data is refreshed first": batches that end, one at a time, *)
(* do not take the same place twice while another candidate waits, whoever *)
(* imports, enriches or deletes places meanwhile; only when an attempt     *)
(* overwrote the date of a newer one it may be taken again at once.        *)
TurnsAreFair == \A p \in Ids, q \in Ids \ late : passed[p][q] <= 1
=============================================================================
