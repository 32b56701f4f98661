---------------------------- MODULE MatrixCache ----------------------------
(***************************************************************************)
(* src/optimizer/matrix: travel costs between places, asked of the Routes  *)
(* API and cached in MongoDB, one document per pair and mode, while the    *)
(* handlers of PlaceLibrary move the places.                               *)
(*                                                                         *)
(* A cost is the pair of coordinates it was computed for.  Anchors are     *)
(* asked afresh and never cached: of them only the call that may fail is   *)
(* kept.  The departure time is no part of the key either.                 *)
(***************************************************************************)
EXTENDS PlaceLibrary

CONSTANTS
  Solvers,     \* requests in flight
  Modes, Ttl,  \* transport modes; mode -> how long an entry is served
  Flight       \* bound: how long a request waits for the API and its writes

ASSUME TimesAssumption == Ttl \in [Modes -> Nat] /\ Flight \in Nat

VARIABLES
  cache,   \* <<origin, dest, mode>> -> entry, or None
  solver   \* solver -> its request, or None

cacheVars == <<cache, solver>>
vars == <<libraryVars, cacheVars>>

Pairs(S) == {p \in S \X S : p[1] # p[2]}
Keys == {<<p[1], p[2], m>> : p \in Pairs(Ids), m \in Modes}

(* optimize_route(): the documents are read once; places without           *)
(* coordinates are skipped.                                                *)
Ask(r, ids, mode, anchored) ==
  /\ Spend("solve")
  /\ solver[r] = None
  /\ LET routable == {id \in ids : Live(id) /\ docs[id].coords # None}
     IN /\ routable # {}
        /\ solver' = [solver EXCEPT ![r] =
             [stage |-> "load", mode |-> mode, anchored |-> anchored, asOf |-> now, loaded |-> now,
              coords |-> [id \in routable |-> docs[id].coords],
              todo |-> {}, failed |-> {}, matrix |-> <<>>]]
  /\ UNCHANGED <<docs, now, stamped, patcher, enricher, batch, raced, turnVars, cache>>

Asked(r) == Pairs(DOMAIN solver[r].coords)
After(r) == IF solver[r].anchored THEN "anchors" ELSE "answered"

(* load_cached_matrix(): every pair, none older than the TTL.              *)
(* (Defect: the age of an entry is not looked at.)                         *)
CachedAnyAge(r) ==
  {p \in Asked(r) : cache[<<p[1], p[2], solver[r].mode>>] # None}

Cached(r) ==
  {p \in Asked(r) :
     LET e == cache[<<p[1], p[2], solver[r].mode>>]
     IN e # None /\ e.at >= now - Ttl[solver[r].mode]}

(* (Defect: what is cached is taken, though it does not cover all pairs.)  *)
HitPartly(r) == Cached(r) # {}

Hit(r) == Asked(r) # {} /\ Cached(r) = Asked(r)

LoadMatrix(r) ==
  /\ solver[r] # None /\ solver[r].stage = "load"
  /\ solver' = [solver EXCEPT ![r].loaded = now,
       ![r].stage = IF Hit(r) \/ Asked(r) = {} THEN After(r) ELSE "compute",
       ![r].matrix = IF Hit(r) THEN [p \in Cached(r) |-> cache[<<p[1], p[2], solver[r].mode>>]]
                     ELSE @]
  /\ UNCHANGED <<libraryVars, cache>>

(* compute_matrix(): an error, or a cost for every pair but those the API  *)
(* has no route for.  store_matrix() takes one time for all its entries.   *)
Compute(r, failed) ==
  /\ solver[r] # None /\ solver[r].stage = "compute"
  /\ failed \subseteq Asked(r)
  /\ LET got == Asked(r) \ failed
     IN solver' = [solver EXCEPT
          ![r].stage = IF got = {} THEN After(r) ELSE "store",
          ![r].loaded = now, ![r].todo = got, ![r].failed = failed,
          ![r].matrix = [p \in got |->
             [cost |-> <<solver[r].coords[p[1]], solver[r].coords[p[2]]>>,
              at |-> now, asOf |-> solver[r].asOf]]]
  /\ UNCHANGED <<libraryVars, cache>>

(* One upsert of store_matrix().                                           *)
StoreOne(r, p) ==
  /\ solver[r] # None /\ solver[r].stage = "store" /\ p \in solver[r].todo
  /\ cache' = [cache EXCEPT ![<<p[1], p[2], solver[r].mode>>] = solver[r].matrix[p]]
  /\ solver' = [solver EXCEPT ![r].todo = @ \ {p},
       ![r].stage = IF solver[r].todo = {p} THEN After(r) ELSE @]
  /\ UNCHANGED libraryVars

Anchors(r) ==
  /\ solver[r] # None /\ solver[r].stage = "anchors"
  /\ solver' = [solver EXCEPT ![r].stage = "answered"]
  /\ UNCHANGED <<libraryVars, cache>>

(* The API refuses or raises: MatrixUnavailableError.  Entries already     *)
(* stored stay.                                                            *)
Unavailable(r) ==
  /\ solver[r] # None /\ solver[r].stage \in {"compute", "anchors"}
  /\ solver' = [solver EXCEPT ![r] = None]
  /\ UNCHANGED <<libraryVars, cache>>

Answered(r) ==
  /\ solver[r] # None /\ solver[r].stage = "answered"
  /\ solver' = [solver EXCEPT ![r] = None]
  /\ UNCHANGED <<libraryVars, cache>>

(* DELETE of the cache, of one mode or of all.                             *)
Invalidate(modes) ==
  /\ Spend("invalidate")
  /\ cache' = [k \in Keys |-> IF k[3] \in modes THEN None ELSE cache[k]]
  /\ UNCHANGED <<docs, now, stamped, patcher, enricher, batch, raced, turnVars, solver>>

-----------------------------------------------------------------------------
Init ==
  /\ LibraryInit
  /\ cache = [k \in Keys |-> None]
  /\ solver = [r \in Solvers |-> None]

(* The timeouts of the HTTP client and of the driver.                      *)
TickInTime ==
  /\ \A r \in Solvers : solver[r] # None => now - solver[r].asOf < Flight
  /\ Tick
  /\ UNCHANGED cacheVars

Next ==
  \/ LibraryNext /\ UNCHANGED cacheVars
  \/ TickInTime
  \/ \E r \in Solvers :
       \/ \E ids \in SUBSET Ids, mode \in Modes, anchored \in BOOLEAN : Ask(r, ids, mode, anchored)
       \/ LoadMatrix(r)
       \/ \E failed \in SUBSET Pairs(Ids) : Compute(r, failed)
       \/ \E p \in Pairs(Ids) : StoreOne(r, p)
       \/ Anchors(r) \/ Unavailable(r) \/ Answered(r)
  \/ \E modes \in {{m} : m \in Modes} \cup {Modes} : Invalidate(modes)

Spec == Init /\ [][Next]_vars

-----------------------------------------------------------------------------
Ready(r) == solver[r] # None /\ solver[r].stage = "answered"

(* Keys know nothing of coordinates, so a place that moved is served with  *)
(* old costs, but not for ever: those in an answer are for where the two   *)
(* places were at most the TTL and one flight before the answer's entries  *)
(* were looked up or computed.                                             *)
StalenessIsBounded ==
  \A r \in Solvers : Ready(r) =>
    \A p \in DOMAIN solver[r].matrix :
      solver[r].loaded - solver[r].matrix[p].asOf <= Ttl[solver[r].mode] + Flight

(* A pair is missing from an answer only when the API had no route for it  *)
(* in the answer's own call; half a matrix left in the cache by a request  *)
(* in flight or by a call with gaps is not served.                         *)
EveryPairAccounted ==
  \A r \in Solvers : Ready(r) =>
    DOMAIN solver[r].matrix \cup solver[r].failed = Asked(r)
=============================================================================
