# A verification project for the travel planner

TLA+ models of the stateful core of this repository, model-checked with TLC and,
for eight of the nine modules, proved about with TLAPS. Paths are relative to the repository
(`src/...` here is the Python package, `apps/...` the frontends, `docs/...` the ADRs).

Contents: [the system](#1-the-system) · [the plan](#2-the-plan) ·
[modules and code](#3-modules-and-code) · [runs](#4-runs) · [findings](#5-what-the-violation-runs-show) ·
[proofs](#6-proofs) · [what is not modelled](#7-what-is-not-modelled)

## 1. The system

A FastAPI service that collects places, computes day and multi-day itineraries,
stores them with their history, and lets a language model edit them in a chat,
behind a confirmation. A SvelteKit frontend is its main client.

| Component | State | Operations | Interacts with |
|---|---|---|---|
| Trips repository `src/trips/repository.py` | tables `trips`, `trip_revisions` | save, update (CAS), delete, get, list, get/restore revision, import baseline | adapter (SQL); called by router, editor, chat tools, migration |
| Database adapter `src/core/turso/adapter.py` | one connection, `asyncio.Lock`, one worker thread | `execute`, `transaction` | SQLite / libSQL driver |
| Schema, migration marker `src/core/turso`, `src/config/lifespan.py` | `user_version`, `app_migrations` | apply schema, mark complete, gate start-up | adapter |
| Migration script `scripts/migrate_trips_to_turso.py` | none of its own; Mongo `trips` read only | import loop, verification, stamp marker | repository |
| Trip editing `src/trips/editing` | none (pure), plus one read and one CAS | apply a batch of operations, re-optimise, save | repository, trip optimizer |
| Chat gate `src/orchestrator` | checkpoints, `orchestrator_thread_trip_state` (binding, pending) | chat turn, resume, cancel; write and read tools | editor, repository, places, language model |
| Day optimizer `src/optimizer/solver/service.py`, `engine.py` | none between calls | time windows, priority tiers, nearest neighbour, 2-opt, schedule | distance matrix |
| Trip optimizer `src/optimizer/solver/multi_day_service.py` | none between calls | anchors, windows of transition days, partition of places, one or two day requests a day | day optimizer, accommodations, transfers |
| Distance matrix `src/optimizer/matrix` | cache collection | load, compute, store, invalidate | Google Routes |
| Places library `src/gmaps` | places collection | import, enrich, patch, delete | Google Places, scraper |
| Authentication `src/core/auth.py` | key set cache | get, forced refresh | Auth0 |
| Chat state `apps/frontend/src/lib/state/chat.svelte.ts` | session, proposal card, stream | send, confirm, cancel, switch trip | chat endpoint |

### Which behaviour is hard

* **Shared connection.** All requests share one DB-API connection. A transaction is
  several awaits; a task can be cancelled at each of them, and asyncio drops a queued
  job but cannot stop a running one.
* **Check and act apart.** `restore_revision`, `list_revisions` and
  `import_migration_baseline` read outside the transaction that writes; the chat editor
  reads, optimises for seconds, then writes; the chat binding remembers a revision across
  turns.
* **Confirmation over an unreliable stream.** The proposal a user sees, the interrupt in the
  checkpoint and the armed scope document are three copies that one cut stream can separate.
* **Search with fallbacks.** The optimizer tries several candidate sets, starts and swaps;
  each place must end up in the plan or be given exactly one reason, whichever attempt wins.
* **A cutover by hand.** The migration script trusts its operator: nothing in it asks whether the old
  application still writes, whether another run is alive, or whether the new application has started.
* **Read, ask a slow service, write.** Enrichment, the distance matrix and the trip editor write results
  computed from documents read long before.
* **Boundaries.** Midnight, opening periods with gaps, zero-length windows around transfers.

### What makes each component correct

* *Repository*: the current row is always backed by its history row; a history has no gap or
  fork and never changes; no update is lost; a restore copies what its target really is.
* *Adapter*: a block commits both its writes or neither, unless its rollback is lost; what was acknowledged is durable;
  no other statement gets between a block's writes; every request ends and frees the lock.
* *Chat gate*: only what the user was shown and confirmed is written, once, and an edit
  only on the revision the model had in its prompt.
* *Day optimizer*: the plan can be walked, hours and the day's end hold, must-sees have priority,
  every place is accounted for.
* *Trip optimizer*: every place has one outcome, budgets of transition days hold, the
  days connect at the accommodations, every derived day request is acceptable.
* *Migration*: the marker vouches for every legacy document; nothing is overwritten, lost or revived by a
  cutover in the documented order; an undisturbed run gets through, wherever earlier ones died.
* *Trip editor*: a batch is applied whole to what the user saw, or not at all; what is reported is true.
* *Matrix cache*: an answer has every pair there is a route for, none older than the cache may be.
* *Places library*: preferences are the user's and in order; a status belongs to the attempt it is stored with;
  batches take turns.

The full list of hazards, each at its line, is in `PROJECT.json`.

## 2. The plan

In order of importance; all of the first eight are done.

1. `TripStore` (abstract) and `TripRepository`: histories, compare-and-set, restore, import; refinement and proofs.
2. `TripConnection`: what a transaction is worth under cancellation and failures; proofs.
3. `ChatGate`: the confirmation gate of one thread; proofs.
4. `DayPlanner`: `optimize_route`; proofs of all its properties.
5. `TripPlanner`: `optimize_trip`; proofs about the calls it makes.
6. `TripEditor`: `MultiDayTripEditor.apply()` with every operation of a batch; proofs.
7. `TripMigration`: the script between Mongo and the trips database, the marker, the start-up gate; proofs.
8. `PlaceLibrary`, and `MatrixCache` which extends it: places that move under cached costs; proofs of both.

Left, should the code grow there: the frontend's context switches and streaming flag (display only at
present), the expiry of checkpoints, a second schema version.

`MatrixCache` composes with `PlaceLibrary` (its next-state relation contains the library's). The other modules stand
for one component each; where one needs another it takes it at its word, and the word is checked where it is given:
`TripRepository` takes a transaction as one step (`TripConnection`), `ChatGate`, `TripEditor` and `TripMigration` take
update, delete and import as compare-and-set and insert (`TripRepository`), `TripPlanner` takes a day's answer as any
partition of its places (`EveryPlaceAccounted` of `DayPlanner`), `DayPlanner` takes any matrix (`EveryPairAccounted` of
`MatrixCache`).

## 3. Modules and code

Every definition that models code is listed in `PROJECT.json` under `map` with its file and lines.
A definition whose comment starts with "(Defect: ...)" is not part of any model: it is a plausible
bug, used to see that a property notices it.

### TripRepository (with TripStore, MCTripRepository, TripRepositoryProofs)

`trips` and `revisions` are the two tables, a snapshot being a value whose equality stands
for equality of `snapshot_hash` and which has a plan type. `req[c]` is what a client's request
holds across an await. A `transaction()` block or a single autocommit statement is one step
(`TripConnection` examines when that is true). `Save`, `UpdateRefused` / `UpdateNoOp` / `UpdateWrites`,
`Delete`, `Get` and `GetRevision` are one step each; `ListReadCurrent` then `ListReadRows`,
`RestoreRefused`, `RestoreReadTrip`, `RestoreReadTarget`, `RestoreCommits` or `RestoreCasMiss`, and the three `Import` steps are the
methods with several awaits. `Abandon` is a process exit, a cancellation or a database error between
two awaits. `view[c]` is the last answer that reached a client, which may be lost (`Answered`);
`serving` is the write freeze of ADR-21, opened once the marker is stamped (`OpenWrites`).
`basis` is auxiliary: what the author of a revision had seen.

`TripStore` is the promise without tables or requests: one history and one head a trip, with create,
migrate, edit, revert, remove. `ImplementsTripStore` maps `history` to `trip_revisions` and `head` to
the current row's revision.

### TripConnection

Two kinds of request: an autocommit read and a block of two writes. `pc[c]` is what a task awaits,
`answer[c]` the outcome of its job; `queue`/`running` are the executor; `owner`/`pending`/`committed`
are SQLite's side. A job carries the block it belongs to. `Acquire`, `ResumeOk`, `ResumeError` follow `execute` and
`transaction` await by await; `CancelWaiting`, `CancelInBody`, `CancelOutsideBody` are `CancelledError` at the lock, in the
`try`, and at the awaits outside it. SQLite, the executor and asyncio's cancellation are external:
a queued job is dropped, a running one finishes unobserved, BEGIN in an open transaction is refused.
Any statement may fail, a ROLLBACK or COMMIT included (`WorkerFails`); a body that raises before its first write is rolled back, one that
returns without a write (404, nothing to change) is committed empty (`close`). `unrolled` is auxiliary: the blocks whose ROLLBACK failed
or was dropped from the queue by a cancellation.

### ChatGate

One thread. `served[h]` is the coroutine of one HTTP request, with one step between two awaits: cancel
the pending call, clear the scope, bind, run the graph, arm, propose. `binding` and `pending` are the
two parts of the scope document, `thread` the newest checkpoint, `shown` the card on screen,
`reader` the stream the frontend reads. `Disconnect` cuts the stream anywhere; `EditElsewhere`
is another client's update; `CancelFails` and `Refuse` are the fail-closed paths. `WriteTrip` (an edit or a
revert) and `WritePlace` may also refuse their arguments and write nothing. What the model calls is any
set of write calls. `Repeat` is a confirmation that arrives again, from a retry or a second tab: the endpoint asks for no
card and no call. `AnswersFirst` and `Resends` restrict the client, not the code: the first is TRUE where the user
answers a card before typing again, the second FALSE where a confirmation is sent once. `overlapped` is auxiliary: two requests were served at once.

### DayPlanner (with MCDayPlanner, DayPlannerProofs)

`optimize_route` as a sequence of deterministic steps with the loops of the code: `Filter`,
`GetMatrix`, `BeginTier`, `BeginStart`, `Extend`, `NothingMore`, `EndStart`, `EndTier`, `TiersExhausted`, `Swap`,
`Finish`. Nondeterminism remains where the code has it: `unvisited` is a Python set, so ties between equally
near places are broken either way. `Swap` takes the first improving reversal in the order of the code's two loops. Times are whole hours; the code computes in seconds but only adds and compares
them, except that `seconds_to_time` wraps at 24, which is kept. `ValidRequest` is what the validators of `OptimizeRequest` and of the stored
places let in; a request may name a place several times (`copies`), which nothing forbids or removes: the solver works on a set, and what is
skipped is then listed once or as often as it was named (`Entries`), depending on the list it is skipped from; `HoursAssumption` is the precondition of `TimeWindow.from_segments` ("Segments must be non-overlapping", models.py:55), which nothing
in the code checks of the hours Google sends: only `StopsWhenNothingFits` needs it, where `close_s` is the latest closing time
because the segments lie apart. Schedules and travel times are recursive functions over the positions of a route.

### TripPlanner (with MCTripPlanner, TripPlannerProofs)

`_partition_places` packs one place a step (`PackPinned`, `PackUnpinned`, in the order of the code), then
`optimize_trip` derives and issues one day request a step (`Solve`), or none (`NothingToSolve`), or fails with
the matrix (`SolveFails`). The answer of a day request is any split of its places into visited and
skipped. `ValidRequest`, here and in `DayPlanner`, is what the validators of the request models let in; TLC
checks it of every instance. Places and stays lie on a line (`Distance`), enough to tell nearer from farther and a tie.

### TripEditor (with MCTripEditor, TripEditorProofs)

`Load` is the read, the three checks and `apply_operations()`, which has no await: `StaysAfter` (stays, by selectors
counted before the batch), `InOrder` over `Refused`/`Handled` (the other operations in turn), `Orphaned` (transfers that lost
their changeover), `Valid` (the validators, once). Then `Optimize` (seconds, or no matrix), `Persist` (compare-and-set),
`Recheck` (deleted, or moved on?). `Save` and `Delete` are the pages of the frontend. A request is a record of places with
their slots, days, mode, stays and transfers; a stay's coordinates go with its name. What is computed of a plan is left to
`TripPlanner`. An edit may be stored without a change of the
request (the code compares name, plan and request together), so `Persist` and `Save` may advance the revision with the request as it was.

### TripMigration (with TripMigrationProofs)

`source` is Mongo, `trips` and `baselines` the current and the MIGRATION rows, `marker` the row of `app_migrations`. `run[s]` is a
run of the script: `Fetch` (one batch of the sorted cursor, of any size), `Take`, `ImportReadsTrip`, `ImportCommits` (the three
statements of `import_migration_baseline` on each document), `ScanEnds`, `Verify` (one document a step), `Judge`, `Stamp`. `Kill` may come
anywhere and several runs may be alive. `LegacyEdit`, `LegacyDelete`, `Freeze` are the old application, `StartApp` the gate
of `lifespan.py`, `Update` and `Delete` the new application. The script checks nothing about the order of these, so the
properties say what they need: `marker.fresh` (the stamping run began after the freeze) or `rollout` (the operator kept to the order of
README and ADR-21: freeze, run, start). A document may lack the field `revision`, which keeps its number at 0 however it is edited.

### PlaceLibrary and MatrixCache (with MCMatrixCache, PlaceLibraryProofs)

`docs` are the places, each write to one of them atomic as in MongoDB. `Upsert`, `Insert` and `DeletePlace` are one
step; `PatchStart`/`PatchWrite`, `EnrichRead`/`EnrichBuild`/`EnrichWrite` and `BatchRead`/`BatchBuild`/`BatchWrite`/`BatchEnds` are handlers with awaits,
which another handler may come between; `EnrichFails` and `BatchFails` are calls that raise. `Enrichment` is the chain of calls of
`build_enrichment_update()` for every combination of answers; `Candidates` and `Picks` are the aggregation of
`fetch_enrichment_candidates()`. `raced`, `late`, `passed` are histories that only properties look at.

`MatrixCache` adds `cache` and the requests of `optimize_route` (`Ask`, `LoadMatrix`, `Compute`, `StoreOne` entry by entry, `Anchors`, and
`Unavailable` or `Answered`), and `Invalidate`. A cost is the pair of coordinates it was computed for, with the time they were read.

Facts of this code the model contains although no document promises otherwise: an import resets address, Places id and coordinates of a
place it finds again; the unique index on `maps_url` is sparse but not for a field that is null, so one list with a
place without URL uses it up (`UrlFree`); a call that raises loses the whole batch; a slow enrichment of one place overwrites
a newer date, so the place may be picked again at once (`late`); the departure time is no part of the cache key.

## 4. Runs

| Run | Checks | Instance |
|---|---|---|
| `TripRepository` | types, `CurrentIsBacked`, `HistoryIsWellFormed`, `SeenStaysTrue`, `NoLostUpdate`, `ListingCoversCurrent`, refinement of `TripStore` | 2 clients, 2 trips (one legacy at revision 1), 3 snapshots of 2 plan types, revisions 0..2; 536 583 states |
| `TripConnection` | `OnlyUnrolledIsHalf`, `BodyIsAlone`, `AckedIsDurable`, `EveryRequestEnds` | 2 tasks, 2 requests each; one cancellation a request and 2 failing statements of any kind; 242 853 states |
| `ChatGate` | `ShownIsPending`, `OnlyConfirmedIsWritten`, `NoStaleEdit` | one request at a time, 3 write calls, revisions 0..2; 456 256 states |
| `ChatGateTwo` | `WrittenOnce` | 2 requests interleaved, confirmations repeated, 2 write calls; 4 158 384 states up to symmetry |
| `DayPlanner` | `EveryPlaceAccounted`, `PlanIsFeasible`, `MustSeeGuarantee`, `StopsWhenNothingFits`, `TwoOptKeepsTheEnds` | 3 places, one named once or twice, 7 documents, 5 networks, with and without anchors; about 418 700 states |
| `TripPlanner` | `ExactlyOneOutcome`, `BudgetIsACeiling`, `UnassignedHadNoRoom`, `PreferencesAreKept`, `RequestsAreValid`, `DaysConnect` | 3 places of 9 kinds, 3 days, 7 trips; about 99 900 states |
| `TripEditor` | `AnswersAreTrue`, `StaysAreThoseMeant`, `NoTransferLostSilently`, `BatchIsAppliedWhole` | 2 requests, every batch of 2 out of 21 operations, of 3 of the 11 on stays and transfers and of 3 that may undo each other, revisions 0..2; about 112 200 states |
| `TripMigration` | `MarkerIsEarned`, `CutoverIsComplete`, `RunsNeverOverwrite`, `CleanRunStamps` | 2 documents, 2 runs, one write of an application, revisions 0..1; about 705 000 states |
| `MatrixCache` | `HoursStayOrdered`, `PreferencesAreTheUsers`, `StatusIsOfTheLastCall`, `TurnsAreFair`, `StalenessIsBounded`, `EveryPairAccounted` | 2 places, 6 mixes of up to 6 requests and 3 ticks; about 1 013 500 states |
| `TripConnectionRollback`, `ChatGateTypesOn`, `TripEditorAdded` | one claim of the documentation each, violated | see section 5 |

*Why the bounds are enough.* A lost or forked update takes two writers of one trip, and a
third revision shows that a later one builds on it; two trips show that operations do not leak into another.
A stale restore takes one revision to restore, one current, and one that intervenes. The hazards of the connection
take one abandoned block and one that inherits its transaction, and for a half block a failing write and a failing ROLLBACK; the second
request of a task shows that it recovers. In the gate, the
third call shows what a proposal after two earlier ones may inherit. Three places give `two_opt` routes of up to
five nodes with both anchors, where it needs four, and let the first two tiers each lose a place. Three days put a day before and
after a transition day. A batch of three stay operations has an update, a removal and an addition whose selectors can interfere, and one of
three on stays and transfers takes a transfer off, adds another and ends the changeover. A
second run of the migration is what re-running, overlapping and recovering take; the one write may be the old or the new
application's. In the library a race takes two patches of one place; a turn is unfair when, of two places, one
gets two batches, and a third batch shows the turn going back. A matrix of two places has two pairs, which is what half a matrix takes.

*Bounds in the models*: `MaxRevision`, `MaxRequests`, `MaxCancels`, `MaxFaults`, `MaxRuns`, `MaxWrites`, `AtOnce`, the set `Calls` (each identifier
used once), `Budgets` (requests of each kind and ticks in one behaviour: the mixes that can disturb each other are chosen together, as all at
once is out of reach), `Flight` (how long a request waits: the HTTP client and the driver have timeouts), and `MaxSweeps`,
which is `max_iterations` of `two_opt` in the code.

*Fairness.* `TripConnection`: the worker thread, the lock's wake-up of waiters and
the resumption of a task whose job is done are weakly fair. The executor thread and the event loop run as
long as the process does, and asyncio's lock wakes waiters in order. `TripMigration`: the steps of a run are weakly fair (a process that
is not killed goes on). Arrivals, cancellations, faults, kills, runs being started and
writes are not fair. `CHECK_DEADLOCK FALSE` is set where the system really stops: a bounded number of requests was
served, or a computation is finished.

*Symmetry.* Three runs use it: `TripRepository` (clients), `ChatGateTwo` (calls and handlers) and `MatrixCache` (documents, solvers and
patchers). The values are model values that no definition tells apart, and none of these runs checks a liveness property.

## 5. What the violation runs show

* **`TripConnectionRollback`** – `AllOrNothing`. No task is cancelled: a block's second write fails, and so does the `ROLLBACK`
  that follows (adapter.py:177), which is not tried again. The transaction stays open with the first write in it. The next block's `BEGIN` would be
  refused in it; the next autocommit read is not, and its `conn.commit()` (adapter.py:113) makes half a block durable, against repository.py:1-2.
  Three relatives in the same lines need no run of their own: a `ROLLBACK` that a cancellation drops from the executor's queue leaves the
  same transaction; `BEGIN` is awaited outside the `try` (adapter.py:172), so a task cancelled there leaves an empty transaction open; and a failing
  `COMMIT` (adapter.py:180) is not rolled back, so both writes may become durable after the caller was told of an error. `OnlyUnrolledIsHalf` says
  that nothing else parts a block.
* **`ChatGateTypesOn`** – `OnlyConfirmedIsWritten`. Typing on leaves the earlier card on screen
  (chat.svelte.ts:23) and the resume request names no call. If the new turn arms another write and its stream
  is cut before the proposal arrives, confirming the old card carries out the new write, which nobody was shown
  (trip_edit_tool.py:47-48).
* **`TripEditorAdded`** – `AddedIsKeptOrRefused`. A batch removes the transfer of a date, adds another to that date, and removes the stay
  that made it a changeover. ADR-20 (lines 97-98) and reconcile.py:112-113 leave an added transfer on such a day to the validator, which would refuse
  the batch. What was there before the batch is told by its date alone (apply.py:71), so the added transfer is taken for the removed one: it is
  dropped and the batch accepted. The date is reported as dropped, so `NoTransferLostSilently` holds.

## 6. Proofs

All theorems hold for any values of the constants that satisfy the named `ASSUME`s of their module: bounds are numbers, the marks for
"nothing" are not real values, and the inputs are what the validators of the request models let in. Where a theorem needs more, it says so in its
own `ASSUME`.

**TripRepositoryProofs**: `TypeCorrect`, `CurrentRowsAreBacked`, `HistoriesAreWellFormed`,
`ShownRevisionsStayTrue`, `NoUpdateIsLost`, `ListingsCoverCurrent`, and `Refinement`, that `Spec` implements `TripStore`.
The invariants are not inductive alone, for two reasons. A restore commits, with a
compare-and-set on the trip's revision only, a snapshot it read two steps earlier; that this is still the target's content rests on
rows never being changed while their trip lives, and on an identifier never returning after a deletion. An import inserts a trip it
once found absent; that nobody created or saw it since rests on the write freeze. `IInv` therefore
adds `InFlight` (what each pending request read is still true unless its trip is gone) and `Freeze` (imports run only
before writes open, nobody has a view before, live identifiers are minted). `Invariant` proves `Spec => []IInv`, by one step lemma a
kind of request: `InsertKeepsHistory` (save, import), `AdvanceKeepsHistory` (update, restore), `GentleKeepsReads` (a step that removes
a trip or only adds to it keeps everybody's reads true), and quiet steps for the rest. `Refinement` maps each
writing step to its abstract operation, using `IInv` for the restore.

**TripConnectionProofs**: `AloneInBody`, `AckedStays` and `RowsTogether` (`OnlyUnrolledIsHalf`), with any statement failing and any task cancelled
anywhere, in any number; none has a hypothesis. `IInv` says who awaits (`Holders`: only the holder of the lock), that its statement is queued, running or
answered and at most one abandoned statement runs before it (`OneStatement`), that behind a body nothing runs but its own cancelled write
(`NoStranger`), and what the transaction holds at each await (`Bodies`). `RowsTogether` needs `WInv`: half a block is durable only if it is in `unrolled`, and in the open
transaction only while somebody looks after it (`Attended`: its task is in the body or waits for its ROLLBACK), its ROLLBACK is running
(`BeingRolled`), or its ROLLBACK failed or was dropped (`unrolled`); the first two end before another task's statement can commit.

**ChatGateProofs**: the four properties when one handler serves the thread, for any number of calls and revisions. `WrittenOnce`
(`SingleUse`) needs nothing else: confirmations may be cut off and sent again at any time, also after later messages, and the user may type on.
`OnceInv` carries it: an armed scope is for the one call the thread waits for, which has not been carried out (`OnceArmed`), what a handler
inspects has not been either (`Fresh`), and nothing is armed while the model or a write runs (`OnceStage`). The other three need `Alone(h)`: a confirmation is sent once and the user
answers a card before typing. `Inv` lists what a handler may rely on at each await (`Stage`); two threads run through it:
a call that may still be carried out has not been (`Untouched`, `Ready`), and the revision of the binding is the one in the proposer's prompt
(`Tied`), from the binding over the armed snapshot to the compare-and-set. The hypotheses are needed: see `ChatGateTypesOn`, and section 7.

**TripMigrationProofs**: `MarkerEarned`, `CutoverComplete`, `NeverOverwrites`, for any number of runs at once. A verification is a loop of reads, and
everything may change behind its back; `Settled` (a verified document is a baseline, or its trip was deleted) stays true because no
step of anybody changes a baseline. `FreshIsFrozen` and `Ordered` carry the freeze and the documented order to the marker and the gate.

**TripEditorProofs**: `TrueAnswers`, `StaysMeant`, `TransfersAreNotLost` and `BatchesApplyWhole`, for any requests and batches whose documents have the
shape and pass the validators of the request model (`RequestsAssumption`, `BatchesAssumption`). An answer is given one or two awaits after what it is
about was read; a history that grows only at its end (`HistoryEnds`) and an editor that remembers a revision not after the current one
(`JobsAreSane`) carry it over. The other three rest on `EInv` (every stored request is valid, and an editor holds what `Apply` answered to the
revision it read) and on what a batch does to a list, operation by operation: the stays left are those no removal meant (`StaysAfterAre`), in-place
updates keep positions. A date has a transfer after the operations unless the last one about it took it off (`DatesFollow`), so a transfer that
is gone and not reported was removed and not added again.

**PlaceLibraryProofs**: `OrderedHours`, `UsersPreferences`, `LastCallsStatus`, and `FairTurns` for any batch size. The first two need that a
patch in flight was checked against the hours it read; the third, that every update in flight is consistent before it is written. `FairTurns` needs
`TurnInv`: no two attempts have the same date (`Dates`), and whoever was passed over has the older date, so comes first
(`Turns`), over the time in which a batch has picked and not yet ended (`BatchTurns`). Its hypothesis `MarksAreApart` says that the two marks of an
identifier without a document differ and are no documents. A place that a slower attempt has dated back is exempt (`late`). Of the matrix cache:
`BoundedStaleness` and `NoPairForgotten`. Each entry owes its age to the request that stored it (`CacheIsSane`) and each
request owes something to its stage (`SolversAreSane`).

**DayPlannerProofs**: all five properties, for any request of up to 50 places, any documents and any matrix with missing legs. First
what a schedule says (`ScheduleIs`, `WholeSchedule`: a route whose last node has a departure is visited at every node before, each visit within one segment) and that
a longer route changes no earlier time (`SchedulePrefix`). Then `IInv`: the route being grown is open, injective and leaves its last node at `clock`
(`GrowInv`), the best route of the attempt and of each attempt made is complete and feasible over a tier (`RoundInv`, `AttemptsInv`), and what `two_opt`
holds has the nodes, the first node and the end location of the kept attempt and travels no longer (`ImproveInv`; `FlipIs` says what a
reversal moves). A place named several times is one node: visited once, or skipped and listed at most as often as it was named. `PlansCanBeWalked` and `PlacesAreAccounted` carry this through the answer (`PlanIs`: the stops of a complete route are an interval of it).
`MustSeesAreGuaranteed` adds `ScoreInv` (the kept attempt scores most, and it visits every must-see or they were attempted alone) and that fewer than 1000
places cannot outweigh a must-see (`ScoresCompare`; the cap of 50 is `CountAssumption`). `SearchGivesUpRightly` needs that a visit ends before
its place's deadline (`DepartsByDeadline`) and that a node earliest in deadline, then in leg, exists whenever one can be visited (`OneIsNext`).

**TripPlannerProofs**: all six properties, for any days, places and valid request. No invariant of the packing is needed for two of them:
`Progress` says that the part solved next is one its day has, and each call is judged when it is made. `RequestIsValid` rests on `Windows` (a side
with a budget has a window within the day, so that `EndBound` and the wrap at 24 change nothing) and `RequestIsAnchored` with `SameNight` on stays
being half-open intervals of nights. The other four rest on `PlacesInv` (what is in a bucket, turned away or without a day was packed, each place is in one of these once, and
what was packed by preference was packed first) and `OutcomeInv` (a part that was passed has visited its places or left each for one reason).

*Induction.* The library's induction theorems take an operator as a parameter, which the provers cannot instantiate. Where a function is defined
by recursion along a list or over numbers, the proofs use the smallest counterexample instead: `LeastElement` (a nonempty set of naturals has a
smallest member, from the well-foundedness of `<`), `UpTo` and `FromThenOn` state it for a set of numbers and are cited with the set of those
positions where the claim holds. `RecursionRuns` proves in the same way that a function defined step by step exists.

*Only model-checked*: `WrittenOnce` with two handlers (of edits), and liveness
(`EveryRequestEnds`, `CleanRunStamps`), which is out of the prover's reach.

## 7. What is not modelled

* **Left out on purpose**: SQL text, JSON canonicalisation and hashing (a snapshot is a value), prompt rendering and wording, the
  text of edit summaries, the scraper (drives a browser; it only supplies the lists that are imported), `scripts/measure_frontends.py` (a
  benchmark), HTTP status mapping, logging, forms and views of the frontend, the Streamlit panel and the Astro spike (sequential clients of the same API).
* **Nothing to say of it**: the key cache of `core/auth.py` has one value and one writer function; two refreshes at once each store a valid key set.
* **Frontend chat state**: the card, the session and the stream that is read are in `ChatGate`. Switching between trips and the `streaming` flag
  are not: they change what is displayed and which button is enabled. That the flag is cleared by a superseded stream lets a second turn start
  while one runs; the server side of that is `ChatGateTwo`.
* **Hazards without a property**, with reasons in `PROJECT.json`: a migration run again after a deletion in the new application (the
  script has no guard, the documents only ask for the order), the lost `trip_updated` event, periods without a close, and the batch one call of which raises.
* **External, modelled from their use**: SQLite's transaction rules, the executor and asyncio cancellation, LangGraph's
  checkpoints and interrupts, the language model (any answer), the Google Routes answer (any matrix).
* **What one stream at a time is needed for**: with two overlapping handlers `ChatGate` keeps `WrittenOnce` for edits only. A place call may be carried
  out twice: a late inspection of the older handler (router.py:104) arms it again, and the place tools accept a snapshot armed for another call
  (tools.py:232). Neither `OnlyConfirmedIsWritten` nor `NoStaleEdit` holds then, and a repeated confirmation alone breaks them too, as it names no call
  and resumes whatever waits by then. The frontend avoids both by reading one stream and clearing the card; the server enforces neither. More than two
  overlapping handlers are in no run. With three, and a confirmation sent again, an edit is carried out twice: after it was written one of them binds the
  new revision, then another, late in its inspection, arms the call again on it.
* **Seen and not judged**: the room of an ordinary day is counted from its whole hours (multi_day_service.py:142) although its window may be narrower
  to the minute, so a shorter day can win a place; a place named twice in a request can be listed twice among the skipped.
