--------------------------- MODULE TripConnection ---------------------------
(***************************************************************************)
(* src/core/turso/adapter.py: one DB-API connection to SQLite behind an    *)
(* asyncio.Lock and a one-thread executor, statement by statement.         *)
(*                                                                         *)
(* A request is an autocommit read, execute(), or a block of two writes,   *)
(* transaction(), as repository.py issues them: the trips row and the      *)
(* trip_revisions row.  Every await of the adapter hands one job to the    *)
(* executor, and a task may be cancelled at any await.                     *)
(* asyncio then drops a job that has not started, lets a started one run   *)
(* without an audience, and raises CancelledError at the await.            *)
(***************************************************************************)
EXTENDS Naturals, SequencesExt

CONSTANTS
  Clients,            \* tasks of the event loop
  NoClient, NoJob,    \* nobody, nothing
  MaxRequests,        \* bound: requests per client
  MaxCancels,         \* bound: times one request is cancelled
  MaxFaults           \* bound: statements the driver fails

ASSUME BoundsAssumption ==
  MaxRequests \in Nat /\ MaxCancels \in Nat /\ MaxFaults \in Nat
ASSUME NobodyAssumption == NoClient \notin Clients

VARIABLES
  lock,       \* asyncio.Lock: the client holding it, or NoClient
  pc,         \* client -> what it awaits
  answer,     \* client -> outcome of its job, waiting for the loop
  queue,      \* jobs the executor has not started
  running,    \* the job on the worker thread, or NoJob
  owner,      \* whose BEGIN opened the transaction that is open, or NoClient
  pending,    \* writes of the open transaction
  committed,  \* durable writes
  requests,   \* client -> requests started so far
  outcome,    \* block -> what its caller was told
  cancels,    \* client -> cancellations of its current request
  faults,     \* statements failed so far
  unrolled    \* auxiliary: blocks whose ROLLBACK was dropped or failed

loopVars == <<lock, pc, answer, requests, outcome, cancels>>
workerVars == <<queue, running>>
dbVars == <<owner, pending, committed>>
vars == <<lock, pc, answer, queue, running, owner, pending, committed,
          requests, outcome, cancels, faults, unrolled>>

Blocks == Clients \X (1..MaxRequests)
Writes == Blocks \X {1, 2}
Writing == {"write1", "write2"}
Statements == Writing \cup {"read", "begin", "close", "rollback", "commit"}
Job == [block : Blocks, stmt : Statements, orphan : BOOLEAN]
ASSUME NoJobAssumption == NoJob \notin Job

Block(c) == <<c, requests[c]>>
ClientOf(job) == job.block[1]

Init ==
  /\ lock = NoClient
  /\ pc = [c \in Clients |-> "idle"]
  /\ answer = [c \in Clients |-> "none"]
  /\ queue = <<>>
  /\ running = NoJob
  /\ owner = NoClient /\ pending = {} /\ committed = {}
  /\ requests = [c \in Clients |-> 0]
  /\ outcome = [b \in Blocks |-> "none"]
  /\ cancels = [c \in Clients |-> 0]
  /\ faults = 0
  /\ unrolled = {}

-----------------------------------------------------------------------------
(* The event loop.                                                         *)

(* `await run_in_executor(...)`: q is the queue the job joins.             *)
Submit(c, stmt, q) ==
  /\ queue' = Append(q, [block |-> Block(c), stmt |-> stmt, orphan |-> FALSE])
  /\ pc' = [pc EXCEPT ![c] = stmt]
  /\ answer' = [answer EXCEPT ![c] = "none"]

(* The `async with self._lock` block is left and the caller told.          *)
Leave(c, result) ==
  /\ lock' = NoClient
  /\ pc' = [pc EXCEPT ![c] = "idle"]
  /\ answer' = [answer EXCEPT ![c] = "none"]
  /\ outcome' = [outcome EXCEPT ![Block(c)] = result]

Arrive(c, kind) ==
  /\ pc[c] = "idle" /\ requests[c] < MaxRequests
  /\ pc' = [pc EXCEPT ![c] = kind]
  /\ requests' = [requests EXCEPT ![c] = @ + 1]
  /\ cancels' = [cancels EXCEPT ![c] = 0]
  /\ UNCHANGED <<lock, answer, outcome, workerVars, dbVars, faults, unrolled>>

(* (Defect: execute() runs its statement without the lock.)                *)
AcquireUnlockedRead(c) ==
  /\ \/ pc[c] = "want_read" /\ Submit(c, "read", queue) /\ UNCHANGED lock
     \/ pc[c] = "want_tx" /\ lock = NoClient /\ Submit(c, "begin", queue) /\ lock' = c
  /\ UNCHANGED <<requests, outcome, cancels, running, dbVars, faults, unrolled>>

Acquire(c) ==
  /\ lock = NoClient
  /\ \/ pc[c] = "want_read" /\ Submit(c, "read", queue)
     \/ pc[c] = "want_tx" /\ Submit(c, "begin", queue)
  /\ lock' = c
  /\ UNCHANGED <<requests, outcome, cancels, running, dbVars, faults, unrolled>>

(* The awaited statement succeeded: the body goes on, or, before its first *)
(* write, raises on what it read (409, 428) and is rolled back, or returns *)
(* (404, no change) and is committed empty: "close".                       *)
ResumeOk(c) ==
  /\ answer[c] = "ok"
  /\ \/ pc[c] = "begin" /\ Submit(c, "write1", queue) /\ UNCHANGED <<lock, outcome>>
     \/ pc[c] = "write1" /\ Submit(c, "write2", queue) /\ UNCHANGED <<lock, outcome>>
     \/ pc[c] = "write2" /\ Submit(c, "commit", queue) /\ UNCHANGED <<lock, outcome>>
     \/ /\ pc[c] = "begin" /\ UNCHANGED <<lock, outcome>>
        /\ \E stmt \in {"close", "rollback"} : Submit(c, stmt, queue)
     \/ pc[c] = "rollback" /\ Leave(c, "failed") /\ UNCHANGED queue
     \/ pc[c] \in {"read", "close"} /\ Leave(c, "answered") /\ UNCHANGED queue
     \/ pc[c] = "commit" /\ Leave(c, "committed") /\ UNCHANGED queue
  /\ UNCHANGED <<requests, cancels, running, dbVars, faults, unrolled>>

(* (Defect: a failed COMMIT is reported as success.)                       *)
ResumeErrorAcked(c) ==
  /\ answer[c] = "error"
  /\ \/ pc[c] \in Writing /\ Submit(c, "rollback", queue)
          /\ UNCHANGED <<lock, outcome>>
     \/ pc[c] = "commit" /\ Leave(c, "committed") /\ UNCHANGED queue
     \/ pc[c] \in {"read", "begin", "close", "rollback"} /\ Leave(c, "failed") /\ UNCHANGED queue
  /\ UNCHANGED <<requests, cancels, running, dbVars, faults, unrolled>>

(* The awaited statement raised.  Only the body is inside the try.         *)
ResumeError(c) ==
  /\ answer[c] = "error"
  /\ \/ pc[c] \in Writing /\ Submit(c, "rollback", queue)
          /\ UNCHANGED <<lock, outcome>>
     \/ pc[c] \notin Writing /\ Leave(c, "failed") /\ UNCHANGED queue
  /\ UNCHANGED <<requests, cancels, running, dbVars, faults, unrolled>>

-----------------------------------------------------------------------------
(* CancelledError at the await.                                            *)
Queued(c) == {i \in DOMAIN queue : ClientOf(queue[i]) = c}
Unqueued(c) == IF Queued(c) = {} THEN queue ELSE RemoveAt(queue, CHOOSE i \in Queued(c) : TRUE)

Orphaned(c) ==
  IF running # NoJob /\ ClientOf(running) = c THEN [running EXCEPT !.orphan = TRUE] ELSE running

MayCancel(c) ==
  /\ cancels[c] < MaxCancels
  /\ cancels' = [cancels EXCEPT ![c] = @ + 1]
  /\ UNCHANGED <<requests, dbVars, faults>>

CancelWaiting(c) ==
  /\ pc[c] \in {"want_read", "want_tx"}
  /\ MayCancel(c)
  /\ pc' = [pc EXCEPT ![c] = "idle"]
  /\ outcome' = [outcome EXCEPT ![Block(c)] = "cancelled"]
  /\ UNCHANGED <<lock, answer, workerVars, unrolled>>

(* (Defect: `except Exception`, which CancelledError is not.)              *)
CancelInBodyUncaught(c) ==
  /\ pc[c] \in Writing
  /\ MayCancel(c)
  /\ Leave(c, "cancelled")
  /\ queue' = Unqueued(c) /\ running' = Orphaned(c)
  /\ UNCHANGED unrolled

(* In the body: `except BaseException` queues the rollback.                *)
CancelInBody(c) ==
  /\ pc[c] \in Writing
  /\ MayCancel(c)
  /\ running' = Orphaned(c)
  /\ Submit(c, "rollback", Unqueued(c))
  /\ UNCHANGED <<lock, outcome, unrolled>>

Outside == {"read", "begin", "close", "rollback", "commit"}

(* A ROLLBACK that is dropped from the queue is noted in unrolled.         *)
NoteDropped(c) ==
  unrolled' = unrolled \cup {b \in {Block(c)} : pc[c] = "rollback" /\ Queued(c) # {}}

(* (Defect: the lock is not given back when the await is cancelled.)       *)
CancelOutsideBodyLocked(c) ==
  /\ pc[c] \in Outside
  /\ MayCancel(c)
  /\ pc' = [pc EXCEPT ![c] = "idle"]
  /\ queue' = Unqueued(c) /\ running' = Orphaned(c)
  /\ NoteDropped(c)
  /\ UNCHANGED <<lock, answer, outcome>>

(* Anywhere else nothing catches it; the lock is released.                 *)
CancelOutsideBody(c) ==
  /\ pc[c] \in Outside
  /\ MayCancel(c)
  /\ Leave(c, "cancelled")
  /\ queue' = Unqueued(c) /\ running' = Orphaned(c)
  /\ NoteDropped(c)

-----------------------------------------------------------------------------
(* The worker thread.                                                      *)
Take ==
  /\ running = NoJob /\ queue # <<>>
  /\ running' = Head(queue) /\ queue' = Tail(queue)
  /\ UNCHANGED <<loopVars, dbVars, faults, unrolled>>

Finish(result) ==
  /\ answer' = IF running.orphan THEN answer
               ELSE [answer EXCEPT ![ClientOf(running)] = result]
  /\ running' = NoJob
  /\ UNCHANGED <<lock, pc, queue, requests, outcome, cancels>>

EndTransaction(durable) ==
  /\ committed' = committed \cup durable
  /\ owner' = NoClient /\ pending' = {}

(* SQLite in autocommit mode (isolation_level=None).  A read is followed   *)
(* by conn.commit(), which commits a transaction somebody left open.       *)
Execute(block, stmt) ==
  \/ stmt \in {"read", "close", "commit"} /\ EndTransaction(pending)
  \/ stmt = "rollback" /\ EndTransaction({})
  \/ stmt = "begin" /\ owner = NoClient /\ owner' = block[1] /\ UNCHANGED <<pending, committed>>
  \/ /\ stmt \in Writing
     /\ LET w == <<block, IF stmt = "write1" THEN 1 ELSE 2>>
        IN IF owner = NoClient
           THEN committed' = committed \cup {w} /\ UNCHANGED pending
           ELSE pending' = pending \cup {w} /\ UNCHANGED committed
     /\ UNCHANGED owner

WorkerSucceeds ==
  /\ running # NoJob
  /\ Execute(running.block, running.stmt)
  /\ Finish("ok")
  /\ UNCHANGED <<faults, unrolled>>

(* "cannot start a transaction within a transaction"                       *)
WorkerRefusesBegin ==
  /\ running # NoJob /\ running.stmt = "begin" /\ owner # NoClient
  /\ Finish("error")
  /\ UNCHANGED <<dbVars, faults, unrolled>>

(* The driver fails the statement: busy, constraint, I/O, a lost server.   *)
(* A failed read rolls back, unless that fails too, which is suppressed; a *)
(* failed COMMIT or ROLLBACK leaves the transaction open.                  *)
WorkerFails ==
  /\ running # NoJob
  /\ faults < MaxFaults /\ faults' = faults + 1
  /\ \/ running.stmt = "read" /\ EndTransaction({})
     \/ UNCHANGED dbVars
  /\ unrolled' = unrolled \cup {b \in {running.block} : running.stmt = "rollback"}
  /\ Finish("error")

-----------------------------------------------------------------------------
Resume(c) == ResumeOk(c) \/ ResumeError(c)
Cancel(c) == CancelWaiting(c) \/ CancelInBody(c) \/ CancelOutsideBody(c)
Worker == Take \/ WorkerSucceeds \/ WorkerRefusesBegin \/ WorkerFails

Next ==
  \/ \E c \in Clients :
       \/ \E kind \in {"want_read", "want_tx"} : Arrive(c, kind)
       \/ Acquire(c) \/ Resume(c) \/ Cancel(c)
  \/ Worker

(* The worker thread and the event loop keep running; the lock wakes its   *)
(* waiters.                                                                *)
Spec ==
  /\ Init /\ [][Next]_vars
  /\ WF_vars(Worker)
  /\ \A c \in Clients : WF_vars(Acquire(c)) /\ WF_vars(Resume(c))

-----------------------------------------------------------------------------
(* Shape of the state.  The queue never needs more than one place.         *)
TypeOK ==
  /\ lock \in Clients \cup {NoClient}
  /\ pc \in [Clients -> Statements \cup {"idle", "want_read", "want_tx"}]
  /\ answer \in [Clients -> {"none", "ok", "error"}]
  /\ queue \in Seq(Job) /\ Len(queue) <= 1
  /\ running \in Job \cup {NoJob}
  /\ owner \in Clients \cup {NoClient}
  /\ pending \subseteq Writes /\ committed \subseteq Writes
  /\ requests \in [Clients -> 0..MaxRequests]
  /\ outcome \in [Blocks -> {"none", "answered", "committed", "failed", "cancelled"}]
  /\ cancels \in [Clients -> 0..MaxCancels]
  /\ faults \in 0..MaxFaults /\ unrolled \subseteq Blocks

Whole(b) == <<b, 1>> \in committed <=> <<b, 2>> \in committed

(* "Every write pairs a current-state row with an immutable revision row   *)
(* in one [...] transaction" (repository.py): the two rows of one revision *)
(* become durable together or not at all.                                  *)
AllOrNothing == \A b \in Blocks : Whole(b)

(* What the adapter keeps of it: statements may fail and tasks be          *)
(* cancelled anywhere, in any number; the rows of a block part only if its *)
(* ROLLBACK itself failed, or was dropped by a cancellation before the     *)
(* worker took it.                                                         *)
OnlyUnrolledIsHalf == \A b \in Blocks : Whole(b) \/ b \in unrolled

(* A caller that left its `async with transaction()` without an exception  *)
(* has both rows in the database, whoever else shares the connection.      *)
AckedIsDurable ==
  \A b \in Blocks :
    outcome[b] = "committed" => <<b, 1>> \in committed /\ <<b, 2>> \in committed

(* While a client is in the body of its transaction, or ends it, the       *)
(* worker runs no statement but its own.                                   *)
BodyIsAlone ==
  \A c \in Clients :
    /\ owner = c /\ pc[c] \in Writing \cup {"close", "rollback", "commit"}
    /\ running # NoJob
    => ClientOf(running) = c

(* Every request comes back to its caller: no cancellation or failure      *)
(* leaves the lock held or a task waiting.                                 *)
EveryRequestEnds == \A c \in Clients : pc[c] # "idle" ~> pc[c] = "idle"
=============================================================================
