------------------------ MODULE TripConnectionProofs ------------------------
(***************************************************************************)
(* Theorems about TripConnection, for any number of tasks, requests,       *)
(* cancellations and failures.                                             *)
(*                                                                         *)
(* The lock, the executor's queue and the worker thread are three places;  *)
(* what ties them together is that the statement the lock's holder awaits  *)
(* is in exactly one of them (OneStatement), and what may still be running *)
(* for nobody when a new statement is queued (NoStranger).  From these     *)
(* follows what is in the open transaction at each await of a body         *)
(* (Bodies).                                                               *)
(***************************************************************************)
EXTENDS TripConnection, TLAPS

Own(c) == [block |-> Block(c), stmt |-> pc[c], orphan |-> FALSE]
Asleep == running = NoJob \/ running.orphan

First(c) == <<Block(c), 1>>
Second(c) == <<Block(c), 2>>

(* Only the holder of the lock awaits the worker.                          *)
Holders ==
  \A c \in Clients :
    /\ pc[c] \in Statements <=> lock = c
    /\ pc[c] # "idle" => requests[c] # 0
    /\ lock # c => answer[c] = "none"

IsQueued(c) == queue = <<Own(c)>> /\ Asleep /\ answer[c] = "none"
IsRunning(c) == queue = <<>> /\ running = Own(c) /\ answer[c] = "none"
IsAnswered(c) == queue = <<>> /\ running = NoJob /\ answer[c] # "none"

(* The awaited statement is queued, running or answered.                   *)
OneStatement ==
  /\ lock = NoClient => queue = <<>> /\ Asleep
  /\ \A c \in Clients : lock = c => IsQueued(c) \/ IsRunning(c) \/ IsAnswered(c)

(* Behind the back of a body nothing runs but its own cancelled write,     *)
(* which its rollback follows.                                             *)
NoStranger ==
  \A c \in Clients : lock = c /\ running # NoJob /\ running.orphan =>
    /\ pc[c] \notin Writing \cup {"commit", "close"}
    /\ pc[c] = "rollback" => ClientOf(running) = c /\ running.stmt \in Writing

(* The transaction at each await of a body.                                *)
Bodies ==
  /\ owner = NoClient => pending = {}
  /\ \A c \in Clients : lock = c =>
       /\ pc[c] = "begin" /\ answer[c] = "ok" => owner = c /\ pending = {}
       /\ pc[c] = "write1" =>
            owner = c /\ pending = IF answer[c] = "ok" THEN {First(c)} ELSE {}
       /\ pc[c] = "write2" =>
            owner = c /\ pending = IF answer[c] = "ok" THEN {First(c), Second(c)} ELSE {First(c)}
       /\ pc[c] = "commit" /\ answer[c] # "ok" => owner = c /\ pending = {First(c), Second(c)}
       /\ pc[c] = "commit" /\ answer[c] = "ok" => {First(c), Second(c)} \subseteq committed

IInv ==
  /\ TypeOK
  /\ Holders
  /\ OneStatement
  /\ NoStranger
  /\ Bodies
  /\ AckedIsDurable

-----------------------------------------------------------------------------
(* A queue of one.                                                         *)
LEMMA QueueOfOne ==
  ASSUME NEW j
  PROVE  /\ Append(<<>>, j) = <<j>> /\ <<j>> # <<>>
         /\ Head(<<j>>) = j /\ Tail(<<j>>) = <<>>
OBVIOUS

(* The job of the task that holds the lock is a job of its own.            *)
LEMMA OwnIsJob ==
  ASSUME TypeOK, Holders, NEW c \in Clients, lock = c
  PROVE  Own(c) \in Job /\ Block(c) \in Blocks /\ ClientOf(Own(c)) = c
         /\ Own(c) # NoJob /\ ~Own(c).orphan
<1>1. requests[c] \in 1..MaxRequests /\ pc[c] \in Statements
  BY BoundsAssumption DEF TypeOK, Holders, Statements, Writing
<1>2. Block(c) \in Blocks
  BY <1>1 DEF Block, Blocks
<1>3. Own(c) \in Job
  BY <1>1, <1>2 DEF Own, Job
<1> QED
  BY <1>2, <1>3, NoJobAssumption DEF Own, ClientOf, Block

(* A cancelled task's statement is taken out of the queue.                 *)
LEMMA UnqueuedIsEmpty ==
  ASSUME TypeOK, Holders, OneStatement, NEW c \in Clients, lock = c
  PROVE  Unqueued(c) = <<>>
<1>1. CASE queue = <<>>
  <2>1. Queued(c) = {}
    BY <1>1 DEF Queued
  <2> QED
    BY <1>1, <2>1 DEF Unqueued
<1>2. CASE queue = <<Own(c)>>
  <2>1. Queued(c) = {1}
    BY <1>2, OwnIsJob DEF Queued
  <2>2. (CHOOSE i \in Queued(c) : TRUE) = 1
    BY <2>1
  <2>3. SubSeq(queue, 1, 0) = <<>> /\ SubSeq(queue, 2, 1) = <<>> /\ Len(queue) = 1
    BY <1>2
  <2> QED
    BY <2>1, <2>2, <2>3 DEF Unqueued, RemoveAt
<1> QED
  BY <1>1, <1>2 DEF OneStatement, IsQueued, IsRunning, IsAnswered

(* Nobody holds the lock and the worker is idle.                           *)
LEMMA InitIInv == Init => IInv
<1> SUFFICES ASSUME Init PROVE IInv
  OBVIOUS
<1>1. TypeOK
  BY BoundsAssumption DEF Init, TypeOK
<1>2. Holders
  BY NobodyAssumption DEF Init, Holders, Statements, Writing
<1>3. OneStatement /\ NoStranger /\ Bodies
  BY NobodyAssumption DEF Init, OneStatement, NoStranger, Bodies, Asleep
<1>4. AckedIsDurable
  BY DEF Init, AckedIsDurable
<1> QED
  BY <1>1, <1>2, <1>3, <1>4 DEF IInv

-----------------------------------------------------------------------------
(* Steps of the event loop leave the database alone.                       *)
LEMMA ArriveKeeps ==
  ASSUME IInv, NEW c \in Clients, NEW kind \in {"want_read", "want_tx"}, Arrive(c, kind)
  PROVE  IInv'
<1>1. /\ TypeOK /\ Holders /\ OneStatement /\ NoStranger /\ Bodies /\ AckedIsDurable
      /\ pc[c] = "idle" /\ requests[c] < MaxRequests
      /\ pc' = [pc EXCEPT ![c] = kind] /\ requests' = [requests EXCEPT ![c] = @ + 1]
      /\ cancels' = [cancels EXCEPT ![c] = 0]
      /\ UNCHANGED <<lock, answer, outcome, queue, running, owner, pending, committed,
                     faults, unrolled>>
  BY DEF IInv, Arrive, workerVars, dbVars
<1>2. lock # c
  BY <1>1 DEF Holders, Statements, Writing
<1>3. /\ pc'[c] = kind /\ requests'[c] = requests[c] + 1 /\ requests[c] \in Nat
      /\ \A d \in Clients : d # c => pc'[d] = pc[d] /\ requests'[d] = requests[d]
  BY <1>1, BoundsAssumption DEF TypeOK
<1>4. TypeOK'
  BY <1>1, BoundsAssumption DEF TypeOK
<1>5. Holders'
  BY <1>1, <1>2, <1>3 DEF Holders, Statements, Writing
<1>6. \A d \in Clients : d # c => Block(d)' = Block(d) /\ Own(d)' = Own(d)
  BY <1>3 DEF Block, Own
<1>7. OneStatement'
  BY <1>1, <1>2, <1>6 DEF OneStatement, IsQueued, IsRunning, IsAnswered, Asleep
<1>8. NoStranger'
  BY <1>1, <1>2, <1>3 DEF NoStranger
<1>9. Bodies'
  BY <1>1, <1>2, <1>3, <1>6 DEF Bodies, First, Second
<1>10. AckedIsDurable'
  BY <1>1 DEF AckedIsDurable
<1> QED
  BY <1>4, <1>5, <1>7, <1>8, <1>9, <1>10 DEF IInv

(* The holder of the lock submits its next statement, when the queue and   *)
(* the worker are free for it: what is left to show is about the database. *)
LEMMA SubmitKeeps ==
  ASSUME IInv, NEW c \in Clients, NEW stmt \in Statements,
         queue' = <<[block |-> Block(c), stmt |-> stmt, orphan |-> FALSE]>>,
         pc' = [pc EXCEPT ![c] = stmt], answer' = [answer EXCEPT ![c] = "none"],
         lock' = c, lock \in {c, NoClient}, pc[c] # "idle",
         running' \in Job \cup {NoJob}, running' = NoJob \/ running'.orphan,
         running' # NoJob =>
           /\ stmt \notin Writing \cup {"commit", "close"}
           /\ stmt = "rollback" => ClientOf(running') = c /\ running'.stmt \in Writing,
         cancels' \in [Clients -> 0..MaxCancels],
         UNCHANGED <<requests, outcome, owner, pending, committed, faults>>,
         unrolled' \subseteq Blocks,
         stmt = "write1" => owner = c /\ pending = {},
         stmt = "write2" => owner = c /\ pending = {First(c)},
         stmt = "commit" => owner = c /\ pending = {First(c), Second(c)}
  PROVE  IInv'
<1>1. TypeOK /\ Holders /\ OneStatement /\ Bodies /\ AckedIsDurable
  BY DEF IInv
<1>2. /\ pc'[c] = stmt /\ answer'[c] = "none"
      /\ \A d \in Clients : d # c => pc'[d] = pc[d] /\ answer'[d] = answer[d]
  BY <1>1 DEF TypeOK
<1>3. requests[c] \in 1..MaxRequests
  BY <1>1, BoundsAssumption DEF TypeOK, Holders
<1>4. Block(c) \in Blocks
  BY <1>3 DEF Block, Blocks
<1>5. TypeOK'
  <2>1. queue' \in Seq(Job) /\ Len(queue') = 1
    BY <1>4 DEF Job
  <2>2. pc' \in [Clients -> Statements \cup {"idle", "want_read", "want_tx"}]
        /\ answer' \in [Clients -> {"none", "ok", "error"}]
    BY <1>1 DEF TypeOK
  <2>3. Writes' = Writes
    BY DEF Writes
  <2> QED
    BY <1>1, <2>1, <2>2, <2>3 DEF TypeOK
<1>6. Holders'
  BY <1>1, <1>2, NobodyAssumption DEF Holders, Statements, Writing
<1>7. Own(c)' = [block |-> Block(c), stmt |-> stmt, orphan |-> FALSE]
  BY <1>2 DEF Own, Block
<1>8. OneStatement'
  BY <1>2, <1>7, NobodyAssumption DEF OneStatement, IsQueued, Asleep
<1>9. NoStranger'
  BY <1>2 DEF NoStranger
<1>10. First(c)' = First(c) /\ Second(c)' = Second(c)
  BY DEF First, Second, Block
<1>11. Bodies'
  BY <1>1, <1>2, <1>10 DEF Bodies
<1>12. AckedIsDurable'
  BY <1>1 DEF AckedIsDurable
<1> QED
  BY <1>5, <1>6, <1>8, <1>9, <1>11, <1>12 DEF IInv

(* The holder leaves, its statement out of the queue; what still runs for  *)
(* it runs for nobody.                                                     *)
LEMMA LeaveKeeps ==
  ASSUME IInv, NEW c \in Clients, lock = c,
         NEW result \in {"answered", "committed", "failed", "cancelled"},
         Leave(c, result), queue' = <<>>,
         running' \in Job \cup {NoJob}, running' = NoJob \/ running'.orphan,
         cancels' \in [Clients -> 0..MaxCancels],
         UNCHANGED <<requests, owner, pending, committed, faults>>, unrolled' \subseteq Blocks,
         result = "committed" => {First(c), Second(c)} \subseteq committed
  PROVE  IInv'
<1>1. TypeOK /\ Holders /\ Bodies /\ AckedIsDurable
  BY DEF IInv
<1>2. /\ lock' = NoClient /\ pc' = [pc EXCEPT ![c] = "idle"]
      /\ answer' = [answer EXCEPT ![c] = "none"]
      /\ outcome' = [outcome EXCEPT ![Block(c)] = result]
  BY DEF Leave
<1>3. /\ pc'[c] = "idle" /\ answer'[c] = "none"
      /\ \A d \in Clients : d # c => pc'[d] = pc[d] /\ answer'[d] = answer[d]
  BY <1>1, <1>2 DEF TypeOK
<1>4. TypeOK'
  <2>1. queue' \in Seq(Job) /\ Len(queue') <= 1
    OBVIOUS
  <2>2. outcome' \in [Blocks -> {"none", "answered", "committed", "failed", "cancelled"}]
    BY <1>1, <1>2 DEF TypeOK
  <2>3. /\ pc' \in [Clients -> Statements \cup {"idle", "want_read", "want_tx"}]
        /\ answer' \in [Clients -> {"none", "ok", "error"}]
    BY <1>1, <1>2 DEF TypeOK
  <2> QED
    BY <1>1, <1>2, <2>1, <2>2, <2>3 DEF TypeOK
<1>5. Holders'
  BY <1>1, <1>2, <1>3, NobodyAssumption DEF Holders, Statements, Writing
<1>6. OneStatement' /\ NoStranger'
  BY <1>2, NobodyAssumption DEF OneStatement, NoStranger, Asleep
<1>7. Bodies'
  BY <1>1, <1>2, NobodyAssumption DEF Bodies
<1>8. AckedIsDurable'
  BY <1>1, <1>2 DEF AckedIsDurable, First, Second, TypeOK
<1> QED
  BY <1>4, <1>5, <1>6, <1>7, <1>8 DEF IInv

(* The lock goes to a waiter, whose first statement is queued.             *)
LEMMA AcquireKeeps ==
  ASSUME IInv, NEW c \in Clients, Acquire(c)
  PROVE  IInv'
<1>1. /\ TypeOK /\ OneStatement /\ lock = NoClient /\ queue = <<>> /\ Asleep
      /\ pc[c] \in {"want_read", "want_tx"} /\ lock' = c
      /\ UNCHANGED <<requests, outcome, cancels, running, owner, pending, committed,
                     faults, unrolled>>
  BY DEF IInv, OneStatement, Acquire, dbVars
<1>2. PICK stmt \in {"read", "begin"} : Submit(c, stmt, queue)
  BY DEF Acquire
<1>3. /\ queue' = <<[block |-> Block(c), stmt |-> stmt, orphan |-> FALSE]>>
      /\ pc' = [pc EXCEPT ![c] = stmt] /\ answer' = [answer EXCEPT ![c] = "none"]
  BY <1>1, <1>2, QueueOfOne DEF Submit
<1>4. stmt \in Statements /\ pc[c] # "idle"
  BY <1>1 DEF Statements, Writing
<1>5. running' \in Job \cup {NoJob} /\ cancels' \in [Clients -> 0..MaxCancels]
  BY <1>1 DEF TypeOK
<1> QED
  BY <1>1, <1>3, <1>4, <1>5, SubmitKeeps DEF Asleep, Writing, TypeOK

(* What is known when the awaited statement has answered.                  *)
LEMMA AnsweredIsAlone ==
  ASSUME IInv, NEW c \in Clients, answer[c] # "none"
  PROVE  lock = c /\ queue = <<>> /\ running = NoJob /\ pc[c] \in Statements
BY DEF IInv, Holders, OneStatement, IsQueued, IsRunning, IsAnswered

(* A task goes on with the answer of its statement.                        *)
LEMMA ResumeKeeps ==
  ASSUME IInv, NEW c \in Clients, Resume(c)
  PROVE  IInv'
<1>1. /\ lock = c /\ queue = <<>> /\ running = NoJob /\ pc[c] \in Statements
      /\ pc[c] # "idle" /\ TypeOK /\ Bodies
      /\ UNCHANGED <<requests, cancels, running, owner, pending, committed, faults, unrolled>>
  BY AnsweredIsAlone DEF Resume, ResumeOk, ResumeError, dbVars, IInv, Statements, Writing
<1>2. running' \in Job \cup {NoJob} /\ cancels' \in [Clients -> 0..MaxCancels]
  BY <1>1 DEF TypeOK
<1>3. ASSUME NEW stmt \in {"write1", "write2", "commit", "close", "rollback"}, Submit(c, stmt, queue),
             UNCHANGED <<lock, outcome>>,
             stmt = "write1" => owner = c /\ pending = {},
             stmt = "write2" => owner = c /\ pending = {First(c)},
             stmt = "commit" => owner = c /\ pending = {First(c), Second(c)}
      PROVE  IInv'
  <2>1. /\ queue' = <<[block |-> Block(c), stmt |-> stmt, orphan |-> FALSE]>>
        /\ pc' = [pc EXCEPT ![c] = stmt] /\ answer' = [answer EXCEPT ![c] = "none"]
    BY <1>1, <1>3, QueueOfOne DEF Submit
  <2>2. stmt \in Statements
    BY DEF Statements, Writing
  <2> QED
    BY <1>1, <1>2, <1>3, <2>1, <2>2, SubmitKeeps DEF TypeOK
<1>4. ASSUME NEW result \in {"answered", "committed", "failed", "cancelled"}, Leave(c, result),
             UNCHANGED queue, result = "committed" => {First(c), Second(c)} \subseteq committed
      PROVE  IInv'
  BY <1>1, <1>2, <1>4, LeaveKeeps DEF TypeOK
<1>5. CASE ResumeOk(c)
  <2>1. CASE pc[c] = "begin" /\ Submit(c, "write1", queue) /\ UNCHANGED <<lock, outcome>>
    BY <1>1, <1>3, <1>5, <2>1 DEF Bodies, ResumeOk
  <2>2. CASE pc[c] = "write1" /\ Submit(c, "write2", queue) /\ UNCHANGED <<lock, outcome>>
    BY <1>1, <1>3, <1>5, <2>2 DEF Bodies, ResumeOk
  <2>3. CASE pc[c] = "write2" /\ Submit(c, "commit", queue) /\ UNCHANGED <<lock, outcome>>
    BY <1>1, <1>3, <1>5, <2>3 DEF Bodies, ResumeOk
  <2>4. ASSUME NEW stmt \in {"close", "rollback"}, Submit(c, stmt, queue),
               UNCHANGED <<lock, outcome>>
        PROVE  IInv'
    BY <1>1, <1>3, <2>4
  <2>5. CASE pc[c] = "rollback" /\ Leave(c, "failed") /\ UNCHANGED queue
    BY <1>4, <2>5
  <2>6. CASE Leave(c, "answered") /\ UNCHANGED queue
    BY <1>4, <2>6
  <2>7. CASE pc[c] = "commit" /\ Leave(c, "committed") /\ UNCHANGED queue
    BY <1>1, <1>4, <1>5, <2>7 DEF Bodies, ResumeOk
  <2> QED
    BY <1>5, <2>1, <2>2, <2>3, <2>4, <2>5, <2>6, <2>7 DEF ResumeOk
<1>6. CASE ResumeError(c)
  <2>1. CASE Submit(c, "rollback", queue) /\ UNCHANGED <<lock, outcome>>
    BY <1>3, <2>1
  <2>2. CASE Leave(c, "failed") /\ UNCHANGED queue
    BY <1>4, <2>2
  <2> QED
    BY <1>6, <2>1, <2>2 DEF ResumeError
<1> QED
  BY <1>5, <1>6 DEF Resume

-----------------------------------------------------------------------------
(* Cancellation.                                                           *)
LEMMA CancelWaitingKeeps ==
  ASSUME IInv, NEW c \in Clients, CancelWaiting(c)
  PROVE  IInv'
<1>1. /\ TypeOK /\ Holders /\ OneStatement /\ NoStranger /\ Bodies /\ AckedIsDurable
      /\ pc[c] \in {"want_read", "want_tx"} /\ pc' = [pc EXCEPT ![c] = "idle"]
      /\ outcome' = [outcome EXCEPT ![Block(c)] = "cancelled"]
      /\ cancels[c] < MaxCancels /\ cancels' = [cancels EXCEPT ![c] = @ + 1]
      /\ UNCHANGED <<lock, answer, queue, running, requests, owner, pending, committed,
                     faults, unrolled>>
  BY DEF IInv, CancelWaiting, MayCancel, workerVars, dbVars
<1>2. lock # c
  BY <1>1 DEF Holders, Statements, Writing
<1>3. pc'[c] = "idle" /\ \A d \in Clients : d # c => pc'[d] = pc[d]
  BY <1>1 DEF TypeOK
<1>4. TypeOK'
  <2>1. cancels' \in [Clients -> 0..MaxCancels]
    BY <1>1, BoundsAssumption DEF TypeOK
  <2>2. /\ outcome' \in [Blocks -> {"none", "answered", "committed", "failed", "cancelled"}]
        /\ pc' \in [Clients -> Statements \cup {"idle", "want_read", "want_tx"}]
    BY <1>1 DEF TypeOK
  <2> QED
    BY <1>1, <2>1, <2>2 DEF TypeOK
<1>5. Holders'
  BY <1>1, <1>2, <1>3 DEF Holders, Statements, Writing
<1>6. \A d \in Clients : Block(d)' = Block(d) /\ (d # c => Own(d)' = Own(d))
  BY <1>1, <1>3 DEF Block, Own
<1>7. OneStatement'
  BY <1>1, <1>2, <1>6 DEF OneStatement, IsQueued, IsRunning, IsAnswered, Asleep
<1>8. NoStranger'
  BY <1>1, <1>2, <1>3 DEF NoStranger
<1>9. Bodies'
  BY <1>1, <1>2, <1>3, <1>6 DEF Bodies, First, Second
<1>10. AckedIsDurable'
  BY <1>1 DEF AckedIsDurable, TypeOK
<1> QED
  BY <1>4, <1>5, <1>7, <1>8, <1>9, <1>10 DEF IInv

(* A job whose task was cancelled is dropped, or runs on for nobody.       *)
LEMMA OrphanedIsOrphan ==
  ASSUME TypeOK, Holders, OneStatement, NEW c \in Clients, lock = c
  PROVE  /\ Orphaned(c) \in Job \cup {NoJob}
         /\ Orphaned(c) = NoJob \/ Orphaned(c).orphan
         /\ Orphaned(c) # NoJob =>
              running # NoJob /\ ClientOf(Orphaned(c)) = ClientOf(running)
              /\ Orphaned(c).stmt = running.stmt
<1>1. running = NoJob \/ running = Own(c) \/ running.orphan
  BY DEF OneStatement, IsQueued, IsRunning, IsAnswered, Asleep
<1>2. Own(c) \in Job /\ ClientOf(Own(c)) = c
  BY OwnIsJob
<1>3. running # NoJob => [running EXCEPT !.orphan = TRUE] \in Job
  BY DEF TypeOK, Job
<1> QED
  BY <1>1, <1>2, <1>3, NoJobAssumption DEF Orphaned, Job, ClientOf, TypeOK

(* A block cancelled inside the try asks for its rollback.                 *)
LEMMA CancelInBodyKeeps ==
  ASSUME IInv, NEW c \in Clients, CancelInBody(c)
  PROVE  IInv'
<1>1. /\ TypeOK /\ Holders /\ OneStatement /\ NoStranger
      /\ pc[c] \in Writing /\ running' = Orphaned(c)
      /\ Submit(c, "rollback", Unqueued(c))
      /\ cancels[c] < MaxCancels /\ cancels' = [cancels EXCEPT ![c] = @ + 1]
      /\ UNCHANGED <<lock, outcome, requests, owner, pending, committed, faults, unrolled>>
  BY DEF IInv, CancelInBody, MayCancel, dbVars
<1>2. lock = c /\ pc[c] # "idle" /\ "rollback" \in Statements
  BY <1>1 DEF Holders, Statements, Writing
<1>3. /\ queue' = <<[block |-> Block(c), stmt |-> "rollback", orphan |-> FALSE]>>
      /\ pc' = [pc EXCEPT ![c] = "rollback"] /\ answer' = [answer EXCEPT ![c] = "none"]
  BY <1>1, <1>2, UnqueuedIsEmpty, QueueOfOne DEF Submit
<1>4. running = NoJob \/ running = Own(c)
  BY <1>1, <1>2 DEF OneStatement, IsQueued, IsRunning, IsAnswered, Asleep, NoStranger
<1>5. /\ running' \in Job \cup {NoJob} /\ (running' = NoJob \/ running'.orphan)
      /\ running' # NoJob => ClientOf(running') = c /\ running'.stmt \in Writing
  BY <1>1, <1>2, <1>4, OrphanedIsOrphan, OwnIsJob DEF Own
<1>6. cancels' \in [Clients -> 0..MaxCancels]
  BY <1>1, BoundsAssumption DEF TypeOK
<1> QED
  BY <1>1, <1>2, <1>3, <1>5, <1>6, SubmitKeeps DEF TypeOK, Writing

(* A task cancelled outside the try leaves the lock, and its job behind.   *)
LEMMA CancelOutsideBodyKeeps ==
  ASSUME IInv, NEW c \in Clients, CancelOutsideBody(c)
  PROVE  IInv'
<1>1. /\ TypeOK /\ Holders /\ OneStatement
      /\ pc[c] \in Outside /\ Leave(c, "cancelled")
      /\ queue' = Unqueued(c) /\ running' = Orphaned(c)
      /\ cancels[c] < MaxCancels /\ cancels' = [cancels EXCEPT ![c] = @ + 1]
      /\ NoteDropped(c) /\ UNCHANGED <<requests, owner, pending, committed, faults>>
  BY DEF IInv, CancelOutsideBody, MayCancel, dbVars
<1>2. lock = c
  BY <1>1 DEF Holders, Statements, Writing, Outside
<1>3. /\ queue' = <<>> /\ running' \in Job \cup {NoJob}
      /\ running' = NoJob \/ running'.orphan
  BY <1>1, <1>2, UnqueuedIsEmpty, OrphanedIsOrphan
<1>4. cancels' \in [Clients -> 0..MaxCancels]
  BY <1>1, BoundsAssumption DEF TypeOK
<1>5. unrolled' \subseteq Blocks
  BY <1>1, <1>2, OwnIsJob DEF NoteDropped, TypeOK
<1> QED
  BY <1>1, <1>2, <1>3, <1>4, <1>5, LeaveKeeps

-----------------------------------------------------------------------------
(* The worker thread.                                                      *)
LEMMA TakeKeeps ==
  ASSUME IInv, Take
  PROVE  IInv'
<1>1. /\ TypeOK /\ Holders /\ OneStatement /\ Bodies /\ AckedIsDurable
      /\ running = NoJob /\ queue # <<>> /\ running' = Head(queue) /\ queue' = Tail(queue)
      /\ UNCHANGED <<lock, pc, answer, requests, outcome, cancels, owner, pending, committed,
                     faults, unrolled>>
  BY DEF IInv, Take, loopVars, dbVars
<1>2. lock \in Clients /\ IsQueued(lock)
  BY <1>1 DEF TypeOK, OneStatement, IsRunning, IsAnswered
<1>3. running' = Own(lock) /\ queue' = <<>> /\ Own(lock) \in Job
      /\ Own(lock) # NoJob /\ ~Own(lock).orphan
  BY <1>1, <1>2, QueueOfOne, OwnIsJob DEF IsQueued
<1>4. TypeOK'
  BY <1>1, <1>3 DEF TypeOK
<1>5. \A d \in Clients : Block(d)' = Block(d) /\ Own(d)' = Own(d)
  BY <1>1 DEF Block, Own
<1>6. Holders' /\ NoStranger' /\ AckedIsDurable'
  BY <1>1, <1>3 DEF Holders, NoStranger, AckedIsDurable
<1>7. OneStatement'
  BY <1>1, <1>2, <1>3, <1>5, NobodyAssumption DEF OneStatement, IsQueued, IsRunning
<1>8. Bodies'
  BY <1>1, <1>5 DEF Bodies, First, Second
<1> QED
  BY <1>4, <1>6, <1>7, <1>8 DEF IInv

(* A statement ends: what is left to show is about the database.           *)
LEMMA FinishKeeps ==
  ASSUME IInv, running # NoJob, NEW result \in {"ok", "error"}, Finish(result),
         owner' \in Clients \cup {NoClient}, pending' \subseteq Writes, committed' \subseteq Writes,
         committed \subseteq committed', faults' \in 0..MaxFaults, unrolled' \subseteq Blocks,
         owner' = NoClient => pending' = {},
         \A c \in Clients : lock = c /\ running = Own(c) =>
           /\ pc[c] = "begin" /\ result = "ok" => owner' = c /\ pending' = {}
           /\ pc[c] = "write1" =>
                owner' = c /\ pending' = IF result = "ok" THEN {First(c)} ELSE {}
           /\ pc[c] = "write2" =>
                owner' = c /\ pending' = IF result = "ok" THEN {First(c), Second(c)} ELSE {First(c)}
           /\ pc[c] = "commit" /\ result # "ok" => owner' = c /\ pending' = {First(c), Second(c)}
           /\ pc[c] = "commit" /\ result = "ok" => {First(c), Second(c)} \subseteq committed'
  PROVE  IInv'
<1>1. /\ TypeOK /\ Holders /\ OneStatement /\ NoStranger /\ AckedIsDurable
      /\ running' = NoJob /\ UNCHANGED <<lock, pc, queue, requests, outcome, cancels>>
      /\ answer' = IF running.orphan THEN answer
                   ELSE [answer EXCEPT ![ClientOf(running)] = result]
  BY DEF IInv, Finish
<1>2. \A d \in Clients : /\ Block(d)' = Block(d) /\ Own(d)' = Own(d)
                         /\ First(d)' = First(d) /\ Second(d)' = Second(d)
  BY <1>1 DEF Block, Own, First, Second
<1>3. AckedIsDurable'
  BY <1>1 DEF AckedIsDurable
<1>4. CASE running.orphan
  <2>1. \A d \in Clients : lock = d => IsQueued(d)
    BY <1>1, <1>4, OwnIsJob DEF OneStatement, IsRunning, IsAnswered
  <2>2. answer' = answer
    BY <1>1, <1>4
  <2>3. TypeOK'
    BY <1>1, <2>2 DEF TypeOK
  <2>4. Holders' /\ NoStranger'
    BY <1>1, <2>2 DEF Holders, NoStranger
  <2>5. OneStatement'
    BY <1>1, <1>2, <2>1, <2>2 DEF OneStatement, IsQueued, Asleep
  <2>6. Bodies'
    BY <1>1, <1>4, <2>1, <2>2 DEF Bodies, IsQueued, NoStranger, Writing
  <2> QED
    BY <1>3, <2>3, <2>4, <2>5, <2>6 DEF IInv
<1>5. CASE ~running.orphan
  <2>1. lock \in Clients /\ running = Own(lock) /\ queue = <<>>
    BY <1>1, <1>5 DEF OneStatement, IsQueued, IsRunning, IsAnswered, Asleep, TypeOK
  <2>2. ClientOf(running) = lock
    BY <1>1, <2>1, OwnIsJob
  <2>3. /\ answer' = [answer EXCEPT ![lock] = result] /\ answer'[lock] = result
        /\ \A d \in Clients : d # lock => answer'[d] = answer[d]
    BY <1>1, <1>5, <2>1, <2>2 DEF TypeOK
  <2>4. TypeOK'
    <3>1. answer' \in [Clients -> {"none", "ok", "error"}]
      BY <1>1, <2>3 DEF TypeOK
    <3> QED
      BY <1>1, <3>1 DEF TypeOK
  <2>5. Holders' /\ NoStranger'
    BY <1>1, <2>3 DEF Holders, NoStranger
  <2>6. OneStatement'
    BY <1>1, <2>1, <2>3, NobodyAssumption DEF OneStatement, IsAnswered
  <2>7. Bodies'
    BY <1>1, <1>2, <2>1, <2>3 DEF Bodies
  <2> QED
    BY <1>3, <2>4, <2>5, <2>6, <2>7 DEF IInv
<1> QED
  BY <1>4, <1>5

(* The worker carries a statement out.                                     *)
LEMMA WorkerSucceedsKeeps ==
  ASSUME IInv, WorkerSucceeds
  PROVE  IInv'
<1>1. /\ TypeOK /\ Bodies /\ running # NoJob /\ Finish("ok") /\ UNCHANGED <<faults, unrolled>>
      /\ running \in Job /\ running.block \in Blocks /\ running.block[1] \in Clients
  BY DEF IInv, WorkerSucceeds, TypeOK, Job, Blocks
<1>2. \A c \in Clients : running = Own(c) => running.stmt = pc[c] /\ running.block = Block(c)
                                            /\ Block(c)[1] = c
  BY DEF Own, Block
<1>3. CASE running.stmt \in {"read", "close", "commit"} /\ EndTransaction(pending)
  <2>1. /\ owner' = NoClient /\ pending' = {} /\ committed' = committed \cup pending
    BY <1>3 DEF EndTransaction
  <2>2. committed' \subseteq Writes /\ committed \subseteq committed' /\ faults' \in 0..MaxFaults
    BY <1>1, <2>1 DEF TypeOK
  <2>3. \A c \in Clients : lock = c /\ running = Own(c) /\ pc[c] = "commit" =>
          {First(c), Second(c)} \subseteq committed'
    <3> SUFFICES ASSUME NEW c \in Clients, lock = c, running = Own(c), pc[c] = "commit"
                 PROVE  {First(c), Second(c)} \subseteq committed'
      OBVIOUS
    <3>1. answer[c] = "none"
      <4>1. ~running.orphan
        BY DEF Own
      <4> QED
        BY <1>1, <4>1 DEF IInv, OneStatement, IsQueued, IsRunning, IsAnswered, Asleep
    <3>2. pending = {First(c), Second(c)}
      BY <1>1, <1>2, <1>3, <3>1 DEF Bodies
    <3> QED
      BY <2>1, <3>2
  <2> QED
    BY <1>1, <1>2, <1>3, <2>1, <2>2, <2>3, FinishKeeps DEF TypeOK, Writing
<1>4. CASE running.stmt = "begin" /\ owner = NoClient /\ owner' = running.block[1]
           /\ UNCHANGED <<pending, committed>>
  <2>1. pending = {} /\ owner' \in Clients /\ owner' # NoClient
    BY <1>1, <1>4, NobodyAssumption DEF Bodies
  <2> QED
    BY <1>1, <1>2, <1>4, <2>1, FinishKeeps DEF TypeOK, Writing
<1>5. CASE running.stmt \in Writing /\ UNCHANGED owner
  <2> DEFINE w == <<running.block, IF running.stmt = "write1" THEN 1 ELSE 2>>
  <2>1. IF owner = NoClient
        THEN committed' = committed \cup {w} /\ UNCHANGED pending
        ELSE pending' = pending \cup {w} /\ UNCHANGED committed
    BY <1>5 DEF WorkerSucceeds, Execute, Writing
  <2>2. w \in Writes
    BY <1>1 DEF Writes
  <2>3. \A c \in Clients : running = Own(c) =>
          w = IF pc[c] = "write1" THEN First(c) ELSE Second(c)
    BY <1>2 DEF First, Second
  <2> HIDE DEF w
  <2>4. /\ pending' \subseteq Writes /\ committed' \subseteq Writes
        /\ committed \subseteq committed' /\ owner' \in Clients \cup {NoClient}
        /\ faults' \in 0..MaxFaults
        /\ owner' = NoClient => pending' = {}
    BY <1>1, <1>5, <2>1, <2>2 DEF TypeOK, Bodies
  <2>5. ASSUME NEW c \in Clients, lock = c, running = Own(c)
        PROVE  /\ pc[c] \in Writing
               /\ pc[c] = "write1" => owner' = c /\ pending' = {First(c)}
               /\ pc[c] = "write2" => owner' = c /\ pending' = {First(c), Second(c)}
    <3>1. pc[c] \in Writing
      BY <1>2, <1>5, <2>5
    <3>2. answer[c] = "none"
      <4>1. ~running.orphan
        BY <2>5 DEF Own
      <4> QED
        BY <1>1, <2>5, <4>1 DEF IInv, OneStatement, IsQueued, IsRunning, IsAnswered, Asleep
    <3>3. owner = c /\ c # NoClient
      BY <1>1, <2>5, <3>1, NobodyAssumption DEF Bodies, Writing
    <3>4. pending' = pending \cup {w} /\ owner' = c
      BY <1>5, <2>1, <3>3
    <3> QED
      BY <1>1, <2>3, <2>5, <3>1, <3>2, <3>4 DEF Bodies
  <2> QED
    BY <1>1, <2>4, <2>5, FinishKeeps DEF TypeOK, Writing
<1>6. \/ running.stmt \in {"read", "close", "commit"} /\ EndTransaction(pending)
      \/ running.stmt = "rollback" /\ EndTransaction({})
      \/ running.stmt = "begin" /\ owner = NoClient /\ owner' = running.block[1]
           /\ UNCHANGED <<pending, committed>>
      \/ running.stmt \in Writing /\ UNCHANGED owner
  BY DEF WorkerSucceeds, Execute
<1>7. CASE running.stmt = "rollback" /\ EndTransaction({})
  <2>1. owner' = NoClient /\ pending' = {} /\ committed' = committed
    BY <1>7 DEF EndTransaction
  <2>2. committed' \subseteq Writes /\ committed \subseteq committed' /\ faults' \in 0..MaxFaults
    BY <1>1, <2>1 DEF TypeOK
  <2> QED
    BY <1>1, <1>2, <1>7, <2>1, <2>2, FinishKeeps DEF TypeOK, Writing
<1> QED
  BY <1>3, <1>4, <1>5, <1>6, <1>7

(* The worker refuses a statement or fails.                                *)
LEMMA WorkerErrsKeeps ==
  ASSUME IInv, WorkerRefusesBegin \/ WorkerFails
  PROVE  IInv'
<1>1. /\ TypeOK /\ Bodies /\ running # NoJob /\ Finish("error")
  BY DEF IInv, WorkerRefusesBegin, WorkerFails
<1>2. faults' \in 0..MaxFaults
  BY <1>1, BoundsAssumption DEF WorkerRefusesBegin, WorkerFails, TypeOK
<1>3. /\ \/ UNCHANGED <<owner, pending, committed>>
         \/ running.stmt = "read" /\ EndTransaction({})
  BY DEF WorkerRefusesBegin, WorkerFails, dbVars
<1>4. /\ owner' \in Clients \cup {NoClient} /\ pending' \subseteq Writes
      /\ committed' = committed /\ committed \subseteq Writes
      /\ owner' = NoClient => pending' = {}
  BY <1>1, <1>3 DEF EndTransaction, Bodies, TypeOK
<1>5. ASSUME NEW c \in Clients, lock = c, running = Own(c)
      PROVE  /\ pc[c] = "write1" => owner' = c /\ pending' = {}
             /\ pc[c] = "write2" => owner' = c /\ pending' = {First(c)}
             /\ pc[c] = "commit" => owner' = c /\ pending' = {First(c), Second(c)}
  <2>1. running.stmt = pc[c] /\ ~running.orphan
    BY <1>5 DEF Own
  <2>2. answer[c] = "none"
    BY <1>1, <1>5, <2>1 DEF IInv, OneStatement, IsQueued, IsRunning, IsAnswered, Asleep
  <2>3. CASE pc[c] = "read"
    BY <2>3
  <2>4. CASE pc[c] # "read"
    BY <1>1, <1>3, <1>5, <2>1, <2>2, <2>4 DEF Bodies
  <2> QED
    BY <2>3, <2>4
<1>6. unrolled' \subseteq Blocks
  BY <1>1 DEF WorkerRefusesBegin, WorkerFails, TypeOK, Job
<1> QED
  BY <1>1, <1>2, <1>4, <1>5, <1>6, FinishKeeps

(* The invariant is inductive.                                             *)
LEMMA StepKeeps ==
  ASSUME IInv, [Next]_vars
  PROVE  IInv'
<1>1. ASSUME NEW c \in Clients, NEW kind \in {"want_read", "want_tx"}, Arrive(c, kind)
      PROVE  IInv'
  BY <1>1, ArriveKeeps
<1>2. ASSUME NEW c \in Clients, Acquire(c) PROVE IInv'
  BY <1>2, AcquireKeeps
<1>3. ASSUME NEW c \in Clients, Resume(c) PROVE IInv'
  BY <1>3, ResumeKeeps
<1>4. ASSUME NEW c \in Clients, Cancel(c) PROVE IInv'
  BY <1>4, CancelWaitingKeeps, CancelInBodyKeeps, CancelOutsideBodyKeeps DEF Cancel
<1>5. CASE Worker
  BY <1>5, TakeKeeps, WorkerSucceedsKeeps, WorkerErrsKeeps DEF Worker
<1>6. CASE UNCHANGED vars
  <2>1. UNCHANGED <<lock, pc, answer, queue, running, owner, pending, committed,
                    requests, outcome, cancels, faults, unrolled>>
    BY <1>6 DEF vars
  <2>2. TypeOK' = TypeOK /\ AckedIsDurable' = AckedIsDurable /\ Holders' = Holders
        /\ NoStranger' = NoStranger
    BY <2>1 DEF TypeOK, AckedIsDurable, Holders, NoStranger
  <2>3. OneStatement' = OneStatement /\ Bodies' = Bodies
    BY <2>1 DEF OneStatement, Bodies, IsQueued, IsRunning, IsAnswered, Asleep, Own, Block,
                First, Second
  <2> QED
    BY <2>2, <2>3 DEF IInv
<1> QED
  BY <1>1, <1>2, <1>3, <1>4, <1>5, <1>6 DEF Next

(* Only the task that holds the lock has a statement waited for, and at    *)
(* most one statement of a task that is gone comes before it.              *)
THEOREM Invariant == Spec => []IInv
BY InitIInv, StepKeeps, PTL DEF Spec

(* The variables keep their shape, and the executor never has more than    *)
(* one statement waiting.                                                  *)
THEOREM TypeCorrect == Spec => []TypeOK
<1>1. IInv => TypeOK
  BY DEF IInv
<1> QED
  BY <1>1, Invariant, PTL

(* transaction() holds the lock for the whole block: no statement of       *)
(* another task, not even one left behind by a cancelled await, runs       *)
(* inside it, under any mix of cancellations and failures.                 *)
THEOREM AloneInBody == Spec => []BodyIsAlone
<1>1. IInv => BodyIsAlone
  <2> SUFFICES ASSUME IInv, NEW c \in Clients, owner = c, running # NoJob,
                      pc[c] \in Writing \cup {"close", "rollback", "commit"}
               PROVE  ClientOf(running) = c
    BY DEF BodyIsAlone
  <2>1. TypeOK /\ Holders /\ OneStatement /\ NoStranger /\ lock = c
    BY DEF IInv, Holders, Statements, Writing
  <2>2. running = Own(c) \/ running.orphan
    BY <2>1 DEF OneStatement, IsQueued, IsRunning, IsAnswered, Asleep
  <2> QED
    BY <2>1, <2>2, OwnIsJob DEF NoStranger
<1> QED
  BY <1>1, Invariant, PTL

(* A transaction reported as committed is in the database, under any mix   *)
(* of cancellations and failures.                                          *)
THEOREM AckedStays == Spec => []AckedIsDurable
<1>1. IInv => AckedIsDurable
  BY DEF IInv
<1> QED
  BY <1>1, Invariant, PTL

-----------------------------------------------------------------------------
(* All or nothing, as far as the adapter keeps it.  A half block, in the   *)
(* open transaction or durable, lacks its ROLLBACK, or the ROLLBACK is     *)
(* still coming: its task holds the lock in the body or awaits it          *)
(* (Attended), or the worker is running it.                                *)
Half(S, b) == ~(<<b, 1>> \in S <=> <<b, 2>> \in S)

Attended(b) ==
  \E c \in Clients :
    /\ lock = c /\ Block(c) = b
    /\ pc[c] \in Writing \/ (pc[c] = "rollback" /\ answer[c] = "none")

BeingRolled(b) == running # NoJob /\ running.stmt = "rollback" /\ running.block = b
LateWrite == running # NoJob /\ running.stmt \in Writing

WInv ==
  /\ \A b \in Blocks : Half(committed, b) => b \in unrolled
  /\ \A b \in Blocks : Half(pending, b) => b \in unrolled \/ Attended(b) \/ BeingRolled(b)
  /\ LateWrite => owner # NoClient /\ (running.block \in unrolled \/ Attended(running.block))

(* The two rows of one block, and unions.                                  *)
LEMMA HalfSets ==
  /\ \A b \in Blocks : ~Half({}, b)
  /\ \A b \in Blocks, c \in Clients : ~Half({First(c), Second(c)}, b)
  /\ \A S, T : \A b \in Blocks : Half(S \cup T, b) => Half(S, b) \/ Half(T, b)
  /\ \A S, w : \A b \in Blocks : w[1] # b => (Half(S \cup {w}, b) => Half(S, b))
<1>1. \A b \in Blocks, c \in Clients : ~Half({First(c), Second(c)}, b)
  BY DEF Half, First, Second
<1> QED
  BY <1>1 DEF Half

(* The database is empty.                                                  *)
LEMMA InitWInv == Init => WInv
BY DEF Init, WInv, Half, LateWrite

(* The holder's own statement is what runs, unless an orphan does, and     *)
(* then the holder still waits.                                            *)
LEMMA WhoRuns ==
  ASSUME IInv, running # NoJob
  PROVE  /\ \/ /\ lock \in Clients /\ running = Own(lock) /\ ~running.orphan
               /\ running.stmt = pc[lock] /\ running.block = Block(lock)
               /\ ClientOf(running) = lock
            \/ running.orphan /\ \A c \in Clients : lock = c => IsQueued(c)
         /\ \A c \in Clients : lock = c => answer[c] = "none"
BY OwnIsJob DEF IInv, TypeOK, OneStatement, IsQueued, IsRunning, IsAnswered, Asleep, Own

(* Steps of a task that holds no lock and awaits no worker.                *)
LEMMA OutsiderHalf ==
  ASSUME IInv, WInv, NEW c \in Clients,
         (\E kind \in {"want_read", "want_tx"} : Arrive(c, kind)) \/ CancelWaiting(c)
  PROVE  WInv'
<1>1. /\ UNCHANGED <<lock, answer, running, owner, pending, committed, unrolled>>
      /\ \A d \in Clients : d # c => pc'[d] = pc[d] /\ requests'[d] = requests[d]
  BY DEF Arrive, CancelWaiting, MayCancel, workerVars, dbVars, IInv, TypeOK
<1>2. lock # c
  BY DEF Arrive, CancelWaiting, IInv, Holders, Statements, Writing
<1>3. \A b \in Blocks : Attended(b)' = Attended(b)
  BY <1>1, <1>2 DEF Attended, Block
<1>4. running # NoJob => running.block \in Blocks
  BY DEF IInv, TypeOK, Job
<1> QED
  BY <1>1, <1>3, <1>4 DEF WInv, Half, BeingRolled, LateWrite

(* A read or a BEGIN is queued; nobody attended to a block before.         *)
LEMMA AcquireHalf ==
  ASSUME IInv, WInv, NEW c \in Clients, Acquire(c)
  PROVE  WInv'
<1>1. lock = NoClient /\ UNCHANGED <<running, owner, pending, committed, unrolled>>
  BY DEF Acquire, dbVars
<1>2. \A b \in Blocks : ~Attended(b)
  BY <1>1, NobodyAssumption DEF Attended
<1>3. running # NoJob => running.block \in Blocks
  BY DEF IInv, TypeOK, Job
<1> QED
  BY <1>1, <1>2, <1>3 DEF WInv, Half, BeingRolled, LateWrite

(* A body goes on to its next statement, or ends.                          *)
LEMMA ResumeHalf ==
  ASSUME IInv, WInv, NEW c \in Clients, Resume(c)
  PROVE  WInv'
<1>1. /\ lock = c /\ running = NoJob /\ answer[c] # "none"
      /\ UNCHANGED <<requests, running, owner, pending, committed, unrolled>>
  BY AnsweredIsAlone DEF Resume, ResumeOk, ResumeError, dbVars
<1>2. ~LateWrite /\ ~LateWrite' /\ \A b \in Blocks : ~BeingRolled(b)
  BY <1>1 DEF BeingRolled, LateWrite
<1>3. \A b \in Blocks : Attended(b) <=> b = Block(c) /\ pc[c] \in Writing
  BY <1>1 DEF Attended
<1>4. \A b \in Blocks : Half(pending, b) /\ b \notin unrolled => Attended(b)'
  <2> SUFFICES ASSUME NEW b \in Blocks, Half(pending, b), b \notin unrolled
               PROVE  Attended(b)'
    OBVIOUS
  <2>1. b = Block(c) /\ pc[c] \in Writing
    BY <1>2, <1>3 DEF WInv
  <2>2. PICK stmt \in {"write2", "commit", "rollback"} : Submit(c, stmt, queue) /\ UNCHANGED lock
    BY <2>1 DEF Resume, ResumeOk, ResumeError, Writing
  <2>3. pc'[c] = stmt /\ answer'[c] = "none" /\ Block(c)' = Block(c)
    BY <1>1, <2>2 DEF Submit, IInv, TypeOK, Block
  <2>4. stmt # "commit"
    <3> SUFFICES ASSUME stmt = "commit" PROVE FALSE
      OBVIOUS
    <3>1. pc[c] = "write2" /\ answer[c] = "ok"
      BY <2>1, <2>2, <2>3 DEF Resume, ResumeOk, ResumeError, Submit, IInv, TypeOK, Writing
    <3>2. pending = {First(c), Second(c)}
      BY <1>1, <3>1 DEF IInv, Bodies
    <3> QED
      BY <3>2, HalfSets
  <2> QED
    BY <1>1, <2>1, <2>2, <2>3, <2>4 DEF Attended, Writing
<1> QED
  BY <1>1, <1>2, <1>4 DEF WInv, Half

(* A cancelled body awaits its rollback.                                   *)
LEMMA CancelInBodyHalf ==
  ASSUME IInv, WInv, NEW c \in Clients, CancelInBody(c)
  PROVE  WInv'
<1>1. /\ TypeOK /\ Holders /\ OneStatement /\ NoStranger
      /\ pc[c] \in Writing /\ lock = c /\ running' = Orphaned(c)
      /\ pc'[c] = "rollback" /\ answer'[c] = "none"
      /\ UNCHANGED <<lock, requests, owner, pending, committed, unrolled>>
  BY DEF IInv, Holders, Statements, Writing, CancelInBody, MayCancel, Submit, TypeOK, dbVars
<1>2. running = NoJob \/ running = Own(c)
  BY <1>1 DEF OneStatement, IsQueued, IsRunning, IsAnswered, Asleep, NoStranger
<1>3. \A b \in Blocks : ~BeingRolled(b)
  BY <1>1, <1>2 DEF BeingRolled, Own, Writing
<1>4. \A b \in Blocks : Attended(b) => b = Block(c)
  BY <1>1 DEF Attended
<1>5. Attended(Block(c))'
  BY <1>1 DEF Attended, Block
<1>6. running' # NoJob => running'.block = Block(c)
  BY <1>1, <1>2, NoJobAssumption DEF Orphaned, Own, ClientOf, Block
<1>7. owner # NoClient
  BY <1>1, NobodyAssumption DEF IInv, Bodies, Writing
<1>8. Block(c)' = Block(c)
  BY <1>1 DEF Block
<1> QED
  BY <1>1, <1>3, <1>4, <1>5, <1>6, <1>7, <1>8 DEF WInv, Half, LateWrite

(* A task leaves its await outside the body: its ROLLBACK is dropped and   *)
(* noted, is running, or has answered.                                     *)
LEMMA CancelOutsideBodyHalf ==
  ASSUME IInv, WInv, NEW c \in Clients, CancelOutsideBody(c)
  PROVE  WInv'
<1>1. /\ TypeOK /\ Holders /\ OneStatement /\ NoStranger
      /\ pc[c] \in Outside /\ lock = c /\ running' = Orphaned(c)
      /\ NoteDropped(c) /\ UNCHANGED <<requests, owner, pending, committed>>
  BY DEF IInv, Holders, Statements, Writing, Outside, CancelOutsideBody, MayCancel, dbVars
<1>2. unrolled \subseteq unrolled'
  BY <1>1 DEF NoteDropped
<1>3. Block(c) \in Blocks
  BY <1>1, OwnIsJob
<1>4. ASSUME Attended(Block(c)), Block(c) \notin unrolled'
      PROVE  IsRunning(c) /\ pc[c] = "rollback"
  <2>1. pc[c] = "rollback" /\ answer[c] = "none"
    BY <1>1, <1>4 DEF Attended, Outside, Writing
  <2>2. Queued(c) = {}
    BY <1>4, <2>1, <1>1 DEF NoteDropped
  <2>3. ~IsQueued(c)
    <3> SUFFICES ASSUME IsQueued(c) PROVE FALSE
      OBVIOUS
    <3>1. Len(queue) = 1 /\ queue[1] = Own(c) /\ 1 \in DOMAIN queue
      BY DEF IsQueued
    <3>2. 1 \in Queued(c)
      BY <1>1, <3>1, OwnIsJob DEF Queued
    <3> QED
      BY <2>2, <3>2
  <2> QED
    BY <1>1, <2>1, <2>3 DEF OneStatement, IsAnswered
<1>5. \A b \in Blocks : Attended(b) => b = Block(c)
  BY <1>1 DEF Attended
<1>6. running' # NoJob => /\ running # NoJob /\ running'.stmt = running.stmt
                          /\ running'.block = running.block
  BY <1>1, NoJobAssumption DEF Orphaned
<1>7. running # NoJob => running' # NoJob
  <2> SUFFICES ASSUME running # NoJob PROVE Orphaned(c) # NoJob
    BY <1>1
  <2>1. [running EXCEPT !.orphan = TRUE] \in Job
    BY <1>1 DEF TypeOK, Job
  <2> QED
    BY <2>1, NoJobAssumption DEF Orphaned
<1>8. \A b \in Blocks : BeingRolled(b) => BeingRolled(b)'
  BY <1>6, <1>7 DEF BeingRolled
<1>9. Attended(Block(c)) => Block(c) \in unrolled' \/ BeingRolled(Block(c))'
  <2> SUFFICES ASSUME Attended(Block(c)), Block(c) \notin unrolled'
               PROVE  BeingRolled(Block(c))
    BY <1>1, <1>3, <1>8 DEF Block
  <2> QED
    BY <1>1, <1>4, OwnIsJob DEF IsRunning, BeingRolled, Own
<1>10. ASSUME LateWrite' PROVE owner # NoClient /\ running.block \in unrolled'
  <2>1. LateWrite /\ running.block \in Blocks
    BY <1>1, <1>6, <1>10 DEF LateWrite, TypeOK, Job
  <2>2. Attended(running.block) => running.block \in unrolled'
    <3> SUFFICES ASSUME Attended(running.block), running.block \notin unrolled' PROVE FALSE
      OBVIOUS
    <3>1. running = Own(c) /\ pc[c] = "rollback"
      BY <1>4, <1>5, <2>1 DEF IsRunning
    <3> QED
      BY <2>1, <3>1 DEF LateWrite, Own, Writing
  <2> QED
    BY <1>2, <2>1, <2>2 DEF WInv
<1> QED
  <2>1. \A b \in Blocks : Attended(b) => b \in unrolled' \/ BeingRolled(b)'
    BY <1>1, <1>5, <1>9 DEF Block
  <2>2. LateWrite' => owner # NoClient /\ running'.block \in unrolled'
    BY <1>6, <1>10 DEF LateWrite
  <2> QED
    BY <1>1, <1>2, <1>8, <2>1, <2>2 DEF WInv, Half

(* The worker takes the holder's statement.                                *)
LEMMA TakeHalf ==
  ASSUME IInv, WInv, Take
  PROVE  WInv'
<1>1. /\ TypeOK /\ Holders /\ OneStatement /\ running = NoJob /\ queue # <<>>
      /\ running' = Head(queue)
      /\ UNCHANGED <<lock, pc, answer, requests, owner, pending, committed, unrolled>>
  BY DEF IInv, Take, loopVars, dbVars
<1>2. lock \in Clients /\ queue = <<Own(lock)>>
  BY <1>1 DEF TypeOK, OneStatement, IsQueued, IsRunning, IsAnswered
<1>3. running' = Own(lock)
  BY <1>1, <1>2, QueueOfOne
<1>4. \A b \in Blocks : ~BeingRolled(b)
  BY <1>1 DEF BeingRolled
<1>5. \A b : Attended(b)' = Attended(b)
  BY <1>1 DEF Attended, Block
<1>6. ASSUME LateWrite' PROVE owner # NoClient /\ Attended(running'.block)
  <2>1. pc[lock] \in Writing
    BY <1>3, <1>6 DEF LateWrite, Own
  <2>2. owner = lock /\ owner # NoClient
    BY <1>2, <2>1, NobodyAssumption DEF IInv, Bodies, Writing
  <2> QED
    BY <1>2, <1>3, <2>1, <2>2 DEF Attended, Own
<1> QED
  BY <1>1, <1>4, <1>5, <1>6 DEF WInv, Half, LateWrite

(* A COMMIT, or the commit after a read, meets no half block that is not   *)
(* noted.                                                                  *)
LEMMA CommitsMeetNoHalf ==
  ASSUME IInv, WInv, running # NoJob, running.stmt \in {"read", "close", "commit"}
  PROVE  \A b \in Blocks : Half(pending, b) => b \in unrolled
<1>1. \A b : ~BeingRolled(b)
  BY DEF BeingRolled
<1>2. \A b : ~Attended(b)
  <2> SUFFICES ASSUME NEW c \in Clients, lock = c, pc[c] \in Writing \cup {"rollback"}
               PROVE  FALSE
    BY DEF Attended
  <2>1. running.orphan
    BY WhoRuns DEF Writing
  <2> QED
    BY <2>1 DEF IInv, NoStranger, Writing
<1> QED
  BY <1>1, <1>2 DEF WInv

(* A statement is carried out.                                             *)
LEMMA WorkerSucceedsHalf ==
  ASSUME IInv, WInv, WorkerSucceeds
  PROVE  WInv'
<1>1. /\ running # NoJob /\ running' = NoJob /\ UNCHANGED <<lock, pc, requests, unrolled>>
      /\ TypeOK /\ running.block \in Blocks
      /\ answer' = IF running.orphan THEN answer
                   ELSE [answer EXCEPT ![ClientOf(running)] = "ok"]
  BY DEF IInv, WorkerSucceeds, Finish, TypeOK, Job
<1>2. ~LateWrite'
  BY <1>1 DEF LateWrite
<1>3. CASE running.stmt \in {"read", "close", "commit"} /\ EndTransaction(pending)
  <2>1. committed' = committed \cup pending /\ pending' = {}
    BY <1>3 DEF EndTransaction
  <2>2. \A b \in Blocks : Half(committed', b) => b \in unrolled
    BY <1>1, <1>3, <2>1, CommitsMeetNoHalf, HalfSets DEF WInv
  <2>3. \A b \in Blocks : ~Half(pending', b)
    BY <2>1, HalfSets
  <2> QED
    BY <1>1, <1>2, <2>2, <2>3 DEF WInv, Half
<1>4. CASE running.stmt = "rollback" /\ EndTransaction({})
  <2>1. committed' = committed /\ pending' = {}
    BY <1>4 DEF EndTransaction
  <2>2. \A b \in Blocks : ~Half(pending', b)
    BY <2>1, HalfSets
  <2> QED
    BY <1>1, <1>2, <2>1, <2>2 DEF WInv, Half
<1>5. ASSUME running.stmt # "rollback"
      PROVE  \A b \in Blocks : Attended(b) => Attended(b)'
  <2> SUFFICES ASSUME NEW c \in Clients, lock = c,
                      pc[c] \in Writing \/ (pc[c] = "rollback" /\ answer[c] = "none")
               PROVE  pc[c] \in Writing \/ (pc[c] = "rollback" /\ answer'[c] = "none")
    BY <1>1 DEF Attended, Block
  <2>1. CASE running.orphan
    BY <1>1, <2>1
  <2>2. CASE ~running.orphan
    BY <1>1, <1>5, <2>2, WhoRuns
  <2> QED
    BY <2>1, <2>2
<1>6. CASE running.stmt = "begin" /\ UNCHANGED <<pending, committed>>
  <2>1. \A b : ~BeingRolled(b)
    BY <1>6 DEF BeingRolled
  <2> QED
    BY <1>1, <1>2, <1>5, <1>6, <2>1 DEF WInv, Half
<1>7. CASE running.stmt \in Writing
  <2>1. owner # NoClient /\ (running.block \in unrolled \/ Attended(running.block))
    BY <1>1, <1>7 DEF WInv, LateWrite
  <2>2. PICK n \in {1, 2} : pending' = pending \cup {<<running.block, n>>} /\ committed' = committed
    BY <1>7, <2>1 DEF WorkerSucceeds, Execute, Writing
  <2>3. \A b \in Blocks : b # running.block => (Half(pending', b) => Half(pending, b))
    BY <2>2 DEF Half
  <2>4. \A b : ~BeingRolled(b)
    BY <1>7 DEF BeingRolled, Writing
  <2>5. running.stmt # "rollback"
    BY <1>7 DEF Writing
  <2>6. \A b \in Blocks : Half(pending', b) => b \in unrolled \/ Attended(b)
    BY <2>1, <2>3, <2>4 DEF WInv
  <2> QED
    BY <1>1, <1>2, <1>5, <2>2, <2>5, <2>6 DEF WInv, Half
<1> QED
  BY <1>3, <1>4, <1>6, <1>7 DEF WorkerSucceeds, Execute

(* A statement fails; a ROLLBACK that does is noted.                       *)
LEMMA WorkerErrsHalf ==
  ASSUME IInv, WInv, WorkerRefusesBegin \/ WorkerFails
  PROVE  WInv'
<1>1. /\ running # NoJob /\ running' = NoJob /\ UNCHANGED <<lock, pc, requests, committed>>
      /\ TypeOK /\ running.block \in Blocks
      /\ answer' = IF running.orphan THEN answer
                   ELSE [answer EXCEPT ![ClientOf(running)] = "error"]
      /\ unrolled \subseteq unrolled'
      /\ running.stmt = "rollback" => running.block \in unrolled'
  BY DEF IInv, WorkerRefusesBegin, WorkerFails, Finish, EndTransaction, dbVars, TypeOK, Job
<1>2. pending' = pending \/ pending' = {}
  BY DEF WorkerRefusesBegin, WorkerFails, EndTransaction, dbVars
<1>3. ~LateWrite'
  BY <1>1 DEF LateWrite
<1>4. \A b \in Blocks : Half(pending', b) => Half(pending, b)
  BY <1>2, HalfSets
<1>5. \A b \in Blocks : BeingRolled(b) => b \in unrolled'
  BY <1>1 DEF BeingRolled
<1>6. ASSUME NEW b \in Blocks, Attended(b) PROVE Attended(b)' \/ b \in unrolled'
  <2>1. PICK c \in Clients :
          /\ lock = c /\ Block(c) = b
          /\ pc[c] \in Writing \/ (pc[c] = "rollback" /\ answer[c] = "none")
    BY <1>6 DEF Attended
  <2>2. CASE running.orphan \/ pc[c] \in Writing
    BY <1>1, <2>1, <2>2 DEF Attended, Block
  <2>3. CASE ~running.orphan /\ pc[c] = "rollback"
    BY <1>1, <2>1, <2>3, WhoRuns
  <2> QED
    BY <2>1, <2>2, <2>3
<1> QED
  BY <1>1, <1>3, <1>4, <1>5, <1>6 DEF WInv, Half

(* "Every write pairs a current-state row with an immutable revision row   *)
(* in one [...] transaction" (repository.py): statements may fail and      *)
(* tasks be cancelled at any await, in any number, and still the two rows  *)
(* part only if the block's ROLLBACK failed or was dropped from the queue. *)
(* TripConnectionRollback shows that they do part then.                    *)
THEOREM RowsTogether == Spec => []OnlyUnrolledIsHalf
<1>1. ASSUME IInv, WInv, [Next]_vars PROVE WInv'
  <2> USE <1>1
  <2>1. ASSUME NEW c \in Clients,
               (\E kind \in {"want_read", "want_tx"} : Arrive(c, kind)) \/ CancelWaiting(c)
        PROVE  WInv'
    BY <2>1, OutsiderHalf
  <2>2. ASSUME NEW c \in Clients, Acquire(c) PROVE WInv'
    BY <2>2, AcquireHalf
  <2>3. ASSUME NEW c \in Clients, Resume(c) PROVE WInv'
    BY <2>3, ResumeHalf
  <2>4. ASSUME NEW c \in Clients, CancelInBody(c) PROVE WInv'
    BY <2>4, CancelInBodyHalf
  <2>5. ASSUME NEW c \in Clients, CancelOutsideBody(c) PROVE WInv'
    BY <2>5, CancelOutsideBodyHalf
  <2>6. CASE Take
    BY <2>6, TakeHalf
  <2>7. CASE WorkerSucceeds
    BY <2>7, WorkerSucceedsHalf
  <2>8. CASE WorkerRefusesBegin \/ WorkerFails
    BY <2>8, WorkerErrsHalf
  <2>9. CASE UNCHANGED vars
    BY <2>9 DEF vars, WInv, Half, Attended, BeingRolled, LateWrite, Block
  <2> QED
    BY <2>1, <2>2, <2>3, <2>4, <2>5, <2>6, <2>7, <2>8, <2>9 DEF Next, Cancel, Worker
<1>2. WInv => OnlyUnrolledIsHalf
  BY DEF WInv, Half, OnlyUnrolledIsHalf, Whole
<1> QED
  BY <1>1, <1>2, InitWInv, Invariant, PTL DEF Spec
=============================================================================
