------------------------------ MODULE ChatGate ------------------------------
(***************************************************************************)
(* The confirmation gate of the chat orchestrator (ADR-20), for one chat   *)
(* thread: src/orchestrator/router.py and manager.py over the scope store  *)
(* of trip_session_state.py, the checkpointed graph of graph.py and the    *)
(* write tools of trip_edit_tool.py and tools.py.                          *)
(*                                                                         *)
(* A request is served by a handler, a coroutine that yields at every      *)
(* await.  The frontend reads the stream it started last and aborts the    *)
(* one before; the server may notice that at once, late or never, so an    *)
(* aborted handler can be interleaved with its successor (Disconnect).     *)
(*                                                                         *)
(* External: LangGraph.  A run works on the messages of the checkpoint it  *)
(* loaded and saves its own after every node; the newest checkpoint wins.  *)
(***************************************************************************)
EXTENDS Naturals, Sequences, FiniteSets

CONSTANTS
  Handlers,         \* requests being served at a time
  Calls,            \* identifiers of write tool calls, never reused
  MaxRevision,      \* bound on the trip's revision
  MaxWrites,        \* bound: times one place call is carried out
  AnswersFirst,     \* the user answers a proposal before typing on
  Resends,          \* a confirmation may be sent again, at any time
  NoCall, NoScope, NoHandler

ASSUME BoundAssumption == MaxRevision \in Nat /\ MaxWrites \in Nat
ASSUME CallsAssumption == IsFiniteSet(Calls)

VARIABLES
  chat,       \* what the thread is about for its whole life
  revision,   \* the trip's revision in TripRepository
  binding,    \* scope document: what the thread is bound to, or NoScope
  pending,    \* scope document: the armed single-use snapshot, or NoScope
  thread,     \* newest checkpoint: unanswered write calls, next node, prompt
  served,     \* handler -> where its coroutine is
  reader,     \* the handler whose stream the frontend reads
  shown,      \* the proposal the user looks at, or NoCall
  tool,       \* call -> "edit" (the trip) or "place" (the place library)
  proposals,  \* auxiliary: call -> revision its proposer had in its prompt
  confirmed,  \* auxiliary: calls the user said yes to
  writes,     \* auxiliary: call -> revisions it was carried out on
  overlapped  \* auxiliary: a request came while another was being served

storeVars == <<binding, pending>>
auxVars == <<chat, proposals, confirmed, writes, overlapped>>
vars == <<chat, revision, binding, pending, thread, served, reader, shown, tool,
          proposals, confirmed, writes, overlapped>>

Revisions == 0..MaxRevision
Kinds == {"trip", "places"}
Binding == [kind : Kinds, revision : Revisions]
Pending == [call : Calls, kind : Kinds, revision : Revisions]

ASSUME NoneAssumption ==
  /\ NoCall \notin Calls \cup Revisions
  /\ NoHandler \notin Handlers
  /\ NoScope \notin Pending

(* A handler's program counter is the await it is about to make.           *)
Idle == [pc |-> "idle"]

Init ==
  /\ chat \in Kinds
  /\ revision = 0
  /\ binding = NoScope /\ pending = NoScope
  /\ thread = [calls |-> {}, next |-> "end", prompt |-> 0]
  /\ served = [h \in Handlers |-> Idle]
  /\ reader = NoHandler /\ shown = NoCall
  /\ tool = [c \in Calls |-> "edit"]
  /\ proposals = [c \in Calls |-> NoCall]
  /\ confirmed = {}
  /\ writes = [c \in Calls |-> <<>>]
  /\ overlapped = FALSE

Goes(h, state) == served' = [served EXCEPT ![h] = state]
At(h, pc) == served[h].pc = pc

-----------------------------------------------------------------------------
(* The frontend.  It sends nothing while it reads a stream, but a stream   *)
(* it has lost (its 60 s timeout, the network) may still be served.        *)
Arrives(h) ==
  /\ At(h, "idle")
  /\ reader' = h
  /\ overlapped' = (overlapped \/ \E g \in Handlers : ~At(g, "idle"))
  /\ UNCHANGED <<revision, storeVars, thread, tool, chat, proposals, writes>>

Send(h) ==
  /\ Arrives(h)
  /\ AnswersFirst => shown = NoCall
  /\ Goes(h, [pc |-> "cancel", for |-> "turn"])
  /\ UNCHANGED <<shown, confirmed>>

Confirm(h) ==
  /\ Arrives(h) /\ shown # NoCall
  /\ Goes(h, [pc |-> "resume"])
  /\ shown' = NoCall
  /\ confirmed' = confirmed \cup {shown}

(* A confirmation that arrives again, from a retry or a second tab: the    *)
(* endpoint asks for no card and no call, whatever was done meanwhile.     *)
Repeat(h) ==
  /\ Resends /\ confirmed # {}
  /\ Arrives(h)
  /\ Goes(h, [pc |-> "resume"])
  /\ UNCHANGED <<shown, confirmed>>

Reject(h) ==
  /\ Arrives(h) /\ shown # NoCall
  /\ Goes(h, [pc |-> "clear", for |-> "reject"])
  /\ shown' = NoCall
  /\ UNCHANGED confirmed

(* The trip is edited elsewhere: PUT or restore, another chat thread.      *)
EditElsewhere ==
  /\ chat = "trip" /\ revision < MaxRevision /\ revision' = revision + 1
  /\ UNCHANGED <<storeVars, thread, served, reader, shown, tool, auxVars>>

(* The handler's task is cancelled, or fails, at its await.                *)
Disconnect(h) ==
  /\ ~At(h, "idle")
  /\ Goes(h, Idle)
  /\ UNCHANGED <<revision, storeVars, thread, reader, shown, tool, auxVars>>

-----------------------------------------------------------------------------
(* acancel_pending_tools(): reads the state, then strips the unanswered    *)
(* calls it saw.  A turn cancels before it clears, a reject after.         *)
AfterCancel(for) ==
  IF for = "reject" THEN [pc |-> "resume"] ELSE [pc |-> "clear", for |-> for]

CancelReads(h) ==
  /\ At(h, "cancel")
  /\ IF thread.calls = {}
     THEN Goes(h, AfterCancel(served[h].for))
     ELSE Goes(h, [pc |-> "strip", for |-> served[h].for, calls |-> thread.calls])
  /\ UNCHANGED <<revision, storeVars, thread, reader, shown, tool, auxVars>>

CancelStrips(h) ==
  /\ At(h, "strip")
  /\ LET left == thread.calls \ served[h].calls
     IN thread' = [thread EXCEPT !.calls = left,
                                 !.next = IF @ = "tools" /\ left = {} THEN "end" ELSE @]
  /\ Goes(h, AfterCancel(served[h].for))
  /\ UNCHANGED <<revision, storeVars, reader, shown, tool, auxVars>>

(* A refusal clears the scope even if the calls could not be stripped.     *)
CancelFails(h) ==
  /\ At(h, "cancel") \/ At(h, "strip")
  /\ served[h].for = "refuse"
  /\ Goes(h, AfterCancel("refuse"))
  /\ UNCHANGED <<revision, storeVars, thread, reader, shown, tool, auxVars>>

(* clear_pending(), on a new turn, a reject and a fail-closed write.       *)
ClearPending(h) ==
  /\ At(h, "clear")
  /\ pending' = NoScope
  /\ Goes(h, CASE served[h].for = "turn" -> [pc |-> "read_trip"]
               [] served[h].for = "reject" -> [pc |-> "cancel", for |-> "reject"]
               [] served[h].for = "refuse" -> Idle)
  /\ UNCHANGED <<revision, binding, thread, reader, shown, tool, auxVars>>

(* chat(): the trip is loaded for the prompt and for the scope; a chat     *)
(* without one is bound to its place selection; a trip that cannot be      *)
(* loaded leaves the thread unbound.                                       *)
ReadTrip(h) ==
  /\ At(h, "read_trip") /\ chat = "trip"
  /\ Goes(h, [pc |-> "bind", revision |-> revision])
  /\ UNCHANGED <<revision, storeVars, thread, reader, shown, tool, auxVars>>

BindTrip(h) ==
  /\ At(h, "bind")
  /\ binding' = [kind |-> "trip", revision |-> served[h].revision]
  /\ pending' = NoScope
  /\ Goes(h, [pc |-> "run", prompt |-> served[h].revision])
  /\ UNCHANGED <<revision, thread, reader, shown, tool, auxVars>>

BindPlaceSelection(h) ==
  /\ At(h, "read_trip") /\ chat = "places"
  /\ binding' = [kind |-> "places", revision |-> 0]
  /\ pending' = NoScope
  /\ Goes(h, [pc |-> "run", prompt |-> 0])
  /\ UNCHANGED <<revision, thread, reader, shown, tool, auxVars>>

ClearBinding(h) ==
  /\ At(h, "read_trip") /\ chat = "trip"
  /\ binding' = NoScope /\ pending' = NoScope
  /\ Goes(h, [pc |-> "run", prompt |-> 0])
  /\ UNCHANGED <<revision, thread, reader, shown, tool, auxVars>>

-----------------------------------------------------------------------------
(* Graph runs.                                                             *)

(* A new message starts the graph from the top.                            *)
RunTurn(h) ==
  /\ At(h, "run")
  /\ thread' = [thread EXCEPT !.next = "chatbot", !.prompt = served[h].prompt]
  /\ Goes(h, [pc |-> "chatbot", prompt |-> served[h].prompt, calls |-> thread.calls])
  /\ UNCHANGED <<revision, storeVars, reader, shown, tool, auxVars>>

(* A resume continues where the newest checkpoint stopped.                 *)
RunResume(h) ==
  /\ At(h, "resume")
  /\ Goes(h, CASE thread.next = "end" -> [pc |-> "inspect"]
               [] thread.next = "chatbot" ->
                    [pc |-> "chatbot", prompt |-> thread.prompt, calls |-> thread.calls]
               [] thread.next = "tools" ->
                    [pc |-> "tools", prompt |-> thread.prompt, calls |-> thread.calls])
  /\ UNCHANGED <<revision, storeVars, thread, reader, shown, tool, auxVars>>

(* The model answers and the turn is over.  (It refuses a history with     *)
(* unanswered calls: the run then fails, which is Disconnect.)             *)
ChatbotAnswers(h) ==
  /\ At(h, "chatbot") /\ served[h].calls = {}
  /\ thread' = [calls |-> {}, next |-> "end", prompt |-> served[h].prompt]
  /\ Goes(h, [pc |-> "inspect"])
  /\ UNCHANGED <<revision, storeVars, reader, shown, tool, auxVars>>

(* The model calls one write tool or several; the graph is interrupted     *)
(* before tools_write.                                                     *)
ChatbotCalls(h, calls, kind) ==
  /\ At(h, "chatbot") /\ served[h].calls = {}
  /\ calls # {} /\ Cardinality(calls) <= 2
  /\ \A c \in calls : proposals[c] = NoCall
  /\ proposals' = [c \in Calls |-> IF c \in calls THEN served[h].prompt ELSE proposals[c]]
  /\ tool' = [c \in Calls |-> IF c \in calls THEN kind ELSE tool[c]]
  /\ thread' = [calls |-> calls, next |-> "tools", prompt |-> served[h].prompt]
  /\ Goes(h, [pc |-> "inspect"])
  /\ UNCHANGED <<revision, storeVars, reader, shown, chat, confirmed, writes, overlapped>>

(* A write tool starts: consume_pending() reads and clears in one step,    *)
(* and the tool looks at what it got.  Only the trip tools compare the     *)
(* call the scope was armed for.                                           *)
Accepts(c, scope) ==
  /\ scope # NoScope
  /\ IF tool[c] = "edit"
     THEN scope.kind = "trip" /\ scope.call = c
     ELSE scope.kind = "places"

(* (Defect: the scope is read and left armed.)                             *)
PeekPending(h, c) ==
  /\ At(h, "tools") /\ c \in served[h].calls
  /\ LET rest == served[h].calls \ {c}
     IN Goes(h, IF Accepts(c, pending)
                THEN [pc |-> "write", prompt |-> served[h].prompt, calls |-> rest,
                      call |-> c, revision |-> pending.revision]
                ELSE [served[h] EXCEPT !.calls = rest])
  /\ UNCHANGED <<revision, storeVars, thread, reader, shown, tool, auxVars>>

ConsumePending(h, c) ==
  /\ At(h, "tools") /\ c \in served[h].calls
  /\ LET rest == served[h].calls \ {c}
     IN Goes(h, IF Accepts(c, pending)
                THEN [pc |-> "write", prompt |-> served[h].prompt, calls |-> rest,
                      call |-> c, revision |-> pending.revision]
                ELSE [served[h] EXCEPT !.calls = rest])
  /\ pending' = NoScope
  /\ UNCHANGED <<revision, binding, thread, reader, shown, tool, auxVars>>

Written(h) == [pc |-> "tools", prompt |-> served[h].prompt, calls |-> served[h].calls]

(* (Defect: the trip is reloaded and its own revision is the token.)       *)
WriteTripReloaded(h) ==
  /\ At(h, "write") /\ tool[served[h].call] = "edit"
  /\ \/ /\ revision < MaxRevision
        /\ writes' = [writes EXCEPT ![served[h].call] = Append(@, revision)]
        /\ revision' = revision + 1
     \/ UNCHANGED <<writes, revision>>
  /\ Goes(h, Written(h))
  /\ UNCHANGED <<storeVars, thread, reader, shown, tool, chat, proposals, confirmed,
                 overlapped>>

(* An edit or a revert of the trip: a compare-and-set on the revision of   *)
(* the scope (TripRepository).  It writes nothing if it misses, if the     *)
(* change is refused, or if it leaves the trip as it was.                  *)
WriteTrip(h) ==
  /\ At(h, "write") /\ tool[served[h].call] = "edit"
  /\ \/ /\ revision = served[h].revision /\ revision < MaxRevision
        /\ writes' = [writes EXCEPT ![served[h].call] = Append(@, revision)]
        /\ revision' = revision + 1
     \/ UNCHANGED <<writes, revision>>
  /\ Goes(h, Written(h))
  /\ UNCHANGED <<storeVars, thread, reader, shown, tool, chat, proposals, confirmed,
                 overlapped>>

(* The insert or update of a place, unless its arguments are refused.      *)
WritePlace(h) ==
  /\ At(h, "write") /\ tool[served[h].call] = "place"
  /\ \/ /\ Len(writes[served[h].call]) < MaxWrites
        /\ writes' = [writes EXCEPT ![served[h].call] = Append(@, revision)]
     \/ UNCHANGED writes
  /\ Goes(h, Written(h))
  /\ UNCHANGED <<revision, storeVars, thread, reader, shown, tool, chat, proposals, confirmed,
                 overlapped>>

(* All tools of the node are done; the graph goes back to the model.       *)
ToolsDone(h) ==
  /\ At(h, "tools") /\ served[h].calls = {}
  /\ thread' = [calls |-> {}, next |-> "chatbot", prompt |-> served[h].prompt]
  /\ Goes(h, [pc |-> "chatbot", prompt |-> served[h].prompt, calls |-> {}])
  /\ UNCHANGED <<revision, storeVars, reader, shown, tool, auxVars>>

-----------------------------------------------------------------------------
(* inspect_pending_write_interrupt(): after the stream, what is pending on *)
(* the newest checkpoint?  Reading it may fail, which is refused.          *)
Refuse(h) == Goes(h, [pc |-> "cancel", for |-> "refuse"])

(* (Defect: of several calls, one is proposed.)                            *)
InspectFirst(h) ==
  /\ At(h, "inspect")
  /\ IF thread.next # "tools"
     THEN Goes(h, Idle)
     ELSE \E c \in thread.calls : Goes(h, [pc |-> "arm", call |-> c])
  /\ UNCHANGED <<revision, storeVars, thread, reader, shown, tool, auxVars>>

Inspect(h) ==
  /\ At(h, "inspect")
  /\ \/ thread.next # "tools" /\ Goes(h, Idle)
     \/ /\ thread.next = "tools" /\ Cardinality(thread.calls) = 1
        /\ \E c \in thread.calls : Goes(h, [pc |-> "arm", call |-> c])
     \/ thread.next = "tools" /\ Cardinality(thread.calls) >= 2 /\ Refuse(h)
     \/ Refuse(h)
  /\ UNCHANGED <<revision, storeVars, thread, reader, shown, tool, auxVars>>

(* (Defect: proposes although nothing was armed.)                          *)
ArmPendingUnchecked(h) ==
  /\ At(h, "arm")
  /\ pending' = IF binding = NoScope
                THEN pending
                ELSE [call |-> served[h].call, kind |-> binding.kind,
                      revision |-> binding.revision]
  /\ Goes(h, [pc |-> "propose", call |-> served[h].call])
  /\ UNCHANGED <<revision, binding, thread, reader, shown, tool, auxVars>>

(* arm_pending(): snapshots the binding of this moment in one step.        *)
ArmPending(h) ==
  /\ At(h, "arm")
  /\ IF binding = NoScope
     THEN Refuse(h) /\ UNCHANGED pending
     ELSE /\ pending' = [call |-> served[h].call, kind |-> binding.kind,
                         revision |-> binding.revision]
          /\ Goes(h, [pc |-> "propose", call |-> served[h].call])
  /\ UNCHANGED <<revision, binding, thread, reader, shown, tool, auxVars>>

(* The tool_proposal event; the frontend drops it from an aborted stream.  *)
Propose(h) ==
  /\ At(h, "propose")
  /\ shown' = IF reader = h THEN served[h].call ELSE shown
  /\ Goes(h, Idle)
  /\ UNCHANGED <<revision, storeVars, thread, reader, tool, auxVars>>

-----------------------------------------------------------------------------
Chatbot(h) ==
  \/ ChatbotAnswers(h)
  \/ \E calls \in SUBSET Calls, kind \in {"edit", "place"} : ChatbotCalls(h, calls, kind)

Serve(h) ==
  \/ CancelReads(h) \/ CancelStrips(h) \/ CancelFails(h) \/ ClearPending(h)
  \/ ReadTrip(h) \/ BindTrip(h) \/ BindPlaceSelection(h) \/ ClearBinding(h)
  \/ RunTurn(h) \/ RunResume(h) \/ Chatbot(h)
  \/ (\E c \in Calls : ConsumePending(h, c)) \/ ToolsDone(h)
  \/ WriteTrip(h) \/ WritePlace(h)
  \/ Inspect(h) \/ ArmPending(h) \/ Propose(h)

Next ==
  \/ EditElsewhere
  \/ \E h \in Handlers :
       Send(h) \/ Confirm(h) \/ Repeat(h) \/ Reject(h) \/ Serve(h) \/ Disconnect(h)

Spec == Init /\ [][Next]_vars

-----------------------------------------------------------------------------
(* Shape of the scope document, the checkpoint and the auxiliary history.  *)
TypeOK ==
  /\ chat \in Kinds /\ revision \in Revisions
  /\ binding \in Binding \cup {NoScope}
  /\ pending \in Pending \cup {NoScope}
  /\ thread \in [calls : SUBSET Calls, next : {"end", "chatbot", "tools"}, prompt : Revisions]
  /\ reader \in Handlers \cup {NoHandler} /\ shown \in Calls \cup {NoCall}
  /\ proposals \in [Calls -> Revisions \cup {NoCall}]

(* A proposal on screen at rest is the one write the thread waits for, and *)
(* the scope is armed for it, for an edit on the revision its proposer had *)
(* in its prompt: screen, checkpoint and scope document agree, and         *)
(* "exactly one write tool call" (ADR-20) is confirmed at a time.          *)
ShownIsPending ==
  shown # NoCall /\ (\A h \in Handlers : At(h, "idle")) =>
    /\ thread.next = "tools" /\ thread.calls = {shown}
    /\ pending # NoScope /\ pending.call = shown
    /\ pending.kind = "trip" => pending.revision = proposals[shown]

(* Confirmation-gated: nothing is written that the user was not shown and  *)
(* did not say yes to.                                                     *)
OnlyConfirmedIsWritten == \A c \in Calls : writes[c] # <<>> => c \in confirmed

(* Single use: one proposal, one write, however often its confirmation is  *)
(* sent, cut off or sent again.  So it is of every call while requests     *)
(* follow one another, and of edits of the trip also when two of them are  *)
(* served at once (a place tool accepts a scope armed for another call).   *)
WrittenOnce ==
  \A c \in Calls : tool[c] = "edit" \/ ~overlapped => Len(writes[c]) <= 1

(* A chat edit goes on top of the trip its proposer had in its prompt; if  *)
(* the trip was edited in between it is not applied.                       *)
NoStaleEdit ==
  \A c \in Calls : tool[c] = "edit" /\ writes[c] # <<>> => writes[c][1] = proposals[c]
=============================================================================
