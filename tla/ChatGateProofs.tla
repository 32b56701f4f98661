--------------------------- MODULE ChatGateProofs ---------------------------
(***************************************************************************)
(* Theorems about ChatGate when the requests of a thread follow one        *)
(* another, for any number of calls and any trip revisions: whatever the   *)
(* model proposes and wherever a request is cut off.                       *)
(*                                                                         *)
(* No call is carried out twice, though confirmations be sent again at any *)
(* time and the user type on (OnceInv).  The other three properties need   *)
(* that a confirmation is sent once and that the user answers a proposal   *)
(* first (Alone).  What a handler may rely on at each await is the longest *)
(* part of their invariant (Stage).  Two threads run through it: a call    *)
(* that may still be carried out has not been (Untouched), and the         *)
(* revision the scope is bound to is the one in the proposer's prompt      *)
(* (Tied), from the binding over the armed snapshot to the                 *)
(* compare-and-set.                                                        *)
(***************************************************************************)
EXTENDS ChatGate, FiniteSetTheorems, TLAPS

Alone(h) == Handlers = {h} /\ AnswersFirst /\ ~Resends

Tied(x) == binding # NoScope /\ binding.kind = "trip" => binding.revision = x

(* Calls proposed with a prompt of that revision, and not carried out yet. *)
Untouched(calls, x) == \A c \in calls : proposals[c] = x /\ writes[c] = <<>>

(* Calls the user confirmed, and not carried out yet.                      *)
Ready(calls) ==
  /\ calls \subseteq confirmed
  /\ \A c \in calls : proposals[c] # NoCall /\ writes[c] = <<>>

Shape(h) ==
  /\ TypeOK
  /\ DOMAIN served = {h}
  /\ tool \in [Calls -> {"edit", "place"}]
  /\ confirmed \subseteq Calls
  /\ writes \in [Calls -> Seq(Revisions)]

Awaits ==
  {"idle", "cancel", "strip", "clear", "read_trip", "bind", "run", "resume", "chatbot",
   "tools", "write", "inspect", "arm", "propose"}

Stage(s) ==
  /\ s.pc \in Awaits
  /\ s.pc \in {"cancel", "strip", "clear"} =>
       s.for \in {"turn", "reject", "refuse"} /\ (s.for = "reject" => Tied(thread.prompt))
  /\ s.pc = "strip" => s.calls = thread.calls
  /\ s.pc = "clear" /\ s.for = "turn" => thread.calls = {}
  /\ s.pc \in {"read_trip", "bind", "run"} => thread.calls = {}
  /\ s.pc = "bind" => s.revision \in Revisions
  /\ s.pc = "run" => s.prompt \in Revisions /\ Tied(s.prompt)
  /\ s.pc = "chatbot" => s.prompt \in Revisions /\ Tied(s.prompt) /\ s.calls = {}
  /\ s.pc \in {"resume", "inspect", "arm", "propose"} => Tied(thread.prompt)
  /\ s.pc = "resume" => Ready(thread.calls)
  /\ s.pc \in {"tools", "write"} =>
       /\ s.prompt \in Revisions /\ Tied(s.prompt)
       /\ s.calls \subseteq Calls /\ Ready(s.calls)
  /\ s.pc = "write" =>
       /\ s.call \in Calls \ s.calls /\ Ready({s.call}) /\ s.revision \in Revisions
       /\ tool[s.call] = "edit" => s.revision = proposals[s.call]
  /\ s.pc \in {"inspect", "arm", "propose"} => Untouched(thread.calls, thread.prompt)
  /\ s.pc \in {"arm", "propose"} => s.call \in Calls /\ thread.calls = {s.call}
  /\ s.pc = "propose" => pending # NoScope /\ pending.call = s.call

(* The proposal on screen can be confirmed.                                *)
Screen(s) ==
  shown # NoCall =>
    /\ s.pc = "idle"
    /\ thread.calls = {shown} /\ Untouched(thread.calls, thread.prompt) /\ Tied(thread.prompt)
    /\ pending # NoScope /\ pending.call = shown

Records ==
  /\ thread.next = "tools" <=> thread.calls # {}
  /\ pending # NoScope /\ pending.kind = "trip" => pending.revision = proposals[pending.call]
  /\ \A c \in Calls : proposals[c] = NoCall => writes[c] = <<>>

Gate == OnlyConfirmedIsWritten /\ NoStaleEdit

Inv(h) == Shape(h) /\ Records /\ Stage(served[h]) /\ Screen(served[h]) /\ Gate

-----------------------------------------------------------------------------
(* Nothing bound, armed, shown or running.                                 *)
LEMMA InitInv ==
  ASSUME NEW h, Alone(h), Init
  PROVE  Inv(h)
<1>1. /\ served[h].pc = "idle" /\ shown = NoCall /\ pending = NoScope
      /\ \A c \in Calls : writes[c] = <<>>
  BY DEF Init, Idle, Alone
<1>2. TypeOK
  BY BoundAssumption DEF Init, TypeOK, Revisions
<1>3. Shape(h)
  BY <1>2 DEF Init, Shape, Alone
<1>4. Records
  BY <1>1 DEF Init, Records
<1>5. Stage(served[h]) /\ Screen(served[h])
  BY <1>1 DEF Stage, Screen, Awaits
<1>6. Gate
  BY <1>1 DEF Gate, OnlyConfirmedIsWritten, NoStaleEdit
<1> QED
  BY <1>3, <1>4, <1>5, <1>6 DEF Inv

(* The handler goes on and nothing else changes, except that the screen    *)
(* may be cleared.                                                         *)
LEMMA HandlerMoves ==
  ASSUME NEW h, Alone(h), Inv(h), NEW s, Goes(h, s), Stage(s),
         UNCHANGED <<revision, storeVars, thread, tool, chat, proposals, confirmed, writes>>,
         reader' \in Handlers \cup {NoHandler},
         shown' \in {shown, NoCall}, shown' # NoCall => s.pc = "idle"
  PROVE  Inv(h)'
<1>1. UNCHANGED <<revision, binding, pending, thread, tool, chat, proposals, confirmed, writes>>
  BY DEF storeVars
<1>2. served'[h] = s /\ DOMAIN served' = {h}
  BY DEF Goes, Inv, Shape
<1>3. Shape(h)'
  BY <1>1, <1>2 DEF Inv, Shape, TypeOK
<1>4. Records'
  BY <1>1 DEF Inv, Records
<1>5. Stage(served[h])'
  BY <1>1, <1>2 DEF Stage, Tied, Ready, Untouched
<1>6. Screen(served[h])'
  BY <1>1, <1>2 DEF Inv, Screen, Tied, Untouched
<1>7. Gate'
  BY <1>1 DEF Inv, Gate, OnlyConfirmedIsWritten, NoStaleEdit
<1> QED
  BY <1>3, <1>4, <1>5, <1>6, <1>7 DEF Inv

(* A handler that is at work has nothing on screen.                        *)
LEMMA BusyScreen ==
  ASSUME NEW h, Inv(h), served[h].pc # "idle"
  PROVE  shown = NoCall
BY DEF Inv, Screen

-----------------------------------------------------------------------------
(* The frontend and the trip's other editors.                              *)
LEMMA SendKeeps ==
  ASSUME NEW h, Alone(h), Inv(h), Send(h)
  PROVE  Inv(h)'
<1>1. shown = NoCall /\ reader' \in Handlers
  BY DEF Send, Arrives, Alone
<1>2. Stage([pc |-> "cancel", for |-> "turn"])
  BY DEF Stage, Awaits
<1> QED
  BY <1>1, <1>2, HandlerMoves DEF Send, Arrives

(* A rejected card leaves the screen; its request clears the scope first.  *)
LEMMA RejectKeeps ==
  ASSUME NEW h, Alone(h), Inv(h), Reject(h)
  PROVE  Inv(h)'
<1>1. Tied(thread.prompt) /\ reader' \in Handlers
  BY DEF Reject, Arrives, Inv, Screen, Alone
<1>2. Stage([pc |-> "clear", for |-> "reject"])
  BY <1>1 DEF Stage, Awaits
<1> QED
  BY <1>1, <1>2, HandlerMoves DEF Reject, Arrives

(* The one handler is free, so the card on screen is what it resumes.      *)
LEMMA ConfirmKeeps ==
  ASSUME NEW h, Alone(h), Inv(h), Confirm(h)
  PROVE  Inv(h)'
<1>1. /\ shown # NoCall /\ thread.calls = {shown} /\ Untouched(thread.calls, thread.prompt)
      /\ Tied(thread.prompt) /\ TypeOK /\ shown \in Calls
  BY DEF Confirm, Arrives, Inv, Screen, Shape, TypeOK
<1>2. /\ served' = [served EXCEPT ![h] = [pc |-> "resume"]] /\ reader' = h /\ shown' = NoCall
      /\ confirmed' = confirmed \cup {shown}
      /\ UNCHANGED <<revision, binding, pending, thread, tool, chat, proposals, writes>>
  BY DEF Confirm, Arrives, Goes, storeVars
<1>3. served'[h] = [pc |-> "resume"] /\ DOMAIN served' = {h}
  BY <1>2 DEF Inv, Shape
<1>4. Shape(h)'
  BY <1>1, <1>2, <1>3 DEF Inv, Shape, TypeOK, Alone
<1>5. Records'
  BY <1>2 DEF Inv, Records
<1>6. thread.prompt # NoCall
  BY <1>1, NoneAssumption DEF TypeOK
<1>7. Ready(thread.calls)'
  BY <1>1, <1>2, <1>6 DEF Ready, Untouched
<1>8. Stage(served[h])'
  BY <1>1, <1>2, <1>3, <1>7 DEF Stage, Awaits, Tied
<1>9. Screen(served[h])'
  BY <1>2 DEF Screen
<1>10. Gate'
  BY <1>2 DEF Inv, Gate, OnlyConfirmedIsWritten, NoStaleEdit
<1> QED
  BY <1>4, <1>5, <1>8, <1>9, <1>10 DEF Inv

(* A write by another client touches no handler; armed copies grow old.    *)
LEMMA EditElsewhereKeeps ==
  ASSUME NEW h, Alone(h), Inv(h), EditElsewhere
  PROVE  Inv(h)'
<1>1. /\ UNCHANGED <<binding, pending, thread, served, reader, shown, tool, chat, proposals,
                     confirmed, writes>>
      /\ revision' = revision + 1 /\ revision < MaxRevision
  BY DEF EditElsewhere, storeVars, auxVars
<1>2. Shape(h)'
  BY <1>1, BoundAssumption DEF Inv, Shape, TypeOK, Revisions
<1>3. Records' /\ Screen(served[h])' /\ Gate'
  BY <1>1 DEF Inv, Records, Screen, Tied, Untouched, Gate, OnlyConfirmedIsWritten,
              NoStaleEdit
<1>4. Stage(served[h])'
  BY <1>1 DEF Inv, Stage, Tied, Ready, Untouched
<1> QED
  BY <1>2, <1>3, <1>4 DEF Inv

(* A cut stream ends the handler wherever it is; the documents stay.       *)
LEMMA DisconnectKeeps ==
  ASSUME NEW h, Alone(h), Inv(h), Disconnect(h)
  PROVE  Inv(h)'
<1>1. Stage(Idle)
  BY DEF Stage, Idle, Awaits
<1>2. reader' \in Handlers \cup {NoHandler}
  BY DEF Disconnect, Inv, Shape, TypeOK
<1> QED
  BY <1>1, <1>2, HandlerMoves DEF auxVars, Disconnect, Idle

-----------------------------------------------------------------------------
(* acancel_pending_tools() and clear_pending().                            *)
LEMMA AfterCancelStage ==
  ASSUME NEW h, Inv(h), NEW for \in {"turn", "reject", "refuse"},
         for = "reject" => Tied(thread.prompt) /\ thread.calls = {},
         for = "turn" => thread.calls = {}
  PROVE  Stage(AfterCancel(for))
BY DEF AfterCancel, Stage, Awaits, Ready

(* cancel_pending_interrupt(): the checkpoint is read before it is         *)
(* changed.                                                                *)
LEMMA CancelReadsKeeps ==
  ASSUME NEW h, Alone(h), Inv(h), CancelReads(h)
  PROVE  Inv(h)'
<1> DEFINE for == served[h].for
<1>1. /\ served[h].pc = "cancel" /\ Stage(served[h]) /\ shown = NoCall
      /\ reader' \in Handlers \cup {NoHandler}
  BY BusyScreen DEF CancelReads, At, Inv, Shape, TypeOK
<1>2. for \in {"turn", "reject", "refuse"} /\ (for = "reject" => Tied(thread.prompt))
  BY <1>1 DEF Stage
<1>3. CASE thread.calls = {}
  <2>1. Stage(AfterCancel(for))
    BY <1>2, <1>3, AfterCancelStage
  <2> QED
    BY <1>1, <1>3, <2>1, HandlerMoves DEF auxVars, CancelReads
<1>4. CASE thread.calls # {}
  <2>1. Stage([pc |-> "strip", for |-> for, calls |-> thread.calls])
    BY <1>2 DEF Stage, Awaits
  <2> QED
    BY <1>1, <1>4, <2>1, HandlerMoves DEF auxVars, CancelReads
<1> QED
  BY <1>3, <1>4

(* A refusal clears the scope even if the calls could not be stripped.     *)
LEMMA CancelFailsKeeps ==
  ASSUME NEW h, Alone(h), Inv(h), CancelFails(h)
  PROVE  Inv(h)'
<1>1. shown = NoCall /\ reader' \in Handlers \cup {NoHandler}
  BY BusyScreen DEF CancelFails, At, Inv, Shape, TypeOK
<1>2. Stage(AfterCancel("refuse"))
  BY AfterCancelStage
<1> QED
  BY <1>1, <1>2, HandlerMoves DEF auxVars, CancelFails

(* The calls stripped are all there are.                                   *)
LEMMA CancelStripsKeeps ==
  ASSUME NEW h, Alone(h), Inv(h), CancelStrips(h)
  PROVE  Inv(h)'
<1> DEFINE for == served[h].for
<1>1. /\ served[h].pc = "strip" /\ Stage(served[h]) /\ shown = NoCall /\ shown' = shown
      /\ UNCHANGED <<revision, binding, pending, reader, tool, chat, proposals, confirmed, writes>>
      /\ served' = [served EXCEPT ![h] = AfterCancel(for)]
  BY BusyScreen DEF CancelStrips, At, Inv, storeVars, auxVars, Goes
<1>2. /\ for \in {"turn", "reject", "refuse"} /\ (for = "reject" => Tied(thread.prompt))
      /\ served[h].calls = thread.calls /\ TypeOK /\ Records
  BY <1>1 DEF Stage, Inv, Shape
<1>3. /\ thread' \in [calls : SUBSET Calls, next : {"end", "chatbot", "tools"}, prompt : Revisions]
      /\ thread'.calls = {} /\ thread'.next # "tools" /\ thread'.prompt = thread.prompt
  BY <1>1, <1>2 DEF CancelStrips, TypeOK
<1>4. served'[h] = AfterCancel(for) /\ DOMAIN served' = {h}
  BY <1>1 DEF Inv, Shape
<1>5. Shape(h)'
  BY <1>1, <1>3, <1>4 DEF Inv, Shape, TypeOK
<1>6. Records'
  BY <1>1, <1>2, <1>3 DEF Records
<1>7. Stage(served[h])'
  BY <1>1, <1>2, <1>3, <1>4 DEF Stage, AfterCancel, Awaits, Tied, Ready
<1>8. Screen(served[h])' /\ Gate'
  BY <1>1 DEF Inv, Screen, Gate, OnlyConfirmedIsWritten, NoStaleEdit
<1> QED
  BY <1>5, <1>6, <1>7, <1>8 DEF Inv

(* The scope forgets its pending call before a turn binds again.           *)
LEMMA ClearPendingKeeps ==
  ASSUME NEW h, Alone(h), Inv(h), ClearPending(h)
  PROVE  Inv(h)'
<1>1. /\ served[h].pc = "clear" /\ Stage(served[h]) /\ shown = NoCall /\ shown' = shown
      /\ UNCHANGED <<revision, binding, thread, reader, tool, chat, proposals, confirmed, writes>>
      /\ pending' = NoScope
  BY BusyScreen DEF ClearPending, At, Inv, auxVars
<1>2. /\ served[h].for \in {"turn", "reject", "refuse"}
      /\ served[h].for = "reject" => Tied(thread.prompt)
      /\ served[h].for = "turn" => thread.calls = {}
  BY <1>1 DEF Stage
<1>3. /\ DOMAIN served' = {h}
      /\ served[h].for = "turn" => served'[h] = [pc |-> "read_trip"]
      /\ served[h].for = "reject" => served'[h] = [pc |-> "cancel", for |-> "reject"]
      /\ served[h].for = "refuse" => served'[h] = [pc |-> "idle"]
  BY <1>2 DEF ClearPending, Goes, Idle, Inv, Shape
<1>4. Shape(h)'
  BY <1>1, <1>3 DEF Inv, Shape, TypeOK
<1>5. Records'
  BY <1>1 DEF Inv, Records
<1>6. Stage(served[h])'
  BY <1>1, <1>2, <1>3 DEF Stage, Awaits, Tied
<1>7. Screen(served[h])' /\ Gate'
  BY <1>1 DEF Inv, Screen, Gate, OnlyConfirmedIsWritten, NoStaleEdit
<1> QED
  BY <1>4, <1>5, <1>6, <1>7 DEF Inv

-----------------------------------------------------------------------------
(* chat() up to the run: the scope is bound to the trip of the prompt.     *)
LEMMA ReadTripKeeps ==
  ASSUME NEW h, Alone(h), Inv(h), ReadTrip(h)
  PROVE  Inv(h)'
<1>1. /\ served[h].pc = "read_trip" /\ Stage(served[h]) /\ shown = NoCall
      /\ reader' \in Handlers \cup {NoHandler} /\ revision \in Revisions
  BY BusyScreen DEF ReadTrip, At, Inv, Shape, TypeOK
<1>2. Stage([pc |-> "bind", revision |-> revision])
  BY <1>1 DEF Stage, Awaits
<1> QED
  BY <1>1, <1>2, HandlerMoves DEF auxVars, ReadTrip

(* Whatever the scope is bound to, it fits the prompt of the run.          *)
LEMMA BindingKeeps ==
  ASSUME NEW h, Alone(h), Inv(h), served[h].pc \in {"read_trip", "bind"},
         NEW x \in Revisions, Goes(h, [pc |-> "run", prompt |-> x]),
         binding' \in Binding \cup {NoScope}, Tied(x)', pending' = NoScope,
         UNCHANGED <<revision, thread, reader, shown, tool, auxVars>>
  PROVE  Inv(h)'
<1>1. /\ Stage(served[h]) /\ shown = NoCall /\ shown' = shown /\ thread.calls = {}
      /\ UNCHANGED <<revision, thread, reader, tool, chat, proposals, confirmed, writes>>
  BY BusyScreen DEF Inv, Stage, auxVars
<1>2. served'[h] = [pc |-> "run", prompt |-> x] /\ DOMAIN served' = {h}
  BY DEF Goes, Inv, Shape
<1>3. Shape(h)'
  BY <1>1, <1>2 DEF Inv, Shape, TypeOK
<1>4. Records'
  BY <1>1 DEF Inv, Records
<1>5. Stage(served[h])'
  BY <1>1, <1>2 DEF Stage, Awaits
<1>6. Screen(served[h])' /\ Gate'
  BY <1>1 DEF Inv, Screen, Gate, OnlyConfirmedIsWritten, NoStaleEdit
<1> QED
  BY <1>3, <1>4, <1>5, <1>6 DEF Inv

(* The turn is bound to the revision it has read.                          *)
LEMMA BindTripKeeps ==
  ASSUME NEW h, Alone(h), Inv(h), BindTrip(h)
  PROVE  Inv(h)'
<1>1. served[h].pc = "bind" /\ served[h].revision \in Revisions
  BY DEF BindTrip, At, Inv, Stage
<1> PICK x \in Revisions : x = served[h].revision
  BY <1>1
<1>2. binding' = [kind |-> "trip", revision |-> x]
  BY DEF BindTrip
<1>3. binding' \in Binding \cup {NoScope} /\ Tied(x)'
  BY <1>1, <1>2 DEF Binding, Kinds, Tied
<1> QED
  BY <1>1, <1>3, BindingKeeps DEF BindTrip

(* Binding to places instead of a trip.                                    *)
LEMMA BindPlaceSelectionKeeps ==
  ASSUME NEW h, Alone(h), Inv(h), BindPlaceSelection(h)
  PROVE  Inv(h)'
<1>1. served[h].pc = "read_trip" /\ 0 \in Revisions
  BY BoundAssumption DEF BindPlaceSelection, At, Revisions
<1>2. binding' = [kind |-> "places", revision |-> 0]
  BY DEF BindPlaceSelection
<1>3. binding' \in Binding \cup {NoScope} /\ Tied(0)'
  BY <1>1, <1>2 DEF Binding, Kinds, Tied
<1> QED
  BY <1>1, <1>3, BindingKeeps DEF BindPlaceSelection

(* A turn whose trip is not there leaves nothing bound.                    *)
LEMMA ClearBindingKeeps ==
  ASSUME NEW h, Alone(h), Inv(h), ClearBinding(h)
  PROVE  Inv(h)'
<1>1. served[h].pc = "read_trip" /\ 0 \in Revisions
  BY BoundAssumption DEF ClearBinding, At, Revisions
<1>2. binding' = NoScope /\ Tied(0)'
  BY DEF ClearBinding, Tied
<1> QED
  BY <1>1, <1>2, BindingKeeps DEF ClearBinding

-----------------------------------------------------------------------------
(* Graph runs.                                                             *)

(* A step that saves a checkpoint without open calls and nothing else.     *)
LEMMA CheckpointKeeps ==
  ASSUME NEW h, Alone(h), Inv(h), served[h].pc # "idle",
         NEW next \in {"end", "chatbot"}, NEW x \in Revisions,
         thread' = [calls |-> {}, next |-> next, prompt |-> x],
         NEW s, Goes(h, s), Stage(s)',
         UNCHANGED <<revision, storeVars, reader, shown, tool, auxVars>>
  PROVE  Inv(h)'
<1>1. /\ shown = NoCall /\ shown' = shown
      /\ UNCHANGED <<revision, binding, pending, reader, tool, chat, proposals, confirmed, writes>>
  BY BusyScreen DEF storeVars, auxVars
<1>2. served'[h] = s /\ DOMAIN served' = {h}
  BY DEF Goes, Inv, Shape
<1>3. Shape(h)'
  BY <1>1, <1>2 DEF Inv, Shape, TypeOK
<1>4. Records'
  BY <1>1 DEF Inv, Records
<1>5. Screen(served[h])' /\ Gate'
  BY <1>1 DEF Inv, Screen, Gate, OnlyConfirmedIsWritten, NoStaleEdit
<1> QED
  BY <1>2, <1>3, <1>4, <1>5 DEF Inv

(* A new message starts the graph from the top.                            *)
LEMMA RunTurnKeeps ==
  ASSUME NEW h, Alone(h), Inv(h), RunTurn(h)
  PROVE  Inv(h)'
<1>1. PICK x \in Revisions :
        x = served[h].prompt /\ Tied(x) /\ served[h].pc = "run" /\ thread.calls = {}
  BY DEF RunTurn, At, Inv, Stage
<1> DEFINE s == [pc |-> "chatbot", prompt |-> x, calls |-> {}]
<1>2. thread' = [calls |-> {}, next |-> "chatbot", prompt |-> x] /\ Goes(h, s)
  BY <1>1 DEF RunTurn, Inv, Shape, TypeOK
<1>3. Stage(s)'
  BY <1>1 DEF RunTurn, storeVars, Stage, Awaits, Tied
<1> QED
  BY <1>1, <1>2, <1>3, CheckpointKeeps DEF RunTurn

(* A resume continues where the newest checkpoint stopped.                 *)
LEMMA RunResumeKeeps ==
  ASSUME NEW h, Alone(h), Inv(h), RunResume(h)
  PROVE  Inv(h)'
<1>1. /\ served[h].pc = "resume" /\ shown = NoCall /\ reader' \in Handlers \cup {NoHandler}
      /\ Tied(thread.prompt) /\ Ready(thread.calls)
      /\ thread.next \in {"end", "chatbot", "tools"} /\ thread.prompt \in Revisions
      /\ thread.calls \subseteq Calls
      /\ thread.next = "tools" <=> thread.calls # {}
  BY BusyScreen DEF RunResume, At, Inv, Stage, Shape, TypeOK, Records
<1>2. CASE thread.next = "end"
  <2>1. Stage([pc |-> "inspect"])
    BY <1>1, <1>2 DEF Stage, Awaits, Untouched
  <2> QED
    BY <1>1, <1>2, <2>1, HandlerMoves DEF auxVars, RunResume
<1>3. CASE thread.next = "chatbot"
  <2>1. Stage([pc |-> "chatbot", prompt |-> thread.prompt, calls |-> thread.calls])
    BY <1>1, <1>3 DEF Stage, Awaits
  <2> QED
    BY <1>1, <1>3, <2>1, HandlerMoves DEF auxVars, RunResume
<1>4. CASE thread.next = "tools"
  <2>1. Stage([pc |-> "tools", prompt |-> thread.prompt, calls |-> thread.calls])
    BY <1>1 DEF Stage, Awaits
  <2> QED
    BY <1>1, <1>4, <2>1, HandlerMoves DEF auxVars, RunResume
<1> QED
  BY <1>1, <1>2, <1>3, <1>4

(* The model answers in words, which ends the turn.                        *)
LEMMA ChatbotAnswersKeeps ==
  ASSUME NEW h, Alone(h), Inv(h), ChatbotAnswers(h)
  PROVE  Inv(h)'
<1>1. served[h].pc = "chatbot" /\ served[h].prompt \in Revisions /\ Tied(served[h].prompt)
  BY DEF ChatbotAnswers, At, Inv, Stage
<1>2. Stage([pc |-> "inspect"])'
  BY <1>1 DEF ChatbotAnswers, storeVars, Stage, Awaits, Tied, Untouched
<1> QED
  BY <1>1, <1>2, CheckpointKeeps DEF ChatbotAnswers

(* A call proposed now was never proposed before, and not carried out.     *)
LEMMA ChatbotCallsKeeps ==
  ASSUME NEW h, Alone(h), Inv(h), NEW calls \in SUBSET Calls, NEW kind \in {"edit", "place"},
         ChatbotCalls(h, calls, kind)
  PROVE  Inv(h)'
<1> DEFINE x == served[h].prompt
<1>1. /\ served[h].pc = "chatbot" /\ x \in Revisions /\ Tied(x) /\ shown = NoCall
      /\ shown' = shown /\ calls # {} /\ \A c \in calls : proposals[c] = NoCall
      /\ UNCHANGED <<revision, binding, pending, reader, chat, confirmed, writes>>
  BY BusyScreen DEF ChatbotCalls, At, Inv, Stage, storeVars
<1>2. /\ thread' = [calls |-> calls, next |-> "tools", prompt |-> x]
      /\ proposals' = [c \in Calls |-> IF c \in calls THEN x ELSE proposals[c]]
      /\ tool' = [c \in Calls |-> IF c \in calls THEN kind ELSE tool[c]]
  BY DEF ChatbotCalls
<1>3. served'[h] = [pc |-> "inspect"] /\ DOMAIN served' = {h}
  BY DEF ChatbotCalls, Goes, Inv, Shape
<1>4. Shape(h)'
  BY <1>1, <1>2, <1>3 DEF Inv, Shape, TypeOK
<1>5. \A c \in calls : writes[c] = <<>>
  BY <1>1 DEF Inv, Records
<1>6. pending # NoScope => pending.revision # NoCall /\ pending.call \in Calls
  BY NoneAssumption DEF Inv, Shape, TypeOK, Pending
<1>7. Records'
  <2>1. (thread.next = "tools" <=> thread.calls # {})'
    BY <1>1, <1>2
  <2>2. (pending # NoScope /\ pending.kind = "trip" =>
           pending.revision = proposals[pending.call])'
    BY <1>1, <1>2, <1>6 DEF Inv, Records
  <2>3. (\A c \in Calls : proposals[c] = NoCall => writes[c] = <<>>)'
    BY <1>1, <1>2, <1>5 DEF Inv, Records
  <2> QED
    BY <2>1, <2>2, <2>3 DEF Records
<1>8. Untouched(thread.calls, thread.prompt)'
  BY <1>1, <1>2, <1>5 DEF Untouched
<1>9. Stage(served[h])'
  BY <1>1, <1>2, <1>3, <1>8 DEF Stage, Awaits, Tied
<1>10. Screen(served[h])'
  BY <1>1 DEF Screen
<1>11. Gate'
  BY <1>1, <1>2, <1>5 DEF Inv, Gate, OnlyConfirmedIsWritten, NoStaleEdit
<1> QED
  BY <1>4, <1>7, <1>9, <1>10, <1>11 DEF Inv

-----------------------------------------------------------------------------
(* The write tools.  A trip tool that is let through holds the revision    *)
(* its call was proposed on.                                               *)
LEMMA ConsumePendingKeeps ==
  ASSUME NEW h, Alone(h), Inv(h), NEW c \in Calls, ConsumePending(h, c)
  PROVE  Inv(h)'
<1> DEFINE s    == served[h]
           rest == s.calls \ {c}
<1>1. /\ s.pc = "tools" /\ s.prompt \in Revisions /\ Tied(s.prompt)
      /\ s.calls \subseteq Calls /\ Ready(s.calls) /\ c \in s.calls
      /\ shown = NoCall /\ shown' = shown /\ pending' = NoScope
      /\ UNCHANGED <<revision, binding, thread, reader, tool, chat, proposals, confirmed, writes>>
  BY BusyScreen DEF ConsumePending, At, Inv, Stage, auxVars
<1>2. DOMAIN served' = {h}
  BY DEF ConsumePending, Goes, Inv, Shape
<1>3. Shape(h)'
  BY <1>1, <1>2 DEF Inv, Shape, TypeOK
<1>4. Records'
  BY <1>1 DEF Inv, Records
<1>5. Screen(served[h])' /\ Gate'
  BY <1>1 DEF Inv, Screen, Gate, OnlyConfirmedIsWritten, NoStaleEdit
<1>6. /\ rest \subseteq Calls /\ Ready(rest) /\ Ready({c}) /\ c \notin rest
  BY <1>1 DEF Ready
<1>7. Stage(served[h])'
  <2>1. CASE Accepts(c, pending)
    <3>1. served'[h] = [pc |-> "write", prompt |-> s.prompt, calls |-> rest,
                        call |-> c, revision |-> pending.revision]
      BY <2>1 DEF ConsumePending, Goes, Inv, Shape
    <3>2. pending.revision \in Revisions
      BY <2>1 DEF Accepts, Inv, Shape, TypeOK, Pending
    <3>3. tool[c] = "edit" => pending.revision = proposals[c]
      BY <2>1 DEF Accepts, Inv, Records
    <3> HIDE DEF rest, s
    <3> QED
      BY <1>1, <1>6, <3>1, <3>2, <3>3 DEF Stage, Awaits, Tied, Ready
  <2>2. CASE ~Accepts(c, pending)
    <3>1. served' = [served EXCEPT ![h] = [s EXCEPT !.calls = rest]]
      BY <2>2 DEF ConsumePending, Goes
    <3>2. served'[h] = [s EXCEPT !.calls = rest]
      BY <3>1 DEF Inv, Shape
    <3>3. s.pc = served'[h].pc /\ s.prompt = served'[h].prompt /\ served'[h].calls = rest
      BY <3>2, <1>1
    <3> HIDE DEF rest, s
    <3> QED
      BY <1>1, <1>6, <3>3 DEF Stage, Awaits, Tied, Ready
  <2> QED
    BY <2>1, <2>2
<1> QED
  BY <1>3, <1>4, <1>5, <1>7 DEF Inv

(* What both write tools do: the call is carried out on this revision, or  *)
(* not at all.                                                             *)
LEMMA WriteKeeps ==
  ASSUME NEW h, Alone(h), Inv(h), served[h].pc = "write", Goes(h, Written(h)),
         revision' \in Revisions,
         \/ writes' = [writes EXCEPT ![served[h].call] = Append(@, revision)]
         \/ UNCHANGED writes,
         tool[served[h].call] = "edit" /\ writes' # writes => revision = served[h].revision,
         UNCHANGED <<storeVars, thread, reader, shown, tool, chat, proposals, confirmed>>
  PROVE  Inv(h)'
<1>1. PICK c \in Calls :
        /\ c = served[h].call /\ c \notin served[h].calls /\ Ready({c})
        /\ tool[c] = "edit" => served[h].revision = proposals[c]
  BY DEF Inv, Stage
<1>2. /\ Stage(served[h]) /\ served[h].prompt \in Revisions /\ Tied(served[h].prompt)
      /\ served[h].calls \subseteq Calls /\ Ready(served[h].calls)
      /\ shown = NoCall /\ shown' = shown
      /\ UNCHANGED <<binding, pending, thread, reader, tool, chat, proposals, confirmed>>
  BY BusyScreen DEF Inv, Stage, storeVars
<1>3. served'[h] = Written(h) /\ DOMAIN served' = {h}
  BY DEF Goes, Inv, Shape
<1>4. /\ writes \in [Calls -> Seq(Revisions)] /\ writes' \in [Calls -> Seq(Revisions)]
      /\ \A d \in Calls : d # c => writes'[d] = writes[d]
      /\ writes'[c] \in {<<>>, <<revision>>}
  <2>1. writes \in [Calls -> Seq(Revisions)] /\ revision \in Revisions /\ writes[c] = <<>>
    BY <1>1 DEF Inv, Shape, TypeOK, Ready
  <2>2. Append(<<>>, revision) = <<revision>> /\ <<revision>> \in Seq(Revisions)
    BY <2>1
  <2>3. UNCHANGED writes \/ writes' = [writes EXCEPT ![c] = <<revision>>]
    BY <1>1, <2>1, <2>2
  <2> QED
    BY <2>1, <2>2, <2>3
<1>5. c \in confirmed /\ proposals[c] # NoCall
  BY <1>1 DEF Ready
<1>6. Shape(h)'
  BY <1>2, <1>3, <1>4 DEF Inv, Shape, TypeOK
<1>7. Records'
  BY <1>2, <1>4, <1>5 DEF Inv, Records
<1>8. Ready(served[h].calls)'
  BY <1>1, <1>2, <1>3, <1>4 DEF Ready, Written
<1>9. Stage(served[h])'
  BY <1>2, <1>3, <1>8 DEF Stage, Awaits, Tied, Written
<1>10. Screen(served[h])'
  BY <1>2 DEF Screen
<1>11. Gate'
  <2>1. OnlyConfirmedIsWritten'
    BY <1>2, <1>4, <1>5 DEF Inv, Gate, OnlyConfirmedIsWritten
  <2>3. tool[c] = "edit" /\ writes'[c] # <<>> => writes'[c][1] = proposals[c]
    <3>1. writes[c] = <<>>
      BY <1>1 DEF Ready
    <3> QED
      BY <1>1, <1>4, <3>1
  <2>4. NoStaleEdit'
    BY <1>2, <1>4, <2>3 DEF Inv, Gate, NoStaleEdit
  <2> QED
    BY <2>1, <2>4 DEF Gate
<1> QED
  BY <1>6, <1>7, <1>9, <1>10, <1>11 DEF Inv

(* An edit or a revert, on the revision in the consumed snapshot.          *)
LEMMA WriteTripKeeps ==
  ASSUME NEW h, Alone(h), Inv(h), WriteTrip(h)
  PROVE  Inv(h)'
<1>1. revision' \in Revisions
  BY BoundAssumption DEF WriteTrip, Inv, Shape, TypeOK, Revisions
<1>2. writes' # writes => revision = served[h].revision
  BY DEF WriteTrip
<1> QED
  BY <1>1, <1>2, WriteKeeps DEF WriteTrip, At

(* A place tool, which only asks that a snapshot was consumed.             *)
LEMMA WritePlaceKeeps ==
  ASSUME NEW h, Alone(h), Inv(h), WritePlace(h)
  PROVE  Inv(h)'
<1>1. revision' \in Revisions /\ tool[served[h].call] # "edit"
  BY DEF WritePlace, Inv, Shape, TypeOK
<1> QED
  BY <1>1, WriteKeeps DEF WritePlace, At

(* After its tools the model is asked again.                               *)
LEMMA ToolsDoneKeeps ==
  ASSUME NEW h, Alone(h), Inv(h), ToolsDone(h)
  PROVE  Inv(h)'
<1>1. PICK x \in Revisions : x = served[h].prompt /\ Tied(x) /\ served[h].pc = "tools"
  BY DEF ToolsDone, At, Inv, Stage
<1> DEFINE s == [pc |-> "chatbot", prompt |-> x, calls |-> {}]
<1>2. thread' = [calls |-> {}, next |-> "chatbot", prompt |-> x] /\ Goes(h, s)
  BY <1>1 DEF ToolsDone
<1>3. Stage(s)'
  BY <1>1 DEF ToolsDone, storeVars, Stage, Awaits, Tied
<1> QED
  BY <1>1, <1>2, <1>3, CheckpointKeeps DEF ToolsDone

-----------------------------------------------------------------------------
(* From the end of the stream to the proposal.                             *)
LEMMA InspectKeeps ==
  ASSUME NEW h, Alone(h), Inv(h), Inspect(h)
  PROVE  Inv(h)'
<1>1. /\ served[h].pc = "inspect" /\ shown = NoCall /\ reader' \in Handlers \cup {NoHandler}
      /\ Tied(thread.prompt) /\ Untouched(thread.calls, thread.prompt)
      /\ thread.calls \subseteq Calls
  BY BusyScreen DEF Inspect, At, Inv, Stage, Shape, TypeOK
<1>2. CASE Goes(h, Idle)
  <2>1. Stage(Idle)
    BY DEF Stage, Idle, Awaits
  <2> QED
    BY <1>1, <1>2, <2>1, HandlerMoves DEF auxVars, Inspect
<1>3. CASE Refuse(h)
  <2>1. Stage([pc |-> "cancel", for |-> "refuse"])
    BY DEF Stage, Awaits
  <2> QED
    BY <1>1, <1>3, <2>1, HandlerMoves DEF auxVars, Inspect, Refuse
<1>4. CASE Cardinality(thread.calls) = 1 /\ \E c \in thread.calls : Goes(h, [pc |-> "arm", call |-> c])
  <2>1. PICK c \in thread.calls : Goes(h, [pc |-> "arm", call |-> c])
    BY <1>4
  <2>2. IsFiniteSet(thread.calls)
    BY <1>1, CallsAssumption, FS_Subset
  <2>3. thread.calls = {c}
    BY <1>4, <2>1, <2>2, FS_Singleton
  <2>4. Stage([pc |-> "arm", call |-> c])
    BY <1>1, <2>3 DEF Stage, Awaits
  <2> QED
    BY <1>1, <2>1, <2>4, HandlerMoves DEF auxVars, Inspect
<1> QED
  BY <1>2, <1>3, <1>4 DEF Inspect

(* The armed snapshot holds the revision of the proposer's prompt.         *)
LEMMA ArmPendingKeeps ==
  ASSUME NEW h, Alone(h), Inv(h), ArmPending(h)
  PROVE  Inv(h)'
<1>1. /\ served[h].pc = "arm" /\ Stage(served[h]) /\ shown = NoCall /\ shown' = shown
      /\ reader' \in Handlers \cup {NoHandler}
      /\ UNCHANGED <<revision, binding, thread, reader, tool, chat, proposals, confirmed, writes>>
  BY BusyScreen DEF ArmPending, At, Inv, auxVars, Shape, TypeOK
<1>2. CASE binding = NoScope
  <2>1. Stage([pc |-> "cancel", for |-> "refuse"])
    BY DEF Stage, Awaits
  <2> QED
    BY <1>1, <1>2, <2>1, HandlerMoves DEF auxVars, ArmPending, Refuse, storeVars
<1>3. CASE binding # NoScope
  <2>1. PICK c \in Calls :
          /\ c = served[h].call /\ thread.calls = {c} /\ Tied(thread.prompt)
          /\ Untouched(thread.calls, thread.prompt)
    BY <1>1 DEF Stage
  <2>2. /\ pending' = [call |-> c, kind |-> binding.kind, revision |-> binding.revision]
        /\ Goes(h, [pc |-> "propose", call |-> c])
    BY <1>3, <2>1 DEF ArmPending
  <2>3. served'[h] = [pc |-> "propose", call |-> c] /\ DOMAIN served' = {h}
    BY <2>2 DEF Goes, Inv, Shape
  <2>4. binding \in Binding
    BY <1>3 DEF Inv, Shape, TypeOK
  <2>5. pending' \in Pending /\ pending'.call = c
    BY <2>2, <2>4 DEF Binding, Pending
  <2>6. Shape(h)'
    BY <1>1, <2>3, <2>5 DEF Inv, Shape, TypeOK
  <2>7. Records'
    BY <1>1, <1>3, <2>1, <2>2 DEF Inv, Records, Tied, Untouched
  <2>8. pending' # NoScope
    BY <2>5, NoneAssumption
  <2>9. Stage(served[h])'
    BY <1>1, <2>1, <2>3, <2>5, <2>8 DEF Stage, Awaits, Tied, Untouched
  <2>10. Screen(served[h])' /\ Gate'
    BY <1>1 DEF Inv, Screen, Gate, OnlyConfirmedIsWritten, NoStaleEdit
  <2> QED
    BY <2>6, <2>7, <2>9, <2>10 DEF Inv
<1> QED
  BY <1>2, <1>3

(* The proposal goes to the stream that is read, if there is one.          *)
LEMMA ProposeKeeps ==
  ASSUME NEW h, Alone(h), Inv(h), Propose(h)
  PROVE  Inv(h)'
<1>1. PICK c \in Calls :
        /\ c = served[h].call /\ thread.calls = {c} /\ Tied(thread.prompt)
        /\ Untouched(thread.calls, thread.prompt) /\ pending # NoScope /\ pending.call = c
        /\ shown = NoCall
  BY BusyScreen DEF Propose, At, Inv, Stage
<1>2. UNCHANGED <<revision, binding, pending, thread, reader, tool, chat, proposals, confirmed,
                  writes>>
  BY DEF Propose, storeVars, auxVars
<1>3. served'[h] = Idle /\ DOMAIN served' = {h} /\ shown' \in {c, NoCall}
  BY <1>1 DEF Propose, Goes, Inv, Shape
<1>4. Shape(h)'
  BY <1>1, <1>2, <1>3 DEF Inv, Shape, TypeOK
<1>5. Records' /\ Gate'
  BY <1>2 DEF Inv, Records, Gate, OnlyConfirmedIsWritten, NoStaleEdit
<1>6. Stage(served[h])'
  BY <1>3 DEF Stage, Idle, Awaits
<1>7. Screen(served[h])'
  BY <1>1, <1>2, <1>3 DEF Screen, Idle, Tied, Untouched
<1> QED
  BY <1>4, <1>5, <1>6, <1>7 DEF Inv

-----------------------------------------------------------------------------
(* The invariant is inductive: one handler's steps, the user's, and other  *)
(* clients'.                                                               *)
LEMMA StepKeeps ==
  ASSUME NEW h, Alone(h), Inv(h), [Next]_vars
  PROVE  Inv(h)'
<1>1. CASE EditElsewhere
  BY <1>1, EditElsewhereKeeps
<1>2. CASE Send(h) \/ Confirm(h) \/ Reject(h) \/ Disconnect(h)
  BY <1>2, SendKeeps, ConfirmKeeps, RejectKeeps, DisconnectKeeps
<1>3. CASE Serve(h)
  <2>1. CASE CancelReads(h) \/ CancelStrips(h) \/ CancelFails(h) \/ ClearPending(h)
    BY <2>1, CancelReadsKeeps, CancelStripsKeeps, CancelFailsKeeps, ClearPendingKeeps
  <2>2. CASE ReadTrip(h) \/ BindTrip(h) \/ BindPlaceSelection(h) \/ ClearBinding(h)
    BY <2>2, ReadTripKeeps, BindTripKeeps, BindPlaceSelectionKeeps, ClearBindingKeeps
  <2>3. CASE RunTurn(h) \/ RunResume(h) \/ Chatbot(h)
    BY <2>3, RunTurnKeeps, RunResumeKeeps, ChatbotAnswersKeeps, ChatbotCallsKeeps DEF Chatbot
  <2>4. CASE (\E c \in Calls : ConsumePending(h, c)) \/ ToolsDone(h)
    BY <2>4, ConsumePendingKeeps, ToolsDoneKeeps
  <2>5. CASE WriteTrip(h) \/ WritePlace(h)
    BY <2>5, WriteTripKeeps, WritePlaceKeeps
  <2>6. CASE Inspect(h) \/ ArmPending(h) \/ Propose(h)
    BY <2>6, InspectKeeps, ArmPendingKeeps, ProposeKeeps
  <2> QED
    BY <1>3, <2>1, <2>2, <2>3, <2>4, <2>5, <2>6 DEF Serve
<1>4. CASE UNCHANGED vars
  <2>1. UNCHANGED <<chat, revision, binding, pending, thread, served, reader, shown, tool,
                    proposals, confirmed, writes>>
    BY <1>4 DEF vars
  <2> QED
    BY <2>1 DEF Inv, Shape, TypeOK, Records, Stage, Screen, Tied, Untouched, Ready, Gate,
                OnlyConfirmedIsWritten, NoStaleEdit
<1> QED
  BY <1>1, <1>2, <1>3, <1>4 DEF Next, Alone, Repeat

(* One request at a time, each cut off anywhere: screen, scope document,   *)
(* checkpoint and handler fit together at every await.                     *)
THEOREM Invariant ==
  ASSUME NEW h, Alone(h)
  PROVE  Spec => []Inv(h)
<1>1. Init => Inv(h)
  BY InitInv
<1>2. Inv(h) /\ [Next]_vars => Inv(h)'
  BY StepKeeps
<1> QED
  BY <1>1, <1>2, PTL DEF Spec

(* What the user is asked is what the thread waits for and what the scope  *)
(* is armed for, on the revision its proposer had in its prompt.           *)
THEOREM ScreenIsPending ==
  ASSUME NEW h, Alone(h)
  PROVE  Spec => []ShownIsPending
<1>1. Inv(h) => ShownIsPending
  BY DEF Inv, Screen, Records, ShownIsPending
<1> QED
  BY <1>1, Invariant, PTL

(* No write without a yes to that very call.                               *)
THEOREM ConfirmedOnly ==
  ASSUME NEW h, Alone(h)
  PROVE  Spec => []OnlyConfirmedIsWritten
<1>1. Inv(h) => OnlyConfirmedIsWritten
  BY DEF Inv, Gate
<1> QED
  BY <1>1, Invariant, PTL

(* An edit is applied on the revision its proposer saw, or not at all.     *)
THEOREM FreshEdits ==
  ASSUME NEW h, Alone(h)
  PROVE  Spec => []NoStaleEdit
<1>1. Inv(h) => NoStaleEdit
  BY DEF Inv, Gate
<1> QED
  BY <1>1, Invariant, PTL

-----------------------------------------------------------------------------
(* Single use.  An armed scope is for the one call the thread waits for,   *)
(* which has not been carried out; a stale one is left only where the      *)
(* graph is at its end.  Nothing is armed while the model or a write runs. *)
Once(c) == writes[c] = <<>> \/ \E x : writes[c] = <<x>>
Fresh(calls) == \A c \in calls : writes[c] = <<>>

OnceRecords(h) ==
  /\ DOMAIN served = {h} /\ DOMAIN writes = Calls
  /\ thread = [calls |-> thread.calls, next |-> thread.next, prompt |-> thread.prompt]
  /\ thread.calls \subseteq Calls /\ \A c \in thread.calls : proposals[c] # NoCall
  /\ thread.next \in {"end", "chatbot", "tools"}
  /\ thread.next = "tools" <=> thread.calls # {}
  /\ revision \in Revisions /\ thread.prompt \in Revisions
  /\ \A c \in Calls : Once(c) /\ (proposals[c] = NoCall => writes[c] = <<>>)

OnceArmed ==
  pending # NoScope =>
    /\ pending.call \in Calls /\ writes[pending.call] = <<>>
    /\ thread.calls = {pending.call} \/ (thread.calls = {} /\ thread.next = "end")

OnceStage(s) ==
  /\ s.pc \in {"cancel", "strip", "clear"} => s.for \in {"turn", "reject", "refuse"}
  /\ s.pc = "strip" => s.calls = thread.calls
  /\ s.pc = "clear" /\ s.for = "turn" => thread.calls = {}
  /\ s.pc \in {"read_trip", "bind", "run"} => thread.calls = {} /\ pending = NoScope
  /\ s.pc \in {"chatbot", "write"} => pending = NoScope
  /\ s.pc \in {"tools", "write"} => s.calls \subseteq thread.calls
  /\ s.pc = "tools" /\ s.calls = {} => pending = NoScope
  /\ s.pc = "write" =>
       s.call \in Calls /\ writes[s.call] = <<>> /\ proposals[s.call] # NoCall
  /\ s.pc = "bind" => s.revision \in Revisions
  /\ s.pc \in {"run", "chatbot", "tools", "write"} => s.prompt \in Revisions
  /\ s.pc \in {"inspect", "arm"} => Fresh(thread.calls)
  /\ s.pc = "arm" => thread.calls = {s.call}

OnceInv(h) == OnceRecords(h) /\ OnceArmed /\ OnceStage(served[h])

(* The handler goes on, the documents stay.                                *)
LEMMA OnceMoves ==
  ASSUME NEW h, OnceInv(h), NEW s, Goes(h, s), OnceStage(s),
         UNCHANGED <<revision, storeVars, thread, writes, proposals>>
  PROVE  OnceInv(h)'
<1>1. UNCHANGED <<revision, pending, thread, writes, proposals>>
  BY DEF storeVars
<1>2. served'[h] = s /\ DOMAIN served' = {h}
  BY DEF Goes, OnceInv, OnceRecords
<1> QED
  BY <1>1, <1>2 DEF OnceInv, OnceRecords, OnceArmed, OnceStage, Once, Fresh

(* The handler goes on and the scope is cleared.                           *)
LEMMA OnceClears ==
  ASSUME NEW h, OnceInv(h), NEW s, Goes(h, s), pending' = NoScope, OnceStage(s)',
         UNCHANGED <<revision, thread, writes, proposals>>
  PROVE  OnceInv(h)'
<1>1. served'[h] = s /\ DOMAIN served' = {h}
  BY DEF Goes, OnceInv, OnceRecords
<1> QED
  BY <1>1 DEF OnceInv, OnceRecords, OnceArmed, OnceStage, Once, Fresh

(* The frontend, again and again; and a cut stream.                        *)
LEMMA OnceRequests ==
  ASSUME NEW h, OnceInv(h), Send(h) \/ Confirm(h) \/ Repeat(h) \/ Reject(h) \/ Disconnect(h)
  PROVE  OnceInv(h)'
<1>1. PICK s \in {[pc |-> "cancel", for |-> "turn"], [pc |-> "resume"],
                  [pc |-> "clear", for |-> "reject"], Idle} : Goes(h, s)
  BY DEF Send, Confirm, Repeat, Reject, Disconnect
<1>2. OnceStage(s)
  BY <1>1 DEF OnceStage, Idle
<1>3. UNCHANGED <<revision, storeVars, thread, writes, proposals>>
  BY DEF Send, Confirm, Repeat, Reject, Disconnect, Arrives, auxVars
<1> QED
  BY <1>1, <1>2, <1>3, OnceMoves

(* acancel_pending_tools(): the calls stripped are all there are.          *)
LEMMA OnceCancels ==
  ASSUME NEW h, OnceInv(h), CancelReads(h) \/ CancelStrips(h) \/ CancelFails(h)
  PROVE  OnceInv(h)'
<1> DEFINE for == served[h].for
<1>1. OnceStage(served[h]) /\ for \in {"turn", "reject", "refuse"}
  BY DEF OnceInv, OnceStage, CancelReads, CancelStrips, CancelFails, At
<1>2. CASE CancelReads(h)
  <2>1. UNCHANGED <<revision, storeVars, thread, writes, proposals>>
    BY <1>2 DEF CancelReads, auxVars
  <2>2. CASE thread.calls = {}
    <3>1. Goes(h, AfterCancel(for)) /\ OnceStage(AfterCancel(for))
      BY <1>1, <1>2, <2>2 DEF CancelReads, AfterCancel, OnceStage
    <3> QED
      BY <2>1, <3>1, OnceMoves
  <2>3. CASE thread.calls # {}
    <3> DEFINE s == [pc |-> "strip", for |-> for, calls |-> thread.calls]
    <3>1. Goes(h, s) /\ OnceStage(s)
      BY <1>1, <1>2, <2>3 DEF CancelReads, OnceStage
    <3> QED
      BY <2>1, <3>1, OnceMoves
  <2> QED
    BY <2>2, <2>3
<1>3. CASE CancelStrips(h)
  <2>1. /\ served[h].calls = thread.calls /\ served'[h] = AfterCancel(for)
        /\ DOMAIN served' = {h} /\ UNCHANGED <<revision, pending, writes, proposals>>
    BY <1>1, <1>3 DEF CancelStrips, At, OnceStage, OnceInv, OnceRecords, Goes, storeVars, auxVars
  <2>2. /\ thread'.calls = {} /\ thread'.next = (IF thread.next = "tools" THEN "end" ELSE thread.next)
        /\ thread' = [calls |-> thread'.calls, next |-> thread'.next, prompt |-> thread'.prompt]
        /\ thread'.prompt = thread.prompt
    BY <1>3, <2>1 DEF CancelStrips, OnceInv, OnceRecords
  <2>3. OnceRecords(h)' /\ OnceArmed'
    BY <2>1, <2>2 DEF OnceInv, OnceRecords, OnceArmed, Once
  <2>4. OnceStage(served[h])'
    BY <1>1, <2>1, <2>2 DEF OnceStage, AfterCancel
  <2> QED
    BY <2>3, <2>4 DEF OnceInv
<1>4. CASE CancelFails(h)
  <2>1. Goes(h, AfterCancel("refuse")) /\ UNCHANGED <<revision, storeVars, thread, writes, proposals>>
    BY <1>4 DEF CancelFails, auxVars
  <2>2. OnceStage(AfterCancel("refuse"))
    BY DEF OnceStage, AfterCancel
  <2> QED
    BY <2>1, <2>2, OnceMoves
<1> QED
  BY <1>2, <1>3, <1>4

(* A turn clears the scope, and binding it arms nothing.                   *)
LEMMA OnceBinds ==
  ASSUME NEW h, OnceInv(h),
         ClearPending(h) \/ ReadTrip(h) \/ BindTrip(h) \/ BindPlaceSelection(h) \/ ClearBinding(h)
  PROVE  OnceInv(h)'
<1>1. OnceStage(served[h]) /\ UNCHANGED <<revision, thread, writes, proposals>>
  BY DEF OnceInv, ClearPending, ReadTrip, BindTrip, BindPlaceSelection, ClearBinding, auxVars
<1>2. CASE ClearPending(h)
  <2>1. served[h].pc = "clear" /\ served[h].for \in {"turn", "reject", "refuse"}
    BY <1>1, <1>2 DEF ClearPending, At, OnceStage
  <2>2. PICK s \in {[pc |-> "read_trip"], [pc |-> "cancel", for |-> "reject"], Idle} :
          Goes(h, s) /\ (s.pc = "read_trip" => served[h].for = "turn")
    BY <1>2, <2>1 DEF ClearPending, Idle
  <2>3. pending' = NoScope
    BY <1>2 DEF ClearPending
  <2>4. OnceStage(s)'
    BY <1>1, <2>1, <2>2, <2>3 DEF OnceStage, Idle
  <2> QED
    BY <1>1, <2>2, <2>3, <2>4, OnceClears
<1>3. CASE ReadTrip(h)
  <2>1. OnceStage([pc |-> "bind", revision |-> revision])
    BY <1>1, <1>3 DEF ReadTrip, At, OnceStage, OnceInv, OnceRecords
  <2> QED
    BY <1>1, <1>3, <2>1, OnceMoves DEF ReadTrip
<1>4. CASE BindTrip(h) \/ BindPlaceSelection(h) \/ ClearBinding(h)
  <2>1. PICK x \in Revisions : Goes(h, [pc |-> "run", prompt |-> x])
    <3>1. 0 \in Revisions
      BY BoundAssumption DEF Revisions
    <3> QED
      BY <1>1, <1>4, <3>1 DEF BindTrip, BindPlaceSelection, ClearBinding, At, OnceStage
  <2>2. pending' = NoScope /\ thread.calls = {}
    BY <1>1, <1>4 DEF BindTrip, BindPlaceSelection, ClearBinding, At, OnceStage
  <2>3. OnceStage([pc |-> "run", prompt |-> x])'
    BY <1>1, <2>2 DEF OnceStage
  <2> QED
    BY <1>1, <2>1, <2>2, <2>3, OnceClears
<1> QED
  BY <1>2, <1>3, <1>4

(* The graph starts, resumes, and the model answers: what it calls is new. *)
LEMMA OnceRuns ==
  ASSUME NEW h, OnceInv(h), RunTurn(h) \/ RunResume(h) \/ Chatbot(h) \/ ToolsDone(h)
  PROVE  OnceInv(h)'
<1>1. OnceStage(served[h]) /\ OnceRecords(h) /\ OnceArmed /\ DOMAIN served = {h}
  BY DEF OnceInv, OnceRecords
<1>2. CASE RunResume(h)
  <2>1. UNCHANGED <<revision, storeVars, thread, writes, proposals>>
    BY <1>2 DEF RunResume, auxVars
  <2>2. CASE thread.next = "end"
    <3>1. Goes(h, [pc |-> "inspect"]) /\ OnceStage([pc |-> "inspect"])
      BY <1>1, <1>2, <2>2 DEF RunResume, OnceStage, OnceRecords, Fresh
    <3> QED
      BY <2>1, <3>1, OnceMoves
  <2>3. CASE thread.next = "chatbot"
    <3> DEFINE s == [pc |-> "chatbot", prompt |-> thread.prompt, calls |-> thread.calls]
    <3>1. pending = NoScope
      BY <1>1, <2>3 DEF OnceRecords, OnceArmed
    <3>2. Goes(h, s) /\ OnceStage(s)
      BY <1>1, <1>2, <2>3, <3>1 DEF RunResume, OnceStage, OnceRecords
    <3> QED
      BY <2>1, <3>2, OnceMoves
  <2>4. CASE thread.next = "tools"
    <3> DEFINE s == [pc |-> "tools", prompt |-> thread.prompt, calls |-> thread.calls]
    <3>1. Goes(h, s) /\ OnceStage(s)
      BY <1>1, <1>2, <2>4 DEF RunResume, OnceStage, OnceRecords
    <3> QED
      BY <2>1, <3>1, OnceMoves
  <2> QED
    BY <1>1, <2>2, <2>3, <2>4 DEF OnceRecords
<1>3. CASE RunTurn(h) \/ ChatbotAnswers(h) \/ ToolsDone(h)
  <2>1. /\ pending = NoScope /\ UNCHANGED <<revision, pending, writes, proposals>>
        /\ thread.calls = {} \/ thread'.calls = {}
    BY <1>1, <1>3 DEF RunTurn, ChatbotAnswers, ToolsDone, At, OnceStage, storeVars, auxVars
  <2>2. /\ thread'.calls = {} /\ thread'.next \in {"end", "chatbot"}
        /\ thread'.prompt \in Revisions
        /\ thread' = [calls |-> thread'.calls, next |-> thread'.next, prompt |-> thread'.prompt]
    <3>1. served[h].prompt \in Revisions
      BY <1>1, <1>3 DEF RunTurn, ChatbotAnswers, ToolsDone, At, OnceStage
    <3>2. CASE RunTurn(h)
      <4>1. thread.calls = {}
        BY <1>1, <3>2 DEF RunTurn, At, OnceStage
      <4>2. thread' = [calls |-> {}, next |-> "chatbot", prompt |-> served[h].prompt]
        <5>1. PICK n, p : thread = [calls |-> {}, next |-> n, prompt |-> p]
          BY <1>1, <4>1 DEF OnceRecords
        <5>2. thread' = [thread EXCEPT !.next = "chatbot", !.prompt = served[h].prompt]
          BY <3>2 DEF RunTurn
        <5> QED
          BY <5>1, <5>2
      <4>3. thread'.calls = {} /\ thread'.next = "chatbot" /\ thread'.prompt = served[h].prompt
        BY <4>2
      <4> QED
        BY <3>1, <4>2, <4>3
    <3>3. CASE ChatbotAnswers(h) \/ ToolsDone(h)
      BY <3>1, <3>3 DEF ChatbotAnswers, ToolsDone
    <3> QED
      BY <1>3, <3>2, <3>3
  <2>3. /\ served'[h].pc \in {"chatbot", "inspect"} /\ DOMAIN served' = {h}
        /\ served'[h].pc = "chatbot" => served'[h].prompt \in Revisions
    BY <1>1, <1>3 DEF RunTurn, ChatbotAnswers, ToolsDone, Goes, At, OnceStage
  <2> QED
    BY <1>1, <2>1, <2>2, <2>3 DEF OnceInv, OnceRecords, OnceArmed, OnceStage, Once, Fresh
<1>4. ASSUME NEW calls \in SUBSET Calls, NEW kind \in {"edit", "place"},
             ChatbotCalls(h, calls, kind)
      PROVE  OnceInv(h)'
  <2>1. /\ pending = NoScope /\ UNCHANGED <<revision, pending, writes>> /\ calls # {}
        /\ served[h].prompt \in Revisions
        /\ thread' = [calls |-> calls, next |-> "tools", prompt |-> served[h].prompt]
        /\ served'[h] = [pc |-> "inspect"] /\ DOMAIN served' = {h}
        /\ \A c \in calls : writes[c] = <<>>
    BY <1>1, <1>4 DEF ChatbotCalls, At, OnceStage, OnceRecords, Goes, storeVars
  <2>2. /\ \A c \in Calls : proposals'[c] = NoCall => proposals[c] = NoCall
        /\ \A c \in calls : proposals'[c] # NoCall
    BY <1>4, <2>1, NoneAssumption DEF ChatbotCalls
  <2>3. OnceRecords(h)'
    BY <1>1, <2>1, <2>2 DEF OnceRecords, Once
  <2> QED
    BY <2>1, <2>3 DEF OnceInv, OnceArmed, OnceStage, Fresh
<1> QED
  BY <1>2, <1>3, <1>4 DEF Chatbot

(* The scope is consumed for the call it was armed for, before that call   *)
(* is carried out.                                                         *)
LEMMA OnceWrites ==
  ASSUME NEW h, OnceInv(h),
         (\E c \in Calls : ConsumePending(h, c)) \/ WriteTrip(h) \/ WritePlace(h)
  PROVE  OnceInv(h)'
<1>1. OnceStage(served[h]) /\ OnceRecords(h) /\ OnceArmed /\ DOMAIN served = {h}
  BY DEF OnceInv, OnceRecords
<1>2. ASSUME NEW c \in Calls, ConsumePending(h, c) PROVE OnceInv(h)'
  <2>1. PICK rest : rest = served[h].calls \ {c}
    OBVIOUS
  <2>2. /\ served[h].pc = "tools" /\ c \in served[h].calls /\ rest \subseteq thread.calls
        /\ c \in thread.calls /\ served[h].prompt \in Revisions
        /\ pending' = NoScope /\ UNCHANGED <<revision, thread, writes, proposals>>
    BY <1>1, <1>2, <2>1 DEF ConsumePending, At, OnceStage, auxVars
  <2>3. CASE Accepts(c, pending)
    <3>1. PICK s : s = [pc |-> "write", prompt |-> served[h].prompt, calls |-> rest,
                        call |-> c, revision |-> pending.revision]
      OBVIOUS
    <3>2. Goes(h, s)
      BY <1>2, <2>1, <2>3, <3>1 DEF ConsumePending
    <3>3. c = pending.call /\ writes[c] = <<>> /\ proposals[c] # NoCall
      BY <1>1, <2>2, <2>3 DEF Accepts, OnceArmed, OnceStage, OnceRecords
    <3>4. s.pc = "write" /\ s.calls = rest /\ s.call = c /\ s.prompt \in Revisions
      BY <2>2, <3>1
    <3>5. OnceStage(s)'
      BY <2>2, <3>3, <3>4 DEF OnceStage
    <3> QED
      BY <2>2, <3>2, <3>5, OnceClears
  <2>4. CASE ~Accepts(c, pending)
    <3>1. PICK s : s = [served[h] EXCEPT !.calls = rest]
      OBVIOUS
    <3>2. Goes(h, s)
      BY <1>2, <2>1, <2>4, <3>1 DEF ConsumePending
    <3>3. s.pc = "tools" /\ s.calls = rest /\ s.prompt \in Revisions
      <4>1. s.pc = served[h].pc /\ s.prompt = served[h].prompt
        BY <3>1
      <4>2. s.calls = rest
        BY <1>1, <2>2, <3>1 DEF OnceStage
      <4> QED
        BY <2>2, <4>1, <4>2
    <3>4. OnceStage(s)'
      BY <2>2, <3>3 DEF OnceStage
    <3> QED
      BY <2>2, <3>2, <3>4, OnceClears
  <2> QED
    BY <2>3, <2>4
<1>3. CASE WriteTrip(h) \/ WritePlace(h)
  <2>1. PICK c \in Calls :
          c = served[h].call /\ writes[c] = <<>> /\ proposals[c] # NoCall
    BY <1>1, <1>3 DEF WriteTrip, WritePlace, At, OnceStage
  <2>2. /\ pending = NoScope /\ served[h].calls \subseteq thread.calls
        /\ UNCHANGED <<pending, thread, proposals>>
        /\ served'[h] = Written(h) /\ DOMAIN served' = {h}
        /\ served[h].prompt \in Revisions
    BY <1>1, <1>3 DEF WriteTrip, WritePlace, At, OnceStage, Goes, storeVars
  <2>3. Append(<<>>, revision) = <<revision>>
    OBVIOUS
  <2>4. UNCHANGED writes \/ writes' = [writes EXCEPT ![c] = <<revision>>]
    BY <1>3, <2>1, <2>3 DEF WriteTrip, WritePlace
  <2>5. revision' \in Revisions
    BY <1>1, <1>3, BoundAssumption DEF WriteTrip, WritePlace, OnceRecords, Revisions
  <2>6. /\ served'[h].pc = "tools" /\ served'[h].calls = served[h].calls
        /\ served'[h].prompt = served[h].prompt
    BY <2>2 DEF Written
  <2>7. OnceRecords(h)'
    BY <1>1, <2>1, <2>2, <2>4, <2>5 DEF OnceRecords, Once
  <2> QED
    BY <2>2, <2>6, <2>7 DEF OnceInv, OnceArmed, OnceStage
<1> QED
  BY <1>2, <1>3

(* Only a call that was never carried out is armed: it is the one the      *)
(* model has just proposed.                                                *)
LEMMA OnceArms ==
  ASSUME NEW h, OnceInv(h), Inspect(h) \/ ArmPending(h) \/ Propose(h)
  PROVE  OnceInv(h)'
<1>1. OnceStage(served[h]) /\ OnceRecords(h) /\ OnceArmed /\ DOMAIN served = {h}
  BY DEF OnceInv, OnceRecords
<1>2. /\ OnceStage(Idle) /\ OnceStage([pc |-> "cancel", for |-> "refuse"])
      /\ \A c : OnceStage([pc |-> "propose", call |-> c])
  BY DEF OnceStage, Idle
<1>3. CASE Inspect(h)
  <2>1. Fresh(thread.calls) /\ UNCHANGED <<revision, storeVars, thread, writes, proposals>>
    BY <1>1, <1>3 DEF Inspect, At, OnceStage, auxVars
  <2>2. CASE Goes(h, Idle) \/ Refuse(h)
    BY <1>2, <2>1, <2>2, OnceMoves DEF Refuse
  <2>3. CASE Cardinality(thread.calls) = 1 /\ \E c \in thread.calls : Goes(h, [pc |-> "arm", call |-> c])
    <3>1. PICK c \in thread.calls : Goes(h, [pc |-> "arm", call |-> c])
      BY <2>3
    <3>2. thread.calls = {c}
      <4>1. IsFiniteSet(thread.calls)
        BY <1>1, CallsAssumption, FS_Subset DEF OnceRecords
      <4> QED
        BY <2>3, <4>1, FS_Singleton
    <3>3. OnceStage([pc |-> "arm", call |-> c])
      BY <2>1, <3>2 DEF OnceStage
    <3> QED
      BY <2>1, <3>1, <3>3, OnceMoves
  <2> QED
    BY <1>3, <2>2, <2>3 DEF Inspect
<1>4. CASE ArmPending(h)
  <2>1. CASE binding = NoScope
    BY <1>2, <1>4, <2>1, OnceMoves DEF ArmPending, Refuse, storeVars, auxVars
  <2>2. CASE binding # NoScope
    <3>1. /\ pending'.call = served[h].call /\ thread.calls = {served[h].call}
          /\ Fresh(thread.calls) /\ UNCHANGED <<revision, thread, writes, proposals>>
          /\ served'[h].pc = "propose" /\ DOMAIN served' = {h}
      BY <1>1, <1>4, <2>2 DEF ArmPending, At, OnceStage, Goes, auxVars
    <3> QED
      BY <1>1, <3>1 DEF OnceInv, OnceRecords, OnceArmed, OnceStage, Once, Fresh
  <2> QED
    BY <2>1, <2>2
<1>5. CASE Propose(h)
  <2>1. Goes(h, Idle) /\ UNCHANGED <<revision, storeVars, thread, writes, proposals>>
    BY <1>5 DEF Propose, auxVars
  <2> QED
    BY <1>2, <2>1, OnceMoves
<1> QED
  BY <1>3, <1>4, <1>5

(* One proposal, one write, when requests follow one another: also when    *)
(* the confirmation is cut off anywhere and sent again any number of       *)
(* times, later in the conversation too, and when the user types on        *)
(* instead of answering.                                                   *)
THEOREM SingleUse ==
  ASSUME NEW h, Handlers = {h}
  PROVE  Spec => []WrittenOnce
<1>1. Init => OnceInv(h)
  <2> SUFFICES ASSUME Init PROVE OnceInv(h)
    OBVIOUS
  <2>1. served[h] = Idle /\ DOMAIN served = {h} /\ pending = NoScope /\ 0 \in Revisions
    BY BoundAssumption DEF Init, Revisions
  <2>2. OnceRecords(h) /\ OnceArmed
    BY <2>1 DEF Init, OnceRecords, OnceArmed, Once
  <2> QED
    BY <2>1, <2>2 DEF OnceInv, OnceStage, Idle
<1>2. ASSUME OnceInv(h), [Next]_vars PROVE OnceInv(h)'
  <2> USE <1>2
  <2>1. CASE EditElsewhere
    <3>1. /\ UNCHANGED <<pending, thread, served, writes, proposals>>
          /\ revision' \in Revisions
      BY <2>1, BoundAssumption DEF EditElsewhere, storeVars, auxVars, OnceInv, OnceRecords, Revisions
    <3> QED
      BY <3>1 DEF OnceInv, OnceRecords, OnceArmed, OnceStage, Once, Fresh
  <2>2. CASE Send(h) \/ Confirm(h) \/ Repeat(h) \/ Reject(h) \/ Disconnect(h)
    BY <2>2, OnceRequests
  <2>3. CASE Serve(h)
    BY <2>3, OnceCancels, OnceBinds, OnceRuns, OnceWrites, OnceArms DEF Serve
  <2>4. CASE UNCHANGED vars
    BY <2>4 DEF vars, OnceInv, OnceRecords, OnceArmed, OnceStage, Once, Fresh
  <2> QED
    BY <2>1, <2>2, <2>3, <2>4 DEF Next
<1>3. OnceInv(h) => WrittenOnce
  <2> SUFFICES ASSUME OnceInv(h), NEW c \in Calls PROVE Len(writes[c]) <= 1
    BY DEF WrittenOnce
  <2>1. CASE writes[c] = <<>>
    BY <2>1
  <2>2. ASSUME NEW x, writes[c] = <<x>> PROVE Len(writes[c]) <= 1
    BY <2>2
  <2> QED
    BY <2>1, <2>2 DEF OnceInv, OnceRecords, Once
<1> QED
  BY <1>1, <1>2, <1>3, PTL DEF Spec
=============================================================================
