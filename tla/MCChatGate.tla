------------------------------ MODULE MCChatGate ------------------------------
(* ChatGate for TLC: the calls and the handlers are interchangeable.       *)
EXTENDS ChatGate, TLC

GateSymmetry == Permutations(Calls) \cup Permutations(Handlers)
=============================================================================
