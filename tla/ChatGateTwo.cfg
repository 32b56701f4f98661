\* Two requests of one thread at a time, and confirmations sent again.
CONSTANTS
  Handlers = {h1, h2}
  Calls = {w1, w2}
  MaxRevision = 2
  MaxWrites = 2
  AnswersFirst = FALSE
  Resends = TRUE
  NoCall = NoCall
  NoScope = NoScope
  NoHandler = NoHandler
SPECIFICATION Spec
SYMMETRY GateSymmetry
INVARIANT WrittenOnce
