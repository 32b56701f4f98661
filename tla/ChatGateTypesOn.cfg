\* The user types on while a proposal is on screen.
CONSTANTS
  Handlers = {h1}
  Calls = {w1, w2}
  MaxRevision = 1
  AnswersFirst = FALSE
  Resends = FALSE
  MaxWrites = 2
  NoCall = NoCall
  NoScope = NoScope
  NoHandler = NoHandler
SPECIFICATION Spec
INVARIANT OnlyConfirmedIsWritten
