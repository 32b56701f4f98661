\* One request at a time, cut off anywhere; three write calls.
CONSTANTS
  Handlers = {h1}
  Calls = {w1, w2, w3}
  MaxRevision = 2
  AnswersFirst = TRUE
  Resends = FALSE
  MaxWrites = 2
  NoCall = NoCall
  NoScope = NoScope
  NoHandler = NoHandler
SPECIFICATION Spec
INVARIANTS
  ShownIsPending
  OnlyConfirmedIsWritten
  NoStaleEdit
