\* Two legacy documents, two runs (one after the other or at once), each trip
\* edited at most once.
CONSTANTS
  N = 2
  Contents = {x, y}
  Early = {x}
  Malformed = Malformed
  NoDoc = NoDoc
  NoRow = NoRow
  NoMarker = NoMarker
  AtOnce = 2
  MaxRevision = 1
  MaxRuns = 2
  MaxWrites = 1
SPECIFICATION Spec
INVARIANTS
  MarkerIsEarned
  CutoverIsComplete
PROPERTIES
  RunsNeverOverwrite
  CleanRunStamps
\* Runs are bounded, so everything comes to an end.
CHECK_DEADLOCK FALSE
