\* One editor with every batch and other writers that save or delete at any
\* moment, over up to two new revisions.
CONSTANTS
  D = 3
  Requests <- MCRequests
  Editors <- MCEditors
  Batches <- MCBatches
  MaxRevision = 2
  None = None
  p1 = p1
  p2 = p2
  p3 = p3
  walk = walk
  drive = drive
  e1 = e1
SPECIFICATION Spec
INVARIANTS
  AnswersAreTrue
  StaysAreThoseMeant
  NoTransferLostSilently
  BatchIsAppliedWhole
\* The editor answers once.
CHECK_DEADLOCK FALSE
