\* A batch that removes a date's transfer, adds another and ends the changeover.
CONSTANTS
  D = 3
  Requests <- MCRequests
  Editors <- MCEditors
  Batches <- MCBatches
  MaxRevision = 2
  None = None
  p1 = p1
  p2 = p2
  p3 = p3
  walk = walk
  drive = drive
  e1 = e1
SPECIFICATION Spec
INVARIANT AddedIsKeptOrRefused
CHECK_DEADLOCK FALSE
