\* No cancellation: the second write fails, and then the ROLLBACK.
CONSTANTS
  Clients = {c1, c2}
  NoClient = NoClient
  NoJob = NoJob
  MaxRequests = 2
  MaxCancels = 0
  MaxFaults = 2
SPECIFICATION Spec
INVARIANT AllOrNothing
CHECK_DEADLOCK FALSE
