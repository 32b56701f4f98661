\* Two tasks with two requests each: each request may be cancelled once, and the
\* driver fails two statements, a ROLLBACK included.
CONSTANTS
  Clients = {c1, c2}
  NoClient = NoClient
  NoJob = NoJob
  MaxRequests = 2
  MaxCancels = 1
  MaxFaults = 2
SPECIFICATION Spec
INVARIANTS
  OnlyUnrolledIsHalf
  BodyIsAlone
  AckedIsDurable
PROPERTIES
  EveryRequestEnds
\* Requests are bounded, so the system stops when all were served.
CHECK_DEADLOCK FALSE
