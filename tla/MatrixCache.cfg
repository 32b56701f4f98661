\* Two places, batches of one, two patches or two solvers at a time.
CONSTANTS
  Ids = {i1, i2}
  Items <- MCItems
  Creates <- MCCreates
  Patches <- MCPatches
  Found <- MCFound
  Patchers = {p1, p2}
  Enrichers = {e1}
  Limit = 1
  Backoff = 1
  Budgets <- MCBudgets
  None = None
  Empty = Empty
  Missing = Missing
  Unborn = Unborn
  Gone = Gone
  Solvers = {s1, s2}
  Modes = {walk, transit}
  Ttl <- MCTtl
  Flight = 1
  walk = walk
  transit = transit
  x = x
  y = y
  z = z
  u1 = u1
SPECIFICATION Spec
SYMMETRY Alike
INVARIANTS
  HoursStayOrdered
  StatusIsOfTheLastCall
  TurnsAreFair
  StalenessIsBounded
  EveryPairAccounted
PROPERTIES
  PreferencesAreTheUsers
\* Requests and the clock are bounded.
CHECK_DEADLOCK FALSE
