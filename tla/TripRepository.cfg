\* Two clients on two trips, three snapshots (one of the other plan type).
CONSTANTS
  t1 = t1
  t2 = t2
  a = a
  b = b
  z = z
  TripIds = {t1, t2}
  Snapshots = {a, b, z}
  PlanType <- MCPlanType
  Legacy <- MCLegacy
  MaxRevision = 2
  UpdateSources = {"MANUAL"}
  Clients = {c1, c2}
  NoRow = NoRow
  NoRevision = NoRevision
  NoSnapshot = NoSnapshot
SYMMETRY ClientSymmetry
SPECIFICATION Spec
INVARIANTS
  TypeOK
  CurrentIsBacked
  HistoryIsWellFormed
  SeenStaysTrue
  NoLostUpdate
  ListingCoversCurrent
PROPERTIES
  ImplementsTripStore
