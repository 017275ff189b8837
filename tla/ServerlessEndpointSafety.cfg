SPECIFICATION Spec
CONSTANTS
  HourTicks = 2
  Ids = {e1, e2}
  NoId = NoId
  Request <- MCRequest
  Catalogs <- MCCatalogs
  ForeignConf <- MCForeignConf
  BatchHours = 1
  MaxClock = 4
  MaxUpsets = 2
  Faults = {"crash", "calls", "lag", "late", "foreign", "removed", "altered"}
SYMMETRY Symmetry
INVARIANTS TypeOK AbsenceHonest DeletesAreOwned LifecycleBilled
CHECK_DEADLOCK FALSE
