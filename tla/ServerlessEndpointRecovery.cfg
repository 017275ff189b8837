SPECIFICATION FairSpec
CONSTANTS
  HourTicks = 2
  Ids = {e1, e2}
  NoId = NoId
  Request <- MCRequest
  Catalogs <- MCCatalogs
  ForeignConf <- MCForeignConf
  BatchHours = 1
  MaxClock = 3
  MaxUpsets = 2
  Faults = {"crash", "calls"}
INVARIANT OnePurchase
PROPERTIES EventuallyGone
CHECK_DEADLOCK FALSE
