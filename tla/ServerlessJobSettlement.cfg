SPECIFICATION Spec
CONSTANTS
  HourTicks = 3
  Request <- MCRequest
  Catalogs <- MCCatalogs
  Lanes = {"profile", "activated"}
  MaxClock = 8
  Faults = {"crash", "calls", "pages"}
INVARIANTS TypeOK SettledExactly JobIsOwed
PROPERTIES EventuallySettled
CHECK_DEADLOCK FALSE
