SPECIFICATION Spec
CONSTANTS
    h1 = h1
    h2 = h2
    Hosts <- MCHosts
    Reconcilers = {rec}
    Profiles = 2
    Sources = {"created", "existing"}
    HostOps <- MCHostOps
    Faults = {"crash", "cancel", "ambiguous", "provider", "pending", "others"}
INVARIANTS TypeOK CreatedIsOwed FamilyClosed
PROPERTIES SharedKept
CHECK_DEADLOCK FALSE
VIEW MCView
