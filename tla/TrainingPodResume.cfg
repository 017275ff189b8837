SPECIFICATION Spec
CONSTANTS
    h1 = h1
    h2 = h2
    Hosts <- MCHosts
    Reconcilers = {rec}
    Profiles = 2
    Sources = {"created", "existing"}
    HostOps <- MCHostOps
    Faults = {}
INVARIANTS ResumedIsOwed
CHECK_DEADLOCK FALSE
