SPECIFICATION Spec
CONSTANTS
    Results = {r1}
    Acks = {a1}
    None = None
    Hosts = {h1, h2}
    Reconcilers = {rec}
    HostOps = {"acquire", "release"}
    Faults = {"cancel", "ambiguous"}
SYMMETRY Symmetry
INVARIANTS SingleCreate NoStrandedPod ZeroReceiptHonest RevokedAfterTeardown
PROPERTIES StopIsForever TeardownIsPersisted
CHECK_DEADLOCK FALSE
