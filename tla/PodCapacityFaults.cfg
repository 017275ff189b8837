SPECIFICATION Spec
CONSTANTS
    Results = {r1}
    Acks = {a1}
    None = None
    Hosts = {h1}
    Reconcilers = {rec}
    HostOps = {"acquire", "poll", "release", "submit"}
    Faults = {"crash", "restart", "cancel", "ambiguous", "mismatch", "provider", "pending", "store", "transport", "exit"}
INVARIANTS TypeOK RevokedAfterTeardown
PROPERTIES Implements
CHECK_DEADLOCK FALSE
