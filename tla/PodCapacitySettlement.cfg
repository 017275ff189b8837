SPECIFICATION SettlementSpec
CONSTANTS
    Results = {r1}
    Acks = {a1}
    None = None
    Hosts = {h1}
    Reconcilers = {rec}
    HostOps = {"acquire"}
    Faults = {"store"}
PROPERTIES EventuallySettled
CHECK_DEADLOCK FALSE
