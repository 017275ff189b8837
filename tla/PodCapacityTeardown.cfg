SPECIFICATION TeardownSpec
CONSTANTS
    Results = {r1}
    Acks = {a1}
    None = None
    Hosts = {h1}
    Reconcilers = {rec}
    HostOps = {"acquire", "release"}
    Faults = {"crash", "cancel", "ambiguous", "exit"}
PROPERTIES PodEventuallyGone
CHECK_DEADLOCK FALSE
