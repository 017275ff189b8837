SPECIFICATION FairSpec
CONSTANTS
    Hosts = {h1}
    Reconcilers = {rec}
    HostOps = {"acquire", "provision", "get", "touch", "release", "reconcile"}
    Faults = {"crash", "ambiguous", "plan", "lost", "provider", "restart"}
INVARIANTS TypeOK NoOrphan ReadyIsBacked CustodyInv
PROPERTIES Implements ReasonWriteOnce ResourceEventuallyGone
CHECK_DEADLOCK FALSE
