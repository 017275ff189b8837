SPECIFICATION Spec
CONSTANTS
    Results = {r1, r2}
    Acks = {a1, a2}
    None = None
    Hosts = {h1, h2}
    Reconcilers = {}
    HostOps = {"acquire", "heartbeat", "request_cancellation", "submit", "observe", "acknowledge", "recover", "retrieve", "evidence", "confirm", "cancel"}
    Faults = {"runner", "transport", "workfail"}
SYMMETRY Symmetry
INVARIANTS IntentBeforeDelivery HandoffSound
PROPERTIES StopIsForever HandoffWriteOnce PhaseNeverRegresses
CHECK_DEADLOCK FALSE
