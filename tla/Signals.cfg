SPECIFICATION Spec
CONSTANTS
    Clients = {c1, c2}
    Threads = {t1, t2}
    Signals = {SIGINT, SIGTERM}
    None = None
    MaxRegistrations = 1
    MaxSignals = 2
    MaxLogs = 1
INVARIANTS TypeOK ExclusiveAccess NoDangling LiveRegistered DeadlockCauses
PROPERTIES HandlersReturn
CHECK_DEADLOCK FALSE
