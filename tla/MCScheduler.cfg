CONSTANTS
    t1 = t1
    t2 = t2
    c1 = c1
    c2 = c2
    l1 = l1
    Thread = {t1, t2}
    Client = {c1}
    Loader = {}
    Shutdown = Shutdown
    QueueLimit = 1
    Delta = 1
    MaxTime = 1
    MaxCallbacks = 2
SPECIFICATION Spec
INVARIANTS AssertionsHold
PROPERTIES  SyncReturns ShutdownCompletes
CHECK_DEADLOCK FALSE
