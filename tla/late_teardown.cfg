SPECIFICATION Spec
CONSTANTS
    NoCRD = NoCRD
    MaxChurn = 1
    Faults = {}
    Parents = {p1}
    Waiters = {w1, w2}
    NoWaiter = NoWaiter
    MaxConcurrentReconciles = 1
CHECK_DEADLOCK FALSE
INVARIANT ActiveIsReadable
