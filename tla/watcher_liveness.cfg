SPECIFICATION LiveSpec
CONSTANTS
    NoCRD = NoCRD
    MaxChurn = 2
    Faults = {}
    Parents = {p1}
    Waiters = {w1, w2}
    NoWaiter = NoWaiter
    MaxConcurrentReconciles = 1
PROPERTIES
    WaitersEnd
    RemovalTakesEffect
    InstallTakesEffect
