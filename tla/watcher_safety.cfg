SPECIFICATION Spec
CONSTANTS
    NoCRD = NoCRD
    MaxChurn = 2
    Faults = {"startError"}
    Parents = {p1, p2}
    Waiters = {w1, w2}
    NoWaiter = NoWaiter
    MaxConcurrentReconciles = 2
SYMMETRY Symmetry
INVARIANTS
    SyncHasItsOnlyWaiter
    GaugeTracksActive
    NoLostActivation
    NoLostDeactivation
    FirstReconcileAccurate
    FlagTracksFeed
    FlagFollows
    LossNeedsReset
PROPERTIES
    PromotionsAreSynced
    StatusRefinement
