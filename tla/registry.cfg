SPECIFICATION Spec
CONSTANTS
    Calls = {c1, c2}
    CRDs <- MCCRDs
    MaxMoves = 4
SYMMETRY Symmetry
CHECK_DEADLOCK FALSE
INVARIANTS
    OneWatcherPerCRD
    HeldIsAttached
    ReportIsExact
