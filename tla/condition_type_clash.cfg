SPECIFICATION Spec
CONSTANTS
    Calls = {c1, c2}
    CRDs <- MCCRDs
    MaxMoves = 0
SYMMETRY Symmetry
CHECK_DEADLOCK FALSE
INVARIANTS
    ConditionsAreKeyed
