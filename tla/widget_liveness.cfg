SPECIFICATION FairSpec
CONSTANTS
    Integrations = {"plugin"}
    Names = {n1, n2}
    NoName = NoName
    Settings = {blue}
    NoObject = NoObject
    NoWidget = NoWidget
    OtherWidgets = TRUE
    Faults = {"listError", "lostResponse", "outage", "restart", "sharedRequest"}
    MaxChanges = 2
CHECK_DEADLOCK FALSE
INVARIANT StatusInv
INVARIANT SettledStatusCorrect
PROPERTY PromisesReachWidget
PROPERTY StatusConverges
