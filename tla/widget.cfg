SPECIFICATION Spec
CONSTANTS
    Integrations = {"plugin", "theme"}
    Names = {n}
    NoName = NoName
    Settings = {blue}
    NoObject = NoObject
    NoWidget = NoWidget
    OtherWidgets = TRUE
    Faults = {"listError", "lostResponse", "outage", "restart", "sharedRequest"}
    MaxChanges = 1
CHECK_DEADLOCK FALSE
INVARIANTS
    TypeOK
    SettledStatusCorrect
