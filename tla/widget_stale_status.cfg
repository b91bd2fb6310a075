SPECIFICATION Spec
CONSTANTS
    Integrations = {"plugin", "theme"}
    Names = {n}
    NoName = NoName
    Settings = {blue}
    NoObject = NoObject
    NoWidget = NoWidget
    OtherWidgets = FALSE
    Faults = {}
    MaxChanges = 2
CHECK_DEADLOCK FALSE
INVARIANT SettledStatusAlwaysCorrect
