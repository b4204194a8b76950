SPECIFICATION Spec
CONSTANTS
    Tasks = {1, 2}
    Controllers = {3}
    Notifications = {4}
    Limit = 1
    Bytes = 6
    Upgrades = TRUE
    Defects <- SomeDefects
INVARIANTS
    AtMostOneLeftOut
    FoundInTime
PROPERTIES
    SearchEnds
