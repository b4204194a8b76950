SPECIFICATION Spec
CONSTANTS
    DfltDepth = 2
    DfltRetries = 1
    MaxRetries = 1
    MaxSamples = 3
    Values = 2
    Invalid <- SomeInvalid
    SettingsChoices <- BothActions
    Reentrant = TRUE
INVARIANTS
    TypeOK
    OldestFirst
PROPERTIES
    QueueDrains
    ImplementsChannel
