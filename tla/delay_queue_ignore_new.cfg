SPECIFICATION Spec
CONSTANTS
    DfltDepth = 2
    DfltRetries = 1
    MaxRetries = 2
    MaxSamples = 3
    Values = 2
    Invalid <- SomeInvalid
    SettingsChoices <- IgnoreNew
    Reentrant = TRUE
INVARIANTS
    InFlightIsFront
    SentIsComplete
    GivenUpAfterMaxRetries
