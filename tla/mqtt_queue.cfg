SPECIFICATION Spec
CONSTANTS
    MaxMessages = 3
    MaxConnects = 2
    MaxResets = 1
    Oversized = {2}
    Configs <- BothConfigs
    DefaultCfg <- IgnoreNew
    Threshold = 0
INVARIANTS
    TypeOK
PROPERTIES
    GivenUpAfterRetries
    AnnouncedOnce
    ImplementsChannel
    QueueDrains
    LossIsNoted
