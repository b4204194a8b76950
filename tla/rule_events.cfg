SPECIFICATION Spec
CONSTANTS
    HalfMax = 1
    LastTimer = 2
    Durations = {0, 1}
    MaxNesting = 1
    MaxFiles = 1
    MaxLines = 1
    MaxQueue = 1
    MaxFailures = 1
    MaxLate = 1
INVARIANTS
    TypeOK
    LevelIsNesting
PROPERTIES
    ImplementsCountdowns
    TimersFire
