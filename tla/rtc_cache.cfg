SPECIFICATION Spec
CONSTANTS
    Cap = 2
    FileMax = 3
    MaxSamples = 9
    MaxFiles = 3
    MaxResets = 2
CHECK_DEADLOCK FALSE
INVARIANTS
    LoadedIsGenuine
    RestIsRecoverable
    NoSampleForgotten
    OlderIsRepeated
PROPERTIES
    LossNeedsTornSave
