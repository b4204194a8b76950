SPECIFICATION Spec
CONSTANTS
    HalfMax = 7
    Depth = 2
    MinTimes <- Intervals
    Fallback = 2
    MaxLate = 2
    MaxIdle = 6
INVARIANTS
    ServedInTime
PROPERTIES
    SpacedAfterSuccess
    QueueIsServed
