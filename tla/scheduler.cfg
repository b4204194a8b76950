SPECIFICATION Spec
CONSTANTS
    HalfMax = 4
    Jobs = {ten_ps, mqtt}
    Step <- StepOfJob
    Restarted = {mqtt}
    TasksMax = 1
    Intervals <- IntervalChoices
    Nobody = Nobody
    Idle = Idle
    OverrideTime = 2
    MaxWait = 1
    MaxBusy = 1
    MaxLate = 2
    MaxEvents = 2
INVARIANTS
    InOrder
    NobodyForgotten
    JobsWithinStep
    EventsNotStarved
PROPERTIES
    ImplementsAlarms
    JobsRun
