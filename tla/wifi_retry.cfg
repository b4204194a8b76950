SPECIFICATION Spec
CONSTANTS
    MaxFaults = 1
    MaxMissed = 0
PROPERTIES
    RetriesAfterTimeout
