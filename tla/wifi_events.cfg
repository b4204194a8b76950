SPECIFICATION Spec
CONSTANTS
    MaxFaults = 4
    MaxMissed = 2
INVARIANTS
    TypeOK
    ServicesNeedLink
PROPERTIES
    ReconnectsUnlessStale
