SPECIFICATION BlocksSpec
CONSTANTS
    MaxIf = 4
    MaxFake = 3
INVARIANTS
    BlocksTypeOK
    OuterBranchesTaken
PROPERTIES
    ImplementsConditionals
