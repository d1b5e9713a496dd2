CONSTANTS
    MaxBad = 2
SPECIFICATION Spec
INVARIANTS
    TypeOK
    UsesAreConnected
    OutcomeFollowsInput
    LaterServersWait
PROPERTIES
    SetupSettles
