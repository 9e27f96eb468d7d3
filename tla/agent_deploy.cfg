CONSTANTS
    a1 = a1
    a2 = a2
    Agents = {a1, a2}
    Spare = Spare
    NoKey = NoKey
    NoAgent = NoAgent
    Daemons = {a1}
    Plans <- MCAllPlans
    MaxOps = 1
    MaxOverlap = 1
    MaxTokens = 2
    MaxFaults = 1
SPECIFICATION Spec
INVARIANTS
    TypeOK
    RollbackComplete
    RemovalComplete
    RevocationHolds
    NotLockedOut
PROPERTIES
    SuccessIsComplete
CHECK_DEADLOCK FALSE
