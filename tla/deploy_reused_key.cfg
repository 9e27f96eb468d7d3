CONSTANTS
    a1 = a1
    a2 = a2
    Agents = {a1, a2}
    Spare = Spare
    NoKey = NoKey
    NoAgent = NoAgent
    Daemons = {}
    Plans <- MCReusePlans
    MaxOps = 1
    MaxOverlap = 1
    MaxTokens = 2
    MaxFaults = 1
SPECIFICATION Spec
PROPERTIES
    RevokesOwnKey
CHECK_DEADLOCK FALSE
