CONSTANTS
    Rows = {r1}
    Keys = {k1, k2}
    Names = {n1}
    Agents = {a1}
    Handlers = {h1, h2}
    NoRow = NoRow
    NoKey = NoKey
    NoName = NoName
    NoAgent = NoAgent
    NoArg = NoArg
    Ops = {"issue", "revoke", "regenerate", "set_enabled"}
    Reconciling = FALSE
    MaxFaults = 0
    MaxPurges = 0
SPECIFICATION Spec
PROPERTIES
    RevokedIsTerminal
CHECK_DEADLOCK FALSE
