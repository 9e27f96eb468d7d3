CONSTANTS
    Rows = {r1, r2}
    Keys = {k1, k2, k3}
    Names = {n1, n2}
    Agents = {a1}
    Handlers = {h1, h2}
    NoRow = NoRow
    NoKey = NoKey
    NoName = NoName
    NoAgent = NoAgent
    NoArg = NoArg
    Ops = {"issue", "revoke", "regenerate", "set_enabled", "associate"}
    Reconciling = FALSE
    MaxFaults = 1
    MaxPurges = 1
SYMMETRY Symmetry
SPECIFICATION Spec
INVARIANTS
    TypeOK
    ActiveKeysUnique
    LiveKeysGoverned
    KeysNotShared
CHECK_DEADLOCK FALSE
