CONSTANTS
    Rows = {r1}
    Keys = {k1, k2}
    Names = {n1}
    Agents = {a1}
    Handlers = {h1, h2}
    NoRow = NoRow
    NoKey = NoKey
    NoName = NoName
    NoAgent = NoAgent
    NoArg = NoArg
    Ops = {"issue", "revoke", "regenerate", "associate"}
    Reconciling = TRUE
    MaxFaults = 1
    MaxPurges = 1
SPECIFICATION FairSpec
INVARIANTS
    DoomedKeysAreRevoked
    ActiveKeysWork
PROPERTIES
    RevokedIsTerminal
    RevokedKeysDie
