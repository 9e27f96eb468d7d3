CONSTANTS
    Replicas = {ra, rb}
    NoReplica = NoReplica
    Routes = {r1}
    Gateways = {g1}
    NoGateway = NoGateway
    Contents = {c1, c2}
    Hooks = {h1}
    All = All
    MaxEdits = 3
    MaxFaults = 1
SPECIFICATION FairSpec
INVARIANTS
    TypeOK
    CyclesHoldLease
PROPERTIES
    ShortCircuitIsSafe
    SettingsConverge
CHECK_DEADLOCK FALSE
