CONSTANTS
    ra = ra
    rb = rb
    ticker = ticker
    manual = manual
    first = first
    Pools = {p1}
    Endpoints = {e1, e2}
    Replicas = {ra, rb}
    Tickers = {ticker}
    Clients = {manual}
    FirstSyncs = {first}
    ReplicaOf <- MCReplicaOf
    NoPool = NoPool
    NoEndpoint = NoEndpoint
    MaxRetries = 1
    Threshold = 1
    MaxFaults = 2
    MaxUpdates = 1
SPECIFICATION FairSpec
INVARIANTS
    TypeOK
    StatusTellsSync
    OpensForItsEndpoint
PROPERTIES
    DeletionAndInventoryStay
    PoolsConverge
CHECK_DEADLOCK FALSE
