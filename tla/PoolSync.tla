------------------------------ MODULE PoolSync ------------------------------
(***************************************************************************)
(* Synchronisation of resource pools with their vCenters (internal/graph):  *)
(* the table resource_pools, the mutations that change it, and syncOnePool, *)
(* which the ticker, the syncResourcePool mutation and the first sync of a  *)
(* created pool all run: a lock per pool and process, retries, and a        *)
(* circuit breaker per endpoint and process.                                *)
(*                                                                          *)
(* A sync works on the row its caller loaded, before it waits for the lock. *)
(* Every pool here has stored credentials; others never sync.               *)
(***************************************************************************)
EXTENDS Naturals, FiniteSets

CONSTANTS
    Pools,      \* ids of resource_pools rows; an id is used once
    Endpoints,  \* vCenters
    Replicas,   \* processes of the platform
    Tickers,    \* background tickers
    Clients,    \* syncResourcePool mutations being served
    FirstSyncs, \* goroutines that sync a pool just created
    ReplicaOf,  \* the process each of them runs in
    NoPool, NoEndpoint,
    MaxRetries, \* POOL_SYNC_MAX_RETRIES
    Threshold,  \* POOL_SYNC_BREAKER_THRESHOLD; 0 disables the breaker
    MaxFaults,  \* bound on failures of vCenters and of the database, contexts that end, and crashes
    MaxUpdates  \* bound on updateResourcePool calls

Syncs == Tickers \union Clients \union FirstSyncs

ASSUME ReplicaAssumption == ReplicaOf \in [Syncs -> Replicas]
ASSUME NullsAssumption == NoPool \notin Pools /\ NoEndpoint \notin Endpoints
ASSUME BoundsAssumption ==
    MaxRetries \in Nat /\ Threshold \in Nat /\ MaxFaults \in Nat /\ MaxUpdates \in Nat

VARIABLES
    pool,       \* the table resource_pools
    sync,       \* local state of each sync
    breaker,    \* breaker of each replica and endpoint
    charges,    \* history: the endpoints of attempts that failed, and why these did
    faults, updates

vars == <<pool, sync, breaker, charges, faults, updates>>

(***************************************************************************)
(* Rows: "none" is an id not used yet.  The inventory is the endpoint it    *)
(* was read from; it is there when last_synced_at is.                       *)
(***************************************************************************)
Stored == {"disconnected", "connected", "error"}

PoolRecord ==
    [status : Stored \union {"none", "deleted"}, endpoint : Endpoints \union {NoEndpoint},
     inventory : Endpoints \union {NoEndpoint}]

NoRow == [status |-> "none", endpoint |-> NoEndpoint, inventory |-> NoEndpoint]

StoredPools == {p \in Pools : pool[p].status \in Stored}

(***************************************************************************)
(* A sync: the pools that its caller loaded and that wait for their turn,   *)
(* with the endpoint of the loaded row, and the one being synced.           *)
(* Why an attempt fails: at the vCenter; "local", because its credentials   *)
(* cannot be read or its write panics; because its context ends; "persist", *)
(* with an error of its write.                                              *)
(***************************************************************************)
Causes   == {"vcenter", "local", "context"}
Outcomes == {"none", "ok", "persist"} \union Causes

NothingLoaded == [p \in Pools |-> NoEndpoint]

Idle == [pc |-> "idle", loaded |-> NothingLoaded, pool |-> NoPool, endpoint |-> NoEndpoint,
         attempt |-> 0, outcome |-> "none"]

SyncRecord ==
    [pc : {"idle", "lock", "admit", "connect", "persist", "report", "mark_error"},
     loaded : [Pools -> Endpoints \union {NoEndpoint}],
     pool : Pools \union {NoPool}, endpoint : Endpoints \union {NoEndpoint},
     attempt : 0..MaxRetries, outcome : Outcomes]

\* A breaker, with the syncs of its current generation: the ones it admitted
\* since its last change of state, whose outcome it will count.
BreakerRecord ==
    [state : {"closed", "open", "half"}, failures : Nat, admitted : SUBSET Syncs]

Closed   == [state |-> "closed", failures |-> 0, admitted |-> {}]
Open     == [Closed EXCEPT !.state = "open"]
HalfOpen == [Closed EXCEPT !.state = "half"]

TypeOK ==
    /\ pool \in [Pools -> PoolRecord]
    /\ sync \in [Syncs -> SyncRecord]
    /\ \A s \in Syncs : sync[s].pc \notin {"idle", "lock"} =>
           sync[s].pool \in Pools /\ sync[s].endpoint \in Endpoints
    /\ breaker \in [Replicas -> [Endpoints -> BreakerRecord]]
    /\ charges \subseteq Endpoints \X Causes
    /\ faults \in 0..MaxFaults
    /\ updates \in 0..MaxUpdates

Init ==
    /\ pool = [p \in Pools |-> NoRow]
    /\ sync = [s \in Syncs |-> Idle]
    /\ breaker = [r \in Replicas |-> [e \in Endpoints |-> Closed]]
    /\ charges = {}
    /\ faults = 0
    /\ updates = 0

At(s, pc) == sync[s].pc = pc
NoFault   == faults' = faults
Fault     == faults < MaxFaults /\ faults' = faults + 1

Load(s, loaded) ==
    /\ At(s, "idle")
    /\ sync' = [sync EXCEPT ![s] = [Idle EXCEPT !.pc = "lock", !.loaded = loaded]]

LoadOne(s, p, e) == Load(s, [NothingLoaded EXCEPT ![p] = e])

(***************************************************************************)
(* The mutations                                                            *)
(***************************************************************************)
CreateResourcePool(s, p, e) ==
    /\ pool[p].status = "none"
    /\ pool' = [pool EXCEPT ![p] =
                [status |-> "disconnected", endpoint |-> e, inventory |-> NoEndpoint]]
    /\ LoadOne(s, p, e)
    /\ UNCHANGED <<breaker, charges, faults, updates>>

UpdateResourcePool(p, e) ==
    /\ p \in StoredPools /\ updates < MaxUpdates
    /\ pool' = [pool EXCEPT ![p].endpoint = e]
    /\ updates' = updates + 1
    /\ UNCHANGED <<sync, breaker, charges, faults>>

DeleteResourcePool(p) ==
    /\ p \in StoredPools
    /\ pool' = [pool EXCEPT ![p] = [NoRow EXCEPT !.status = "deleted"]]
    /\ UNCHANGED <<sync, breaker, charges, faults, updates>>

SyncResourcePool(s, p) ==
    /\ p \in StoredPools
    /\ LoadOne(s, p, pool[p].endpoint)
    /\ UNCHANGED <<pool, breaker, charges, faults, updates>>

\* A tick of a replica that holds the lease, or held it when the tick began.
SyncAllPools(s) ==
    /\ StoredPools # {}
    /\ Load(s, [p \in Pools |-> pool[p].endpoint])
    /\ UNCHANGED <<pool, breaker, charges, faults, updates>>

(***************************************************************************)
(* syncOnePool                                                              *)
(***************************************************************************)
Locked(r, p) == \E s \in Syncs : ReplicaOf[s] = r /\ sync[s].pool = p

LockPool(s) ==
    /\ At(s, "lock")
    /\ \E p \in Pools :
          /\ sync[s].loaded[p] # NoEndpoint
          /\ ~Locked(ReplicaOf[s], p)
          /\ sync' = [sync EXCEPT ![s].pc = "admit", ![s].pool = p,
                                  ![s].endpoint = sync[s].loaded[p], ![s].loaded[p] = NoEndpoint]
    /\ UNCHANGED <<pool, breaker, charges, faults, updates>>

\* syncOnePool returns and unlocks; its caller goes on with the next pool.
Return(s) ==
    sync' = [sync EXCEPT ![s] =
        [Idle EXCEPT !.loaded = sync[s].loaded,
                     !.pc = IF sync[s].loaded = NothingLoaded THEN "idle" ELSE "lock"]]

Breaker(s)           == breaker[ReplicaOf[s]][sync[s].endpoint]
SetBreaker(r, e, new) == breaker' = [breaker EXCEPT ![r][e] = new]

\* Mutant: a breaker that is half open lets no probe through.
AdmitsNoProbe(b) == b.state = "closed"

\* A breaker that is open, or half open with its one probe under way, turns
\* the sync away and the status of the pool is left as it is.
Admits(b) == b.state = "closed" \/ (b.state = "half" /\ b.admitted = {})

Admit(s) ==
    /\ At(s, "admit")
    /\ LET b == Breaker(s)
       IN  \/ /\ Admits(b)
              /\ SetBreaker(ReplicaOf[s], sync[s].endpoint, [b EXCEPT !.admitted = @ \union {s}])
              /\ sync' = [sync EXCEPT ![s].pc = "connect"]
           \/ ~Admits(b) /\ UNCHANGED breaker /\ Return(s)
    /\ UNCHANGED <<pool, charges, faults, updates>>

GiveUp(s, outcome) ==
    sync' = [sync EXCEPT ![s].pc = "report", ![s].attempt = 0, ![s].outcome = outcome]

TryAgain(s, outcome) ==
    sync' = [sync EXCEPT ![s].pc = "connect", ![s].attempt = @ + 1, ![s].outcome = outcome]

\* Mutant: one attempt more than there are.
RetryOnceMore(s, outcome) ==
    \/ sync[s].attempt <= MaxRetries /\ TryAgain(s, outcome)
    \/ sync[s].attempt > MaxRetries /\ GiveUp(s, outcome)

\* The next attempt of retrySync, or the error of the last one.
RetryOr(s, outcome) ==
    \/ sync[s].attempt < MaxRetries /\ TryAgain(s, outcome)
    \/ sync[s].attempt = MaxRetries /\ GiveUp(s, outcome)

\* Whether the context of a sync can end with its vCenter well: a client goes
\* away, or the timeout passes while the sync waits to repeat what failed here.
CanBeCut(s) == s \in Clients \/ sync[s].outcome \in {"persist", "local"}

Charge(s, cause) == charges' = charges \union {<<sync[s].endpoint, cause>>}

\* One attempt: resolve the credentials, connect and read the inventory.  A
\* failure is retried, unless the attempt panicked or the context has ended.
Connect(s) ==
    /\ At(s, "connect")
    /\ \/ sync' = [sync EXCEPT ![s].pc = "persist"] /\ NoFault /\ UNCHANGED charges
       \/ \E cause \in Causes :
             /\ \/ cause # "context" /\ (RetryOr(s, cause) \/ GiveUp(s, cause))
                \/ cause = "context" /\ CanBeCut(s) /\ GiveUp(s, cause)
             /\ Charge(s, cause)
             /\ Fault
    /\ UNCHANGED <<pool, breaker, updates>>

Synced(s) == [pool[sync[s].pool] EXCEPT !.status = "connected", !.inventory = sync[s].endpoint]

\* Mutant: the row is saved even when it is gone.
PersistUpsert(s) ==
    /\ At(s, "persist")
    /\ pool' = [pool EXCEPT ![sync[s].pool] = Synced(s)]
    /\ GiveUp(s, "ok")
    /\ UNCHANGED <<breaker, charges, faults, updates>>

\* The write of the attempt, by id: it needs the row, it may fail, and its
\* answer may be lost.  A panic in it is no error of the write to the breaker.
Persist(s) ==
    /\ At(s, "persist")
    /\ \/ /\ sync[s].pool \in StoredPools
          /\ pool' = [pool EXCEPT ![sync[s].pool] = Synced(s)]
          /\ GiveUp(s, "ok") /\ NoFault /\ UNCHANGED charges
       \/ /\ sync[s].pool \notin StoredPools /\ UNCHANGED pool
          /\ RetryOr(s, "persist") /\ NoFault /\ UNCHANGED charges
       \/ /\ Fault
          /\ \/ (RetryOr(s, "persist") \/ GiveUp(s, "persist")) /\ UNCHANGED charges
             \/ GiveUp(s, "local") /\ Charge(s, "local")
          /\ \/ UNCHANGED pool
             \/ sync[s].pool \in StoredPools /\ pool' = [pool EXCEPT ![sync[s].pool] = Synced(s)]
    /\ UNCHANGED <<breaker, updates>>

\* Mutant: a failed write of the local database counts against the vCenter.
AnyFailure(outcome) == outcome # "ok"

\* What the breaker counts as a failure: every error but that of a write.
CountsAsFailure(outcome) == outcome \in Causes

Trips(failures) == Threshold > 0 /\ failures >= Threshold

\* The breaker after an outcome of its own generation.
AfterOutcome(b, failed) ==
    CASE ~failed /\ b.state = "half"   -> Closed
      [] ~failed /\ b.state = "closed" -> [b EXCEPT !.failures = 0]
      [] failed /\ b.state = "half"    -> Open
      [] OTHER -> IF Trips(b.failures + 1) THEN Open ELSE [b EXCEPT !.failures = @ + 1]

Report(s) ==
    /\ At(s, "report")
    /\ LET b == Breaker(s)
           failed == CountsAsFailure(sync[s].outcome)
       IN  IF s \in b.admitted
           THEN SetBreaker(ReplicaOf[s], sync[s].endpoint,
                           [AfterOutcome(b, failed) EXCEPT !.admitted = @ \ {s}])
           ELSE UNCHANGED breaker
    /\ IF sync[s].outcome = "ok" THEN Return(s) ELSE sync' = [sync EXCEPT ![s].pc = "mark_error"]
    /\ UNCHANGED <<pool, charges, faults, updates>>

\* Mutant: a pool whose sync failed falls back to the status of a new one.
ErrorStatusReset == "disconnected"

ErrorStatus == "error"

MarkError(s) ==
    /\ At(s, "mark_error")
    /\ \/ /\ sync[s].pool \in StoredPools
          /\ pool' = [pool EXCEPT ![sync[s].pool].status = ErrorStatus] /\ NoFault
       \/ sync[s].pool \notin StoredPools /\ UNCHANGED pool /\ NoFault
       \/ UNCHANGED pool /\ Fault
    /\ Return(s)
    /\ UNCHANGED <<breaker, charges, updates>>

(***************************************************************************)
(* Time and crashes                                                         *)
(***************************************************************************)
OpenExpires(r, e) ==
    /\ breaker[r][e].state = "open"
    /\ SetBreaker(r, e, HalfOpen)
    /\ UNCHANGED <<pool, sync, charges, faults, updates>>

Crash(r) ==
    /\ \E s \in Syncs : ReplicaOf[s] = r /\ ~At(s, "idle")
    /\ Fault
    /\ sync' = [s \in Syncs |-> IF ReplicaOf[s] = r THEN Idle ELSE sync[s]]
    /\ breaker' = [breaker EXCEPT ![r] = [e \in Endpoints |-> Closed]]
    /\ UNCHANGED <<pool, charges, updates>>

SyncStep(s) ==
    LockPool(s) \/ Admit(s) \/ Connect(s) \/ Persist(s) \/ Report(s) \/ MarkError(s)

Next ==
    \/ \E p \in Pools :
          \/ \E e \in Endpoints : \/ UpdateResourcePool(p, e)
                                  \/ \E s \in FirstSyncs : CreateResourcePool(s, p, e)
          \/ DeleteResourcePool(p)
          \/ \E s \in Clients : SyncResourcePool(s, p)
    \/ \E s \in Tickers : SyncAllPools(s)
    \/ \E s \in Syncs : SyncStep(s)
    \/ \E r \in Replicas : Crash(r) \/ \E e \in Endpoints : OpenExpires(r, e)

\* The ticker of some replica ticks, what runs goes on, and time passes.
Fairness ==
    /\ WF_vars(\E s \in Tickers : SyncAllPools(s))
    /\ \A s \in Syncs : WF_vars(SyncStep(s))
    /\ \A r \in Replicas, e \in Endpoints : WF_vars(OpenExpires(r, e))

Spec     == Init /\ [][Next]_vars
FairSpec == Spec /\ Fairness
-----------------------------------------------------------------------------
\* The core invariants of the state machine's document: a connected pool was
\* synced, a disconnected one never was, whatever writes of several replicas,
\* of stale rows and of failed syncs come in between.
StatusTellsSync ==
    \A p \in StoredPools :
        /\ pool[p].status = "connected" => pool[p].inventory # NoEndpoint
        /\ pool[p].status = "disconnected" => pool[p].inventory = NoEndpoint

\* A sync that is under way when its pool is deleted does not bring the row
\* back, and a pool that was ever synced keeps an inventory to show.
DeletionAndInventoryStay ==
    [][\A p \in Pools :
          /\ pool[p].status = "deleted" => pool'[p].status = "deleted"
          /\ (pool[p].inventory # NoEndpoint /\ pool'[p].status \in Stored)
                 => pool'[p].inventory # NoEndpoint]_vars

\* A breaker opens for its endpoint alone: errors of writes of the local database
\* do not open it, nor do failures at another endpoint.  "Only genuine vCenter
\* dial/API failures should feed the vCenter breaker" (pool_sync_one.go:176-180)
\* is more than the code does: credentials that cannot be read, a write that
\* panics and a context that ends are charged to the endpoint, too.
OpensForItsEndpoint ==
    \A r \in Replicas, e \in Endpoints :
        breaker[r][e].state # "closed" => \E cause \in Causes : <<e, cause>> \in charges

\* Once failures and updates cease, every pool comes to be connected, with the
\* inventory of the endpoint its row names: a status=error that was left behind,
\* an open breaker and the inventory of a former endpoint, written late by a
\* sync that had loaded the row before an update, are all made good.
PoolsConverge ==
    \A p \in Pools :
        <>[](p \in StoredPools =>
                pool[p].status = "connected" /\ pool[p].inventory = pool[p].endpoint)
=============================================================================
