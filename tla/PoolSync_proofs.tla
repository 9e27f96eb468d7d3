-------------------------- MODULE PoolSync_proofs --------------------------
(* Theorems about PoolSync, for every value of its constants. *)
EXTENDS PoolSync, TLAPS

LEMMA IdleType == Idle \in SyncRecord /\ Idle.pc = "idle"
BY BoundsAssumption DEF Idle, SyncRecord, NothingLoaded, Outcomes

LEMMA FaultType ==
    ASSUME TypeOK, NoFault \/ Fault
    PROVE  faults' \in 0..MaxFaults
BY BoundsAssumption DEF TypeOK, NoFault, Fault

LEMMA BreakerTypes ==
    /\ Closed \in BreakerRecord /\ Open \in BreakerRecord /\ HalfOpen \in BreakerRecord
    /\ Closed.state = "closed" /\ Open.state = "open" /\ HalfOpen.state = "half"
    /\ \A b \in BreakerRecord, s \in Syncs :
          /\ [b EXCEPT !.admitted = @ \union {s}] \in BreakerRecord
          /\ [b EXCEPT !.admitted = @ \ {s}] \in BreakerRecord
    /\ \A b \in BreakerRecord, failed \in BOOLEAN : AfterOutcome(b, failed) \in BreakerRecord
BY DEF BreakerRecord, Closed, Open, HalfOpen, AfterOutcome

LEMMA CountsType == \A outcome : CountsAsFailure(outcome) \in BOOLEAN
BY DEF CountsAsFailure

(***************************************************************************)
(* What a step does to the syncs: a well-typed sync at a working step has a *)
(* pool and an endpoint.                                                    *)
(***************************************************************************)
Placed(x) == x.pc \notin {"idle", "lock"} => x.pool \in Pools /\ x.endpoint \in Endpoints

LEMMA LoadType ==
    ASSUME TypeOK, NEW s \in Syncs, NEW loaded \in [Pools -> Endpoints \union {NoEndpoint}],
           Load(s, loaded)
    PROVE  /\ sync' \in [Syncs -> SyncRecord]
           /\ \A t \in Syncs : Placed(sync'[t])
<1>1. [Idle EXCEPT !.pc = "lock", !.loaded = loaded] \in SyncRecord
      /\ Placed([Idle EXCEPT !.pc = "lock", !.loaded = loaded])
  BY IdleType DEF SyncRecord, Idle, Placed
<1> QED BY <1>1 DEF Load, TypeOK, Placed

LEMMA ReturnType ==
    ASSUME TypeOK, NEW s \in Syncs, Return(s)
    PROVE  /\ sync' \in [Syncs -> SyncRecord]
           /\ \A t \in Syncs : Placed(sync'[t])
<1> DEFINE x == [Idle EXCEPT !.loaded = sync[s].loaded,
                             !.pc = IF sync[s].loaded = NothingLoaded THEN "idle" ELSE "lock"]
<1>1. x \in SyncRecord /\ Placed(x)
  <2>1. sync[s].loaded \in [Pools -> Endpoints \union {NoEndpoint}]
    BY DEF TypeOK, SyncRecord
  <2> QED BY <2>1, IdleType DEF SyncRecord, Idle, Placed
<1>2. sync' = [sync EXCEPT ![s] = x]
  BY DEF Return
<1> HIDE DEF x
<1> QED BY <1>1, <1>2 DEF TypeOK, Placed

LEMMA GiveUpType ==
    ASSUME TypeOK, NEW s \in Syncs, NEW o \in Outcomes, ~At(s, "idle"), ~At(s, "lock"),
           GiveUp(s, o) \/ RetryOr(s, o)
    PROVE  /\ sync' \in [Syncs -> SyncRecord]
           /\ \A t \in Syncs : Placed(sync'[t])
<1>1. sync[s] \in SyncRecord /\ Placed(sync[s])
  BY DEF TypeOK, Placed
<1>2. \/ sync' = [sync EXCEPT ![s] = [sync[s] EXCEPT !.pc = "report", !.attempt = 0, !.outcome = o]]
      \/ /\ sync[s].attempt + 1 \in 0..MaxRetries
         /\ sync' = [sync EXCEPT ![s] = [sync[s] EXCEPT !.pc = "connect",
                                           !.attempt = sync[s].attempt + 1, !.outcome = o]]
  <2>1. sync[s].attempt \in 0..MaxRetries
    BY <1>1 DEF SyncRecord
  <2>2. CASE GiveUp(s, o)
    BY <2>2 DEF GiveUp, TypeOK
  <2>3. CASE RetryOr(s, o) /\ ~GiveUp(s, o)
    <3>1. sync[s].attempt < MaxRetries /\ TryAgain(s, o)
      BY <2>3 DEF RetryOr
    <3>2. sync[s].attempt + 1 \in 0..MaxRetries
      BY <2>1, <3>1, BoundsAssumption
    <3> QED BY <3>1, <3>2 DEF TypeOK, TryAgain
  <2> QED BY <2>2, <2>3
<1>3. LET x == [sync[s] EXCEPT !.pc = "report", !.attempt = 0, !.outcome = o]
      IN  x \in SyncRecord /\ Placed(x)
  <2>1. 0 \in 0..MaxRetries
    BY BoundsAssumption
  <2> QED BY <1>1, <2>1 DEF SyncRecord, Placed, At
<1>4. sync[s].attempt + 1 \in 0..MaxRetries =>
         LET x == [sync[s] EXCEPT !.pc = "connect", !.attempt = sync[s].attempt + 1, !.outcome = o]
         IN  x \in SyncRecord /\ Placed(x)
  BY <1>1 DEF SyncRecord, Placed, At
<1> QED BY <1>2, <1>3, <1>4 DEF TypeOK, Placed

LEMMA GotoType ==
    ASSUME TypeOK, NEW s \in Syncs, ~At(s, "idle"), ~At(s, "lock"),
           NEW pc \in {"connect", "persist", "mark_error"}, sync' = [sync EXCEPT ![s].pc = pc]
    PROVE  /\ sync' \in [Syncs -> SyncRecord]
           /\ \A t \in Syncs : Placed(sync'[t])
<1>1. [sync[s] EXCEPT !.pc = pc] \in SyncRecord /\ Placed([sync[s] EXCEPT !.pc = pc])
  BY DEF TypeOK, SyncRecord, Placed, At
<1> QED BY <1>1 DEF TypeOK, Placed

LEMMA PoolEdits ==
    ASSUME TypeOK, NEW s \in Syncs, ~At(s, "idle"), ~At(s, "lock")
    PROVE  /\ sync[s].pool \in Pools /\ sync[s].endpoint \in Endpoints
           /\ Synced(s) \in PoolRecord
           /\ [pool[sync[s].pool] EXCEPT !.status = ErrorStatus] \in PoolRecord
BY DEF TypeOK, At, Synced, PoolRecord, Stored, ErrorStatus

LEMMA BreakerStep ==
    ASSUME TypeOK, NEW r \in Replicas, NEW e \in Endpoints, NEW new \in BreakerRecord,
           SetBreaker(r, e, new)
    PROVE  breaker' \in [Replicas -> [Endpoints -> BreakerRecord]]
BY DEF TypeOK, SetBreaker

LEMMA ChargeType ==
    ASSUME TypeOK, NEW s \in Syncs, ~At(s, "idle"), ~At(s, "lock"), NEW cause \in Causes,
           Charge(s, cause)
    PROVE  charges' \subseteq Endpoints \X Causes
<1>1. sync[s].endpoint \in Endpoints /\ charges \subseteq Endpoints \X Causes
  BY PoolEdits DEF TypeOK
<1> QED BY <1>1 DEF Charge

LEMMA TypeStep == TypeOK /\ [Next]_vars => TypeOK'
<1> SUFFICES ASSUME TypeOK, [Next]_vars PROVE TypeOK'
  OBVIOUS
<1>0. ASSUME /\ sync' \in [Syncs -> SyncRecord] /\ \A s \in Syncs : Placed(sync'[s])
             /\ pool' \in [Pools -> PoolRecord]
             /\ breaker' \in [Replicas -> [Endpoints -> BreakerRecord]]
             /\ charges' \subseteq Endpoints \X Causes
             /\ NoFault \/ Fault
             /\ updates' \in 0..MaxUpdates
      PROVE  TypeOK'
  BY <1>0, FaultType DEF TypeOK, Placed
<1>k. /\ sync \in [Syncs -> SyncRecord] /\ \A s \in Syncs : Placed(sync[s])
      /\ pool \in [Pools -> PoolRecord]
      /\ breaker \in [Replicas -> [Endpoints -> BreakerRecord]]
      /\ charges \subseteq Endpoints \X Causes /\ updates \in 0..MaxUpdates
      /\ \A p \in StoredPools : p \in Pools /\ pool[p] \in PoolRecord
  BY DEF TypeOK, Placed, StoredPools
<1>1. ASSUME NEW s \in FirstSyncs, NEW p \in Pools, NEW e \in Endpoints, CreateResourcePool(s, p, e)
      PROVE  TypeOK'
  <2>1. [status |-> "disconnected", endpoint |-> e, inventory |-> NoEndpoint] \in PoolRecord
    BY DEF PoolRecord, Stored
  <2>2. [NothingLoaded EXCEPT ![p] = e] \in [Pools -> Endpoints \union {NoEndpoint}]
    BY DEF NothingLoaded
  <2>3. s \in Syncs /\ Load(s, [NothingLoaded EXCEPT ![p] = e])
    BY <1>1 DEF CreateResourcePool, LoadOne, Syncs
  <2>4. pool' \in [Pools -> PoolRecord]
    BY <1>1, <1>k, <2>1 DEF CreateResourcePool
  <2> QED BY <1>0, <1>1, <1>k, <2>2, <2>3, <2>4, LoadType DEF CreateResourcePool, NoFault
<1>2. ASSUME NEW p \in Pools, NEW e \in Endpoints, UpdateResourcePool(p, e) PROVE TypeOK'
  <2>1. [pool[p] EXCEPT !.endpoint = e] \in PoolRecord
    BY <1>k DEF PoolRecord
  <2>2. pool' \in [Pools -> PoolRecord]
    BY <1>2, <1>k, <2>1 DEF UpdateResourcePool
  <2> QED BY <1>0, <1>2, <1>k, <2>2, BoundsAssumption DEF UpdateResourcePool, NoFault
<1>3. ASSUME NEW p \in Pools, DeleteResourcePool(p) PROVE TypeOK'
  <2>1. [NoRow EXCEPT !.status = "deleted"] \in PoolRecord
    BY DEF PoolRecord, NoRow, Stored
  <2>2. pool' \in [Pools -> PoolRecord]
    BY <1>3, <1>k, <2>1 DEF DeleteResourcePool
  <2> QED BY <1>0, <1>3, <1>k, <2>2 DEF DeleteResourcePool, NoFault
<1>4. ASSUME NEW s \in Clients, NEW p \in Pools, SyncResourcePool(s, p) PROVE TypeOK'
  <2>1. [NothingLoaded EXCEPT ![p] = pool[p].endpoint] \in [Pools -> Endpoints \union {NoEndpoint}]
    BY <1>k DEF NothingLoaded, PoolRecord
  <2>2. s \in Syncs /\ Load(s, [NothingLoaded EXCEPT ![p] = pool[p].endpoint])
    BY <1>4 DEF SyncResourcePool, LoadOne, Syncs
  <2> QED BY <1>0, <1>4, <1>k, <2>1, <2>2, LoadType DEF SyncResourcePool, NoFault
<1>5. ASSUME NEW s \in Tickers, SyncAllPools(s) PROVE TypeOK'
  <2>1. [p \in Pools |-> pool[p].endpoint] \in [Pools -> Endpoints \union {NoEndpoint}]
    BY <1>k DEF PoolRecord
  <2>2. s \in Syncs /\ Load(s, [p \in Pools |-> pool[p].endpoint])
    BY <1>5 DEF SyncAllPools, Syncs
  <2> QED BY <1>0, <1>5, <1>k, <2>1, <2>2, LoadType DEF SyncAllPools, NoFault
<1>6. ASSUME NEW s \in Syncs, LockPool(s) PROVE TypeOK'
  <2>1. PICK p \in Pools :
           /\ sync[s].loaded[p] # NoEndpoint
           /\ sync' = [sync EXCEPT ![s].pc = "admit", ![s].pool = p,
                                   ![s].endpoint = sync[s].loaded[p], ![s].loaded[p] = NoEndpoint]
    BY <1>6 DEF LockPool
  <2> DEFINE x == [sync[s] EXCEPT !.pc = "admit", !.pool = p, !.endpoint = sync[s].loaded[p],
                                  !.loaded = [sync[s].loaded EXCEPT ![p] = NoEndpoint]]
  <2>2. sync[s] \in SyncRecord /\ sync[s].loaded[p] \in Endpoints
    BY <1>k, <2>1 DEF SyncRecord
  <2>3. [sync[s].loaded EXCEPT ![p] = NoEndpoint] \in [Pools -> Endpoints \union {NoEndpoint}]
    BY <2>2 DEF SyncRecord
  <2>4. x \in SyncRecord /\ Placed(x)
    BY <2>2, <2>3 DEF SyncRecord, Placed
  <2>5. sync' = [sync EXCEPT ![s] = x]
    BY <1>k, <2>1, <2>2 DEF SyncRecord
  <2> HIDE DEF x
  <2>6. sync' \in [Syncs -> SyncRecord] /\ \A t \in Syncs : Placed(sync'[t])
    BY <1>k, <2>4, <2>5 DEF Placed
  <2> QED BY <1>0, <1>6, <1>k, <2>6 DEF LockPool, NoFault
<1>7. ASSUME NEW s \in Syncs, Admit(s) PROVE TypeOK'
  <2>1. ~At(s, "idle") /\ ~At(s, "lock") /\ ReplicaOf[s] \in Replicas
    BY <1>7, ReplicaAssumption DEF Admit, At
  <2>2. Breaker(s) \in BreakerRecord
    BY <1>k, <2>1, PoolEdits DEF Breaker
  <2>3. breaker' \in [Replicas -> [Endpoints -> BreakerRecord]]
    BY <1>7, <1>k, <2>1, <2>2, PoolEdits, BreakerStep, BreakerTypes DEF Admit
  <2>4. sync' \in [Syncs -> SyncRecord] /\ \A t \in Syncs : Placed(sync'[t])
    BY <1>7, <2>1, GotoType, ReturnType DEF Admit
  <2> QED BY <1>0, <1>7, <1>k, <2>3, <2>4 DEF Admit, NoFault
<1>8. ASSUME NEW s \in Syncs, Connect(s) PROVE TypeOK'
  <2>1. ~At(s, "idle") /\ ~At(s, "lock")
    BY <1>8 DEF Connect, At
  <2>2. sync' \in [Syncs -> SyncRecord] /\ \A t \in Syncs : Placed(sync'[t])
    BY <1>8, <2>1, GotoType, GiveUpType DEF Connect, Outcomes, Causes
  <2>3. charges' \subseteq Endpoints \X Causes
    BY <1>8, <1>k, <2>1, ChargeType DEF Connect
  <2> QED BY <1>0, <1>8, <1>k, <2>2, <2>3 DEF Connect
<1>9. ASSUME NEW s \in Syncs, Persist(s) PROVE TypeOK'
  <2>1. ~At(s, "idle") /\ ~At(s, "lock")
    BY <1>9 DEF Persist, At
  <2>2. sync' \in [Syncs -> SyncRecord] /\ \A t \in Syncs : Placed(sync'[t])
    BY <1>9, <2>1, GiveUpType DEF Persist, Outcomes, Causes
  <2>3. pool' \in [Pools -> PoolRecord]
    BY <1>9, <1>k, <2>1, PoolEdits DEF Persist
  <2>4. charges' \subseteq Endpoints \X Causes
    BY <1>9, <1>k, <2>1, ChargeType DEF Persist, Causes
  <2> QED BY <1>0, <1>9, <1>k, <2>2, <2>3, <2>4 DEF Persist
<1>10. ASSUME NEW s \in Syncs, Report(s) PROVE TypeOK'
  <2>1. ~At(s, "idle") /\ ~At(s, "lock") /\ ReplicaOf[s] \in Replicas
    BY <1>10, ReplicaAssumption DEF Report, At
  <2>2. Breaker(s) \in BreakerRecord
    BY <1>k, <2>1, PoolEdits DEF Breaker
  <2>3. [AfterOutcome(Breaker(s), CountsAsFailure(sync[s].outcome)) EXCEPT !.admitted = @ \ {s}]
           \in BreakerRecord
    BY <2>2, BreakerTypes, CountsType
  <2>4. breaker' \in [Replicas -> [Endpoints -> BreakerRecord]]
    BY <1>10, <1>k, <2>1, <2>3, PoolEdits, BreakerStep DEF Report
  <2>5. sync' \in [Syncs -> SyncRecord] /\ \A t \in Syncs : Placed(sync'[t])
    BY <1>10, <2>1, GotoType, ReturnType DEF Report
  <2> QED BY <1>0, <1>10, <1>k, <2>4, <2>5 DEF Report, NoFault
<1>11. ASSUME NEW s \in Syncs, MarkError(s) PROVE TypeOK'
  <2>1. ~At(s, "idle") /\ ~At(s, "lock")
    BY <1>11 DEF MarkError, At
  <2>2. sync' \in [Syncs -> SyncRecord] /\ \A t \in Syncs : Placed(sync'[t])
    BY <1>11, ReturnType DEF MarkError
  <2>3. pool' \in [Pools -> PoolRecord]
    BY <1>11, <1>k, <2>1, PoolEdits DEF MarkError
  <2> QED BY <1>0, <1>11, <1>k, <2>2, <2>3 DEF MarkError
<1>12. ASSUME NEW r \in Replicas, NEW e \in Endpoints, OpenExpires(r, e) PROVE TypeOK'
  BY <1>0, <1>12, <1>k, BreakerStep, BreakerTypes DEF OpenExpires, NoFault
<1>13. ASSUME NEW r \in Replicas, Crash(r) PROVE TypeOK'
  <2>1. breaker' \in [Replicas -> [Endpoints -> BreakerRecord]]
    BY <1>13, <1>k, BreakerTypes DEF Crash
  <2>2. sync' \in [Syncs -> SyncRecord] /\ \A t \in Syncs : Placed(sync'[t])
    BY <1>13, <1>k, IdleType DEF Crash, Placed
  <2> QED BY <1>0, <1>13, <1>k, <2>1, <2>2 DEF Crash
<1>14. CASE UNCHANGED vars
  BY <1>14 DEF TypeOK, vars
<1> QED BY <1>1, <1>2, <1>3, <1>4, <1>5, <1>6, <1>7, <1>8, <1>9, <1>10, <1>11, <1>12, <1>13, <1>14
        DEF Next, SyncStep

\* Rows, syncs and breakers keep their types: no sync retries more often than
\* the configuration says, and none works without a pool and an endpoint.
THEOREM TypeCorrect == Spec => []TypeOK
<1>1. Init => TypeOK
  BY IdleType, BreakerTypes, BoundsAssumption DEF Init, TypeOK, NoRow, PoolRecord, Stored
<1> QED BY <1>1, TypeStep, PTL DEF Spec

(***************************************************************************)
(* What a step does to one row.                                             *)
(***************************************************************************)
Created(p)  == pool[p].status = "none" /\ pool'[p].status = "disconnected" /\ pool'[p].inventory = NoEndpoint
Updated(p)  == /\ p \in StoredPools /\ pool'[p].status = pool[p].status
               /\ pool'[p].inventory = pool[p].inventory
Deleted(p)  == p \in StoredPools /\ pool'[p].status = "deleted"
Refreshed(p) == p \in StoredPools /\ pool'[p].status = "connected" /\ pool'[p].inventory \in Endpoints
Blamed(p)   == p \in StoredPools /\ pool'[p].status = "error" /\ pool'[p].inventory = pool[p].inventory

RowStep(p) ==
    pool'[p] = pool[p] \/ Created(p) \/ Updated(p) \/ Deleted(p) \/ Refreshed(p) \/ Blamed(p)

LEMMA RowSteps == TypeOK /\ [Next]_vars => \A p \in Pools : RowStep(p)
<1> SUFFICES ASSUME TypeOK, [Next]_vars PROVE \A p \in Pools : RowStep(p)
  OBVIOUS
<1> USE DEF RowStep
<1>k. /\ pool \in [Pools -> PoolRecord] /\ \A p \in Pools : pool[p] \in PoolRecord
      /\ StoredPools \subseteq Pools
  BY DEF TypeOK, StoredPools
<1>1. ASSUME NEW s \in FirstSyncs, NEW p \in Pools, NEW e \in Endpoints, CreateResourcePool(s, p, e)
      PROVE  \A q \in Pools : RowStep(q)
  BY <1>1, <1>k DEF CreateResourcePool, Created
<1>2. ASSUME NEW p \in Pools, NEW e \in Endpoints, UpdateResourcePool(p, e)
      PROVE  \A q \in Pools : RowStep(q)
  BY <1>2, <1>k DEF UpdateResourcePool, Updated, PoolRecord
<1>3. ASSUME NEW p \in Pools, DeleteResourcePool(p) PROVE \A q \in Pools : RowStep(q)
  BY <1>3, <1>k DEF DeleteResourcePool, Deleted, NoRow
<1>4. ASSUME NEW s \in Syncs, Persist(s) PROVE \A q \in Pools : RowStep(q)
  <2>1. sync[s].pool \in Pools /\ sync[s].endpoint \in Endpoints
    BY <1>4, PoolEdits DEF Persist, At
  <2>2. \/ UNCHANGED pool
        \/ sync[s].pool \in StoredPools /\ pool' = [pool EXCEPT ![sync[s].pool] = Synced(s)]
    BY <1>4 DEF Persist
  <2> DEFINE q == sync[s].pool
  <2>3. CASE q \in StoredPools /\ pool' = [pool EXCEPT ![q] = Synced(s)]
    <3>1. pool'[q] = Synced(s) /\ \A p \in Pools \ {q} : pool'[p] = pool[p]
      BY <2>3, <1>k
    <3>2. Synced(s).status = "connected" /\ Synced(s).inventory = sync[s].endpoint
      BY <2>1, <1>k DEF Synced, PoolRecord
    <3>3. Refreshed(q)
      BY <2>1, <2>3, <3>1, <3>2 DEF Refreshed
    <3> QED BY <3>1, <3>3
  <2> QED BY <2>2, <2>3
<1>5. ASSUME NEW s \in Syncs, MarkError(s) PROVE \A q \in Pools : RowStep(q)
  <2>1. \/ UNCHANGED pool
        \/ /\ sync[s].pool \in StoredPools
           /\ pool' = [pool EXCEPT ![sync[s].pool].status = ErrorStatus]
    BY <1>5 DEF MarkError
  <2> DEFINE q == sync[s].pool
  <2>2. CASE q \in StoredPools /\ pool' = [pool EXCEPT ![q].status = ErrorStatus]
    <3>1. pool'[q] = [pool[q] EXCEPT !.status = "error"] /\ \A p \in Pools \ {q} : pool'[p] = pool[p]
      BY <2>2, <1>k DEF ErrorStatus
    <3>2. Blamed(q)
      BY <2>2, <3>1, <1>k DEF Blamed, PoolRecord
    <3> QED BY <3>1, <3>2
  <2> QED BY <2>1, <2>2
<1>6. CASE UNCHANGED pool
  BY <1>6
<1> QED BY <1>1, <1>2, <1>3, <1>4, <1>5, <1>6
        DEF Next, SyncStep, SyncResourcePool, SyncAllPools, LockPool, Admit, Connect, Report,
            OpenExpires, Crash, vars

\* The document's core invariants of the status, for any number of replicas.
THEOREM StatusIsTruthful == Spec => []StatusTellsSync
<1>1. Init => StatusTellsSync
  BY DEF Init, StatusTellsSync, StoredPools, NoRow, Stored
<1>2. TypeOK /\ StatusTellsSync /\ [Next]_vars => StatusTellsSync'
  <2> SUFFICES ASSUME TypeOK, StatusTellsSync, [Next]_vars, NEW p \in Pools, pool'[p].status \in Stored
               PROVE  /\ pool'[p].status = "connected" => pool'[p].inventory # NoEndpoint
                      /\ pool'[p].status = "disconnected" => pool'[p].inventory = NoEndpoint
    BY DEF StatusTellsSync, StoredPools
  <2> QED BY RowSteps, NullsAssumption
          DEF RowStep, Created, Updated, Deleted, Refreshed, Blamed, StatusTellsSync, StoredPools, Stored
<1> QED BY <1>1, <1>2, TypeCorrect, PTL DEF Spec

\* An id that was not used yet has no inventory.
Emptied == \A p \in Pools : pool[p].status = "none" => pool[p].inventory = NoEndpoint

LEMMA EmptiedAlways == Spec => []Emptied
<1>1. Init => Emptied
  BY DEF Init, Emptied, NoRow
<1>2. TypeOK /\ Emptied /\ [Next]_vars => Emptied'
  BY RowSteps DEF RowStep, Created, Updated, Deleted, Refreshed, Blamed, StoredPools, Stored, Emptied
<1> QED BY <1>1, <1>2, TypeCorrect, PTL DEF Spec

\* A deleted pool stays deleted and a pool keeps the inventory of its last
\* successful sync, whichever syncs were under way.
THEOREM DeletionAndInventoryAreKept == Spec => DeletionAndInventoryStay
<1> DEFINE Stays ==
       \A p \in Pools :
          /\ pool[p].status = "deleted" => pool'[p].status = "deleted"
          /\ (pool[p].inventory # NoEndpoint /\ pool'[p].status \in Stored)
                 => pool'[p].inventory # NoEndpoint
<1>1. TypeOK /\ StatusTellsSync /\ Emptied /\ [Next]_vars => Stays
  <2> SUFFICES ASSUME TypeOK, Emptied, [Next]_vars, NEW p \in Pools
               PROVE  /\ pool[p].status = "deleted" => pool'[p].status = "deleted"
                      /\ (pool[p].inventory # NoEndpoint /\ pool'[p].status \in Stored)
                             => pool'[p].inventory # NoEndpoint
    OBVIOUS
  <2> QED BY RowSteps, NullsAssumption
          DEF RowStep, Created, Updated, Deleted, Refreshed, Blamed, StoredPools, Stored, Emptied
<1> QED BY <1>1, EmptiedAlways, StatusIsTruthful, TypeCorrect, PTL DEF Spec, DeletionAndInventoryStay

(***************************************************************************)
(* Blame                                                                    *)
(***************************************************************************)
BlameIsEarned ==
    \A s \in Syncs :
        (At(s, "report") /\ sync[s].outcome \in Causes)
            => <<sync[s].endpoint, sync[s].outcome>> \in charges

Charged(e) == \E cause \in Causes : <<e, cause>> \in charges

\* For any threshold: a breaker opens only after a sync of its own endpoint
\* failed there, could not read its credentials, panicked or was cut short;
\* errors of writes and what happens at other endpoints do not open it.
THEOREM BreakersOpenForCause == Spec => []OpensForItsEndpoint
<1>1. Init => BlameIsEarned /\ OpensForItsEndpoint
  BY BreakerTypes, IdleType DEF Init, BlameIsEarned, OpensForItsEndpoint, At
<1>2. TypeOK /\ BlameIsEarned /\ [Next]_vars => BlameIsEarned'
  <2> SUFFICES ASSUME TypeOK, BlameIsEarned, [Next]_vars, NEW t \in Syncs,
                      sync'[t].pc = "report", sync'[t].outcome \in Causes
               PROVE  <<sync'[t].endpoint, sync'[t].outcome>> \in charges'
    BY DEF BlameIsEarned, At
  <2>1. charges \subseteq charges'
    BY DEF Next, SyncStep, CreateResourcePool, UpdateResourcePool, DeleteResourcePool, SyncResourcePool,
           SyncAllPools, LockPool, Admit, Connect, Persist, Charge, Report, MarkError, OpenExpires, Crash, vars
  <2>2. CASE sync'[t] = sync[t]
    BY <2>1, <2>2 DEF BlameIsEarned, At
  <2>3. CASE sync'[t] # sync[t]
    <3>1. ASSUME NEW s \in Syncs, Connect(s) PROVE <<sync'[t].endpoint, sync'[t].outcome>> \in charges'
      <4>1. s = t /\ sync'[t].endpoint = sync[t].endpoint
        BY <2>3, <3>1 DEF Connect, RetryOr, TryAgain, GiveUp, TypeOK, SyncRecord
      <4>2. ~(sync' = [sync EXCEPT ![s].pc = "persist"])
        BY <4>1 DEF TypeOK, SyncRecord
      <4>3. PICK cause \in Causes : (RetryOr(s, cause) \/ GiveUp(s, cause)) /\ Charge(s, cause)
        BY <3>1, <4>2 DEF Connect
      <4>4. sync'[t].outcome = cause
        BY <4>1, <4>3 DEF RetryOr, TryAgain, GiveUp, TypeOK, SyncRecord
      <4> QED BY <4>1, <4>3, <4>4 DEF Charge
    <3>2. ASSUME NEW s \in Syncs, Persist(s) PROVE <<sync'[t].endpoint, sync'[t].outcome>> \in charges'
      <4>1. s = t /\ sync'[t].endpoint = sync[t].endpoint
        BY <2>3, <3>2 DEF Persist, RetryOr, TryAgain, GiveUp, TypeOK, SyncRecord
      <4>2. ~GiveUp(s, "ok") /\ ~GiveUp(s, "persist") /\ ~RetryOr(s, "persist")
        BY <4>1 DEF GiveUp, RetryOr, TryAgain, TypeOK, SyncRecord, Causes
      <4>3. GiveUp(s, "local") /\ Charge(s, "local")
        BY <3>2, <4>2 DEF Persist
      <4>4. sync'[t].outcome = "local"
        BY <4>1, <4>3 DEF GiveUp, TypeOK, SyncRecord
      <4> QED BY <4>1, <4>3, <4>4 DEF Charge
    <3>3. ASSUME NEW s \in Syncs, NEW loaded, Load(s, loaded) PROVE FALSE
      BY <2>3, <3>3 DEF Load, TypeOK, Idle
    <3>4. ASSUME NEW s \in Syncs, Return(s) PROVE FALSE
      BY <2>3, <3>4 DEF Return, TypeOK, Idle
    <3>5. ASSUME NEW s \in Syncs, LockPool(s) \/ Admit(s) \/ Report(s) \/ MarkError(s) PROVE FALSE
      <4>1. ASSUME LockPool(s) PROVE FALSE
        <5>1. PICK p \in Pools :
                 sync' = [sync EXCEPT ![s].pc = "admit", ![s].pool = p,
                                      ![s].endpoint = sync[s].loaded[p], ![s].loaded[p] = NoEndpoint]
          BY <4>1 DEF LockPool
        <5>2. sync[s] \in SyncRecord
          BY DEF TypeOK
        <5>3. t = s /\ sync'[s].pc = "admit"
          BY <2>3, <5>1, <5>2 DEF TypeOK, SyncRecord
        <5> QED BY <5>3
      <4>2. ASSUME NEW pc \in {"connect", "mark_error"}, sync' = [sync EXCEPT ![s].pc = pc] PROVE FALSE
        BY <2>3, <4>2 DEF TypeOK, SyncRecord
      <4> QED BY <3>4, <3>5, <4>1, <4>2 DEF Admit, Report, MarkError
    <3>6. ASSUME NEW r \in Replicas, Crash(r) PROVE FALSE
      BY <2>3, <3>6, IdleType DEF Crash
    <3> QED
      BY <2>3, <3>1, <3>2, <3>3, <3>5, <3>6
      DEF Next, SyncStep, CreateResourcePool, UpdateResourcePool, DeleteResourcePool, SyncResourcePool,
          SyncAllPools, LoadOne, OpenExpires, vars, Syncs
  <2> QED BY <2>2, <2>3
<1>3. TypeOK /\ BlameIsEarned /\ OpensForItsEndpoint /\ [Next]_vars => OpensForItsEndpoint'
  <2> SUFFICES ASSUME TypeOK, BlameIsEarned, OpensForItsEndpoint, [Next]_vars
               PROVE  OpensForItsEndpoint'
    OBVIOUS
  <2>1. charges \subseteq charges'
    BY DEF Next, SyncStep, CreateResourcePool, UpdateResourcePool, DeleteResourcePool, SyncResourcePool,
           SyncAllPools, LockPool, Admit, Connect, Persist, Charge, Report, MarkError, OpenExpires, Crash, vars
  <2>2. ASSUME NEW r \in Replicas, NEW e \in Endpoints, NEW new, SetBreaker(r, e, new),
               new.state # "closed" => Charged(e)
        PROVE  OpensForItsEndpoint'
    BY <2>1, <2>2 DEF SetBreaker, OpensForItsEndpoint, Charged, TypeOK
  <2>3. ASSUME UNCHANGED breaker PROVE OpensForItsEndpoint'
    BY <2>1, <2>3 DEF OpensForItsEndpoint
  <2>4. ASSUME NEW s \in Syncs, Admit(s) \/ Report(s)
        PROVE  /\ ReplicaOf[s] \in Replicas /\ sync[s].endpoint \in Endpoints
               /\ Breaker(s) \in BreakerRecord
               /\ Breaker(s).state # "closed" => Charged(sync[s].endpoint)
    <3>1. ReplicaOf[s] \in Replicas /\ sync[s].endpoint \in Endpoints
      BY <2>4, ReplicaAssumption, PoolEdits DEF Admit, Report, At
    <3> QED BY <3>1 DEF OpensForItsEndpoint, Charged, TypeOK, Breaker
  <2>5. ASSUME NEW s \in Syncs, Admit(s) PROVE OpensForItsEndpoint'
    <3>1. [Breaker(s) EXCEPT !.admitted = @ \union {s}].state = Breaker(s).state
      BY <2>4, <2>5 DEF BreakerRecord
    <3> QED BY <2>2, <2>3, <2>4, <2>5, <3>1 DEF Admit
  <2>6. ASSUME NEW s \in Syncs, Report(s) PROVE OpensForItsEndpoint'
    <3> DEFINE failed == CountsAsFailure(sync[s].outcome)
               new == [AfterOutcome(Breaker(s), failed) EXCEPT !.admitted = @ \ {s}]
    <3>1. failed => Charged(sync[s].endpoint)
      BY <2>6 DEF Report, CountsAsFailure, BlameIsEarned, Charged, At
    <3>2. failed \in BOOLEAN /\ AfterOutcome(Breaker(s), failed) \in BreakerRecord
      BY <2>4, <2>6, BreakerTypes, CountsType
    <3>3. new.state = AfterOutcome(Breaker(s), failed).state
      BY <3>2 DEF BreakerRecord
    <3>4. AfterOutcome(Breaker(s), failed).state # "closed" => failed \/ Breaker(s).state # "closed"
      BY <2>4, <2>6, BreakerTypes DEF AfterOutcome, BreakerRecord
    <3>5. SetBreaker(ReplicaOf[s], sync[s].endpoint, new) \/ UNCHANGED breaker
      BY <2>6 DEF Report
    <3> HIDE DEF new, failed
    <3> QED BY <2>2, <2>3, <2>4, <2>6, <3>1, <3>3, <3>4, <3>5
  <2>7. ASSUME NEW r \in Replicas, NEW e \in Endpoints, OpenExpires(r, e) PROVE OpensForItsEndpoint'
    BY <2>2, <2>7, BreakerTypes DEF OpenExpires, OpensForItsEndpoint, Charged
  <2>8. ASSUME NEW r \in Replicas, Crash(r) PROVE OpensForItsEndpoint'
    BY <2>1, <2>8, BreakerTypes DEF Crash, OpensForItsEndpoint, TypeOK
  <2> QED BY <2>3, <2>5, <2>6, <2>7, <2>8
      DEF Next, SyncStep, CreateResourcePool, UpdateResourcePool, DeleteResourcePool, SyncResourcePool,
          SyncAllPools, LockPool, Connect, Persist, MarkError, vars
<1> QED BY <1>1, <1>2, <1>3, TypeCorrect, PTL DEF Spec
=============================================================================
