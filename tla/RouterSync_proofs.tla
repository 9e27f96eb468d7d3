------------------------- MODULE RouterSync_proofs -------------------------
(* Theorems about RouterSync, for every value of its constants. *)
EXTENDS RouterSync, TLAPS

LEMMA FaultType ==
    ASSUME faults \in 0..MaxFaults, NoFault \/ Fault
    PROVE  faults' \in 0..MaxFaults
BY MaxFaultsAssumption DEF NoFault, Fault

LEMMA SettingsType ==
    ASSUME NEW table \in [Routes -> [gateway : Gateways \union {NoGateway}, content : Contents]],
           NEW g \in Gateways
    PROVE  SettingsIn(table, g) \in Settings
BY DEF SettingsIn, Settings

(***************************************************************************)
(* A pass that runs has a replica, one about to push or record a gateway,   *)
(* and the pass of a replica's own cycle runs on that replica.              *)
(***************************************************************************)
Sound(x) ==
    /\ x \in PassRecord
    /\ x.pc # "idle" => x.on \in Replicas
    /\ x.pc \in {"push", "record"} => x.gateway \in Gateways

OwnCycle == \A r \in Replicas : At(r, "idle") \/ pass[r].on = r

LEMMA IdleSound == Sound(Idle) /\ Idle.pc = "idle"
BY DEF Sound, Idle, PassRecord, Settings

LEMMA StartSound ==
    ASSUME NEW r \in Replicas, NEW target \in Gateways \union {All}
    PROVE  Sound([Idle EXCEPT !.pc = "load", !.on = r, !.target = target])
BY DEF Sound, Idle, PassRecord, Settings

LEMMA PassesSound ==
    ASSUME pass \in [Passes -> PassRecord]
    PROVE  (\A p \in Passes : Sound(pass[p]))
             <=> /\ \A p \in Passes : pass[p].pc # "idle" => pass[p].on \in Replicas
                 /\ \A p \in Passes : pass[p].pc \in {"push", "record"} => pass[p].gateway \in Gateways
BY DEF Sound

(***************************************************************************)
(* Each step of a pass keeps it sound and on its replica, and leaves the    *)
(* other passes alone.                                                      *)
(***************************************************************************)
StaysSound(p) ==
    \E x : /\ Sound(x) /\ pass' = [pass EXCEPT ![p] = x]
           /\ x.pc = "idle" \/ x.on = pass[p].on

LEMMA PassStepSound ==
    ASSUME TypeOK, NEW p \in Passes, PassStep(p)
    PROVE  StaysSound(p) /\ ~At(p, "idle")
<1> USE DEF Sound
<1>0. Sound(pass[p])
  BY DEF TypeOK
<1>1. ASSUME End(p) PROVE StaysSound(p)
  BY <1>1, IdleSound DEF End, StaysSound
<1>2. CASE LoadBuckets(p)
  <2> DEFINE wanted == IF pass[p].target = All THEN Gateways ELSE {pass[p].target}
             todo   == {g \in wanted : SettingsOf(g) # {}}
             loaded == [g \in Gateways |-> SettingsOf(g)]
             x      == [pass[p] EXCEPT !.pc = "next", !.todo = todo, !.loaded = loaded]
  <2>1. ~At(p, "idle")
    BY <1>2 DEF LoadBuckets, At
  <2>2. End(p) \/ pass' = [pass EXCEPT ![p] = x]
    BY <1>2 DEF LoadBuckets, TypeOK
  <2>3. todo \subseteq Gateways
    BY <1>0 DEF PassRecord
  <2>4. loaded \in [Gateways -> Settings]
    BY SettingsType DEF TypeOK, SettingsOf
  <2>5. Sound(x) /\ x.on = pass[p].on
    <3> HIDE DEF todo, loaded
    <3> QED BY <1>0, <1>2, <2>3, <2>4 DEF PassRecord, LoadBuckets, At
  <2> HIDE DEF x
  <2> QED BY <1>1, <2>1, <2>2, <2>5 DEF StaysSound
<1>3. ASSUME NEW g \in Gateways, Compare(p, g) PROVE StaysSound(p) /\ ~At(p, "idle")
  <2> DEFINE x == [pass[p] EXCEPT !.todo = pass[p].todo \ {g}]
             y == [pass[p] EXCEPT !.todo = pass[p].todo \ {g}, !.pc = "push", !.gateway = g]
  <2>1. Sound(x) /\ x.on = pass[p].on /\ Sound(y) /\ y.on = pass[p].on
    BY <1>0, <1>3 DEF PassRecord, Compare, At
  <2>2. pass' = [pass EXCEPT ![p] = x] \/ pass' = [pass EXCEPT ![p] = y]
    BY <1>3 DEF Compare, TypeOK
  <2> HIDE DEF x, y
  <2> QED BY <1>3, <2>1, <2>2 DEF StaysSound, Compare, At
<1>4. CASE Push(p)
  <2> DEFINE x == [pass[p] EXCEPT !.pc = "record"]
             y == [pass[p] EXCEPT !.pc = "next", !.gateway = NoGateway]
  <2>1. Sound(x) /\ x.on = pass[p].on /\ Sound(y) /\ y.on = pass[p].on
    BY <1>0, <1>4 DEF PassRecord, Push, At
  <2>2. pass' = [pass EXCEPT ![p] = x] \/ pass' = [pass EXCEPT ![p] = y]
    BY <1>4 DEF Push, TypeOK
  <2> HIDE DEF x, y
  <2> QED BY <1>4, <2>1, <2>2 DEF StaysSound, Push, At
<1>5. CASE RecordBaseline(p)
  <2> DEFINE y == [pass[p] EXCEPT !.pc = "next", !.gateway = NoGateway]
  <2>1. Sound(y) /\ y.on = pass[p].on
    BY <1>0, <1>5 DEF PassRecord, RecordBaseline, At
  <2>2. pass' = [pass EXCEPT ![p] = y]
    BY <1>5 DEF RecordBaseline, TypeOK
  <2> HIDE DEF y
  <2> QED BY <1>5, <2>1, <2>2 DEF StaysSound, RecordBaseline, At
<1>6. CASE Finish(p)
  BY <1>1, <1>6 DEF Finish, At
<1> QED BY <1>2, <1>3, <1>4, <1>5, <1>6 DEF PassStep

LEMMA StaysSoundType ==
    ASSUME TypeOK, NEW p \in Passes, StaysSound(p)
    PROVE  pass' \in [Passes -> PassRecord] /\ \A q \in Passes : Sound(pass'[q])
<1>1. PICK x : Sound(x) /\ pass' = [pass EXCEPT ![p] = x]
  BY DEF StaysSound
<1>2. \A q \in Passes : Sound(pass[q])
  BY DEF TypeOK, Sound
<1> QED BY <1>1, <1>2 DEF TypeOK, Sound

LEMMA LeaseTypes ==
    ASSUME LeaseTypeOK, NEW r \in Replicas, NEW yes \in BOOLEAN,
           IsLeader(r, yes) \/ SessionEnds(r) \/ Release(r)
    PROVE  lock' \in Replicas \union {NoReplica} /\ conn' \in [Replicas -> {"nil", "live", "dead"}]
BY DEF LeaseTypeOK, IsLeader, SessionEnds, Release, lease

LEMMA InitType == Init => TypeOK
<1> SUFFICES ASSUME Init PROVE TypeOK
  OBVIOUS
<1>1. Idle \in PassRecord /\ Idle.pc = "idle"
  BY IdleSound DEF Sound
<1>2. pass \in [Passes -> PassRecord] /\ \A p \in Passes : pass[p].pc = "idle"
  BY <1>1 DEF Init
<1>3. 0 \in 0..MaxEdits /\ 0 \in 0..MaxFaults
  BY MaxEditsAssumption, MaxFaultsAssumption
<1>4. {} \in Settings /\ {{}} \in SUBSET Settings
  BY DEF Settings
<1>5. LeaseTypeOK
  BY <1>3 DEF Init, LeaseInit, LeaseTypeOK
<1>6. route \in [Routes -> [gateway : Gateways \union {NoGateway}, content : Contents]]
  BY DEF Init
<1> QED BY <1>2, <1>3, <1>4, <1>5, <1>6 DEF Init, TypeOK

LEMMA SaveRouteType ==
    ASSUME TypeOK, NEW rt \in Routes, NEW target \in Gateways \union {All},
           NEW value \in [gateway : Gateways \union {NoGateway}, content : Contents],
           SaveRoute(rt, value, target)
    PROVE  TypeOK'
<1>1. route' \in [Routes -> [gateway : Gateways \union {NoGateway}, content : Contents]]
  BY DEF TypeOK, SaveRoute
<1>2. past' \in [Gateways -> SUBSET Settings]
  BY <1>1, SettingsType DEF TypeOK, SaveRoute
<1>3. pass' \in [Passes -> PassRecord] /\ \A p \in Passes : Sound(pass'[p])
  <2>1. CASE pass' = pass
    BY <2>1 DEF TypeOK, Sound
  <2>2. ASSUME NEW h \in Hooks, NEW r \in Replicas,
               pass' = [pass EXCEPT ![h] = [Idle EXCEPT !.pc = "load", !.on = r, !.target = target]]
        PROVE  pass' \in [Passes -> PassRecord] /\ \A p \in Passes : Sound(pass'[p])
    BY <2>2, StartSound DEF TypeOK, Sound
  <2> QED BY <2>1, <2>2 DEF SaveRoute
<1>4. edits' \in 0..MaxEdits
  <2>1. edits \in 0..MaxEdits /\ edits < MaxEdits /\ edits' = edits + 1
    BY DEF TypeOK, SaveRoute
  <2> QED BY <2>1, MaxEditsAssumption
<1>5. faults' \in 0..MaxFaults
  <2>1. NoFault \/ Fault
    BY DEF SaveRoute
  <2> QED BY <2>1, FaultType DEF TypeOK, LeaseTypeOK
<1>6. repeated' \subseteq Gateways
  BY DEF TypeOK, SaveRoute
<1> QED BY <1>1, <1>2, <1>3, <1>4, <1>5, <1>6 DEF TypeOK, SaveRoute, Sound, LeaseTypeOK, lease

LEMMA PassStepType ==
    ASSUME TypeOK, NEW p \in Passes, PassStep(p)
    PROVE  TypeOK'
<1>1. pass' \in [Passes -> PassRecord] /\ \A q \in Passes : Sound(pass'[q])
  BY PassStepSound, StaysSoundType
<1>2. pass[p] \in PassRecord /\ ~At(p, "idle") /\ pass[p].on \in Replicas
  BY PassStepSound DEF TypeOK, At
<1>3. CASE LoadBuckets(p)
  <2>1. faults' \in 0..MaxFaults
    BY <1>3, FaultType DEF TypeOK, LeaseTypeOK, LoadBuckets
  <2>2. crossed' \subseteq Gateways
    <3>1. \A q \in Passes : Busy(q) \subseteq Gateways
      BY DEF TypeOK, Busy, PassRecord
    <3>2. UNION {Busy(q) : q \in Passes \ {p}} \subseteq Gateways
      BY <3>1
    <3> QED BY <1>3, <3>2 DEF LoadBuckets, TypeOK
  <2> QED BY <1>1, <1>3, <2>1, <2>2 DEF TypeOK, Sound, LoadBuckets, LeaseTypeOK, lease
<1>4. ASSUME NEW g \in Gateways, Compare(p, g) PROVE TypeOK'
  BY <1>1, <1>4 DEF TypeOK, Sound, Compare, LeaseTypeOK, lease, history
<1>5. CASE Push(p)
  <2>1. faults' \in 0..MaxFaults
    BY <1>5, FaultType DEF TypeOK, LeaseTypeOK, Push
  <2>2. pass[p].gateway \in Gateways /\ pass[p].loaded \in [Gateways -> Settings]
    BY <1>2, <1>5 DEF TypeOK, Push, At, PassRecord
  <2>3. Pushed(p) \in [Gateways -> Settings]
    BY <2>2 DEF Pushed, TypeOK
  <2>4. served' \in [Gateways -> Settings]
    BY <1>5, <2>3 DEF Push, TypeOK
  <2>5. skipped' \subseteq Gateways
    BY <1>5, <2>2 DEF Push, TypeOK
  <2> QED BY <1>1, <1>5, <2>1, <2>4, <2>5 DEF TypeOK, Sound, Push, LeaseTypeOK, lease
<1>6. CASE RecordBaseline(p)
  <2>1. pass[p].gateway \in Gateways /\ pass[p].loaded[pass[p].gateway] \in Settings
    BY <1>2, <1>6 DEF TypeOK, RecordBaseline, At, PassRecord
  <2>2. baseline' \in [Replicas -> [Gateways -> Settings]]
    BY <1>2, <1>6, <2>1 DEF RecordBaseline, TypeOK
  <2> QED BY <1>1, <1>6, <2>2 DEF TypeOK, Sound, RecordBaseline, LeaseTypeOK, lease, history
<1>7. CASE Finish(p)
  <2>1. baseline' \in [Replicas -> [Gateways -> Settings]]
    <3>1. {} \in Settings
      BY DEF Settings
    <3> QED BY <1>2, <1>7, <3>1 DEF Finish, TypeOK
  <2>2. unleased' \subseteq Replicas
    BY <1>7 DEF Finish, TypeOK
  <2> QED BY <1>1, <1>7, <2>1, <2>2 DEF TypeOK, Sound, Finish, LeaseTypeOK, lease, history
<1> QED BY <1>3, <1>4, <1>5, <1>6, <1>7 DEF PassStep

LEMMA ReplicaStepType ==
    ASSUME TypeOK, NEW r \in Replicas, RunCycle(r) \/ LoseSession(r) \/ Restart(r)
    PROVE  TypeOK'
<1>0. r \in Passes /\ \A p \in Passes : Sound(pass[p])
  BY DEF TypeOK, Sound, Passes
<1>1. CASE RunCycle(r)
  <2>1. PICK yes \in BOOLEAN :
           /\ IsLeader(r, yes)
           /\ pass' = IF yes THEN [pass EXCEPT ![r] = [Idle EXCEPT !.pc = "load", !.on = r]] ELSE pass
    BY <1>1 DEF RunCycle
  <2>2. lock' \in Replicas \union {NoReplica} /\ conn' \in [Replicas -> {"nil", "live", "dead"}]
    BY <2>1, LeaseTypes DEF TypeOK
  <2>3. faults' \in 0..MaxFaults
    BY <2>1, FaultType DEF IsLeader, TypeOK, LeaseTypeOK
  <2>4. Sound([Idle EXCEPT !.pc = "load", !.on = r])
    BY DEF Sound, Idle, PassRecord, Settings
  <2>5. pass' \in [Passes -> PassRecord] /\ \A p \in Passes : Sound(pass'[p])
    BY <1>0, <2>1, <2>4 DEF TypeOK, Sound
  <2> QED BY <1>1, <2>2, <2>3, <2>5 DEF TypeOK, Sound, RunCycle, LeaseTypeOK, history
<1>2. CASE LoseSession(r)
  <2>1. lock' \in Replicas \union {NoReplica} /\ conn' \in [Replicas -> {"nil", "live", "dead"}]
    BY <1>2, LeaseTypes DEF TypeOK, LoseSession
  <2>2. faults' \in 0..MaxFaults
    BY <1>2, FaultType DEF LoseSession, SessionEnds, TypeOK, LeaseTypeOK
  <2> QED BY <1>2, <2>1, <2>2 DEF TypeOK, LoseSession, LeaseTypeOK, history
<1>3. CASE Restart(r)
  <2>1. lock' \in Replicas \union {NoReplica} /\ conn' \in [Replicas -> {"nil", "live", "dead"}]
    BY <1>3, LeaseTypes DEF TypeOK, Restart
  <2>2. faults' \in 0..MaxFaults
    BY <1>3, FaultType DEF Restart, TypeOK, LeaseTypeOK
  <2>3. pass' \in [Passes -> PassRecord] /\ \A p \in Passes : Sound(pass'[p])
    BY <1>0, <1>3, IdleSound DEF Restart, TypeOK, Sound
  <2>4. baseline' \in [Replicas -> [Gateways -> Settings]]
    BY <1>3 DEF Restart, TypeOK, Settings
  <2>5. unleased' \subseteq Replicas
    BY <1>3 DEF Restart, TypeOK
  <2> QED BY <1>3, <2>1, <2>2, <2>3, <2>4, <2>5 DEF TypeOK, Sound, Restart, LeaseTypeOK, history
<1> QED BY <1>1, <1>2, <1>3

LEMMA RouteValues ==
    ASSUME TypeOK, NEW rt \in Routes, NEW g \in Gateways, NEW content \in Contents
    PROVE  /\ [gateway |-> g, content |-> content]
                 \in [gateway : Gateways \union {NoGateway}, content : Contents]
           /\ [route[rt] EXCEPT !.gateway = NoGateway]
                 \in [gateway : Gateways \union {NoGateway}, content : Contents]
BY DEF TypeOK

LEMMA NextType == TypeOK /\ [Next]_vars => TypeOK'
<1> SUFFICES ASSUME TypeOK, [Next]_vars PROVE TypeOK'
  OBVIOUS
<1>1. ASSUME NEW rt \in Routes, NEW g \in Gateways, NEW content \in Contents,
             CreateModelRoute(rt, g, content) \/ UpdateModelRoute(rt, g, content)
      PROVE  TypeOK'
  BY <1>1, RouteValues, SaveRouteType DEF CreateModelRoute, UpdateModelRoute
<1>2. ASSUME NEW rt \in Routes, DeleteModelRoute(rt) PROVE TypeOK'
  <2>1. /\ [route[rt] EXCEPT !.gateway = NoGateway]
               \in [gateway : Gateways \union {NoGateway}, content : Contents]
        /\ route[rt].gateway \in Gateways
    BY <1>2 DEF TypeOK, DeleteModelRoute
  <2> QED BY <1>2, <2>1, SaveRouteType DEF DeleteModelRoute
<1>3. ASSUME NEW g \in Gateways, LoseMasterKey(g) \/ RestoreMasterKey(g) PROVE TypeOK'
  <2>1. faults' \in 0..MaxFaults
    BY <1>3, FaultType DEF LoseMasterKey, RestoreMasterKey, TypeOK, LeaseTypeOK, Fault, NoFault
  <2> QED BY <1>3, <2>1 DEF LoseMasterKey, RestoreMasterKey, TypeOK, LeaseTypeOK, lease, history
<1>4. CASE UNCHANGED vars
  BY <1>4 DEF vars, TypeOK, LeaseTypeOK, lease
<1> QED BY <1>1, <1>2, <1>3, <1>4, PassStepType, ReplicaStepType DEF Next

\* Routes, gateways, baselines, passes and leases keep their types.
THEOREM TypeCorrect == Spec => []TypeOK
<1>1. Init => TypeOK
  BY InitType
<1>2. TypeOK /\ [Next]_vars => TypeOK'
  BY NextType
<1> QED BY <1>1, <1>2, PTL DEF Spec

(***************************************************************************)
(* The lease: a live connection is the session that holds the lock.  With   *)
(* the pass of a cycle on its own replica this makes CyclesHoldLease        *)
(* inductive.                                                               *)
(***************************************************************************)
LockIsConnection == \A r \in Replicas : conn[r] = "live" <=> lock = r

LeaseInv == TypeOK /\ LockIsConnection /\ OwnCycle /\ CyclesHoldLease

LEMMA LockStep ==
    ASSUME TypeOK, LockIsConnection, NEW r \in Replicas, NEW yes \in BOOLEAN,
           IsLeader(r, yes) \/ SessionEnds(r) \/ Release(r)
    PROVE  /\ LockIsConnection'
           /\ \A s \in Replicas \ {r} : lock = s => lock' = s
           /\ IsLeader(r, TRUE) => lock' = r
           /\ (IsLeader(r, yes) /\ lock = r) => lock' = r
<1> USE NoReplicaAssumption DEF TypeOK, LeaseTypeOK, LockIsConnection
<1>1. CASE IsLeader(r, yes)
  BY <1>1 DEF IsLeader, lease
<1>2. CASE SessionEnds(r)
  BY <1>2 DEF SessionEnds, IsLeader, lease
<1>3. CASE Release(r)
  BY <1>3 DEF Release, IsLeader, lease
<1> QED BY <1>1, <1>2, <1>3

\* A step of a pass leaves idle cycles idle and busy ones on their replica.
LEMMA PassStepLease ==
    ASSUME LeaseInv, NEW p \in Passes, PassStep(p)
    PROVE  OwnCycle' /\ CyclesHoldLease' /\ LockIsConnection'
<1> USE DEF LeaseInv, At
<1>1. PICK x : /\ Sound(x) /\ pass' = [pass EXCEPT ![p] = x]
               /\ x.pc = "idle" \/ x.on = pass[p].on
  BY PassStepSound DEF StaysSound
<1>2. pass[p].pc # "idle" /\ pass \in [Passes -> PassRecord]
  BY PassStepSound DEF TypeOK
<1>3. /\ UNCHANGED lease
      /\ \A r \in Replicas : r \in unleased /\ r \notin unleased' => r = p /\ pass'[r].pc = "idle"
  <2>1. CASE Finish(p)
    BY <1>2, <2>1, IdleSound DEF Finish, End, TypeOK, Passes
  <2>2. CASE ~Finish(p)
    BY <2>2 DEF PassStep, LoadBuckets, Compare, Push, RecordBaseline, history
  <2> QED BY <2>1, <2>2
<1>4. \A r \in Replicas : r \in Passes
  BY DEF Passes
<1> QED BY <1>1, <1>2, <1>3, <1>4 DEF OwnCycle, CyclesHoldLease, LockIsConnection, lease

LEMMA ReplicaStepLease ==
    ASSUME LeaseInv, NEW r \in Replicas, RunCycle(r) \/ LoseSession(r) \/ Restart(r)
    PROVE  OwnCycle' /\ CyclesHoldLease' /\ LockIsConnection'
<1> USE DEF LeaseInv, At
<1>0. /\ pass \in [Passes -> PassRecord] /\ \A s \in Replicas : s \in Passes
      /\ lock \in Replicas \union {NoReplica}
  BY DEF TypeOK, LeaseTypeOK, Passes
<1>1. CASE RunCycle(r)
  <2>1. PICK yes \in BOOLEAN :
           /\ IsLeader(r, yes)
           /\ pass' = IF yes THEN [pass EXCEPT ![r] = [Idle EXCEPT !.pc = "load", !.on = r]] ELSE pass
    BY <1>1 DEF RunCycle
  <2>2. /\ LockIsConnection'
        /\ \A s \in Replicas \ {r} : lock = s => lock' = s
        /\ yes = TRUE => lock' = r
        /\ lock = r => lock' = r
    BY <2>1, LockStep
  <2>3. unleased' = unleased
    BY <1>1 DEF RunCycle
  <2>4. OwnCycle'
    <3>1. [Idle EXCEPT !.pc = "load", !.on = r].on = r
      BY DEF Idle
    <3> QED BY <1>0, <2>1, <3>1 DEF OwnCycle
  <2>5. CyclesHoldLease'
    <3>1. CASE yes = TRUE
      BY <1>0, <2>1, <2>2, <2>3, <3>1 DEF CyclesHoldLease
    <3>2. CASE yes = FALSE
      BY <1>0, <2>1, <2>2, <2>3, <3>2 DEF CyclesHoldLease
    <3> QED BY <2>1, <3>1, <3>2
  <2> QED BY <2>2, <2>4, <2>5
<1>2. CASE LoseSession(r)
  <2>1. LockIsConnection' /\ \A s \in Replicas \ {r} : lock = s => lock' = s
    BY <1>2, LockStep DEF LoseSession
  <2> QED BY <1>0, <1>2, <2>1 DEF LoseSession, OwnCycle, CyclesHoldLease
<1>3. CASE Restart(r)
  <2>1. LockIsConnection' /\ \A s \in Replicas \ {r} : lock = s => lock' = s
    BY <1>3, LockStep DEF Restart
  <2>2. /\ pass' = [p \in Passes |-> IF pass[p].on = r THEN Idle ELSE pass[p]]
        /\ unleased' = unleased \ {r}
    BY <1>3 DEF Restart
  <2>3. pass'[r].pc = "idle"
    BY <1>0, <2>2, IdleSound DEF OwnCycle
  <2>4. \A s \in Replicas : pass'[s].pc = "idle" \/ pass'[s] = pass[s]
    BY <1>0, <2>2, IdleSound
  <2> QED BY <2>1, <2>2, <2>3, <2>4 DEF OwnCycle, CyclesHoldLease
<1> QED BY <1>1, <1>2, <1>3

LEMMA LeaseStep == LeaseInv /\ [Next]_vars => LeaseInv'
<1> SUFFICES ASSUME LeaseInv, [Next]_vars PROVE OwnCycle' /\ CyclesHoldLease' /\ LockIsConnection'
  BY NextType DEF LeaseInv
<1>0. /\ pass \in [Passes -> PassRecord]
      /\ \A r \in Replicas : r \in Passes /\ r \notin Hooks
  BY PassesAssumption DEF LeaseInv, TypeOK, Passes
<1>1. ASSUME NEW rt \in Routes, NEW value, NEW target, SaveRoute(rt, value, target)
      PROVE  OwnCycle' /\ CyclesHoldLease' /\ LockIsConnection'
  <2>1. \A r \in Replicas : pass'[r] = pass[r]
    BY <1>0, <1>1 DEF SaveRoute
  <2>2. UNCHANGED <<unleased, lease>>
    BY <1>1 DEF SaveRoute
  <2> QED BY <2>1, <2>2 DEF LeaseInv, OwnCycle, CyclesHoldLease, LockIsConnection, lease, At
<1>2. CASE UNCHANGED <<pass, unleased, lease>>
  BY <1>2 DEF LeaseInv, OwnCycle, CyclesHoldLease, LockIsConnection, lease, At
<1>3. ASSUME NEW g \in Gateways, LoseMasterKey(g) \/ RestoreMasterKey(g)
      PROVE  UNCHANGED <<pass, unleased, lease>>
  BY <1>3 DEF LoseMasterKey, RestoreMasterKey
<1>4. UNCHANGED vars => UNCHANGED <<pass, unleased, lease>>
  BY DEF vars
<1>5. ASSUME NEW rt \in Routes, NEW g \in Gateways, NEW content \in Contents,
             CreateModelRoute(rt, g, content) \/ UpdateModelRoute(rt, g, content)
      PROVE  OwnCycle' /\ CyclesHoldLease' /\ LockIsConnection'
  BY <1>1, <1>5 DEF CreateModelRoute, UpdateModelRoute
<1>6. ASSUME NEW rt \in Routes, DeleteModelRoute(rt)
      PROVE  OwnCycle' /\ CyclesHoldLease' /\ LockIsConnection'
  BY <1>1, <1>6 DEF DeleteModelRoute
<1> QED BY <1>2, <1>3, <1>4, <1>5, <1>6, PassStepLease, ReplicaStepLease DEF Next

\* Whatever sessions end and replicas restart, a replica runs a cycle under the
\* lease or began it under the lease and lost its session since.
THEOREM CyclesRunUnderLease == Spec => []CyclesHoldLease
<1>1. Init => LeaseInv
  <2>1. Init => OwnCycle /\ CyclesHoldLease
    BY IdleSound DEF Init, OwnCycle, CyclesHoldLease, At, Passes
  <2>2. Init => LockIsConnection
    BY NoReplicaAssumption DEF Init, LeaseInit, LockIsConnection
  <2> QED BY <2>1, <2>2, InitType DEF LeaseInv
<1>2. LeaseInv => CyclesHoldLease
  BY DEF LeaseInv
<1> QED BY <1>1, <1>2, LeaseStep, PTL DEF Spec

-----------------------------------------------------------------------------
(***************************************************************************)
(* The short circuit.  For a gateway g that is not excused only one pass is *)
(* busy on g at a time, and a baseline that a pass can still meet, because  *)
(* it is what the routes say or what the busy pass has loaded, is what the  *)
(* gateway serves.                                                          *)
(***************************************************************************)
Chosen == \A p \in Passes : pass[p].pc \in {"push", "record"} => pass[p].gateway \notin pass[p].todo

\* What was loaded or recorded is something the settings of g have been.
Remembered(g) ==
    /\ {} \in past[g] /\ SettingsOf(g) \in past[g]
    /\ \A r \in Replicas : baseline[r][g] \in past[g]
    /\ \A p \in Passes : g \in Busy(p) => pass[p].loaded[g] # {} /\ pass[p].loaded[g] \in past[g]

Alone(g) == \A p, q \in Passes : g \in Busy(p) /\ g \in Busy(q) => p = q

Current(S, g) == S = SettingsOf(g) \/ \E p \in Passes : g \in Busy(p) /\ pass[p].loaded[g] = S

BaselinesAreServed(g) ==
    \A r \in Replicas : baseline[r][g] # {} /\ Current(baseline[r][g], g) => served[g] = baseline[r][g]

\* Nobody has recorded settings newer than a busy pass's.
PassesAreNewest(g) ==
    \A p \in Passes, r \in Replicas :
        g \in Busy(p) /\ baseline[r][g] # {} /\ baseline[r][g] = SettingsOf(g)
            => pass[p].loaded[g] = SettingsOf(g)

RecordsAreServed(g) ==
    \A p \in Passes : At(p, "record") /\ pass[p].gateway = g => served[g] = pass[p].loaded[g]

GatewayInv(g) ==
    /\ Remembered(g)
    /\ ~Excused(g) => /\ Alone(g) /\ BaselinesAreServed(g)
                      /\ PassesAreNewest(g) /\ RecordsAreServed(g)

ShortCircuitInv == TypeOK /\ Chosen /\ \A g \in Gateways : GatewayInv(g)

\* What a step that pushes nothing to g and starts no pass on g leaves.
Spared(g) ==
    /\ served'[g] = served[g]
    /\ Excused(g) => Excused(g)'
    /\ past[g] \subseteq past'[g] /\ SettingsOf(g)' \in past'[g]
    /\ SettingsOf(g)' = SettingsOf(g) \/ SettingsOf(g)' \notin past[g] \/ Excused(g)'
    /\ \A r \in Replicas : baseline'[r][g] = baseline[r][g] \/ baseline'[r][g] = {}
    /\ \A p \in Passes : g \in Busy(p)' => g \in Busy(p) /\ pass'[p].loaded[g] = pass[p].loaded[g]
    /\ \A p \in Passes : pass'[p].pc = "record" /\ pass'[p].gateway = g =>
           /\ At(p, "record") /\ pass[p].gateway = g
           /\ pass'[p].loaded[g] = pass[p].loaded[g]

LEMMA SparedKept ==
    ASSUME NEW g \in Gateways, GatewayInv(g), Spared(g)
    PROVE  GatewayInv(g)'
<1>1. Remembered(g)'
  BY DEF GatewayInv, Remembered, Spared
<1>2. ASSUME ~Excused(g)'
      PROVE  Alone(g)' /\ BaselinesAreServed(g)' /\ PassesAreNewest(g)' /\ RecordsAreServed(g)'
  <2>1. /\ Remembered(g) /\ Alone(g) /\ BaselinesAreServed(g) /\ PassesAreNewest(g) /\ RecordsAreServed(g)
    BY <1>2 DEF GatewayInv, Spared
  <2>2. \A S : S \in past[g] /\ Current(S, g)' => Current(S, g)
    BY <1>2 DEF Current, Spared
  <2>3. Alone(g)'
    BY <2>1 DEF Alone, Spared
  <2>4. BaselinesAreServed(g)'
    <3> SUFFICES ASSUME NEW r \in Replicas, NEW S, S = baseline'[r][g], S # {}, Current(S, g)'
                 PROVE  served'[g] = S
      BY DEF BaselinesAreServed, Current
    <3>1. baseline[r][g] = S /\ S \in past[g]
      BY <2>1 DEF Spared, Remembered
    <3> QED BY <2>1, <2>2, <3>1 DEF Spared, BaselinesAreServed
  <2>5. PassesAreNewest(g)'
    <3> SUFFICES ASSUME NEW p \in Passes, NEW r \in Replicas, g \in Busy(p)', baseline'[r][g] # {},
                        baseline'[r][g] = SettingsOf(g)'
                 PROVE  pass'[p].loaded[g] = SettingsOf(g)'
      BY DEF PassesAreNewest
    <3>1. baseline[r][g] = SettingsOf(g)' /\ baseline[r][g] \in past[g] /\ baseline[r][g] # {}
      BY <2>1 DEF Spared, Remembered
    <3>2. SettingsOf(g)' = SettingsOf(g)
      BY <1>2, <3>1 DEF Spared
    <3> QED BY <2>1, <3>1, <3>2 DEF Spared, PassesAreNewest
  <2>6. RecordsAreServed(g)'
    BY <2>1 DEF RecordsAreServed, Spared, At
  <2> QED BY <2>3, <2>4, <2>5, <2>6
<1> QED BY <1>1, <1>2 DEF GatewayInv


BusyIn(x) == IF x.pc \in {"push", "record"} THEN x.todo \union {x.gateway} ELSE x.todo

\* A pass that becomes x takes up no work on g.
GivesUp(p, x, g) ==
    /\ g \in BusyIn(x) => g \in Busy(p) /\ x.loaded[g] = pass[p].loaded[g]
    /\ x.pc = "record" /\ x.gateway = g =>
          At(p, "record") /\ pass[p].gateway = g /\ x.loaded[g] = pass[p].loaded[g]

LEMMA BusyIs == \A p \in Passes : Busy(p) = BusyIn(pass[p]) /\ Busy(p)' = BusyIn(pass'[p])
BY DEF Busy, BusyIn

LEMMA PassSpares ==
    ASSUME TypeOK, NEW g \in Gateways, GatewayInv(g), NEW p \in Passes, NEW x,
           pass' = [pass EXCEPT ![p] = x], GivesUp(p, x, g), UNCHANGED <<route, past>>,
           served'[g] = served[g], Excused(g) => Excused(g)',
           \A r \in Replicas : baseline'[r][g] = baseline[r][g] \/ baseline'[r][g] = {}
    PROVE  Spared(g)
<1>1. SettingsOf(g)' = SettingsOf(g) /\ SettingsOf(g) \in past[g]
  BY DEF SettingsOf, GatewayInv, Remembered
<1>2. pass'[p] = x /\ \A q \in Passes \ {p} : pass'[q] = pass[q]
  BY DEF TypeOK
<1>3. \A q \in Passes : g \in Busy(q)' => g \in Busy(q) /\ pass'[q].loaded[g] = pass[q].loaded[g]
  BY <1>2, BusyIs DEF GivesUp
<1>4. \A q \in Passes : pass'[q].pc = "record" /\ pass'[q].gateway = g =>
          At(q, "record") /\ pass[q].gateway = g /\ pass'[q].loaded[g] = pass[q].loaded[g]
  BY <1>2 DEF GivesUp, At
<1> QED BY <1>1, <1>3, <1>4 DEF Spared

LEMMA IdleGivesUp == \A p \in Passes, g \in Gateways : GivesUp(p, Idle, g)
BY DEF GivesUp, Idle, BusyIn

(***************************************************************************)
(* One lemma for each step of a pass.                                       *)
(***************************************************************************)
LEMMA LoadKeeps ==
    ASSUME ShortCircuitInv, NEW p \in Passes, LoadBuckets(p), NEW g \in Gateways
    PROVE  GatewayInv(g)'
<1> DEFINE wanted == IF pass[p].target = All THEN Gateways ELSE {pass[p].target}
           todo   == {h \in wanted : SettingsOf(h) # {}}
           loaded == [h \in Gateways |-> SettingsOf(h)]
           x      == [pass[p] EXCEPT !.pc = "next", !.todo = todo, !.loaded = loaded]
<1>1. /\ TypeOK /\ GatewayInv(g) /\ pass \in [Passes -> PassRecord] /\ pass[p] \in PassRecord
      /\ Remembered(g)
  BY DEF ShortCircuitInv, TypeOK, GatewayInv
<1>2. /\ At(p, "load") /\ crossed \subseteq crossed'
      /\ UNCHANGED <<route, served, baseline, repeated, skipped, past>>
  BY DEF LoadBuckets
<1>3. /\ SettingsOf(g)' = SettingsOf(g) /\ (Excused(g) => Excused(g)')
  BY <1>2 DEF SettingsOf, Excused
<1>4. CASE End(p)
  <2>1. Spared(g)
    BY <1>1, <1>2, <1>3, <1>4, IdleGivesUp, PassSpares DEF End
  <2> QED BY <1>1, <2>1, SparedKept
<1>5. CASE ~End(p)
  <2>1. /\ pass' = [pass EXCEPT ![p] = x]
        /\ crossed' = crossed \union (todo \intersect UNION {Busy(q) : q \in Passes \ {p}})
    BY <1>1, <1>5 DEF LoadBuckets
  <2>2. x.pc = "next" /\ x.todo = todo /\ x.loaded[g] = SettingsOf(g) /\ BusyIn(x) = todo
    BY <1>1 DEF PassRecord, BusyIn
  <2>3. g \in todo => SettingsOf(g) # {}
    OBVIOUS
  <2> HIDE DEF x, todo
  <2>4. CASE g \notin todo
    <3>1. GivesUp(p, x, g)
      BY <2>2, <2>4 DEF GivesUp
    <3>2. Spared(g)
      BY <1>1, <1>2, <1>3, <2>1, <3>1, PassSpares
    <3> QED BY <1>1, <3>2, SparedKept
  <2>5. CASE g \in todo
    <3>1. pass'[p] = x /\ \A q \in Passes \ {p} : pass'[q] = pass[q]
      BY <1>1, <2>1
    <3>2. /\ g \in Busy(p)' /\ pass'[p].loaded[g] = SettingsOf(g)
          /\ \A q \in Passes \ {p} : g \in Busy(q)' => g \in Busy(q) /\ pass'[q].loaded[g] = pass[q].loaded[g]
      BY <2>2, <2>5, <3>1, BusyIs
    <3>3. Remembered(g)'
      BY <1>1, <1>2, <1>3, <2>3, <2>5, <3>2 DEF Remembered
    <3>4. ASSUME ~Excused(g)'
          PROVE  Alone(g)' /\ BaselinesAreServed(g)' /\ PassesAreNewest(g)' /\ RecordsAreServed(g)'
      <4>1. \A q \in Passes \ {p} : g \notin Busy(q)
        BY <2>1, <2>5, <3>4 DEF Excused
      <4>2. BaselinesAreServed(g) /\ RecordsAreServed(g)
        BY <1>1, <1>3, <3>4 DEF GatewayInv
      <4>3. \A S : Current(S, g)' => Current(S, g)
        BY <1>3, <3>2, <4>1 DEF Current
      <4>4. \A q \in Passes : pass'[q].pc = "record" => q # p
        BY <2>2, <3>1
      <4>5. Alone(g)'
        BY <3>2, <4>1 DEF Alone
      <4>6. BaselinesAreServed(g)'
        <5> SUFFICES ASSUME NEW r \in Replicas, NEW S, S = baseline'[r][g], S # {}, Current(S, g)'
                     PROVE  served'[g] = S
          BY DEF BaselinesAreServed, Current
        <5> QED BY <1>2, <4>2, <4>3 DEF BaselinesAreServed
      <4>7. PassesAreNewest(g)'
        BY <1>2, <1>3, <3>2, <4>1 DEF PassesAreNewest
      <4>8. RecordsAreServed(g)'
        BY <1>2, <3>1, <4>2, <4>4 DEF RecordsAreServed, At
      <4> QED BY <4>5, <4>6, <4>7, <4>8
    <3> QED BY <3>3, <3>4 DEF GatewayInv
  <2> QED BY <2>4, <2>5
<1> QED BY <1>4, <1>5

LEMMA CompareKeeps ==
    ASSUME ShortCircuitInv, NEW p \in Passes, NEW h \in Gateways, Compare(p, h), NEW g \in Gateways
    PROVE  GatewayInv(g)'
<1> DEFINE x == [pass[p] EXCEPT !.todo = pass[p].todo \ {h}]
           y == [pass[p] EXCEPT !.todo = pass[p].todo \ {h}, !.pc = "push", !.gateway = h]
<1>1. /\ TypeOK /\ GatewayInv(g) /\ pass \in [Passes -> PassRecord] /\ pass[p] \in PassRecord
  BY DEF ShortCircuitInv, TypeOK
<1>2. /\ At(p, "next") /\ h \in pass[p].todo
      /\ UNCHANGED <<route, served, baseline, crossed, repeated, skipped, past>>
  BY DEF Compare, history
<1>3. Excused(g)' = Excused(g)
  BY <1>2 DEF Excused
<1>4. pass' = [pass EXCEPT ![p] = x] \/ pass' = [pass EXCEPT ![p] = y]
  BY <1>1 DEF Compare
<1>5. GivesUp(p, x, g) /\ GivesUp(p, y, g)
  BY <1>1, <1>2 DEF GivesUp, BusyIn, Busy, At, PassRecord
<1> HIDE DEF x, y
<1>6. Spared(g)
  BY <1>1, <1>2, <1>3, <1>4, <1>5, PassSpares
<1> QED BY <1>1, <1>6, SparedKept

LEMMA PushKeeps ==
    ASSUME ShortCircuitInv, NEW p \in Passes, Push(p), NEW g \in Gateways
    PROVE  GatewayInv(g)'
<1> DEFINE x == [pass[p] EXCEPT !.pc = "record"]
           y == [pass[p] EXCEPT !.pc = "next", !.gateway = NoGateway]
<1>1. /\ TypeOK /\ GatewayInv(g) /\ pass \in [Passes -> PassRecord] /\ pass[p] \in PassRecord
      /\ served \in [Gateways -> Settings] /\ Chosen /\ Remembered(g)
  BY DEF ShortCircuitInv, TypeOK, GatewayInv
<1>2. /\ At(p, "push") /\ skipped \subseteq skipped' /\ pass[p].gateway \in Gateways
      /\ UNCHANGED <<route, baseline, crossed, repeated, past>>
      /\ g # pass[p].gateway => served'[g] = served[g]
      /\ served'[g] \in {served[g], pass[p].loaded[g]}
  BY <1>1 DEF Push, Pushed, TypeOK, At
<1>3. /\ SettingsOf(g)' = SettingsOf(g) /\ (Excused(g) => Excused(g)')
  BY <1>2 DEF SettingsOf, Excused
<1>4. /\ pass' = [pass EXCEPT ![p] = x] \/ pass' = [pass EXCEPT ![p] = y]
      /\ pass' = [pass EXCEPT ![p] = x] =>
            served'[pass[p].gateway] = pass[p].loaded[pass[p].gateway] \/ pass[p].gateway \in skipped'
      /\ x.pc = "record" /\ y.pc = "next" /\ x.gateway = pass[p].gateway /\ y.gateway = NoGateway
      /\ x.loaded = pass[p].loaded /\ y.loaded = pass[p].loaded
      /\ BusyIn(x) = Busy(p) /\ BusyIn(y) = pass[p].todo /\ Busy(p) = pass[p].todo \union {pass[p].gateway}
  <2>1. x.pc = "record" /\ y.pc = "next" /\ x.gateway = pass[p].gateway /\ y.gateway = NoGateway
      /\ x.loaded = pass[p].loaded /\ y.loaded = pass[p].loaded
      /\ BusyIn(x) = Busy(p) /\ BusyIn(y) = pass[p].todo /\ Busy(p) = pass[p].todo \union {pass[p].gateway}
    BY <1>1, <1>2 DEF PassRecord, BusyIn, Busy, At
  <2>2. \/ /\ pass' = [pass EXCEPT ![p] = x]
           /\ served'[pass[p].gateway] = pass[p].loaded[pass[p].gateway] \/ pass[p].gateway \in skipped'
        \/ pass' = [pass EXCEPT ![p] = y]
    BY <1>1, <1>2 DEF Push, Pushed
  <2>3. pass' = [pass EXCEPT ![p] = y] => pass' # [pass EXCEPT ![p] = x]
    <3> HIDE DEF x, y
    <3> QED BY <1>1, <2>1
  <2> HIDE DEF x, y
  <2> QED BY <2>1, <2>2, <2>3
<1> HIDE DEF x, y
<1>5. CASE g # pass[p].gateway
  <2>1. GivesUp(p, x, g) /\ GivesUp(p, y, g)
    BY <1>2, <1>4, <1>5 DEF GivesUp
  <2>2. Spared(g)
    BY <1>1, <1>2, <1>3, <1>4, <1>5, <2>1, PassSpares
  <2> QED BY <1>1, <2>2, SparedKept
<1>6. CASE g = pass[p].gateway
  <2>1. g \notin pass[p].todo /\ g \in Busy(p)
    BY <1>1, <1>2, <1>4, <1>6 DEF Chosen, At
  <2>2. \A q \in Passes \ {p} : pass'[q] = pass[q]
    BY <1>1, <1>4
  <2>3. \A q \in Passes : g \in Busy(q)' => g \in Busy(q) /\ pass'[q].loaded[g] = pass[q].loaded[g]
    BY <1>1, <1>4, <2>2, BusyIs
  <2>4. Remembered(g)'
    BY <1>1, <1>2, <1>3, <2>3 DEF Remembered
  <2>5. ASSUME ~Excused(g)'
        PROVE  Alone(g)' /\ BaselinesAreServed(g)' /\ PassesAreNewest(g)' /\ RecordsAreServed(g)'
    <3>1. Alone(g) /\ BaselinesAreServed(g) /\ PassesAreNewest(g) /\ RecordsAreServed(g)
      BY <1>1, <1>3, <2>5 DEF GatewayInv
    <3>2. \A q \in Passes \ {p} : g \notin Busy(q) /\ g \notin Busy(q)'
      BY <2>1, <2>3, <3>1 DEF Alone
    <3>3. \A S : Current(S, g)' => Current(S, g)
      BY <1>3, <2>3 DEF Current
    <3>4. Alone(g)'
      BY <3>2 DEF Alone
    <3>5. BaselinesAreServed(g)'
      <4> SUFFICES ASSUME NEW r \in Replicas, NEW S, S = baseline'[r][g], S # {}, Current(S, g)'
                   PROVE  served'[g] = S
        BY DEF BaselinesAreServed, Current
      <4>1. S = baseline[r][g] /\ served[g] = S
        BY <1>2, <3>1, <3>3 DEF BaselinesAreServed
      <4>2. SettingsOf(g) = S => pass[p].loaded[g] = S
        BY <2>1, <3>1, <4>1 DEF PassesAreNewest
      <4>3. Current(S, g) => pass[p].loaded[g] = S
        BY <3>2, <4>2 DEF Current
      <4> QED BY <1>2, <3>3, <4>1, <4>3
    <3>6. PassesAreNewest(g)'
      BY <1>2, <1>3, <2>3, <3>1 DEF PassesAreNewest
    <3>7. RecordsAreServed(g)'
      <4> SUFFICES ASSUME NEW q \in Passes, pass'[q].pc = "record", pass'[q].gateway = g
                   PROVE  served'[g] = pass'[q].loaded[g]
        BY DEF RecordsAreServed, At
      <4>1. g \in Busy(q)'
        BY BusyIs DEF BusyIn
      <4>2. q = p
        BY <3>2, <4>1
      <4>3. pass'[p] = x \/ pass'[p] = y
        BY <1>1, <1>4
      <4>4. pass' = [pass EXCEPT ![p] = x] /\ pass'[p] = x
        BY <1>1, <1>4, <4>2, <4>3
      <4>5. g \notin skipped'
        BY <2>5 DEF Excused
      <4> QED BY <1>4, <1>6, <4>2, <4>4, <4>5
    <3> QED BY <3>4, <3>5, <3>6, <3>7
  <2> QED BY <2>4, <2>5 DEF GatewayInv
<1> QED BY <1>5, <1>6


LEMMA RecordKeeps ==
    ASSUME ShortCircuitInv, NEW p \in Passes, RecordBaseline(p), NEW g \in Gateways
    PROVE  GatewayInv(g)'
<1> DEFINE y == [pass[p] EXCEPT !.pc = "next", !.gateway = NoGateway]
<1>1. /\ TypeOK /\ GatewayInv(g) /\ pass \in [Passes -> PassRecord] /\ pass[p] \in PassRecord
      /\ baseline \in [Replicas -> [Gateways -> Settings]] /\ Chosen /\ Remembered(g)
  BY DEF ShortCircuitInv, TypeOK, GatewayInv
<1>2. /\ At(p, "record") /\ pass[p].gateway \in Gateways /\ pass[p].on \in Replicas
      /\ UNCHANGED <<route, served, crossed, repeated, skipped, past>>
      /\ baseline' = [baseline EXCEPT ![pass[p].on][pass[p].gateway] = pass[p].loaded[pass[p].gateway]]
      /\ pass' = [pass EXCEPT ![p] = y]
  BY <1>1 DEF RecordBaseline, TypeOK, At, history
<1>3. SettingsOf(g)' = SettingsOf(g) /\ Excused(g)' = Excused(g)
  BY <1>2 DEF SettingsOf, Excused
<1>4. /\ y.pc = "next" /\ y.gateway = NoGateway /\ y.loaded = pass[p].loaded
      /\ BusyIn(y) = pass[p].todo /\ Busy(p) = pass[p].todo \union {pass[p].gateway}
  BY <1>1, <1>2 DEF PassRecord, BusyIn, Busy, At
<1> HIDE DEF y
<1>5. CASE g # pass[p].gateway
  <2>1. GivesUp(p, y, g)
    BY <1>4 DEF GivesUp
  <2>2. Spared(g)
    BY <1>1, <1>2, <1>3, <1>5, <2>1, PassSpares
  <2> QED BY <1>1, <2>2, SparedKept
<1>6. CASE g = pass[p].gateway
  <2>1. g \notin pass[p].todo /\ g \in Busy(p)
    BY <1>1, <1>2, <1>4, <1>6 DEF Chosen, At
  <2>2. pass'[p] = y /\ \A q \in Passes \ {p} : pass'[q] = pass[q]
    BY <1>1, <1>2
  <2>3. /\ g \notin Busy(p)'
        /\ \A q \in Passes : g \in Busy(q)' => g \in Busy(q) /\ pass'[q].loaded[g] = pass[q].loaded[g]
    BY <1>4, <2>1, <2>2, BusyIs
  <2>4. \A r \in Replicas : baseline'[r][g] = baseline[r][g] \/ baseline'[r][g] = pass[p].loaded[g]
    BY <1>1, <1>2, <1>6
  <2>5. Remembered(g)'
    BY <1>1, <1>2, <1>3, <2>1, <2>3, <2>4 DEF Remembered
  <2>6. ASSUME ~Excused(g)'
        PROVE  Alone(g)' /\ BaselinesAreServed(g)' /\ PassesAreNewest(g)' /\ RecordsAreServed(g)'
    <3>1. Alone(g) /\ BaselinesAreServed(g) /\ RecordsAreServed(g)
      BY <1>1, <1>3, <2>6 DEF GatewayInv
    <3>2. \A q \in Passes : g \notin Busy(q)'
      BY <2>1, <2>3, <3>1 DEF Alone
    <3>3. served[g] = pass[p].loaded[g]
      BY <1>2, <1>6, <3>1 DEF RecordsAreServed
    <3>4. BaselinesAreServed(g)'
      <4> SUFFICES ASSUME NEW r \in Replicas, NEW S, S = baseline'[r][g], S # {}, Current(S, g)'
                   PROVE  served'[g] = S
        BY DEF BaselinesAreServed, Current
      <4>1. Current(S, g)
        BY <1>3, <2>3 DEF Current
      <4> QED BY <1>2, <2>4, <3>1, <3>3, <4>1 DEF BaselinesAreServed
    <3>5. RecordsAreServed(g)'
      <4> SUFFICES ASSUME NEW q \in Passes, pass'[q].pc = "record", pass'[q].gateway = g
                   PROVE  FALSE
        BY DEF RecordsAreServed, At
      <4> QED BY <3>2, BusyIs DEF BusyIn
    <3> QED BY <3>2, <3>4, <3>5 DEF Alone, PassesAreNewest
  <2> QED BY <2>5, <2>6 DEF GatewayInv
<1> QED BY <1>5, <1>6

LEMMA FinishKeeps ==
    ASSUME ShortCircuitInv, NEW p \in Passes, Finish(p), NEW g \in Gateways
    PROVE  GatewayInv(g)'
<1>1. /\ TypeOK /\ GatewayInv(g) /\ baseline \in [Replicas -> [Gateways -> Settings]]
      /\ pass \in [Passes -> PassRecord]
  BY DEF ShortCircuitInv, TypeOK
<1>2. /\ UNCHANGED <<route, served, crossed, repeated, skipped, past>>
      /\ pass' = [pass EXCEPT ![p] = Idle]
  BY DEF Finish, End, history
<1>3. \A r \in Replicas : baseline'[r][g] = baseline[r][g] \/ baseline'[r][g] = {}
  BY <1>1 DEF Finish
<1>4. Excused(g)' = Excused(g)
  BY <1>2 DEF Excused
<1>5. Spared(g)
  BY <1>1, <1>2, <1>3, <1>4, IdleGivesUp, PassSpares
<1> QED BY <1>1, <1>5, SparedKept

(***************************************************************************)
(* The other steps leave every gateway's pushes alone.                      *)
(***************************************************************************)
\* A pass that is started has no gateways yet.
LEMMA StartGivesUp ==
    ASSUME NEW p \in Passes, NEW g \in Gateways, NEW r, NEW target
    PROVE  /\ GivesUp(p, [Idle EXCEPT !.pc = "load", !.on = r, !.target = target], g)
           /\ GivesUp(p, [Idle EXCEPT !.pc = "load", !.on = r], g)
BY DEF GivesUp, Idle, BusyIn

LEMMA SaveRouteKeeps ==
    ASSUME ShortCircuitInv, NEW rt, NEW value, NEW target, SaveRoute(rt, value, target), NEW g \in Gateways
    PROVE  GatewayInv(g)'
<1>1. /\ TypeOK /\ GatewayInv(g) /\ past \in [Gateways -> SUBSET Settings]
      /\ pass \in [Passes -> PassRecord]
  BY DEF ShortCircuitInv, TypeOK
<1>2. UNCHANGED <<served, baseline, crossed, skipped>> /\ repeated \subseteq repeated'
  BY DEF SaveRoute
<1>3. Excused(g) => Excused(g)'
  BY <1>2 DEF Excused
<1>4. /\ past'[g] = past[g] \union {SettingsOf(g)'}
      /\ SettingsOf(g)' = SettingsOf(g) \/ SettingsOf(g)' \notin past[g] \/ g \in repeated'
  BY <1>1 DEF SaveRoute, SettingsOf
<1>5. \A q \in Passes : g \in Busy(q)' => g \in Busy(q) /\ pass'[q].loaded[g] = pass[q].loaded[g]
  <2>1. CASE pass' = pass
    BY <2>1, BusyIs
  <2>2. ASSUME NEW h \in Hooks, NEW r \in Replicas, NEW x,
               x = [Idle EXCEPT !.pc = "load", !.on = r, !.target = target],
               pass' = [pass EXCEPT ![h] = x]
        PROVE  \A q \in Passes : g \in Busy(q)' => g \in Busy(q) /\ pass'[q].loaded[g] = pass[q].loaded[g]
    <3>1. h \in Passes /\ GivesUp(h, x, g)
      BY <2>2, StartGivesUp DEF Passes
    <3> QED BY <1>1, <2>2, <3>1, BusyIs DEF GivesUp
  <2> QED BY <2>1, <2>2 DEF SaveRoute
<1>6. \A q \in Passes : pass'[q].pc = "record" /\ pass'[q].gateway = g =>
          At(q, "record") /\ pass[q].gateway = g /\ pass'[q].loaded[g] = pass[q].loaded[g]
  <2>1. CASE pass' = pass
    BY <2>1 DEF At
  <2>2. ASSUME NEW h \in Hooks, NEW r \in Replicas, NEW x,
               x = [Idle EXCEPT !.pc = "load", !.on = r, !.target = target],
               pass' = [pass EXCEPT ![h] = x]
        PROVE  \A q \in Passes : pass'[q].pc = "record" /\ pass'[q].gateway = g =>
          At(q, "record") /\ pass[q].gateway = g /\ pass'[q].loaded[g] = pass[q].loaded[g]
    <3>1. h \in Passes /\ x.pc = "load"
      BY <2>2 DEF Passes, Idle
    <3> QED BY <1>1, <2>2, <3>1 DEF At
  <2> QED BY <2>1, <2>2 DEF SaveRoute
<1>7. Spared(g)
  BY <1>2, <1>3, <1>4, <1>5, <1>6 DEF Spared, Excused
<1> QED BY <1>1, <1>7, SparedKept

LEMMA ReplicaKeeps ==
    ASSUME ShortCircuitInv, NEW r \in Replicas, RunCycle(r) \/ LoseSession(r) \/ Restart(r),
           NEW g \in Gateways
    PROVE  GatewayInv(g)'
<1>1. /\ TypeOK /\ GatewayInv(g) /\ r \in Passes /\ pass \in [Passes -> PassRecord]
      /\ baseline \in [Replicas -> [Gateways -> Settings]] /\ SettingsOf(g) \in past[g]
  BY DEF ShortCircuitInv, TypeOK, Passes, GatewayInv, Remembered
<1>2. UNCHANGED <<route, served, crossed, repeated, skipped, past>>
  BY DEF RunCycle, LoseSession, Restart, history
<1>3. Excused(g)' = Excused(g) /\ SettingsOf(g)' = SettingsOf(g)
  BY <1>2 DEF Excused, SettingsOf
<1>4. \A s \in Replicas : baseline'[s][g] = baseline[s][g] \/ baseline'[s][g] = {}
  BY <1>1 DEF RunCycle, LoseSession, Restart
<1>5. \A q \in Passes : pass'[q] = pass[q] \/ GivesUp(q, pass'[q], g)
  <2>1. CASE RunCycle(r)
    <3> DEFINE x == [Idle EXCEPT !.pc = "load", !.on = r]
    <3>1. GivesUp(r, x, g)
      BY <1>1, StartGivesUp
    <3>2. pass' = [pass EXCEPT ![r] = x] \/ pass' = pass
      BY <2>1 DEF RunCycle
    <3> HIDE DEF x
    <3> QED BY <1>1, <3>1, <3>2
  <2>2. CASE LoseSession(r)
    BY <2>2 DEF LoseSession
  <2>3. CASE Restart(r)
    BY <2>3, IdleGivesUp DEF Restart
  <2> QED BY <2>1, <2>2, <2>3
<1>6. \A q \in Passes : GivesUp(q, pass'[q], g)
  <2>1. \A q \in Passes : GivesUp(q, pass[q], g)
    BY BusyIs DEF GivesUp, At
  <2> QED BY <1>5, <2>1
<1>7. Spared(g)
  BY <1>2, <1>3, <1>4, <1>1, <1>6, BusyIs DEF Spared, GivesUp
<1> QED BY <1>1, <1>7, SparedKept

LEMMA KeyKeeps ==
    ASSUME ShortCircuitInv, NEW g \in Gateways,
           UNCHANGED <<route, served, baseline, pass, crossed, repeated, skipped, past>>
    PROVE  GatewayInv(g)'
<1>1. GatewayInv(g) /\ SettingsOf(g) \in past[g]
  BY DEF ShortCircuitInv, GatewayInv, Remembered
<1>2. Excused(g)' = Excused(g) /\ SettingsOf(g)' = SettingsOf(g)
  BY DEF Excused, SettingsOf
<1>3. Spared(g)
  BY <1>1, <1>2, BusyIs DEF Spared, At
<1> QED BY <1>1, <1>3, SparedKept

(***************************************************************************)
(* A pass never has the gateway it pushes among those still to visit.       *)
(***************************************************************************)
LEMMA ChosenKept ==
    ASSUME TypeOK, Chosen, [Next]_vars
    PROVE  Chosen'
<1> DEFINE Fine(x) == x.pc \in {"push", "record"} => x.gateway \notin x.todo
<1>0. pass \in [Passes -> PassRecord] /\ (\A p \in Passes : pass[p] \in PassRecord /\ Fine(pass[p])) /\ Fine(Idle)
  BY DEF TypeOK, Chosen, Idle
<1>1. ASSUME NEW p \in Passes, PassStep(p) PROVE \A q \in Passes : Fine(pass'[q])
  <2>1. ASSUME LoadBuckets(p) \/ Finish(p) PROVE Fine(pass'[p])
    <3>1. pass'[p] = Idle \/ pass'[p].pc = "next"
      <4> DEFINE todo   == {h \in (IF pass[p].target = All THEN Gateways ELSE {pass[p].target}) : SettingsOf(h) # {}}
                 loaded == [h \in Gateways |-> SettingsOf(h)]
                 x      == [pass[p] EXCEPT !.pc = "next", !.todo = todo, !.loaded = loaded]
      <4>1. x.pc = "next"
        BY <1>0 DEF PassRecord
      <4>2. pass' = [pass EXCEPT ![p] = Idle] \/ pass' = [pass EXCEPT ![p] = x]
        BY <1>0, <2>1 DEF LoadBuckets, Finish, End
      <4> HIDE DEF x
      <4> QED BY <1>0, <1>1, <4>1, <4>2
    <3> QED BY <1>0, <3>1
  <2>2. ASSUME NEW h \in Gateways, Compare(p, h) PROVE Fine(pass'[p])
    BY <1>0, <2>2 DEF Compare, At, PassRecord
  <2>3. CASE Push(p) \/ RecordBaseline(p)
    BY <1>0, <2>3 DEF Push, RecordBaseline, At, PassRecord
  <2>4. \A q \in Passes \ {p} : pass'[q] = pass[q]
    BY <1>0, <1>1, PassStepSound DEF StaysSound
  <2> QED BY <1>0, <1>1, <2>1, <2>2, <2>3, <2>4 DEF PassStep
<1>2. ASSUME NEW rt, NEW value, NEW target, SaveRoute(rt, value, target) PROVE \A q \in Passes : Fine(pass'[q])
  BY <1>0, <1>2 DEF SaveRoute, Idle, Passes
<1>3. ASSUME NEW r \in Replicas, RunCycle(r) \/ LoseSession(r) \/ Restart(r)
      PROVE  \A q \in Passes : Fine(pass'[q])
  BY <1>0, <1>3 DEF RunCycle, LoseSession, Restart, Idle
<1>4. pass' = pass => \A q \in Passes : Fine(pass'[q])
  BY <1>0
<1>5. \A q \in Passes : Fine(pass'[q])
  BY <1>1, <1>2, <1>3, <1>4
     DEF Next, CreateModelRoute, UpdateModelRoute, DeleteModelRoute, LoseMasterKey, RestoreMasterKey, vars
<1> QED BY <1>5 DEF Chosen

LEMMA ShortCircuitStep == ShortCircuitInv /\ [Next]_vars => ShortCircuitInv'
<1> SUFFICES ASSUME ShortCircuitInv, [Next]_vars PROVE ShortCircuitInv'
  OBVIOUS
<1>1. ASSUME NEW g \in Gateways PROVE GatewayInv(g)'
  <2>1. ASSUME NEW p \in Passes, PassStep(p) PROVE GatewayInv(g)'
    BY <2>1, LoadKeeps, CompareKeeps, PushKeeps, RecordKeeps, FinishKeeps DEF PassStep
  <2>2. ASSUME NEW rt \in Routes, NEW h \in Gateways, NEW content \in Contents,
               CreateModelRoute(rt, h, content) \/ UpdateModelRoute(rt, h, content) \/ DeleteModelRoute(rt)
        PROVE  GatewayInv(g)'
    BY <2>2, SaveRouteKeeps DEF CreateModelRoute, UpdateModelRoute, DeleteModelRoute
  <2>3. ASSUME NEW rt \in Routes, DeleteModelRoute(rt) PROVE GatewayInv(g)'
    BY <2>3, SaveRouteKeeps DEF DeleteModelRoute
  <2>4. ASSUME NEW h \in Gateways, LoseMasterKey(h) \/ RestoreMasterKey(h) PROVE GatewayInv(g)'
    BY <2>4, KeyKeeps DEF LoseMasterKey, RestoreMasterKey, history
  <2>5. CASE UNCHANGED vars
    BY <2>5, KeyKeeps DEF vars
  <2> QED BY <2>1, <2>2, <2>3, <2>4, <2>5, ReplicaKeeps DEF Next
<1> QED BY <1>1, NextType, ChosenKept DEF ShortCircuitInv

LEMMA ShortCircuitInit == Init => ShortCircuitInv
<1> SUFFICES ASSUME Init PROVE ShortCircuitInv
  OBVIOUS
<1>1. \A p \in Passes : pass[p] = Idle /\ Busy(p) = {} /\ Idle.pc = "idle"
  BY DEF Init, Busy, Idle
<1>2. ASSUME NEW g \in Gateways PROVE GatewayInv(g)
  <2>1. SettingsOf(g) = {}
    <3>1. \A rt \in Routes : route[rt].gateway = NoGateway
      BY DEF Init
    <3> QED BY <3>1, NullsAssumption DEF SettingsOf, SettingsIn
  <2>2. Remembered(g)
    BY <1>1, <2>1 DEF Remembered, Init
  <2>3. Alone(g) /\ BaselinesAreServed(g) /\ PassesAreNewest(g) /\ RecordsAreServed(g)
    BY <1>1 DEF Init, Alone, BaselinesAreServed, PassesAreNewest, RecordsAreServed, At
  <2> QED BY <2>2, <2>3 DEF GatewayInv
<1>3. Chosen
  BY <1>1 DEF Chosen
<1> QED BY <1>2, <1>3, InitType DEF ShortCircuitInv

\* A step that takes g from what a pass has still to visit, and does not begin
\* to push it, is a comparison that found it unchanged.
LEMMA SkipsAreEqual ==
    ASSUME TypeOK, [Next]_vars, NEW p \in Passes, NEW g \in Gateways,
           At(p, "next"), g \in pass[p].todo, pass'[p].pc = "next", g \notin pass'[p].todo
    PROVE  pass[p].on \in Replicas /\ baseline[pass[p].on][g] = pass[p].loaded[g]
<1>0. /\ pass \in [Passes -> PassRecord] /\ pass[p] \in PassRecord /\ pass[p].pc = "next"
      /\ pass[p].on \in Replicas /\ Idle.pc = "idle" /\ pass' # pass
  BY DEF TypeOK, At, Idle
<1>1. ASSUME NEW q \in Passes, PassStep(q) PROVE baseline[pass[p].on][g] = pass[p].loaded[g]
  <2>1. q = p
    <3>1. PICK x : pass' = [pass EXCEPT ![q] = x]
      BY <1>1, PassStepSound DEF StaysSound
    <3> QED BY <1>0, <3>1
  <2>2. ~LoadBuckets(p) /\ ~Push(p) /\ ~RecordBaseline(p)
    BY <1>0 DEF LoadBuckets, Push, RecordBaseline, At
  <2>3. ~Finish(p)
    BY <1>0 DEF Finish
  <2>4. PICK h \in Gateways : Compare(p, h)
    BY <1>1, <2>1, <2>2, <2>3 DEF PassStep
  <2> DEFINE x == [pass[p] EXCEPT !.todo = pass[p].todo \ {h}]
             y == [pass[p] EXCEPT !.todo = pass[p].todo \ {h}, !.pc = "push", !.gateway = h]
  <2>5. x.todo = pass[p].todo \ {h} /\ y.pc = "push"
    BY <1>0 DEF PassRecord
  <2>6. \/ pass' = [pass EXCEPT ![p] = x] /\ baseline[pass[p].on][h] = pass[p].loaded[h]
        \/ pass' = [pass EXCEPT ![p] = y]
    BY <1>0, <2>4 DEF Compare
  <2> HIDE DEF x, y
  <2> QED BY <1>0, <2>5, <2>6
<1>2. ASSUME NEW rt, NEW value, NEW target, SaveRoute(rt, value, target) PROVE FALSE
  <2>1. PICK h \in Hooks, r \in Replicas :
           /\ At(h, "idle")
           /\ pass' = [pass EXCEPT ![h] = [Idle EXCEPT !.pc = "load", !.on = r, !.target = target]]
    BY <1>0, <1>2 DEF SaveRoute
  <2> QED BY <1>0, <2>1 DEF At
<1>3. ASSUME NEW r \in Replicas, RunCycle(r) PROVE FALSE
  BY <1>0, <1>3 DEF RunCycle, At
<1>4. ASSUME NEW r \in Replicas, Restart(r) PROVE FALSE
  BY <1>0, <1>4 DEF Restart
<1> QED BY <1>0, <1>1, <1>2, <1>3, <1>4
        DEF Next, CreateModelRoute, UpdateModelRoute, DeleteModelRoute, LoseMasterKey, RestoreMasterKey,
            LoseSession, vars

\* Whatever replicas push beside each other, fail, restart and lose keys, a pass
\* leaves a gateway out only when the gateway has the settings already, or is
\* one of the three kinds of exceptions.
THEOREM SkippedGatewaysAreServed == Spec => ShortCircuitIsSafe
<1> DEFINE Safe == \A p \in Passes, g \in Gateways :
               At(p, "next") /\ g \in pass[p].todo /\ At(p, "next")' /\ g \notin pass'[p].todo
               => served[g] = pass[p].loaded[g] \/ Excused(g)
<1>1. ShortCircuitInv /\ [Next]_vars => [Safe]_vars
  <2> SUFFICES ASSUME ShortCircuitInv, [Next]_vars, NEW p \in Passes, NEW g \in Gateways,
                      At(p, "next"), g \in pass[p].todo, At(p, "next")', g \notin pass'[p].todo,
                      ~Excused(g)
               PROVE  served[g] = pass[p].loaded[g]
    OBVIOUS
  <2>1. TypeOK /\ Remembered(g) /\ BaselinesAreServed(g)
    BY DEF ShortCircuitInv, GatewayInv
  <2>2. pass[p].on \in Replicas /\ baseline[pass[p].on][g] = pass[p].loaded[g]
    BY <2>1, SkipsAreEqual DEF At
  <2>3. g \in Busy(p)
    BY DEF Busy, At
  <2> QED BY <2>1, <2>2, <2>3 DEF Remembered, BaselinesAreServed, Current
<1>2. Spec => [][Safe]_vars
  <2> HIDE DEF Safe
  <2> QED BY <1>1, ShortCircuitInit, ShortCircuitStep, PTL DEF Spec
<1> QED BY <1>2 DEF ShortCircuitIsSafe
=============================================================================
