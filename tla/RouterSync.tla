------------------------------ MODULE RouterSync -------------------------------
(***************************************************************************)
(* Router settings: the table model_routes, the mutations that change it    *)
(* (internal/graph/gateway-routing.resolvers.go) and the passes that push   *)
(* each gateway's settings to it (internal/graph/router_sync.go): one after *)
(* every mutation, in the background of the replica that served it, and one *)
(* in every cycle of the reconciler of the replica that holds the lease.    *)
(*                                                                          *)
(* The settings of a gateway are a function of its routes and stand for     *)
(* their hash; a pass never pushes empty settings.  Each replica remembers  *)
(* what it last pushed to a gateway and skips a push that would repeat it.  *)
(***************************************************************************)
EXTENDS LeaderLease

CONSTANTS
    Routes, Gateways, NoGateway,
    Contents,      \* what a route says: its models and its strategy
    Hooks,         \* passes started by mutations
    All,           \* the target of a pass over every gateway
    MaxEdits

ASSUME NullsAssumption == NoGateway \notin Gateways /\ All \notin Gateways
ASSUME PassesAssumption == Replicas \intersect Hooks = {}
ASSUME MaxEditsAssumption == MaxEdits \in Nat

VARIABLES
    route,    \* the table model_routes
    served,   \* the router settings of each gateway
    keyless,  \* gateways whose master key cannot be resolved
    baseline, \* lastRouterSettingsHash of each replica; {} is no entry
    pass,     \* the passes; a replica names the pass of its own cycle
    edits,
    crossed,  \* history: gateways on which two passes overlapped
    repeated, \* history: gateways whose settings became what they had been before
    skipped,  \* history: gateways a pass found without a master key
    past,     \* history: the settings each gateway has had
    unleased  \* history: replicas whose session ended under a running cycle

vars == <<route, served, keyless, baseline, pass, edits, crossed, repeated, skipped, past,
          unleased, lease, faults>>

Passes   == Replicas \union Hooks
Settings == SUBSET (Routes \X Contents)

PassRecord ==
    [pc : {"idle", "load", "next", "push", "record"},
     on : Replicas \union {NoReplica}, target : Gateways \union {All},
     loaded : [Gateways -> Settings], todo : SUBSET Gateways,
     gateway : Gateways \union {NoGateway}]

Idle == [pc |-> "idle", on |-> NoReplica, target |-> All,
         loaded |-> [g \in Gateways |-> {}], todo |-> {}, gateway |-> NoGateway]

TypeOK ==
    /\ route \in [Routes -> [gateway : Gateways \union {NoGateway}, content : Contents]]
    /\ served \in [Gateways -> Settings]
    /\ keyless \subseteq Gateways
    /\ baseline \in [Replicas -> [Gateways -> Settings]]
    /\ pass \in [Passes -> PassRecord]
    /\ \A p \in Passes : pass[p].pc # "idle" => pass[p].on \in Replicas
    /\ \A p \in Passes : pass[p].pc \in {"push", "record"} => pass[p].gateway \in Gateways
    /\ edits \in 0..MaxEdits
    /\ crossed \subseteq Gateways /\ repeated \subseteq Gateways /\ skipped \subseteq Gateways
    /\ past \in [Gateways -> SUBSET Settings]
    /\ unleased \subseteq Replicas
    /\ LeaseTypeOK

Init ==
    /\ route \in [Routes -> [gateway : {NoGateway}, content : Contents]]
    /\ served = [g \in Gateways |-> {}]
    /\ keyless = {}
    /\ baseline = [r \in Replicas |-> [g \in Gateways |-> {}]]
    /\ pass = [p \in Passes |-> Idle]
    /\ edits = 0
    /\ crossed = {} /\ repeated = {} /\ skipped = {} /\ unleased = {}
    /\ past = [g \in Gateways |-> {{}}]
    /\ LeaseInit /\ faults = 0

\* AggregateRouterSettings of the gateway's bucket; no routes, no bucket.
SettingsIn(table, g) ==
    {<<rt, table[rt].content>> : rt \in {x \in Routes : table[x].gateway = g}}

SettingsOf(g) == SettingsIn(route, g)

At(p, pc) == pass[p].pc = pc
Busy(p)   == IF pass[p].pc \in {"push", "record"} THEN pass[p].todo \union {pass[p].gateway}
                                                  ELSE pass[p].todo

history == <<crossed, repeated, skipped, past>>

(***************************************************************************)
(* Mutations.  The save and the start of the pass are one step: only a save *)
(* whose answer is lost is not followed by a pass.                          *)
(***************************************************************************)
SaveRoute(rt, value, target) ==
    /\ edits < MaxEdits /\ edits' = edits + 1
    /\ route' = [route EXCEPT ![rt] = value]
    /\ repeated' = repeated \union
           {g \in Gateways : SettingsIn(route', g) # SettingsOf(g) /\ SettingsIn(route', g) \in past[g]}
    /\ past' = [g \in Gateways |-> past[g] \union {SettingsIn(route', g)}]
    /\ \/ /\ NoFault
          /\ \E h \in Hooks, r \in Replicas :
                /\ At(h, "idle")
                /\ pass' = [pass EXCEPT ![h] = [Idle EXCEPT !.pc = "load", !.on = r, !.target = target]]
       \/ Fault /\ UNCHANGED pass
    /\ UNCHANGED <<served, keyless, baseline, crossed, skipped, unleased, lease>>

CreateModelRoute(rt, g, content) ==
    /\ route[rt].gateway = NoGateway
    /\ SaveRoute(rt, [gateway |-> g, content |-> content], g)

\* Pushes to the gateway the route is at afterwards, not to the one it leaves.
UpdateModelRoute(rt, g, content) ==
    /\ route[rt].gateway # NoGateway /\ route[rt] # [gateway |-> g, content |-> content]
    /\ SaveRoute(rt, [gateway |-> g, content |-> content], g)

DeleteModelRoute(rt) ==
    /\ route[rt].gateway # NoGateway
    /\ SaveRoute(rt, [route[rt] EXCEPT !.gateway = NoGateway], route[rt].gateway)

(***************************************************************************)
(* SyncRouterSettingsShortCircuit                                           *)
(***************************************************************************)
End(p) == pass' = [pass EXCEPT ![p] = Idle]

\* A pass for one gateway that finds no routes there ends, and pushes nothing.
LoadBuckets(p) ==
    LET wanted == IF pass[p].target = All THEN Gateways ELSE {pass[p].target}
        todo   == {g \in wanted : SettingsOf(g) # {}}
    IN  /\ At(p, "load")
        /\ \/ /\ NoFault
              /\ IF todo = {} /\ pass[p].target # All
                 THEN End(p)
                 ELSE pass' = [pass EXCEPT ![p].pc = "next", ![p].todo = todo,
                                           ![p].loaded = [g \in Gateways |-> SettingsOf(g)]]
              /\ crossed' = crossed \union
                     (todo \intersect UNION {Busy(q) : q \in Passes \ {p}})
           \/ Fault /\ End(p) /\ UNCHANGED crossed
        /\ UNCHANGED <<route, served, keyless, baseline, edits, repeated, skipped, past,
                       unleased, lease>>

\* Mutant: once a gateway has been pushed to, it is not pushed to again.
CompareOnce(p, g) ==
    /\ At(p, "next") /\ g \in pass[p].todo
    /\ pass' = IF baseline[pass[p].on][g] # {}
               THEN [pass EXCEPT ![p].todo = @ \ {g}]
               ELSE [pass EXCEPT ![p].todo = @ \ {g}, ![p].pc = "push", ![p].gateway = g]
    /\ UNCHANGED <<route, served, keyless, baseline, edits, history, unleased, lease, faults>>

\* Mutant: the push is started before its gateway is chosen.
CompareUnchosen(p, g) ==
    /\ At(p, "next") /\ g \in pass[p].todo
    /\ pass' = IF baseline[pass[p].on][g] = pass[p].loaded[g]
               THEN [pass EXCEPT ![p].todo = @ \ {g}]
               ELSE [pass EXCEPT ![p].todo = @ \ {g}, ![p].pc = "push"]
    /\ UNCHANGED <<route, served, keyless, baseline, edits, history, unleased, lease, faults>>

\* The buckets are visited in any order (range over a map).
Compare(p, g) ==
    /\ At(p, "next") /\ g \in pass[p].todo
    /\ pass' = IF baseline[pass[p].on][g] = pass[p].loaded[g]
               THEN [pass EXCEPT ![p].todo = @ \ {g}]
               ELSE [pass EXCEPT ![p].todo = @ \ {g}, ![p].pc = "push", ![p].gateway = g]
    /\ UNCHANGED <<route, served, keyless, baseline, edits, history, unleased, lease, faults>>

Pushed(p) == [served EXCEPT ![pass[p].gateway] = pass[p].loaded[pass[p].gateway]]

\* Mutant: a failed push is recorded like one that succeeded.
PushUnchecked(p) ==
    /\ At(p, "push")
    /\ pass' = [pass EXCEPT ![p].pc = "record"]
    /\ \/ NoFault /\ served' = Pushed(p)
       \/ Fault /\ UNCHANGED served
    /\ UNCHANGED <<route, keyless, baseline, edits, history, unleased, lease>>

\* A gateway that has no master key counts as pushed to.  A failed push may
\* have reached the gateway.
Push(p) ==
    /\ At(p, "push")
    /\ \/ /\ pass[p].gateway \notin keyless /\ NoFault
          /\ served' = Pushed(p)
          /\ pass' = [pass EXCEPT ![p].pc = "record"]
          /\ UNCHANGED skipped
       \/ /\ pass[p].gateway \in keyless /\ NoFault
          /\ skipped' = skipped \union {pass[p].gateway}
          /\ pass' = [pass EXCEPT ![p].pc = "record"]
          /\ UNCHANGED served
       \/ /\ pass[p].gateway \notin keyless /\ Fault
          /\ served' \in {served, Pushed(p)}
          /\ pass' = [pass EXCEPT ![p].pc = "next", ![p].gateway = NoGateway]
          /\ UNCHANGED skipped
    /\ UNCHANGED <<route, keyless, baseline, edits, crossed, repeated, past, unleased, lease>>

RecordBaseline(p) ==
    LET g == pass[p].gateway
    IN  /\ At(p, "record")
        /\ baseline' = [baseline EXCEPT ![pass[p].on][g] = pass[p].loaded[g]]
        /\ pass' = [pass EXCEPT ![p].pc = "next", ![p].gateway = NoGateway]
        /\ UNCHANGED <<route, served, keyless, edits, history, unleased, lease, faults>>

\* A pass over all gateways forgets those without routes.
Finish(p) ==
    /\ At(p, "next") /\ pass[p].todo = {}
    /\ baseline' = IF pass[p].target = All
                   THEN [baseline EXCEPT ![pass[p].on] =
                          [g \in Gateways |-> IF pass[p].loaded[g] = {} THEN {} ELSE @[g]]]
                   ELSE baseline
    /\ End(p)
    /\ unleased' = unleased \ {p}
    /\ UNCHANGED <<route, served, keyless, edits, history, lease, faults>>

PassStep(p) ==
    \/ LoadBuckets(p)
    \/ \E g \in Gateways : Compare(p, g)
    \/ Push(p) \/ RecordBaseline(p) \/ Finish(p)

(***************************************************************************)
(* The reconciler's cycle, and the replicas                                 *)
(***************************************************************************)
RunCycle(r) ==
    /\ At(r, "idle")
    /\ \E yes \in BOOLEAN :
          /\ IsLeader(r, yes)
          /\ pass' = IF yes THEN [pass EXCEPT ![r] = [Idle EXCEPT !.pc = "load", !.on = r]]
                            ELSE pass
    /\ UNCHANGED <<route, served, keyless, baseline, edits, history, unleased>>

LoseSession(r) ==
    /\ SessionEnds(r)
    /\ unleased' = IF At(r, "idle") THEN unleased ELSE unleased \union {r}
    /\ UNCHANGED <<route, served, keyless, baseline, pass, edits, history>>

Restart(r) ==
    /\ Fault /\ Release(r)
    /\ baseline' = [baseline EXCEPT ![r] = [g \in Gateways |-> {}]]
    /\ pass' = [p \in Passes |-> IF pass[p].on = r THEN Idle ELSE pass[p]]
    /\ unleased' = unleased \ {r}
    /\ UNCHANGED <<route, served, keyless, edits, history>>

LoseMasterKey(g) ==
    /\ Fault /\ keyless' = keyless \union {g}
    /\ UNCHANGED <<route, served, baseline, pass, edits, history, unleased, lease>>

RestoreMasterKey(g) ==
    /\ g \in keyless /\ keyless' = keyless \ {g}
    /\ UNCHANGED <<route, served, baseline, pass, edits, history, unleased, lease, faults>>

Next ==
    \/ \E rt \in Routes, g \in Gateways, content \in Contents :
           CreateModelRoute(rt, g, content) \/ UpdateModelRoute(rt, g, content)
    \/ \E rt \in Routes : DeleteModelRoute(rt)
    \/ \E p \in Passes : PassStep(p)
    \/ \E r \in Replicas : RunCycle(r) \/ LoseSession(r) \/ Restart(r)
    \/ \E g \in Gateways : LoseMasterKey(g) \/ RestoreMasterKey(g)

Spec == Init /\ [][Next]_vars

\* A pass makes its calls under a timeout, the ticker of every replica keeps
\* starting cycles.
FairSpec ==
    /\ Spec
    /\ \A p \in Passes : WF_vars(PassStep(p))
    /\ \A r \in Replicas : WF_vars(RunCycle(r))

(***************************************************************************)
(* Properties                                                               *)
(***************************************************************************)
\* A cycle runs without the lease only when the session ended after the cycle
\* had begun: a replica that lost its connection does not begin another cycle
\* beside the new leader's (leader.go:38-68, reconcile.go:143-153).
CyclesHoldLease ==
    \A r \in Replicas : ~At(r, "idle") => lock = r \/ r \in unleased

Excused(g) == g \in crossed \union repeated \union skipped

\* A pass skips a gateway only when the gateway already has the settings,
\* though other replicas push to it too, unless passes overlapped there, the
\* settings went back to an earlier value, or a push was skipped for want of a
\* master key (router_sync.go:62-83).
ShortCircuitIsSafe ==
    [][\A p \in Passes, g \in Gateways :
           At(p, "next") /\ g \in pass[p].todo /\ At(p, "next")' /\ g \notin pass'[p].todo
           => served[g] = pass[p].loaded[g] \/ Excused(g)]_vars

\* The periodic pass is the safety net: once the routes stop changing, every
\* gateway that has routes gets its settings although pushes fail, hooks are
\* lost, replicas restart and leaders change, with the same three exceptions
\* (router_sync.go:30-42, 185-202).
SettingsConverge ==
    \A g \in Gateways :
        <>[](SettingsOf(g) = {} \/ Excused(g) \/ served[g] = SettingsOf(g))
=============================================================================
