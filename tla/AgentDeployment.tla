---------------------------- MODULE AgentDeployment ----------------------------
(***************************************************************************)
(* Deployment of agents and what operators do to them (internal/graph:      *)
(* DeployAgent, its goroutine and its rollbacks, RecycleAgent,              *)
(* HardDeleteAgent, SetAgentStatus, RestartAgent, RevokeAgentEnrollment;    *)
(* internal/deploy/service.go), with the enrollments of the agents' VMs.    *)
(*                                                                          *)
(* A deployment writes four stores without a transaction: the tables agents *)
(* and virtual_keys, the gateway and the vCenter.  It undoes its steps      *)
(* itself when one fails.  The VM name derives from the agent's id, so it   *)
(* is the agent that names the VM; the key a deployment mints is named      *)
(* after its agent too, and Spare is a stored, unbound key that a           *)
(* deployment may reuse.                                                    *)
(***************************************************************************)
EXTENDS Enrollment

CONSTANTS
    Spare, NoKey, NoAgent,
    Daemons, \* the agents whose VM carries a daemon
    Plans,  \* the deployments that clients ask for: triples <<agent, mode, key>>
    MaxOps  \* bound on operations on existing agents

Keys  == Agents \union {Spare}
Modes == {"full", "instant"}

ASSUME PlansAssumption == Plans \subseteq UNION {{a} \X Modes \X {a, Spare} : a \in Agents}
ASSUME DaemonsAssumption == Daemons \subseteq Agents
ASSUME NamesAssumption == Spare \notin Agents /\ NoKey \notin Keys /\ NoAgent \notin Agents
ASSUME MaxOpsAssumption == MaxOps \in Nat

VARIABLES
    row,     \* the table agents
    keyrow,  \* the table virtual_keys
    gkey,    \* the keys at the gateway
    vm,      \* the VMs at the vCenter
    deploy,  \* the DeployAgent call for each agent and the goroutine it starts
    op,      \* the operation on an existing agent being served
    logged,  \* history: what the log names as left behind
    unheard, \* history: keys and VMs made by a call that failed, keys whose row was not
             \* read, keys ("client") for whose gateway there was no client
    overtaken, \* history: agents operated on while their deployment was under way
    interrupted, \* history: agents whose operation was cut short by a crash
    ops

vars == <<row, keyrow, gkey, vm, deploy, op, logged, unheard, overtaken, interrupted, ops,
          credentials, faults>>

(***************************************************************************)
(* "building" stands for the statuses from cloning to service_starting.     *)
(***************************************************************************)
AgentStatus == {"provisioning", "building", "running", "stopped", "failed"}

RowRecord ==
    [status : AgentStatus \union {"none"}, vmRef : BOOLEAN, key : Keys \union {NoKey}]

NoRow == [status |-> "none", vmRef |-> FALSE, key |-> NoKey]

KeyRecord == [status : {"none", "active", "revoked"}, agent : Agents \union {NoAgent}]

NoKeyRow == [status |-> "none", agent |-> NoAgent]

(***************************************************************************)
(* key is the key the client asked to use: the agent's own, to be minted,   *)
(* or Spare.  async tells that the call has been answered and its goroutine *)
(* runs, nilRow that the variable ag is nil.                                *)
(***************************************************************************)
Ended == {"idle", "refused", "done", "failed", "panicked", "crashed"}

DeployRecord ==
    [pc : Ended \union
          {"lookup", "enroll", "instant", "mint", "persist", "bind", "record",
           "connect", "clone", "guestinfo", "power_on", "destroy", "finalize",
           "undo_key", "undo_mint", "mark_failed", "drop_row", "drop_enrollment",
           "save_phase", "work", "cancel_key"},
     mode : Modes, key : Keys \union {NoKey}, async : BOOLEAN, nilRow : BOOLEAN, phase : 0..4]

NotAsked ==
    [pc |-> "idle", mode |-> "full", key |-> NoKey, async |-> FALSE, nilRow |-> FALSE, phase |-> 0]

OpKinds == {"recycle", "hard_delete", "power_on", "power_off", "restart", "revoke"}

OpRecord ==
    [pc : {"idle", "destroy", "revoke_key", "mark_key", "unbind", "drop_row",
           "drop_enrollment", "revoke_enrollment", "power", "save"},
     kind : OpKinds, agent : Agents \union {NoAgent}, key : Keys \union {NoKey}]

NoOp == [pc |-> "idle", kind |-> "recycle", agent |-> NoAgent, key |-> NoKey]

Resources == {"row", "key", "keyrow", "binding", "vm", "enrollment"}

TypeOK ==
    /\ row \in [Agents -> RowRecord]
    /\ keyrow \in [Keys -> KeyRecord]
    /\ gkey \in [Keys -> {"none", "live", "dead"}]
    /\ vm \in [Agents -> {"none", "off", "on"}]
    /\ deploy \in [Agents -> DeployRecord]
    /\ \A a \in Agents : deploy[a].pc # "idle" => deploy[a].key \in {a, Spare}
    /\ op \in OpRecord
    /\ op.pc # "idle" => op.agent \in Agents
    /\ op.pc \in {"revoke_key", "mark_key", "unbind"} => op.key \in Keys
    /\ logged \subseteq Resources \X Keys
    /\ unheard \subseteq {"key", "vm", "client"} \X Keys
    /\ overtaken \subseteq Agents /\ interrupted \subseteq Agents
    /\ ops \in 0..MaxOps
    /\ faults \in 0..MaxFaults
    /\ EnrollmentTypeOK

Init ==
    /\ row = [a \in Agents |-> NoRow]
    /\ keyrow = [k \in Keys |-> IF k = Spare THEN [NoKeyRow EXCEPT !.status = "active"]
                                             ELSE NoKeyRow]
    /\ gkey = [k \in Keys |-> IF k = Spare THEN "live" ELSE "none"]
    /\ vm = [a \in Agents |-> "none"]
    /\ deploy = [a \in Agents |-> NotAsked]
    /\ op = NoOp
    /\ logged = {} /\ unheard = {} /\ overtaken = {} /\ interrupted = {}
    /\ ops = 0 /\ faults = 0
    /\ EnrollmentInit

At(a, pc)   == deploy[a].pc = pc
Goto(a, pc) == deploy' = [deploy EXCEPT ![a].pc = pc]
Exists(a)   == row[a].status # "none"
Reuses(a)   == deploy[a].key = Spare
Log(what)   == logged' = logged \union {what}

stores == <<row, keyrow, gkey, vm>>
notes  == <<logged, unheard>>
ofOps  == <<op, ops, overtaken, interrupted>>

\* The last step of a rollback of the call is deleteAgentRow, of the goroutine
\* the agent is marked failed.
Undone(a) == IF deploy[a].async THEN "mark_failed" ELSE "drop_row"

(***************************************************************************)
(* DeployAgent, up to the key                                               *)
(***************************************************************************)
DeployAgent(a, mode, key) ==
    /\ At(a, "idle")
    /\ row' = [row EXCEPT ![a] = [NoRow EXCEPT !.status = "provisioning"]]
    /\ deploy' = [deploy EXCEPT ![a] =
            [NotAsked EXCEPT !.pc = IF key = Spare THEN "lookup" ELSE "enroll",
                             !.mode = mode, !.key = key]]
    /\ UNCHANGED <<keyrow, gkey, vm, notes, ofOps, credentials, faults>>

LookupExistingKey(a) ==
    /\ At(a, "lookup")
    /\ \/ keyrow[Spare] = [status |-> "active", agent |-> NoAgent] /\ Goto(a, "enroll") /\ NoFault
       \/ keyrow[Spare] # [status |-> "active", agent |-> NoAgent] /\ Goto(a, "drop_row") /\ NoFault
       \/ Goto(a, "drop_row") /\ Fault
    /\ UNCHANGED <<stores, notes, ofOps, credentials>>

Enroll(a) ==
    /\ At(a, "enroll")
    /\ \/ /\ IssueEnrollment(a) /\ NoFault
          /\ Goto(a, CASE deploy[a].mode = "instant" -> "instant"
                       [] deploy[a].mode = "full" /\ Reuses(a) -> "bind"
                       [] OTHER -> "mint")
       \/ Fault /\ Goto(a, "drop_row") /\ UNCHANGED credentials
    /\ UNCHANGED <<stores, notes, ofOps>>

\* Connects; deployAgentInstant then refuses a call without a parent VM or
\* without a model, and only a reused key brings models.  It undoes nothing.
StartInstant(a) ==
    /\ At(a, "instant")
    /\ \/ Reuses(a) /\ Goto(a, "mint") /\ NoFault
       \/ Goto(a, "refused") /\ NoFault
       \/ Goto(a, "drop_row") /\ Fault
    /\ UNCHANGED <<stores, notes, ofOps, credentials>>

\* The instant path mints a key even when the call reuses one.
GenerateKey(a) ==
    /\ At(a, "mint")
    /\ \/ /\ NoFault /\ UNCHANGED unheard
          /\ gkey' = [gkey EXCEPT ![a] = "live"]
          /\ deploy' = [deploy EXCEPT
                 ![a].pc = IF deploy[a].mode = "full" THEN "persist" ELSE "save_phase",
                 ![a].phase = IF deploy[a].mode = "full" THEN 0 ELSE 1]
       \/ Fault /\ Goto(a, "drop_row") /\ UNCHANGED <<gkey, unheard>>
       \/ /\ Fault /\ Goto(a, "drop_row")
          /\ gkey' = [gkey EXCEPT ![a] = "live"]
          /\ unheard' = unheard \union {<<"key", a>>}
    /\ UNCHANGED <<row, keyrow, vm, logged, ofOps, credentials>>

\* The row of a key minted by the instant path names no agent; the others need
\* the agent's row (foreign key).
PersistKey(a) ==
    LET full == deploy[a].mode = "full"
    IN  /\ At(a, "persist")
        /\ \/ /\ full => Exists(a)
              /\ keyrow' = [keyrow EXCEPT ![a] =
                     [status |-> "active", agent |-> IF full THEN a ELSE NoAgent]]
              /\ Goto(a, "record") /\ NoFault
           \/ /\ IF full /\ ~Exists(a) THEN NoFault ELSE Fault
              /\ Goto(a, IF full THEN "undo_mint" ELSE "cancel_key")
              /\ UNCHANGED keyrow
        /\ UNCHANGED <<row, gkey, vm, notes, ofOps, credentials>>

\* Does not look at the key's status or agent again.
BindExistingKey(a) ==
    /\ At(a, "bind")
    /\ \/ /\ Exists(a) /\ NoFault
          /\ keyrow' = [keyrow EXCEPT ![Spare].agent = a]
          /\ Goto(a, "record")
       \/ /\ IF Exists(a) THEN Fault ELSE NoFault
          /\ Goto(a, "drop_row") /\ UNCHANGED keyrow
    /\ UNCHANGED <<row, gkey, vm, notes, ofOps, credentials>>

\* The full path answers here and goes on in a goroutine.
RecordAgent(a) ==
    LET full == deploy[a].mode = "full"
    IN  /\ At(a, "record")
        /\ \/ /\ Exists(a) /\ NoFault
              /\ row' = [row EXCEPT ![a] =
                     [status |-> IF full THEN "provisioning" ELSE "running", vmRef |-> TRUE,
                      key |-> IF full THEN deploy[a].key ELSE a]]
              /\ deploy' = [deploy EXCEPT ![a].pc = IF full THEN "connect" ELSE "done",
                                          ![a].async = full]
           \/ /\ IF Exists(a) THEN Fault ELSE NoFault
              /\ Goto(a, IF full THEN "undo_key" ELSE "destroy")
              /\ UNCHANGED row
        /\ UNCHANGED <<keyrow, gkey, vm, notes, ofOps, credentials>>

(***************************************************************************)
(* startFullDeployAsync and Provision                                       *)
(***************************************************************************)
ConnectVCenter(a) ==
    /\ At(a, "connect")
    /\ \/ Goto(a, "clone") /\ NoFault
       \/ Goto(a, "undo_key") /\ Fault
    /\ UNCHANGED <<stores, notes, ofOps, credentials>>

\* A clone whose task outlives the wait for it, or whose VM cannot be read
\* back, is an error and a VM.
CloneFromTemplate(a) ==
    /\ At(a, "clone")
    /\ \/ /\ Goto(a, "guestinfo") /\ NoFault
          /\ vm' = [vm EXCEPT ![a] = "off"] /\ UNCHANGED unheard
       \/ Goto(a, "undo_key") /\ Fault /\ UNCHANGED <<vm, unheard>>
       \/ /\ Goto(a, "undo_key") /\ Fault
          /\ vm' = [vm EXCEPT ![a] = "off"]
          /\ unheard' = unheard \union {<<"vm", a>>}
    /\ UNCHANGED <<row, keyrow, gkey, logged, ofOps, credentials>>

SetGuestinfo(a) ==
    /\ At(a, "guestinfo")
    /\ \/ vm[a] # "none" /\ Goto(a, "power_on") /\ NoFault
       \/ Goto(a, "destroy") /\ IF vm[a] = "none" THEN NoFault ELSE Fault
    /\ UNCHANGED <<stores, notes, ofOps, credentials>>

\* Mutant: a failure to power the VM on is only logged.
PowerOnIgnoringErrors(a) ==
    /\ At(a, "power_on") /\ Goto(a, "finalize")
    /\ \/ vm[a] = "off" /\ NoFault /\ vm' = [vm EXCEPT ![a] = "on"]
       \/ (IF vm[a] = "off" THEN Fault ELSE NoFault) /\ UNCHANGED vm
    /\ UNCHANGED <<row, keyrow, gkey, notes, ofOps, credentials>>

PowerOn(a) ==
    /\ At(a, "power_on")
    /\ \/ /\ vm[a] = "off" /\ Goto(a, "finalize") /\ NoFault
          /\ vm' = [vm EXCEPT ![a] = "on"]
       \/ /\ Goto(a, "destroy") /\ UNCHANGED vm
          /\ IF vm[a] = "off" THEN Fault ELSE NoFault
    /\ UNCHANGED <<row, keyrow, gkey, notes, ofOps, credentials>>

\* Provision's rollback, which never revokes the key because the key was
\* handed to it, and the first step of rollbackDeployCreate.
DestroyVM(a) ==
    /\ At(a, "destroy")
    /\ Goto(a, IF deploy[a].mode = "full" THEN "undo_key" ELSE "undo_mint")
    /\ \/ /\ vm[a] # "none" /\ NoFault
          /\ vm' = [vm EXCEPT ![a] = "none"] /\ UNCHANGED logged
       \/ /\ IF vm[a] = "none" THEN NoFault ELSE Fault
          /\ Log(<<"vm", a>>) /\ UNCHANGED vm
    /\ UNCHANGED <<row, keyrow, gkey, unheard, ofOps, credentials>>

\* When the row cannot be saved the goroutine fails the agent and keeps the VM.
Finalize(a) ==
    /\ At(a, "finalize")
    /\ \/ /\ Exists(a) /\ NoFault
          /\ row' = [row EXCEPT ![a] =
                 [status |-> "running", vmRef |-> TRUE, key |-> deploy[a].key]]
          /\ Goto(a, "done")
       \/ /\ IF Exists(a) THEN Fault ELSE NoFault
          /\ Goto(a, "undo_key") /\ UNCHANGED row
    /\ UNCHANGED <<keyrow, gkey, vm, notes, ofOps, credentials>>

(***************************************************************************)
(* Rollback: failAsyncFullDeploy, and the same steps in the call            *)
(***************************************************************************)
\* Mutant: the rollback deletes the row of a minted key and forgets that a reused
\* one is bound.
UndoMintedKeyOnly(a) ==
    /\ At(a, "undo_key")
    /\ Goto(a, IF Reuses(a) THEN Undone(a) ELSE "undo_mint")
    /\ keyrow' = IF Reuses(a) THEN keyrow ELSE [keyrow EXCEPT ![a] = NoKeyRow]
    /\ UNCHANGED <<row, gkey, vm, notes, ofOps, credentials, faults>>

\* A reused key is released, the row of a minted one deleted.
UndoKey(a) ==
    /\ At(a, "undo_key")
    /\ Goto(a, IF Reuses(a) THEN Undone(a) ELSE "undo_mint")
    /\ \/ /\ NoFault /\ UNCHANGED logged
          /\ keyrow' = IF Reuses(a) THEN [keyrow EXCEPT ![Spare].agent = NoAgent]
                                    ELSE [keyrow EXCEPT ![a] = NoKeyRow]
       \/ /\ Fault /\ UNCHANGED keyrow
          /\ Log(IF Reuses(a) THEN <<"binding", Spare>> ELSE <<"keyrow", a>>)
    /\ UNCHANGED <<row, gkey, vm, unheard, ofOps, credentials>>

\* DeleteKey of the gateway: refused for a key it does not have, and its answer
\* may be lost.  ok tells whether the caller sees success.
DeleteKey(k, ok) ==
    \/ ok /\ gkey[k] = "live" /\ NoFault /\ gkey' = [gkey EXCEPT ![k] = "dead"]
    \/ ~ok /\ gkey[k] # "live" /\ NoFault /\ UNCHANGED gkey
    \/ ~ok /\ gkey[k] = "live" /\ Fault /\ gkey' \in {gkey, [gkey EXCEPT ![k] = "dead"]}

RevokeDeployKey(a) ==
    /\ At(a, "undo_mint") /\ Goto(a, Undone(a))
    /\ \/ DeleteKey(a, TRUE) /\ UNCHANGED logged
       \/ DeleteKey(a, FALSE) /\ Log(<<"key", a>>)
    /\ UNCHANGED <<row, keyrow, vm, unheard, ofOps, credentials>>

MarkFailed(a) ==
    /\ At(a, "mark_failed") /\ Goto(a, "failed")
    /\ \/ /\ Exists(a) /\ NoFault
          /\ row' = [row EXCEPT ![a].status = "failed"] /\ UNCHANGED logged
       \/ /\ IF Exists(a) THEN Fault ELSE NoFault
          /\ Log(<<"row", a>>) /\ UNCHANGED row
    /\ UNCHANGED <<keyrow, gkey, vm, unheard, ofOps, credentials>>

\* Deleting a row clears the agent_id of the keys bound to it (foreign key).
DeleteRow(a) ==
    /\ row' = [row EXCEPT ![a] = NoRow]
    /\ keyrow' = [k \in Keys |-> IF keyrow[k].agent = a THEN [keyrow[k] EXCEPT !.agent = NoAgent]
                                                        ELSE keyrow[k]]

DropRow(a) ==
    /\ At(a, "drop_row") /\ Goto(a, "drop_enrollment")
    /\ \/ Exists(a) /\ NoFault /\ DeleteRow(a) /\ UNCHANGED logged
       \/ /\ IF Exists(a) THEN Fault ELSE NoFault
          /\ Log(<<"row", a>>) /\ UNCHANGED <<row, keyrow>>
    /\ UNCHANGED <<gkey, vm, unheard, ofOps, credentials>>

DropEnrollment(a) ==
    /\ At(a, "drop_enrollment") /\ Goto(a, "refused")
    /\ \/ DeleteEnrollment(a) /\ NoFault /\ UNCHANGED logged
       \/ Fault /\ Log(<<"enrollment", a>>) /\ UNCHANGED credentials
    /\ UNCHANGED <<stores, unheard, ofOps>>

(***************************************************************************)
(* deployAgentInstant: four phases, each a save of the agent's status and   *)
(* then work on the VM: 1 clone, 2 guest customisation, 3 network, reboot   *)
(* and guestinfo, 4 wait for the service.  Every failed save leaves ag nil, *)
(* and deleteAgentRow(nil) panics after the key was deleted.                *)
(***************************************************************************)
SavePhase(a) ==
    /\ At(a, "save_phase")
    /\ \/ /\ Exists(a) /\ NoFault /\ Goto(a, "work")
          /\ row' = [row EXCEPT ![a].status = "building"]
       \/ /\ IF Exists(a) THEN Fault ELSE NoFault
          /\ deploy' = [deploy EXCEPT ![a].pc = "cancel_key", ![a].nilRow = TRUE]
          /\ UNCHANGED row
    /\ UNCHANGED <<keyrow, gkey, vm, notes, ofOps, credentials>>

NextPhase(a) ==
    deploy' = IF deploy[a].phase = 4
              THEN [deploy EXCEPT ![a].pc = "persist"]
              ELSE [deploy EXCEPT ![a].pc = "save_phase", ![a].phase = @ + 1]

\* After the clone, a call without a guest password ends without cleanup.
InstantClone(a) ==
    /\ At(a, "work") /\ deploy[a].phase = 1
    /\ \/ /\ vm' = [vm EXCEPT ![a] = "on"]
          /\ NextPhase(a) \/ Goto(a, "refused")
          /\ NoFault
          /\ UNCHANGED unheard
       \/ Goto(a, "cancel_key") /\ Fault /\ UNCHANGED <<vm, unheard>>
       \/ /\ Goto(a, "cancel_key") /\ Fault
          /\ vm' = [vm EXCEPT ![a] = "on"]
          /\ unheard' = unheard \union {<<"vm", a>>}
    /\ UNCHANGED <<row, keyrow, gkey, logged, ofOps, credentials>>

\* The outcome of the customisation is ignored.  A failure of a later phase may
\* mark the agent failed; when that save fails too, ag is nil.
InstantWork(a) ==
    /\ At(a, "work") /\ deploy[a].phase > 1
    /\ \/ /\ deploy[a].phase = 2 \/ vm[a] = "on"
          /\ NextPhase(a) /\ NoFault /\ UNCHANGED row
       \/ /\ deploy[a].phase > 2
          /\ IF vm[a] = "on" THEN Fault ELSE NoFault
          /\ \/ Goto(a, "cancel_key") /\ UNCHANGED row
             \/ /\ Exists(a) /\ row' = [row EXCEPT ![a].status = "failed"]
                /\ Goto(a, "cancel_key")
             \/ /\ UNCHANGED row
                /\ deploy' = [deploy EXCEPT ![a].pc = "cancel_key", ![a].nilRow = TRUE]
    /\ UNCHANGED <<keyrow, gkey, vm, notes, ofOps, credentials>>

\* The rollback of the instant path keeps the VM, which it logs once the clone
\* has succeeded, and ignores the gateway's error.
CancelKey(a) ==
    /\ At(a, "cancel_key") /\ Goto(a, IF deploy[a].nilRow THEN "panicked" ELSE "drop_row")
    /\ \E ok \in BOOLEAN : DeleteKey(a, ok)
    /\ IF deploy[a].phase > 1 THEN Log(<<"vm", a>>) ELSE UNCHANGED logged
    /\ UNCHANGED <<row, keyrow, vm, unheard, ofOps, credentials>>

\* The process that serves the call or runs the goroutine stops.
CrashDeploy(a) ==
    /\ deploy[a].pc \notin Ended
    /\ Fault /\ Goto(a, "crashed")
    /\ UNCHANGED <<stores, notes, ofOps, credentials>>

DeployStep(a) ==
    \/ LookupExistingKey(a) \/ Enroll(a) \/ StartInstant(a) \/ GenerateKey(a)
    \/ PersistKey(a) \/ BindExistingKey(a) \/ RecordAgent(a)
    \/ ConnectVCenter(a) \/ CloneFromTemplate(a) \/ SetGuestinfo(a) \/ PowerOn(a)
    \/ DestroyVM(a) \/ Finalize(a)
    \/ UndoKey(a) \/ RevokeDeployKey(a) \/ MarkFailed(a) \/ DropRow(a) \/ DropEnrollment(a)
    \/ SavePhase(a) \/ InstantClone(a) \/ InstantWork(a) \/ CancelKey(a)

(***************************************************************************)
(* Operations on an existing agent work on the row they loaded.             *)
(***************************************************************************)
Idle == op' = NoOp /\ UNCHANGED <<ops, overtaken, interrupted>>

OpAt(pc)   == op.pc = pc
OpGoto(pc) == op' = [op EXCEPT !.pc = pc] /\ UNCHANGED <<ops, overtaken, interrupted>>

\* Mutant: only a hard delete revokes the agent's key.
AfterVMWithoutKey(kind, key) ==
    CASE kind = "power_on" \/ kind = "power_off" \/ kind = "restart" -> "save"
      [] kind = "hard_delete" /\ key # NoKey -> "revoke_key"
      [] kind = "hard_delete" /\ key = NoKey -> "drop_row"
      [] OTHER -> "revoke_enrollment"

\* Mutant: an agent without a key is not told from one with a key.
AfterVMWithAnyKey(kind, key) ==
    CASE kind = "power_on" \/ kind = "power_off" \/ kind = "restart" -> "save"
      [] kind = "revoke" -> "revoke_enrollment"
      [] OTHER -> "revoke_key"

\* The step after the VM has been dealt with.
AfterVM(kind, key) ==
    CASE kind = "power_on" \/ kind = "power_off" \/ kind = "restart" -> "save"
      [] kind = "revoke" \/ (kind = "recycle" /\ key = NoKey) -> "revoke_enrollment"
      [] kind \in {"recycle", "hard_delete"} /\ key # NoKey -> "revoke_key"
      [] OTHER -> "drop_row"

Start(a, kind) ==
    /\ OpAt("idle") /\ ops < MaxOps /\ Exists(a)
    /\ kind = "restart" => row[a].vmRef
    /\ op' = [pc |-> CASE ~row[a].vmRef \/ kind = "revoke" -> AfterVM(kind, row[a].key)
                       [] row[a].vmRef /\ kind \in {"recycle", "hard_delete"} -> "destroy"
                       [] OTHER -> "power",
              kind |-> kind, agent |-> a, key |-> row[a].key]
    /\ ops' = ops + 1
    /\ overtaken' = IF deploy[a].pc \in Ended THEN overtaken ELSE overtaken \union {a}
    /\ UNCHANGED interrupted
    /\ UNCHANGED <<stores, deploy, notes, credentials, faults>>

\* A VM that cannot be destroyed ends a recycle, a hard delete logs it.
OpDestroy ==
    LET a == op.agent
    IN  /\ OpAt("destroy")
        /\ \/ /\ vm[a] # "none" /\ NoFault
              /\ vm' = [vm EXCEPT ![a] = "none"]
              /\ OpGoto(AfterVM(op.kind, op.key)) /\ UNCHANGED logged
           \/ /\ IF vm[a] = "none" THEN NoFault ELSE Fault
              /\ IF op.kind = "recycle"
                 THEN Idle /\ UNCHANGED logged
                 ELSE OpGoto(AfterVM(op.kind, op.key)) /\ Log(<<"vm", a>>)
              /\ UNCHANGED vm
        /\ UNCHANGED <<row, keyrow, gkey, deploy, unheard, credentials>>

AfterKey == IF op.kind = "recycle" THEN "revoke_enrollment" ELSE "unbind"

\* Both resolvers pass over a key whose row they cannot read, without a word.
\* Without a client, because the gateway's row cannot be read or gives no
\* master key, a recycle logs the key and a hard delete goes on to mark it
\* revoked, without a word; it also marks a key the gateway refused to delete.
OpRevokeKey ==
    /\ OpAt("revoke_key")
    /\ \/ /\ keyrow[op.key].status = "none" /\ NoFault
          /\ OpGoto(AfterKey) /\ UNCHANGED <<gkey, notes>>
       \/ /\ keyrow[op.key].status # "none" /\ Fault
          /\ OpGoto(AfterKey)
          /\ unheard' = unheard \union {<<"key", op.key>>} /\ UNCHANGED <<gkey, logged>>
       \/ /\ keyrow[op.key].status # "none" /\ op.kind = "recycle" /\ Fault
          /\ OpGoto(AfterKey)
          /\ Log(<<"key", op.key>>) /\ UNCHANGED <<gkey, unheard>>
       \/ /\ keyrow[op.key].status # "none" /\ op.kind = "hard_delete" /\ Fault
          /\ OpGoto("mark_key")
          /\ unheard' = unheard \union {<<"client", op.key>>} /\ UNCHANGED <<gkey, logged>>
       \/ /\ keyrow[op.key].status # "none"
          /\ DeleteKey(op.key, TRUE)
          /\ OpGoto("mark_key") /\ UNCHANGED notes
       \/ /\ keyrow[op.key].status # "none"
          /\ DeleteKey(op.key, FALSE) /\ Log(<<"key", op.key>>)
          /\ OpGoto(IF op.kind = "recycle" THEN AfterKey ELSE "mark_key") /\ UNCHANGED unheard
    /\ UNCHANGED <<row, keyrow, vm, deploy, credentials>>

OpMarkKey ==
    /\ OpAt("mark_key") /\ OpGoto(AfterKey)
    /\ \/ /\ keyrow[op.key].status # "none" /\ NoFault
          /\ keyrow' = [keyrow EXCEPT ![op.key].status = "revoked"] /\ UNCHANGED logged
       \/ /\ IF keyrow[op.key].status = "none" THEN NoFault ELSE Fault
          /\ IF op.kind = "recycle" THEN UNCHANGED logged ELSE Log(<<"keyrow", op.key>>)
          /\ UNCHANGED keyrow
    /\ UNCHANGED <<row, gkey, vm, deploy, unheard, credentials>>

OpUnbind ==
    /\ OpAt("unbind") /\ OpGoto("drop_row")
    /\ \/ /\ keyrow[op.key].status # "none" /\ NoFault
          /\ keyrow' = [keyrow EXCEPT ![op.key].agent = NoAgent] /\ UNCHANGED logged
       \/ /\ IF keyrow[op.key].status = "none" THEN NoFault ELSE Fault
          /\ UNCHANGED keyrow /\ Log(<<"binding", op.key>>)
    /\ UNCHANGED <<row, gkey, vm, deploy, unheard, credentials>>

OpDropRow ==
    /\ OpAt("drop_row")
    /\ \/ Exists(op.agent) /\ NoFault /\ DeleteRow(op.agent) /\ OpGoto("drop_enrollment")
       \/ /\ IF Exists(op.agent) THEN Fault ELSE NoFault
          /\ Idle /\ UNCHANGED <<row, keyrow>>
    /\ UNCHANGED <<gkey, vm, deploy, notes, credentials>>

OpDropEnrollment ==
    /\ OpAt("drop_enrollment") /\ Idle
    /\ \/ DeleteEnrollment(op.agent) /\ NoFault /\ UNCHANGED logged
       \/ Fault /\ Log(<<"enrollment", op.agent>>) /\ UNCHANGED credentials
    /\ UNCHANGED <<stores, deploy, unheard>>

\* A recycle only logs the failure.
OpRevokeEnrollment ==
    /\ OpAt("revoke_enrollment")
    /\ IF op.kind = "recycle" THEN OpGoto("save") ELSE Idle
    /\ \/ Revoke(op.agent) /\ NoFault /\ UNCHANGED logged
       \/ /\ Fault /\ UNCHANGED credentials
          /\ IF op.kind = "recycle" THEN Log(<<"enrollment", op.agent>>) ELSE UNCHANGED logged
    /\ UNCHANGED <<stores, deploy, unheard>>

\* The vCenter refuses to power on a VM that is on, and off one that is off.
OpPower ==
    LET a == op.agent
        from == IF op.kind = "power_on" THEN "off" ELSE "on"
    IN  /\ OpAt("power")
        /\ \/ /\ vm[a] = from /\ NoFault
              /\ vm' = [vm EXCEPT ![a] = IF op.kind = "power_off" THEN "off" ELSE "on"]
              /\ OpGoto("save")
           \/ (IF vm[a] = from THEN Fault ELSE NoFault) /\ Idle /\ UNCHANGED vm
        /\ UNCHANGED <<row, keyrow, gkey, deploy, notes, credentials>>

OpSave ==
    LET a == op.agent
        stopped == op.kind \in {"recycle", "power_off"}
    IN  /\ OpAt("save") /\ Idle
        /\ \/ /\ Exists(a) /\ NoFault
              /\ row' = [row EXCEPT ![a].status = IF stopped THEN "stopped" ELSE "running",
                                    ![a].vmRef = @ /\ op.kind # "recycle"]
           \/ (IF Exists(a) THEN Fault ELSE NoFault) /\ UNCHANGED row
        /\ UNCHANGED <<keyrow, gkey, vm, deploy, notes, credentials>>

\* The process that serves the operation stops.
CrashOp ==
    /\ ~OpAt("idle") /\ Fault
    /\ op' = NoOp /\ interrupted' = interrupted \union {op.agent} /\ UNCHANGED <<ops, overtaken>>
    /\ UNCHANGED <<stores, deploy, notes, credentials>>

OpStep ==
    \/ OpDestroy \/ OpRevokeKey \/ OpMarkKey \/ OpUnbind \/ OpDropRow \/ OpDropEnrollment
    \/ OpRevokeEnrollment \/ OpPower \/ OpSave

(***************************************************************************)
(* The daemon of a VM runs while the VM does; the VM can die while its      *)
(* requests are being served.                                               *)
(***************************************************************************)
Daemon(a) ==
    /\ \/ vm[a] = "on" /\ DaemonStep(a)
       \/ ServerStep(a)
    /\ UNCHANGED <<stores, deploy, ofOps, notes>>

Next ==
    \/ \E a \in Agents, mode \in Modes, key \in Keys :
           <<a, mode, key>> \in Plans /\ DeployAgent(a, mode, key)
    \/ \E a \in Agents : DeployStep(a) \/ CrashDeploy(a)
    \/ \E a \in Daemons : Daemon(a)
    \/ \E a \in Agents, kind \in OpKinds : Start(a, kind)
    \/ OpStep \/ CrashOp

Spec == Init /\ [][Next]_vars

(***************************************************************************)
(* Properties                                                               *)
(***************************************************************************)
Reported(what) == what \in logged \union unheard

\* A full deployment that was refused or has failed leaves no key, no key row
\* and no hold on a reused key, a refused one no agent, enrollment or VM, and a
\* failed one an agent whose status says it is no longer being deployed, except
\* what the log names and what the gateway made without saying so
\* (deploy.resolvers.go:55-215, deploy_helpers.go:88-106, deploy_rollback.go).
RollbackComplete ==
    \A a \in Agents :
        deploy[a].mode = "full" /\ deploy[a].pc \in {"refused", "failed"} =>
            /\ gkey[a] = "live" => Reported(<<"key", a>>)
            /\ keyrow[a].status # "none" => Reported(<<"keyrow", a>>)
            /\ keyrow[Spare].agent = a => Reported(<<"binding", Spare>>)
            /\ At(a, "refused") =>
                   /\ Exists(a) => Reported(<<"row", a>>)
                   /\ enrollment[a].status # "none" => Reported(<<"enrollment", a>>)
                   /\ vm[a] = "none"
            /\ At(a, "failed") /\ row[a].status = "provisioning" => Reported(<<"row", a>>)

Recycled(a) == row[a].status = "stopped" /\ ~row[a].vmRef

\* A hard delete passed over the key without a word, for want of a client, and
\* the key's row has it revoked or the log says that the row could not be marked.
PassedOver(k) ==
    <<"client", k>> \in unheard /\ (keyrow[k].status = "revoked" \/ Reported(<<"keyrow", k>>))

\* What outlives an agent recycled or deleted after its deployment succeeded is
\* named in the log, whatever failed on the way: its VM, the key minted for it,
\* its credential.  Exceptions are a handler that crashed, a key whose row could
\* not be read, a credential raced by its own exchange, and the live key that a
\* hard delete has no client to delete: the log does not name it, but its row
\* says revoked, which is what the reconciler deletes keys by
\* (deploy.resolvers.go:293-331, agent.resolvers.go:321-371).
RemovalComplete ==
    \A a \in Agents \ (overtaken \union interrupted) :
        /\ At(a, "done") /\ op.agent # a /\ (Recycled(a) \/ ~Exists(a))
        => /\ vm[a] # "none" => Reported(<<"vm", a>>)
           /\ gkey[a] = "live" => Reported(<<"key", a>>) \/ PassedOver(a)
           /\ enrollment[a].status = "active" => a \in raced \/ Reported(<<"enrollment", a>>)

\* A deployment reports success only for an agent whose VM runs, whose minted
\* key works and is stored under it, and whose VM can enroll, unless an operator
\* interfered with it (deploy_helpers.go:59-86, 110-360).
SuccessIsComplete ==
    [][\A a \in Agents \ overtaken :
           ~At(a, "done") /\ At(a, "done")' =>
               /\ vm'[a] = "on"
               /\ enrollment'[a].status # "none"
               /\ row'[a].key = a => gkey'[a] = "live" /\ keyrow'[a].status = "active"
               /\ row'[a].key = Spare /\ keyrow'[Spare].agent = NoAgent
                  => \E b \in Agents \ {a} : deploy'[b].key = Spare]_vars

\* An operator who recycles or deletes an agent revokes that agent's key, never
\* one that is bound to another agent.
RevokesOwnKey ==
    [][\A k \in Keys :
           gkey[k] = "live" /\ gkey'[k] = "dead" /\ OpAt("revoke_key")
           => keyrow[k].agent \in {op.agent, NoAgent}]_vars
=============================================================================
