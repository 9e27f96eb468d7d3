------------------------ MODULE AgentDeployment_proofs ------------------------
(***************************************************************************)
(* Theorems about AgentDeployment, for every value of its constants.        *)
(*                                                                          *)
(* The invariant DeployInv says of each agent where its deployment stands   *)
(* and what it has made (Local), of the operation being served which steps  *)
(* its kind goes through (OpShape), and of the credentials what the lemmas  *)
(* of Enrollment_proofs keep.  Effect is a table of what the steps of a     *)
(* deployment may do to the stores, with a lemma for each action; the       *)
(* invariant of the agent itself follows from the table, and that of the    *)
(* other agents from the little that one agent shares with another: the     *)
(* spare key.                                                               *)
(***************************************************************************)
EXTENDS AgentDeployment, Enrollment_proofs

(***************************************************************************)
(* How a step moves a deployment.  The fields of a call that are Boolean    *)
(* are read through operators.                                              *)
(***************************************************************************)
Async(a) == deploy[a].async = TRUE

PCs == Ended \union
    {"lookup", "enroll", "instant", "mint", "persist", "bind", "record",
     "connect", "clone", "guestinfo", "power_on", "destroy", "finalize",
     "undo_key", "undo_mint", "mark_failed", "drop_row", "drop_enrollment",
     "save_phase", "work", "cancel_key"}

LEMMA DeployRecordIs ==
    DeployRecord = [pc : PCs, mode : Modes, key : Keys \union {NoKey}, async : BOOLEAN,
                    nilRow : BOOLEAN, phase : 0..4]
BY DEF DeployRecord, PCs

DeployTypeOK ==
    /\ deploy \in [Agents -> DeployRecord]
    /\ \A a \in Agents : deploy[a].pc # "idle" => deploy[a].key \in {a, Spare}

\* The call of a moves on, for the same plan; the calls of the others do not.
Moved(a) ==
    /\ DeployTypeOK'
    /\ deploy'[a].key = deploy[a].key /\ deploy'[a].mode = deploy[a].mode
    /\ \A b \in Agents \ {a} : deploy'[b] = deploy[b]

Moves(a, pc) ==
    /\ Moved(a) /\ deploy'[a].pc = pc
    /\ Async(a)' <=> Async(a)
    /\ deploy'[a].phase = deploy[a].phase

LEMMA DeployTypes ==
    ASSUME TypeOK
    PROVE  /\ DeployTypeOK
           /\ \A a \in Agents : /\ deploy[a] \in DeployRecord /\ deploy[a].pc \in PCs /\ deploy[a].phase \in 0..4
                               /\ deploy[a].mode \in {"full", "instant"}
                               /\ deploy[a].pc # "idle" => deploy[a].key \in {a, Spare}
BY DeployRecordIs DEF TypeOK, DeployTypeOK, Modes

LEMMA CallMoves ==
    ASSUME DeployTypeOK, NEW a \in Agents, NEW x \in DeployRecord, deploy[a].pc # "idle",
           x.key = deploy[a].key, x.mode = deploy[a].mode, deploy' = [deploy EXCEPT ![a] = x]
    PROVE  Moved(a) /\ deploy'[a] = x
BY DEF DeployTypeOK, Moved

LEMMA GotoMoves ==
    ASSUME DeployTypeOK, NEW a \in Agents, NEW pc \in PCs, deploy[a].pc # "idle", Goto(a, pc)
    PROVE  Moves(a, pc)
<1> DEFINE x == [deploy[a] EXCEPT !.pc = pc]
<1>1. /\ x \in DeployRecord /\ x.pc = pc /\ x.key = deploy[a].key /\ x.mode = deploy[a].mode
      /\ (x.async = TRUE <=> deploy[a].async = TRUE) /\ x.phase = deploy[a].phase
  BY DeployRecordIs DEF DeployTypeOK
<1>2. deploy' = [deploy EXCEPT ![a] = x]
  BY DEF Goto
<1> HIDE DEF x
<1>3. Moved(a) /\ deploy'[a] = x
  BY <1>1, <1>2, CallMoves
<1> QED BY <1>1, <1>3 DEF Moves, Async

\* A save that fails leaves ag nil.
LEMMA NilMoves ==
    ASSUME DeployTypeOK, NEW a \in Agents, NEW pc \in PCs, deploy[a].pc # "idle",
           deploy' = [deploy EXCEPT ![a].pc = pc, ![a].nilRow = TRUE]
    PROVE  Moves(a, pc)
<1> DEFINE x == [deploy[a] EXCEPT !.pc = pc, !.nilRow = TRUE]
<1>1. /\ x \in DeployRecord /\ x.pc = pc /\ x.key = deploy[a].key /\ x.mode = deploy[a].mode
      /\ (x.async = TRUE <=> deploy[a].async = TRUE) /\ x.phase = deploy[a].phase
  BY DeployRecordIs DEF DeployTypeOK
<1>2. deploy' = [deploy EXCEPT ![a] = x]
  BY DEF DeployTypeOK
<1> HIDE DEF x
<1>3. Moved(a) /\ deploy'[a] = x
  BY <1>1, <1>2, CallMoves
<1> QED BY <1>1, <1>3 DEF Moves, Async

LEMMA PhaseMoves ==
    ASSUME DeployTypeOK, NEW a \in Agents, NEW pc \in PCs, deploy[a].pc # "idle", NEW phase \in 0..4,
           deploy' = [deploy EXCEPT ![a].pc = pc, ![a].phase = phase]
    PROVE  Moved(a) /\ deploy'[a].pc = pc /\ deploy'[a].phase = phase /\ (Async(a)' <=> Async(a))
<1> DEFINE x == [deploy[a] EXCEPT !.pc = pc, !.phase = phase]
<1>1. /\ x \in DeployRecord /\ x.pc = pc /\ x.key = deploy[a].key /\ x.mode = deploy[a].mode
      /\ (x.async = TRUE <=> deploy[a].async = TRUE) /\ x.phase = phase
  BY DeployRecordIs DEF DeployTypeOK
<1>2. deploy' = [deploy EXCEPT ![a] = x]
  BY DEF DeployTypeOK
<1> HIDE DEF x
<1>3. Moved(a) /\ deploy'[a] = x
  BY <1>1, <1>2, CallMoves
<1> QED BY <1>1, <1>3 DEF Async

LEMMA AsyncMoves ==
    ASSUME DeployTypeOK, NEW a \in Agents, NEW pc \in PCs, deploy[a].pc # "idle", NEW async \in BOOLEAN,
           deploy' = [deploy EXCEPT ![a].pc = pc, ![a].async = async]
    PROVE  Moved(a) /\ deploy'[a].pc = pc /\ (Async(a)' <=> async = TRUE)
<1> DEFINE x == [deploy[a] EXCEPT !.pc = pc, !.async = async]
<1>1. /\ x \in DeployRecord /\ x.pc = pc /\ x.key = deploy[a].key /\ x.mode = deploy[a].mode
      /\ (x.async = TRUE <=> async = TRUE)
  BY DeployRecordIs DEF DeployTypeOK
<1>2. deploy' = [deploy EXCEPT ![a] = x]
  BY DEF DeployTypeOK
<1> HIDE DEF x
<1>3. Moved(a) /\ deploy'[a] = x
  BY <1>1, <1>2, CallMoves
<1> QED BY <1>1, <1>3 DEF Async

LEMMA NextPhaseMoves ==
    ASSUME DeployTypeOK, NEW a \in Agents, deploy[a].pc # "idle", NextPhase(a)
    PROVE  /\ Moved(a) /\ (Async(a)' <=> Async(a))
           /\ \/ deploy[a].phase = 4 /\ deploy'[a].pc = "persist"
              \/ deploy[a].phase < 4 /\ deploy'[a].pc = "save_phase" /\ deploy'[a].phase = deploy[a].phase + 1
<1>1. deploy[a].phase \in 0..4
  BY DeployRecordIs DEF DeployTypeOK
<1>2. CASE deploy[a].phase = 4
  <2>1. Goto(a, "persist") /\ "persist" \in PCs
    BY <1>2 DEF NextPhase, Goto, PCs
  <2> QED BY <1>2, <2>1, GotoMoves DEF Moves
<1>3. CASE deploy[a].phase # 4
  <2>1. deploy[a].phase + 1 \in 0..4 /\ deploy[a].phase < 4 /\ "save_phase" \in PCs
    BY <1>1, <1>3 DEF PCs
  <2>2. deploy' = [deploy EXCEPT ![a].pc = "save_phase", ![a].phase = deploy[a].phase + 1]
    BY <1>3 DEF NextPhase, DeployTypeOK
  <2> QED BY <2>1, <2>2, PhaseMoves
<1> QED BY <1>2, <1>3

(***************************************************************************)
(* What a deployment, an operation on its agent and its agent's stores have *)
(* to do with each other, agent by agent.                                   *)
(***************************************************************************)
Full(a)   == deploy[a].mode = "full" /\ ~At(a, "idle")
Mints(a)  == deploy[a].mode = "instant" \/ ~Reuses(a)
OwnKey(a) == IF deploy[a].mode = "full" THEN deploy[a].key ELSE a
HasVM(a)  == row[a].vmRef = TRUE
Rival(a)  == \E b \in Agents \ {a} : deploy[b].key = Spare

VMGone(a)         == vm[a] = "none" \/ Reported(<<"vm", a>>)
KeyGone(a)        == gkey[a] # "live" \/ Reported(<<"key", a>>) \/ PassedOver(a)
CredentialGone(a) == \/ enrollment[a].status = "none" \/ enrollment[a].revoked = TRUE
                     \/ Reported(<<"enrollment", a>>)

\* The steps of the goroutine that still build the agent, and all that have a VM to see to.
Building   == {"connect", "clone", "guestinfo", "power_on", "finalize"}
Background == Building \union {"destroy"}

\* The course of the two ways to deploy.
Course(a) ==
    /\ deploy[a].pc \in {"instant", "save_phase", "work", "cancel_key"} => deploy[a].mode = "instant"
    /\ deploy[a].pc \in Building \union {"bind", "undo_key", "mark_failed", "failed"} => deploy[a].mode = "full"
    /\ Full(a) /\ deploy[a].pc \in {"mint", "persist", "undo_mint"} => ~Reuses(a)
    /\ At(a, "bind") => Reuses(a)
    /\ Async(a) => deploy[a].mode = "full"

\* Nothing exists before the deployment begins.
Fresh(a) ==
    At(a, "idle") =>
        /\ ~Exists(a) /\ gkey[a] = "none" /\ keyrow[a].status = "none" /\ keyrow[Spare].agent # a
        /\ vm[a] = "none" /\ ~Async(a) /\ enrollment[a].status = "none"
        /\ op.agent # a /\ ~Reuses(a)

\* What a full deployment has made, and who will undo it.
KeyTracked(a) ==
    Full(a) /\ gkey[a] = "live" =>
        \/ Reported(<<"key", a>>)
        \/ /\ ~Reuses(a)
           /\ deploy[a].pc \in Background \union {"persist", "record", "undo_key", "undo_mint", "done", "crashed"}

RowTracked(a) ==
    Full(a) /\ keyrow[a].status # "none" =>
        \/ Reported(<<"keyrow", a>>)
        \/ ~Reuses(a) /\ deploy[a].pc \in Background \union {"record", "undo_key", "done", "crashed"}

BindingTracked(a) ==
    Full(a) /\ keyrow[Spare].agent = a =>
        \/ Reported(<<"binding", Spare>>)
        \/ Reuses(a) /\ deploy[a].pc \in Background \union {"record", "undo_key", "done", "crashed"}

\* Only the goroutine makes a VM, and it never drops the row.
AsyncTracked(a) ==
    Full(a) =>
        /\ deploy[a].pc \in Background \union {"mark_failed", "failed"} => Async(a)
        /\ Async(a) => deploy[a].pc \in Background \union
                {"undo_key", "undo_mint", "mark_failed", "failed", "done", "crashed"}
        /\ vm[a] # "none" => Async(a)

AgentTracked(a) ==
    Full(a) =>
        /\ deploy[a].pc \in {"drop_enrollment", "refused"} /\ Exists(a) => Reported(<<"row", a>>)
        /\ At(a, "refused") /\ enrollment[a].status # "none" => Reported(<<"enrollment", a>>)
        /\ At(a, "failed") /\ row[a].status = "provisioning" => Reported(<<"row", a>>)

\* The row of a minted key is there for an operation to find.
KeyHeld(a) ==
    Mints(a) /\ deploy[a].pc \in Building \union {"record", "done"} => keyrow[a].status # "none"

\* A hard delete had no client for the key and has yet to mark its row.
LacksClient(a) ==
    op.kind = "hard_delete" /\ <<"client", a>> \in unheard /\ op.key = a

\* An operation on an agent whose deployment is done.
Removing(a) ==
    a \notin overtaken \union interrupted /\ At(a, "done") =>
        /\ Exists(a) => row[a].key = OwnKey(a)
        /\ ~Exists(a) \/ ~HasVM(a) =>
               VMGone(a) /\ KeyGone(a) /\ (CredentialGone(a) \/ (op.agent = a /\ OpAt("drop_enrollment")))
        /\ op.agent = a =>
               /\ ~OpAt("idle") => op.key = OwnKey(a)
               /\ op.kind \in {"recycle", "hard_delete"} =>
                      /\ op.pc \notin {"idle", "destroy"} => VMGone(a)
                      /\ op.pc \notin {"idle", "destroy", "revoke_key"} =>
                             KeyGone(a) \/ (OpAt("mark_key") /\ LacksClient(a))
                      /\ OpAt("save") => CredentialGone(a)

\* What a deployment that nobody interfered with has done so far.
Succeeding(a) ==
    a \notin overtaken =>
        /\ deploy[a].pc \notin Ended => op.agent # a
        /\ deploy[a].pc \in Building \union {"instant", "mint", "bind", "persist", "save_phase", "work", "record"}
               => enrollment[a].status # "none"
        /\ At(a, "finalize") => vm[a] = "on"
        /\ deploy[a].mode = "instant" =>
               /\ deploy[a].pc \in {"persist", "record"} => vm[a] = "on"
               /\ deploy[a].pc \in {"save_phase", "work"} /\ deploy[a].phase > 1 => vm[a] = "on"
        /\ Mints(a) /\ deploy[a].pc \in Building \union {"persist", "save_phase", "work", "record"}
               => gkey[a] = "live"
        /\ Mints(a) /\ deploy[a].pc \in Building \union {"record"} => keyrow[a].status = "active"
        /\ Full(a) /\ Reuses(a) /\ deploy[a].pc \in Building \union {"record"}
               => keyrow[Spare].agent = a \/ Rival(a)

\* An agent has its own key or the spare one, and the spare one only when its
\* deployment reuses it.
Named(a) ==
    /\ row[a].key \in {a, Spare, NoKey} /\ (row[a].key = Spare => Reuses(a))
    /\ keyrow[Spare].agent = a => Reuses(a)
    /\ op.agent = a /\ ~OpAt("idle") => op.key \in {a, Spare, NoKey} /\ (op.key = Spare => Reuses(a))

Local(a) ==
    /\ Course(a) /\ Fresh(a) /\ KeyTracked(a) /\ RowTracked(a) /\ BindingTracked(a) /\ AsyncTracked(a)
    /\ AgentTracked(a) /\ KeyHeld(a) /\ Removing(a) /\ Succeeding(a) /\ Named(a)

\* The steps an operation of each kind goes through.
OpShape ==
    /\ OpAt("idle") => op.agent = NoAgent
    /\ op.pc \in {"destroy", "revoke_key", "mark_key"} => op.kind \in {"recycle", "hard_delete"}
    /\ op.pc \in {"unbind", "drop_row", "drop_enrollment"} => op.kind = "hard_delete"
    /\ op.pc = "revoke_enrollment" => op.kind \in {"recycle", "revoke"}
    /\ op.pc = "power" => op.kind \in {"power_on", "power_off", "restart"}
    /\ op.pc = "save" => op.kind \notin {"hard_delete", "revoke"}

DeployInv == TypeOK /\ CredentialInv /\ OpShape /\ \A a \in Agents : Local(a)

(***************************************************************************)
(* Each step of a deployment keeps what is said of its own agent.           *)
(***************************************************************************)
\* What the types say of the call of a while it runs.
Running(a, pc) ==
    /\ DeployTypeOK /\ At(a, pc) /\ deploy[a].pc # "idle" /\ deploy[a].key \in {a, Spare}
    /\ deploy[a].mode = "full" \/ deploy[a].mode = "instant"
    /\ a # Spare /\ a # NoAgent /\ NoKey # Spare /\ a \in Keys /\ Spare \in Keys

LEMMA RunningTypes ==
    ASSUME TypeOK, NEW a \in Agents, NEW pc, pc # "idle", At(a, pc)
    PROVE  Running(a, pc)
<1>1. a # Spare /\ a # NoAgent /\ NoKey # Spare /\ a \in Keys /\ Spare \in Keys
  BY NamesAssumption DEF Keys
<1>2. DeployTypeOK /\ deploy[a].mode \in {"full", "instant"} /\ deploy[a].key \in {a, Spare}
  BY DEF TypeOK, DeployTypeOK, DeployRecord, At, Modes
<1> QED BY <1>1, <1>2 DEF Running, At

SameRow(a)        == row'[a] = row[a]
SameKey(a)        == gkey'[a] = gkey[a]
SameKeyRows(a)    == keyrow'[a].status = keyrow[a].status /\ keyrow'[Spare].agent = keyrow[Spare].agent
SameVM(a)         == vm'[a] = vm[a]
SameEnrollment(a) == enrollment'[a] = enrollment[a]

UndoneTo(a)      == IF Async(a) THEN "mark_failed" ELSE "drop_row"
From(a, pc, tos) == At(a, pc) /\ deploy'[a].pc \in tos

\* The call up to the key, and the steps that only look at the vCenter.
Prepares(a) ==
    /\ SameRow(a) /\ SameKey(a) /\ SameKeyRows(a) /\ SameVM(a) /\ Moves(a, deploy'[a].pc)
    /\ \/ From(a, "lookup", {"enroll", "drop_row"}) /\ SameEnrollment(a)
       \/ From(a, "enroll", {"drop_row"}) /\ SameEnrollment(a)
       \/ /\ enrollment'[a].status = "pending"
          /\ \/ From(a, "enroll", {"instant"}) /\ deploy[a].mode = "instant"
             \/ From(a, "enroll", {"bind"}) /\ deploy[a].mode = "full" /\ Reuses(a)
             \/ From(a, "enroll", {"mint"}) /\ deploy[a].mode = "full" /\ ~Reuses(a)
       \/ From(a, "instant", {"mint", "refused", "drop_row"}) /\ SameEnrollment(a)
       \/ From(a, "connect", {"clone", "undo_key"}) /\ SameEnrollment(a)
       \/ From(a, "guestinfo", {"power_on", "destroy"}) /\ SameEnrollment(a)
       \/ deploy[a].pc \notin Ended /\ deploy'[a].pc = "crashed" /\ SameEnrollment(a)

\* The key is minted, stored, bound or given up.
HandlesKey(a) ==
    /\ SameRow(a) /\ SameVM(a) /\ SameEnrollment(a) /\ Moved(a) /\ (Async(a)' <=> Async(a))
    /\ \/ /\ SameKeyRows(a) /\ gkey'[a] = "live"
          /\ \/ From(a, "mint", {"persist"}) /\ deploy[a].mode = "full"
             \/ From(a, "mint", {"save_phase"}) /\ deploy[a].mode = "instant" /\ deploy'[a].phase = 1
             \/ From(a, "mint", {"drop_row"}) /\ Reported(<<"key", a>>)'
       \/ From(a, "mint", {"drop_row"}) /\ SameKeyRows(a) /\ SameKey(a)
       \/ /\ From(a, "persist", {"record"}) /\ SameKey(a)
          /\ keyrow'[a].status = "active" /\ keyrow'[Spare].agent = keyrow[Spare].agent
       \/ /\ From(a, "persist", {IF deploy[a].mode = "full" THEN "undo_mint" ELSE "cancel_key"})
          /\ SameKey(a) /\ SameKeyRows(a)
       \/ /\ From(a, "bind", {"record"}) /\ SameKey(a)
          /\ keyrow'[a].status = keyrow[a].status /\ keyrow'[Spare].agent = a
       \/ From(a, "bind", {"drop_row"}) /\ SameKey(a) /\ SameKeyRows(a)
       \/ /\ From(a, "undo_key", {IF Reuses(a) THEN UndoneTo(a) ELSE "undo_mint"}) /\ SameKey(a)
          /\ \/ /\ Reuses(a) /\ keyrow'[a].status = keyrow[a].status /\ keyrow'[Spare].agent = NoAgent
             \/ /\ ~Reuses(a) /\ keyrow'[a].status = "none" /\ keyrow'[Spare].agent = keyrow[Spare].agent
             \/ /\ SameKeyRows(a)
                /\ Reported(IF Reuses(a) THEN <<"binding", Spare>> ELSE <<"keyrow", a>>)'
       \/ /\ From(a, "undo_mint", {UndoneTo(a)}) /\ SameKeyRows(a)
          /\ \/ gkey'[a] # "live"
             \/ SameKey(a) /\ Reported(<<"key", a>>)'
       \/ /\ From(a, "cancel_key", {"panicked", "drop_row"}) /\ SameKeyRows(a)
          /\ gkey'[a] = "live" => gkey[a] = "live"

\* The row is saved, fails to be saved, or is dropped with the enrollment.
HandlesRow(a) ==
    /\ SameKey(a) /\ SameVM(a) /\ Moved(a)
    /\ \/ /\ From(a, "record", {IF deploy[a].mode = "full" THEN "connect" ELSE "done"})
          /\ SameKeyRows(a) /\ SameEnrollment(a)
          /\ Exists(a) /\ Exists(a)' /\ HasVM(a)' /\ row'[a].key = OwnKey(a)
          /\ Async(a)' <=> deploy[a].mode = "full"
       \/ /\ From(a, "record", {IF deploy[a].mode = "full" THEN "undo_key" ELSE "destroy"})
          /\ SameRow(a) /\ SameKeyRows(a) /\ SameEnrollment(a) /\ (Async(a)' <=> Async(a))
       \/ /\ From(a, "finalize", {"done"}) /\ (Async(a)' <=> Async(a))
          /\ SameKeyRows(a) /\ SameEnrollment(a)
          /\ Exists(a) /\ Exists(a)' /\ HasVM(a)' /\ row'[a].key = deploy[a].key
       \/ /\ From(a, "finalize", {"undo_key"}) /\ (Async(a)' <=> Async(a))
          /\ SameRow(a) /\ SameKeyRows(a) /\ SameEnrollment(a)
       \/ /\ From(a, "mark_failed", {"failed"}) /\ (Async(a)' <=> Async(a))
          /\ SameKeyRows(a) /\ SameEnrollment(a)
          /\ \/ /\ row'[a].status = "failed" /\ row'[a].key = row[a].key /\ Exists(a)
             \/ SameRow(a) /\ Reported(<<"row", a>>)'
       \/ /\ From(a, "drop_row", {"drop_enrollment"}) /\ (Async(a)' <=> Async(a)) /\ SameEnrollment(a)
          /\ \/ /\ ~Exists(a)' /\ row'[a].key = NoKey /\ keyrow'[a].status = keyrow[a].status
                /\ keyrow'[Spare].agent = IF keyrow[Spare].agent = a THEN NoAgent ELSE keyrow[Spare].agent
             \/ SameRow(a) /\ SameKeyRows(a) /\ Reported(<<"row", a>>)'
       \/ /\ From(a, "drop_enrollment", {"refused"}) /\ (Async(a)' <=> Async(a))
          /\ SameRow(a) /\ SameKeyRows(a)
          /\ \/ enrollment'[a].status = "none"
             \/ SameEnrollment(a) /\ Reported(<<"enrollment", a>>)'
       \/ /\ From(a, "save_phase", {"work"}) /\ deploy'[a].phase = deploy[a].phase
          /\ SameKeyRows(a) /\ SameEnrollment(a) /\ (Async(a)' <=> Async(a))
          /\ row'[a].status # "none" /\ row'[a].key = row[a].key /\ Exists(a)
       \/ /\ From(a, "save_phase", {"cancel_key"}) /\ (Async(a)' <=> Async(a))
          /\ SameRow(a) /\ SameKeyRows(a) /\ SameEnrollment(a)

\* The VM is made, started or destroyed.
HandlesVM(a) ==
    /\ SameKey(a) /\ SameKeyRows(a) /\ SameEnrollment(a) /\ Moved(a) /\ (Async(a)' <=> Async(a))
    /\ \/ /\ From(a, "clone", {"guestinfo", "undo_key"}) /\ SameRow(a)
          /\ SameVM(a) \/ vm'[a] = "off"
       \/ From(a, "power_on", {"finalize"}) /\ SameRow(a) /\ vm'[a] = "on" /\ vm[a] = "off"
       \/ From(a, "power_on", {"destroy"}) /\ SameRow(a) /\ SameVM(a)
       \/ /\ From(a, "destroy", {IF deploy[a].mode = "full" THEN "undo_key" ELSE "undo_mint"})
          /\ SameRow(a)
          /\ vm'[a] = "none" \/ SameVM(a)
       \/ /\ At(a, "work") /\ deploy[a].phase = 1 /\ SameRow(a) /\ vm'[a] = "on"
          /\ \/ deploy'[a].pc = "save_phase" /\ deploy'[a].phase = 2
             \/ deploy'[a].pc = "refused"
             \/ deploy'[a].pc = "cancel_key"
       \/ From(a, "work", {"cancel_key"}) /\ deploy[a].phase = 1 /\ SameRow(a) /\ SameVM(a)
       \/ /\ At(a, "work") /\ deploy[a].phase > 1 /\ SameRow(a) /\ SameVM(a)
          /\ \/ deploy'[a].pc = "persist"
             \/ deploy'[a].pc = "save_phase" /\ deploy'[a].phase > 1
       \/ /\ From(a, "work", {"cancel_key"}) /\ SameVM(a)
          /\ \/ SameRow(a)
             \/ row'[a].status = "failed" /\ row'[a].key = row[a].key /\ Exists(a)

Effect(a) ==
    /\ Running(a, deploy[a].pc) /\ (Rival(a)' <=> Rival(a))
    /\ logged \subseteq logged' /\ unheard \subseteq unheard'
    /\ UNCHANGED <<op, overtaken, interrupted>>
    /\ Prepares(a) \/ HandlesKey(a) \/ HandlesRow(a) \/ HandlesVM(a)

LEMMA TrackedByEffect ==
    ASSUME NEW a \in Agents, Local(a), Effect(a)
    PROVE  Course(a)' /\ Fresh(a)' /\ KeyTracked(a)' /\ RowTracked(a)' /\ BindingTracked(a)'
           /\ AsyncTracked(a)' /\ AgentTracked(a)' /\ KeyHeld(a)' /\ Removing(a)' /\ Succeeding(a)'
           /\ Named(a)'
<1> USE DEF Effect, Running, Moves, Moved, Full, Mints, OwnKey, VMGone, KeyGone, PassedOver, CredentialGone, From,
            SameRow, SameKey, SameKeyRows, SameVM, SameEnrollment, UndoneTo,
            Building, Background, At, Exists, Reuses, Reported, OpAt, Ended
<1>1. Course(a)'
  <2>1. CASE Prepares(a)
    BY <2>1 DEF Local, Course, Prepares
  <2>2. CASE HandlesKey(a)
    BY <2>2 DEF Local, Course, HandlesKey
  <2>3. CASE HandlesRow(a)
    BY <2>3 DEF Local, Course, HandlesRow
  <2>4. CASE HandlesVM(a)
    BY <2>4 DEF Local, Course, HandlesVM
  <2> QED BY <2>1, <2>2, <2>3, <2>4
<1>2. Fresh(a)'
  <2>1. CASE Prepares(a)
    BY <2>1 DEF Local, Fresh, Prepares
  <2>2. CASE HandlesKey(a)
    BY <2>2 DEF Local, Fresh, HandlesKey
  <2>3. CASE HandlesRow(a)
    BY <2>3 DEF Local, Fresh, HandlesRow
  <2>4. CASE HandlesVM(a)
    BY <2>4 DEF Local, Fresh, HandlesVM
  <2> QED BY <2>1, <2>2, <2>3, <2>4
<1>3. KeyTracked(a)'
  <2>1. CASE Prepares(a)
    BY <2>1 DEF Local, KeyTracked, Course, Prepares
  <2>2. CASE HandlesKey(a)
    BY <2>2 DEF Local, KeyTracked, Course, HandlesKey
  <2>3. CASE HandlesRow(a)
    BY <2>3 DEF Local, KeyTracked, Course, HandlesRow
  <2>4. CASE HandlesVM(a)
    BY <2>4 DEF Local, KeyTracked, Course, HandlesVM
  <2> QED BY <2>1, <2>2, <2>3, <2>4
<1>4. RowTracked(a)'
  <2>1. CASE Prepares(a)
    BY <2>1 DEF Local, RowTracked, Course, Prepares
  <2>2. CASE HandlesKey(a)
    BY <2>2 DEF Local, RowTracked, Course, HandlesKey
  <2>3. CASE HandlesRow(a)
    BY <2>3 DEF Local, RowTracked, Course, HandlesRow
  <2>4. CASE HandlesVM(a)
    BY <2>4 DEF Local, RowTracked, Course, HandlesVM
  <2> QED BY <2>1, <2>2, <2>3, <2>4
<1>5. BindingTracked(a)'
  <2>1. CASE Prepares(a)
    BY <2>1 DEF Local, BindingTracked, Course, Prepares
  <2>2. CASE HandlesKey(a)
    BY <2>2 DEF Local, BindingTracked, Course, HandlesKey
  <2>3. CASE HandlesRow(a)
    BY <2>3 DEF Local, BindingTracked, Course, HandlesRow
  <2>4. CASE HandlesVM(a)
    BY <2>4 DEF Local, BindingTracked, Course, HandlesVM
  <2> QED BY <2>1, <2>2, <2>3, <2>4
<1>6. AsyncTracked(a)'
  <2>1. CASE Prepares(a)
    BY <2>1 DEF Local, AsyncTracked, Course, Prepares
  <2>2. CASE HandlesKey(a)
    BY <2>2 DEF Local, AsyncTracked, Course, HandlesKey
  <2>3. CASE HandlesRow(a)
    BY <2>3 DEF Local, AsyncTracked, Course, HandlesRow
  <2>4. CASE HandlesVM(a)
    BY <2>4 DEF Local, AsyncTracked, Course, HandlesVM
  <2> QED BY <2>1, <2>2, <2>3, <2>4
<1>7. AgentTracked(a)'
  <2>1. CASE Prepares(a)
    BY <2>1 DEF Local, AgentTracked, AsyncTracked, Course, Prepares
  <2>2. CASE HandlesKey(a)
    BY <2>2 DEF Local, AgentTracked, AsyncTracked, Course, HandlesKey
  <2>3. CASE HandlesRow(a)
    BY <2>3 DEF Local, AgentTracked, AsyncTracked, Course, HandlesRow
  <2>4. CASE HandlesVM(a)
    BY <2>4 DEF Local, AgentTracked, AsyncTracked, Course, HandlesVM
  <2> QED BY <2>1, <2>2, <2>3, <2>4
<1>8. KeyHeld(a)'
  <2>1. CASE Prepares(a)
    BY <2>1 DEF Local, KeyHeld, Course, Prepares
  <2>2. CASE HandlesKey(a)
    BY <2>2 DEF Local, KeyHeld, Course, HandlesKey
  <2>3. CASE HandlesRow(a)
    BY <2>3 DEF Local, KeyHeld, Course, HandlesRow
  <2>4. CASE HandlesVM(a)
    BY <2>4 DEF Local, KeyHeld, Course, HandlesVM
  <2> QED BY <2>1, <2>2, <2>3, <2>4
<1>9. Removing(a)'
  <2>1. CASE Prepares(a)
    BY <2>1 DEF Local, Removing, Succeeding, Course, Prepares
  <2>2. CASE HandlesKey(a)
    BY <2>2 DEF Local, Removing, Succeeding, Course, HandlesKey
  <2>3. CASE HandlesRow(a)
    BY <2>3 DEF Local, Removing, Succeeding, Course, HandlesRow
  <2>4. CASE HandlesVM(a)
    BY <2>4 DEF Local, Removing, Succeeding, Course, HandlesVM
  <2> QED BY <2>1, <2>2, <2>3, <2>4
<1>10. Succeeding(a)'
  <2>1. CASE Prepares(a)
    BY <2>1 DEF Local, Succeeding, Course, Prepares
  <2>2. CASE HandlesKey(a)
    BY <2>2 DEF Local, Succeeding, Course, HandlesKey
  <2>3. CASE HandlesRow(a)
    BY <2>3 DEF Local, Succeeding, Course, HandlesRow
  <2>4. CASE HandlesVM(a)
    BY <2>4 DEF Local, Succeeding, Course, HandlesVM
  <2> QED BY <2>1, <2>2, <2>3, <2>4
<1>11. Named(a)'
  <2>1. CASE Prepares(a)
    BY <2>1 DEF Local, Named, Course, Prepares
  <2>2. CASE HandlesKey(a)
    BY <2>2 DEF Local, Named, Course, HandlesKey
  <2>3. CASE HandlesRow(a)
    BY <2>3 DEF Local, Named, Course, HandlesRow
  <2>4. CASE HandlesVM(a)
    BY <2>4 DEF Local, Named, Course, HandlesVM
  <2> QED BY <2>1, <2>2, <2>3, <2>4
<1> QED BY <1>1, <1>2, <1>3, <1>4, <1>5, <1>6, <1>7, <1>8, <1>9, <1>10, <1>11


LEMMA RivalMoved == ASSUME NEW a \in Agents, Moved(a) PROVE Rival(a)' <=> Rival(a)
BY DEF Moved, Rival

LEMMA EffectBy ==
    ASSUME NEW a \in Agents, NEW pc, Running(a, pc), Moved(a),
           logged \subseteq logged', unheard \subseteq unheard', UNCHANGED <<op, overtaken, interrupted>>,
           Prepares(a) \/ HandlesKey(a) \/ HandlesRow(a) \/ HandlesVM(a)
    PROVE  Effect(a)
<1>1. Rival(a)' <=> Rival(a)
  BY RivalMoved
<1>2. Running(a, deploy[a].pc)
  BY DEF Running, At
<1> QED BY <1>1, <1>2 DEF Effect

LEMMA StoreTypes ==
    ASSUME TypeOK
    PROVE  /\ row \in [Agents -> RowRecord] /\ keyrow \in [Keys -> KeyRecord]
           /\ gkey \in [Keys -> {"none", "live", "dead"}] /\ vm \in [Agents -> {"none", "off", "on"}]
BY DEF TypeOK

LEMMA KeyBound ==
    ASSUME keyrow \in [Keys -> KeyRecord], NEW k \in Keys, NEW a,
           keyrow' = [keyrow EXCEPT ![k].agent = a]
    PROVE  /\ keyrow'[k].agent = a /\ keyrow'[k].status = keyrow[k].status
           /\ \A j \in Keys \ {k} : keyrow'[j] = keyrow[j]
BY DEF KeyRecord

LEMMA RowMarked ==
    ASSUME row \in [Agents -> RowRecord], NEW a \in Agents, NEW status,
           row' = [row EXCEPT ![a].status = status]
    PROVE  /\ row'[a].status = status /\ row'[a].key = row[a].key /\ row'[a].vmRef = row[a].vmRef
           /\ \A b \in Agents \ {a} : row'[b] = row[b]
BY DEF RowRecord

LEMMA KeyDeleted ==
    ASSUME NEW k, NEW ok, DeleteKey(k, ok)
    PROVE  gkey' = gkey \/ (gkey' = [gkey EXCEPT ![k] = "dead"] /\ gkey[k] = "live")
BY Zenon DEF DeleteKey

LEMMA RowDeleted ==
    ASSUME row \in [Agents -> RowRecord], keyrow \in [Keys -> KeyRecord], NEW a \in Agents, DeleteRow(a)
    PROVE  /\ row'[a].status = "none" /\ row'[a].key = NoKey
           /\ \A b \in Agents \ {a} : row'[b] = row[b]
           /\ \A k \in Keys : /\ keyrow'[k].status = keyrow[k].status
                              /\ keyrow'[k].agent = IF keyrow[k].agent = a THEN NoAgent ELSE keyrow[k].agent
BY DEF RowRecord, KeyRecord, DeleteRow, NoRow

LEMMA LookupExistingKeyEffect ==
    ASSUME TypeOK, NEW a \in Agents, LookupExistingKey(a)
    PROVE  Effect(a)
<1>1. Running(a, "lookup")
  BY RunningTypes DEF LookupExistingKey
<1>2. PICK pc \in {"enroll", "drop_row"} : Goto(a, pc)
  BY DEF LookupExistingKey
<1>3. Moves(a, pc)
  BY <1>1, <1>2, GotoMoves DEF Running, PCs, Ended
<1>4. Prepares(a)
  BY <1>1, <1>3 DEF LookupExistingKey, Prepares, Running, Moves, From, At, SameRow, SameKey,
     SameKeyRows, SameVM, SameEnrollment, Goto, Reuses, stores, credentials
<1> QED BY <1>1, <1>3, <1>4, EffectBy DEF LookupExistingKey, Moves, At, notes, ofOps

LEMMA ConnectVCenterEffect == ASSUME TypeOK, NEW a \in Agents, ConnectVCenter(a) PROVE Effect(a)
<1>1. Running(a, "connect")
  BY RunningTypes DEF ConnectVCenter
<1>2. PICK pc \in {"clone", "undo_key"} : Goto(a, pc)
  BY DEF ConnectVCenter
<1>3. Moves(a, pc)
  BY <1>1, <1>2, GotoMoves DEF Running, PCs, Ended
<1>4. Prepares(a)
  BY <1>1, <1>3 DEF ConnectVCenter, Prepares, Running, Moves, From, At, SameRow, SameKey,
     SameKeyRows, SameVM, SameEnrollment, Goto, Reuses, stores, credentials
<1> QED BY <1>1, <1>3, <1>4, EffectBy DEF ConnectVCenter, Moves, At, notes, ofOps

LEMMA SetGuestinfoEffect == ASSUME TypeOK, NEW a \in Agents, SetGuestinfo(a) PROVE Effect(a)
<1>1. Running(a, "guestinfo")
  BY RunningTypes DEF SetGuestinfo
<1>2. PICK pc \in {"power_on", "destroy"} : Goto(a, pc)
  BY DEF SetGuestinfo
<1>3. Moves(a, pc)
  BY <1>1, <1>2, GotoMoves DEF Running, PCs, Ended
<1>4. Prepares(a)
  BY <1>1, <1>3 DEF SetGuestinfo, Prepares, Running, Moves, From, At, SameRow, SameKey,
     SameKeyRows, SameVM, SameEnrollment, Goto, Reuses, stores, credentials
<1> QED BY <1>1, <1>3, <1>4, EffectBy DEF SetGuestinfo, Moves, At, notes, ofOps

LEMMA StartInstantEffect == ASSUME TypeOK, NEW a \in Agents, StartInstant(a) PROVE Effect(a)
<1>1. Running(a, "instant")
  BY RunningTypes DEF StartInstant
<1>2. PICK pc \in {"mint", "refused", "drop_row"} : Goto(a, pc)
  BY DEF StartInstant
<1>3. Moves(a, pc)
  BY <1>1, <1>2, GotoMoves DEF Running, PCs, Ended
<1>4. Prepares(a)
  BY <1>1, <1>3 DEF StartInstant, Prepares, Running, Moves, From, At, SameRow, SameKey,
     SameKeyRows, SameVM, SameEnrollment, Goto, Reuses, stores, credentials
<1> QED BY <1>1, <1>3, <1>4, EffectBy DEF StartInstant, Moves, At, notes, ofOps

LEMMA BindExistingKeyEffect == ASSUME TypeOK, NEW a \in Agents, BindExistingKey(a) PROVE Effect(a)
<1>1. Running(a, "bind")
  BY RunningTypes DEF BindExistingKey
<1>2. \A pc \in {"record", "drop_row"} : Goto(a, pc) => Moves(a, pc)
  BY <1>1, GotoMoves DEF Running, PCs, Ended
<1>3. HandlesKey(a) /\ Moved(a)
  BY <1>1, <1>2, StoreTypes, KeyBound DEF BindExistingKey, HandlesKey, Running, Moves, From, At,
     SameRow, SameKey, SameKeyRows, SameVM, SameEnrollment, Reuses, credentials
<1> QED BY <1>1, <1>3, EffectBy DEF BindExistingKey, notes, ofOps

LEMMA PersistKeyEffect == ASSUME TypeOK, NEW a \in Agents, PersistKey(a) PROVE Effect(a)
<1>1. Running(a, "persist")
  BY RunningTypes DEF PersistKey
<1>2. \A pc \in {"record", "undo_mint", "cancel_key"} : Goto(a, pc) => Moves(a, pc)
  BY <1>1, GotoMoves DEF Running, PCs, Ended
<1>3. HandlesKey(a) /\ Moved(a)
  BY <1>1, <1>2, StoreTypes DEF PersistKey, HandlesKey, Running, Moves, From, At, SameRow, SameKey,
     SameKeyRows, SameVM, SameEnrollment, Reuses, credentials
<1> QED BY <1>1, <1>3, EffectBy DEF PersistKey, notes, ofOps

LEMMA CloneFromTemplateEffect ==
    ASSUME TypeOK, NEW a \in Agents, CloneFromTemplate(a)
    PROVE  Effect(a)
<1>1. Running(a, "clone")
  BY RunningTypes DEF CloneFromTemplate
<1>2. PICK pc \in {"guestinfo", "undo_key"} : Goto(a, pc)
  BY DEF CloneFromTemplate
<1>3. Moves(a, pc)
  BY <1>1, <1>2, GotoMoves DEF Running, PCs, Ended
<1>4. HandlesVM(a)
  BY <1>1, <1>3, StoreTypes DEF CloneFromTemplate, HandlesVM, Running, Moves, From, At, SameRow,
     SameKey, SameKeyRows, SameVM, SameEnrollment, Goto, Reuses, credentials
<1> QED BY <1>1, <1>3, <1>4, EffectBy DEF CloneFromTemplate, Moves, At, notes, ofOps

LEMMA PowerOnEffect == ASSUME TypeOK, NEW a \in Agents, PowerOn(a) PROVE Effect(a)
<1>1. Running(a, "power_on")
  BY RunningTypes DEF PowerOn
<1>2. \A pc \in {"finalize", "destroy"} : Goto(a, pc) => Moves(a, pc)
  BY <1>1, GotoMoves DEF Running, PCs, Ended
<1>3. HandlesVM(a) /\ Moved(a)
  BY <1>1, <1>2, StoreTypes DEF PowerOn, HandlesVM, Running, Moves, From, At, SameRow, SameKey,
     SameKeyRows, SameVM, SameEnrollment, Reuses, credentials
<1> QED BY <1>1, <1>3, EffectBy DEF PowerOn, notes, ofOps

LEMMA DestroyVMEffect == ASSUME TypeOK, NEW a \in Agents, DestroyVM(a) PROVE Effect(a)
<1>1. Running(a, "destroy")
  BY RunningTypes DEF DestroyVM
<1>2. PICK pc \in {"undo_key", "undo_mint"} : Goto(a, pc)
  BY DEF DestroyVM
<1>3. Moves(a, pc)
  BY <1>1, <1>2, GotoMoves DEF Running, PCs, Ended
<1>4. HandlesVM(a)
  BY <1>1, <1>3, StoreTypes DEF DestroyVM, HandlesVM, Running, Moves, From, At, SameRow, SameKey,
     SameKeyRows, SameVM, SameEnrollment, Goto, Reuses, credentials
<1> QED BY <1>1, <1>3, <1>4, EffectBy DEF DestroyVM, Moves, At, notes, ofOps, Log

LEMMA FinalizeEffect == ASSUME TypeOK, NEW a \in Agents, Finalize(a) PROVE Effect(a)
<1>1. Running(a, "finalize")
  BY RunningTypes DEF Finalize
<1>2. \A pc \in {"done", "undo_key"} : Goto(a, pc) => Moves(a, pc)
  BY <1>1, GotoMoves DEF Running, PCs, Ended
<1>3. HandlesRow(a) /\ Moved(a)
  BY <1>1, <1>2, StoreTypes DEF Finalize, HandlesRow, Running, Moves, From, At, SameRow, SameKey,
     SameKeyRows, SameVM, SameEnrollment, Reuses, credentials, Exists, HasVM
<1> QED BY <1>1, <1>3, EffectBy DEF Finalize, notes, ofOps

LEMMA MarkFailedEffect == ASSUME TypeOK, NEW a \in Agents, MarkFailed(a) PROVE Effect(a)
<1>1. Running(a, "mark_failed")
  BY RunningTypes DEF MarkFailed
<1>2. PICK pc \in {"failed"} : Goto(a, pc)
  BY DEF MarkFailed
<1>3. Moves(a, pc)
  BY <1>1, <1>2, GotoMoves DEF Running, PCs, Ended
<1>4. HandlesRow(a)
  BY <1>1, <1>3, StoreTypes, RowMarked DEF MarkFailed, HandlesRow, Running, Moves, From, At,
     SameRow, SameKey, SameKeyRows, SameVM, SameEnrollment, Goto, Reuses, Log, Reported,
     credentials, Exists
<1> QED BY <1>1, <1>3, <1>4, EffectBy DEF MarkFailed, Moves, At, notes, ofOps, Log

LEMMA DropRowEffect == ASSUME TypeOK, NEW a \in Agents, DropRow(a) PROVE Effect(a)
<1>1. Running(a, "drop_row")
  BY RunningTypes DEF DropRow
<1>2. PICK pc \in {"drop_enrollment"} : Goto(a, pc)
  BY DEF DropRow
<1>3. Moves(a, pc)
  BY <1>1, <1>2, GotoMoves DEF Running, PCs, Ended
<1>4. HandlesRow(a)
  BY <1>1, <1>3, StoreTypes, RowDeleted DEF DropRow, HandlesRow, Running, Moves, From, At, SameRow,
     SameKey, SameKeyRows, SameVM, SameEnrollment, Goto, Reuses, Log, Reported, credentials, Exists
<1> QED BY <1>1, <1>3, <1>4, EffectBy DEF DropRow, Moves, At, notes, ofOps, Log

LEMMA UndoneIs == ASSUME TypeOK, NEW a \in Agents PROVE Undone(a) = UndoneTo(a)
<1>1. deploy[a].async \in BOOLEAN
  BY DEF TypeOK, DeployRecord
<1>2. CASE deploy[a].async = TRUE
  BY <1>2 DEF Undone, UndoneTo, Async
<1>3. CASE deploy[a].async = FALSE
  BY <1>3 DEF Undone, UndoneTo, Async
<1> QED BY <1>1, <1>2, <1>3

LEMMA UndoKeyEffect == ASSUME TypeOK, NEW a \in Agents, UndoKey(a) PROVE Effect(a)
<1>1. Running(a, "undo_key")
  BY RunningTypes DEF UndoKey
<1>2. Moves(a, IF Reuses(a) THEN UndoneTo(a) ELSE "undo_mint")
  BY <1>1, UndoneIs, GotoMoves DEF UndoKey, Running, UndoneTo, PCs
<1>3. \/ /\ Reuses(a) /\ keyrow'[a].status = keyrow[a].status /\ keyrow'[Spare].agent = NoAgent
      \/ /\ ~Reuses(a) /\ keyrow'[a].status = "none" /\ keyrow'[Spare].agent = keyrow[Spare].agent
      \/ /\ SameKeyRows(a)
         /\ Reported(IF Reuses(a) THEN <<"binding", Spare>> ELSE <<"keyrow", a>>)'
  <2>1. CASE keyrow' = [keyrow EXCEPT ![Spare].agent = NoAgent] /\ Reuses(a)
    <3>1. keyrow'[a].status = keyrow[a].status /\ keyrow'[Spare].agent = NoAgent
      BY <1>1, <2>1, StoreTypes, KeyBound DEF Running
    <3> QED BY <2>1, <3>1
  <2>2. CASE keyrow' = [keyrow EXCEPT ![a] = NoKeyRow] /\ ~Reuses(a)
    <3>1. keyrow'[a].status = "none" /\ keyrow'[Spare].agent = keyrow[Spare].agent
      BY <1>1, <2>2, StoreTypes DEF Running, NoKeyRow
    <3> QED BY <2>2, <3>1
  <2>3. CASE UNCHANGED keyrow /\ Log(IF Reuses(a) THEN <<"binding", Spare>> ELSE <<"keyrow", a>>)
    BY <1>2, <2>3 DEF Log, Reported, SameKeyRows, Reuses, Moves, Moved
  <2> QED BY <2>1, <2>2, <2>3 DEF UndoKey
<1>4. HandlesKey(a) /\ Moved(a)
  BY <1>1, <1>2, <1>3 DEF UndoKey, HandlesKey, Running, Moves, From, At, SameRow, SameKey, SameVM,
     SameEnrollment, credentials
<1> QED BY <1>1, <1>4, EffectBy DEF UndoKey, notes, ofOps, Log

LEMMA RevokeDeployKeyEffect == ASSUME TypeOK, NEW a \in Agents, RevokeDeployKey(a) PROVE Effect(a)
<1>1. Running(a, "undo_mint")
  BY RunningTypes DEF RevokeDeployKey
<1>2. PICK pc \in {"mark_failed", "drop_row"} : Goto(a, pc)
  BY DEF RevokeDeployKey, Undone
<1>3. Moves(a, pc)
  BY <1>1, <1>2, GotoMoves DEF Running, PCs, Ended
<1>4. HandlesKey(a)
  BY <1>1, <1>3, StoreTypes DEF RevokeDeployKey, HandlesKey, Running, Moves, From, At, SameRow,
     SameKey, SameKeyRows, SameVM, SameEnrollment, Goto, Reuses, Log, Reported, Undone, UndoneTo,
     Async, DeleteKey, credentials
<1> QED BY <1>1, <1>3, <1>4, EffectBy DEF RevokeDeployKey, Moves, At, notes, ofOps, Log

LEMMA CancelKeyEffect == ASSUME TypeOK, NEW a \in Agents, CancelKey(a) PROVE Effect(a)
<1>1. Running(a, "cancel_key")
  BY RunningTypes DEF CancelKey
<1>2. PICK pc \in {"panicked", "drop_row"} : Goto(a, pc)
  BY DEF CancelKey
<1>3. Moves(a, pc)
  BY <1>1, <1>2, GotoMoves DEF Running, PCs, Ended
<1>4. HandlesKey(a)
  BY <1>1, <1>3 DEF CancelKey, HandlesKey, Running, Moves, From, At, SameRow, SameKey, SameKeyRows,
     SameVM, SameEnrollment, Goto, Reuses, DeleteKey, credentials
<1> QED BY <1>1, <1>3, <1>4, EffectBy DEF CancelKey, Moves, At, notes, ofOps, Log

LEMMA EnrollEffect == ASSUME TypeOK, NEW a \in Agents, Enroll(a) PROVE Effect(a)
<1>1. Running(a, "enroll")
  BY RunningTypes DEF Enroll
<1>2. \A pc \in {"instant", "bind", "mint", "drop_row"} : Goto(a, pc) => Moves(a, pc)
  BY <1>1, GotoMoves DEF Running, PCs
<1>3. IssueEnrollment(a) => enrollment'[a].status = "pending"
  BY DEF IssueEnrollment, TypeOK, EnrollmentTypeOK, NoEnrollment
<1>4. Prepares(a) /\ Moved(a)
  <2>1. CASE IssueEnrollment(a) /\ deploy[a].mode = "instant" /\ Goto(a, "instant")
    BY <1>1, <1>2, <1>3, <2>1 DEF Enroll, Prepares, Running, Moves, From, At, SameRow, SameKey,
       SameKeyRows, SameVM, stores
  <2>2. CASE IssueEnrollment(a) /\ deploy[a].mode = "full" /\ Reuses(a) /\ Goto(a, "bind")
    BY <1>1, <1>2, <1>3, <2>2 DEF Enroll, Prepares, Running, Moves, From, At, SameRow, SameKey,
       SameKeyRows, SameVM, stores
  <2>3. CASE IssueEnrollment(a) /\ deploy[a].mode = "full" /\ ~Reuses(a) /\ Goto(a, "mint")
    BY <1>1, <1>2, <1>3, <2>3 DEF Enroll, Prepares, Running, Moves, From, At, SameRow, SameKey,
       SameKeyRows, SameVM, stores
  <2>4. CASE Goto(a, "drop_row") /\ UNCHANGED credentials
    BY <1>1, <1>2, <2>4 DEF Enroll, Prepares, Running, Moves, From, At, SameRow, SameKey,
       SameKeyRows, SameVM, SameEnrollment, stores, credentials
  <2> QED BY <1>1, <2>1, <2>2, <2>3, <2>4 DEF Enroll, Running
<1> QED BY <1>1, <1>4, EffectBy DEF Enroll, notes, ofOps

LEMMA GenerateKeyEffect == ASSUME TypeOK, NEW a \in Agents, GenerateKey(a) PROVE Effect(a)
<1>1. Running(a, "mint")
  BY RunningTypes DEF GenerateKey
<1>2. Goto(a, "drop_row") => Moves(a, "drop_row")
  BY <1>1, GotoMoves DEF Running, PCs
<1>3. HandlesKey(a) /\ Moved(a)
  <2>1. CASE /\ gkey' = [gkey EXCEPT ![a] = "live"]
             /\ deploy' = [deploy EXCEPT ![a].pc = IF deploy[a].mode = "full" THEN "persist" ELSE "save_phase",
                                         ![a].phase = IF deploy[a].mode = "full" THEN 0 ELSE 1]
    <3>1. /\ Moved(a) /\ (Async(a)' <=> Async(a))
          /\ deploy'[a].pc = IF deploy[a].mode = "full" THEN "persist" ELSE "save_phase"
          /\ deploy'[a].phase = IF deploy[a].mode = "full" THEN 0 ELSE 1
      <4>1. /\ (IF deploy[a].mode = "full" THEN "persist" ELSE "save_phase") \in PCs
            /\ (IF deploy[a].mode = "full" THEN 0 ELSE 1) \in 0..4
        BY DEF PCs
      <4> QED BY <1>1, <2>1, <4>1, PhaseMoves DEF Running
    <3>2. gkey'[a] = "live"
      BY <1>1, <2>1, StoreTypes DEF Running
    <3> QED BY <1>1, <3>1, <3>2 DEF GenerateKey, HandlesKey, Running, From, At, SameRow, SameVM,
               SameKeyRows, SameEnrollment, credentials
  <2>2. CASE Goto(a, "drop_row") /\ UNCHANGED <<gkey, unheard>>
    BY <1>1, <1>2, <2>2 DEF GenerateKey, HandlesKey, Running, Moves, From, At, SameRow, SameVM,
       SameKey, SameKeyRows, SameEnrollment, credentials
  <2>3. CASE /\ Goto(a, "drop_row") /\ gkey' = [gkey EXCEPT ![a] = "live"]
             /\ unheard' = unheard \union {<<"key", a>>}
    <3>1. gkey'[a] = "live" /\ Reported(<<"key", a>>)'
      BY <1>1, <2>3, StoreTypes DEF Running, Reported
    <3> QED BY <1>1, <1>2, <2>3, <3>1 DEF GenerateKey, HandlesKey, Running, Moves, From, At,
               SameRow, SameVM, SameKeyRows, SameEnrollment, credentials
  <2> QED BY <2>1, <2>2, <2>3 DEF GenerateKey
<1> QED BY <1>1, <1>3, EffectBy DEF GenerateKey, ofOps

LEMMA RecordAgentEffect == ASSUME TypeOK, NEW a \in Agents, RecordAgent(a) PROVE Effect(a)
<1>1. Running(a, "record")
  BY RunningTypes DEF RecordAgent
<1> DEFINE full == deploy[a].mode = "full"
<1>2. HandlesRow(a) /\ Moved(a)
  <2>1. CASE /\ Exists(a)
             /\ row' = [row EXCEPT ![a] =
                    [status |-> IF full THEN "provisioning" ELSE "running", vmRef |-> TRUE,
                     key |-> IF full THEN deploy[a].key ELSE a]]
             /\ deploy' = [deploy EXCEPT ![a].pc = IF full THEN "connect" ELSE "done", ![a].async = full]
    <3>1. /\ Moved(a) /\ (Async(a)' <=> full)
          /\ deploy'[a].pc = IF full THEN "connect" ELSE "done"
      <4>1. (IF full THEN "connect" ELSE "done") \in PCs /\ full \in BOOLEAN
        BY DEF PCs, Ended
      <4>2. Moved(a) /\ deploy'[a].pc = (IF full THEN "connect" ELSE "done") /\ (Async(a)' <=> full = TRUE)
        BY <1>1, <2>1, <4>1, AsyncMoves DEF Running
      <4> QED BY <4>2
    <3>2. row'[a].status # "none" /\ row'[a].vmRef = TRUE /\ row'[a].key = OwnKey(a)
      BY <1>1, <2>1, StoreTypes DEF OwnKey
    <3> QED BY <1>1, <2>1, <3>1, <3>2 DEF RecordAgent, HandlesRow, Running, From, At, SameKey,
               SameVM, SameKeyRows, SameEnrollment, credentials, Exists, HasVM
  <2>2. CASE Goto(a, IF full THEN "undo_key" ELSE "destroy") /\ UNCHANGED row
    <3>1. Moves(a, IF full THEN "undo_key" ELSE "destroy")
      BY <1>1, <2>2, GotoMoves DEF Running, PCs
    <3> QED BY <1>1, <2>2, <3>1 DEF RecordAgent, HandlesRow, Running, Moves, From, At, SameKey,
               SameVM, SameRow, SameKeyRows, SameEnrollment, credentials
  <2> QED BY <2>1, <2>2 DEF RecordAgent
<1> QED BY <1>1, <1>2, EffectBy DEF RecordAgent, notes, ofOps

LEMMA DropEnrollmentEffect == ASSUME TypeOK, NEW a \in Agents, DropEnrollment(a) PROVE Effect(a)
<1>1. Running(a, "drop_enrollment")
  BY RunningTypes DEF DropEnrollment
<1>2. Moves(a, "refused")
  BY <1>1, GotoMoves DEF DropEnrollment, Running, PCs, Ended
<1>3. DeleteEnrollment(a) => enrollment'[a].status = "none"
  BY DEF DeleteEnrollment, TypeOK, EnrollmentTypeOK, NoEnrollment
<1>4. HandlesRow(a)
  BY <1>1, <1>2, <1>3 DEF DropEnrollment, HandlesRow, Running, Moves, From, At, SameRow, SameKey,
     SameKeyRows, SameVM, SameEnrollment, stores, credentials, Log, Reported
<1> QED BY <1>1, <1>2, <1>4, EffectBy DEF DropEnrollment, Moves, ofOps, Log

LEMMA SavePhaseEffect == ASSUME TypeOK, NEW a \in Agents, SavePhase(a) PROVE Effect(a)
<1>1. Running(a, "save_phase")
  BY RunningTypes DEF SavePhase
<1>2. HandlesRow(a) /\ Moved(a)
  <2>1. CASE Exists(a) /\ Goto(a, "work") /\ row' = [row EXCEPT ![a].status = "building"]
    <3>1. Moves(a, "work")
      BY <1>1, <2>1, GotoMoves DEF Running, PCs
    <3>2. row'[a].status # "none" /\ row'[a].key = row[a].key
      BY <2>1, StoreTypes, RowMarked
    <3> QED BY <1>1, <2>1, <3>1, <3>2 DEF SavePhase, HandlesRow, Running, Moves, From, At, SameKey,
               SameVM, SameKeyRows, SameEnrollment, credentials
  <2>2. CASE UNCHANGED row /\ deploy' = [deploy EXCEPT ![a].pc = "cancel_key", ![a].nilRow = TRUE]
    <3>1. Moves(a, "cancel_key")
      BY <1>1, <2>2, NilMoves DEF Running, PCs
    <3> QED BY <1>1, <2>2, <3>1 DEF SavePhase, HandlesRow, Running, Moves, From, At, SameKey,
               SameVM, SameRow, SameKeyRows, SameEnrollment, credentials
  <2> QED BY <2>1, <2>2 DEF SavePhase
<1> QED BY <1>1, <1>2, EffectBy DEF SavePhase, notes, ofOps

LEMMA InstantCloneEffect == ASSUME TypeOK, NEW a \in Agents, InstantClone(a) PROVE Effect(a)
<1>1. Running(a, "work")
  BY RunningTypes DEF InstantClone
<1>2. \A pc \in {"refused", "cancel_key"} : Goto(a, pc) => Moves(a, pc)
  BY <1>1, GotoMoves DEF Running, PCs, Ended
<1>3. NextPhase(a) => /\ Moved(a) /\ (Async(a)' <=> Async(a))
                      /\ deploy'[a].pc = "save_phase" /\ deploy'[a].phase = 2
  BY <1>1, NextPhaseMoves DEF Running, InstantClone
<1>4. vm' = [vm EXCEPT ![a] = "on"] => vm'[a] = "on"
  BY StoreTypes
<1>5. HandlesVM(a) /\ Moved(a)
  BY <1>1, <1>2, <1>3, <1>4 DEF InstantClone, HandlesVM, Running, Moves, From, At, SameKey, SameVM,
     SameRow, SameKeyRows, SameEnrollment, credentials
<1> QED BY <1>1, <1>5, EffectBy DEF InstantClone, ofOps

LEMMA InstantWorkEffect == ASSUME TypeOK, NEW a \in Agents, InstantWork(a) PROVE Effect(a)
<1>1. Running(a, "work")
  BY RunningTypes DEF InstantWork
<1>2. Goto(a, "cancel_key") => Moves(a, "cancel_key")
  BY <1>1, GotoMoves DEF Running, PCs
<1>3. deploy' = [deploy EXCEPT ![a].pc = "cancel_key", ![a].nilRow = TRUE] => Moves(a, "cancel_key")
  BY <1>1, NilMoves DEF Running, PCs
<1>4. NextPhase(a) => /\ Moved(a) /\ (Async(a)' <=> Async(a))
                      /\ \/ deploy'[a].pc = "persist"
                         \/ deploy'[a].pc = "save_phase" /\ deploy'[a].phase > 1
  <2>1. deploy[a].phase \in 0..4 /\ deploy[a].phase > 1
    BY DEF InstantWork, TypeOK, DeployRecord
  <2> QED BY <1>1, <2>1, NextPhaseMoves DEF Running
<1>5. row' = [row EXCEPT ![a].status = "failed"] => row'[a].status = "failed" /\ row'[a].key = row[a].key
  BY StoreTypes, RowMarked
<1>6. HandlesVM(a) /\ Moved(a)
  BY <1>1, <1>2, <1>3, <1>4, <1>5 DEF InstantWork, HandlesVM, Running, Moves, From, At, SameKey,
     SameVM, SameRow, SameKeyRows, SameEnrollment, credentials
<1> QED BY <1>1, <1>6, EffectBy DEF InstantWork, notes, ofOps

LEMMA CrashDeployEffect == ASSUME TypeOK, NEW a \in Agents, CrashDeploy(a) PROVE Effect(a)
<1>1. Running(a, deploy[a].pc)
  BY RunningTypes DEF CrashDeploy, Ended, At
<1>2. Moves(a, "crashed")
  BY <1>1, GotoMoves DEF CrashDeploy, Running, PCs, Ended
<1>3. Prepares(a)
  BY <1>1, <1>2 DEF CrashDeploy, Prepares, Moves, SameRow, SameKey, SameKeyRows, SameVM,
     SameEnrollment, stores, credentials
<1> QED BY <1>1, <1>2, <1>3, EffectBy DEF CrashDeploy, Moves, notes, ofOps

LEMMA DeployStepEffect ==
    ASSUME TypeOK, NEW a \in Agents, DeployStep(a) \/ CrashDeploy(a)
    PROVE  Effect(a)
BY LookupExistingKeyEffect, EnrollEffect, StartInstantEffect, GenerateKeyEffect, PersistKeyEffect,
   BindExistingKeyEffect, RecordAgentEffect, ConnectVCenterEffect, CloneFromTemplateEffect,
   SetGuestinfoEffect, PowerOnEffect, DestroyVMEffect, FinalizeEffect, UndoKeyEffect,
   RevokeDeployKeyEffect, MarkFailedEffect, DropRowEffect, DropEnrollmentEffect, SavePhaseEffect,
   InstantCloneEffect, InstantWorkEffect, CancelKeyEffect, CrashDeployEffect DEF DeployStep


(***************************************************************************)
(* A step for one agent and what is said of the others.  They can only lose *)
(* the spare key, to an agent whose deployment reuses it too.               *)
(***************************************************************************)
KeepsBinding(b) ==
    \/ keyrow'[Spare].agent = keyrow[Spare].agent
    \/ keyrow'[Spare].agent # b /\ (keyrow[Spare].agent = b => Rival(b)')

Beside(b) ==
    /\ SameRow(b) /\ SameKey(b) /\ keyrow'[b].status = keyrow[b].status /\ SameVM(b)
    /\ enrollment'[b].status = "none" <=> enrollment[b].status = "none"
    /\ enrollment[b].revoked = TRUE => enrollment'[b].revoked = TRUE
    /\ deploy'[b] = deploy[b] /\ KeepsBinding(b) /\ (Rival(b) => Rival(b)')
    /\ logged \subseteq logged' /\ unheard \subseteq unheard'
    /\ op' = op \/ (op.agent # b /\ op'.agent # b)
    /\ b \in overtaken' <=> b \in overtaken
    /\ b \in interrupted' <=> b \in interrupted

LEMMA BesideKeeps == ASSUME NEW b \in Agents, Local(b), Beside(b) PROVE Local(b)'
<1> USE DEF Beside, KeepsBinding, SameRow, SameKey, SameVM, At, Full, Mints, OwnKey, VMGone, KeyGone, PassedOver,
            CredentialGone, Exists, Reuses, Reported, OpAt, Async, HasVM
<1>1. Course(b)' /\ Fresh(b)' /\ KeyTracked(b)' /\ RowTracked(b)'
  BY DEF Local, Course, Fresh, KeyTracked, RowTracked
<1>2. BindingTracked(b)' /\ AsyncTracked(b)' /\ AgentTracked(b)' /\ KeyHeld(b)'
  BY DEF Local, BindingTracked, AsyncTracked, AgentTracked, KeyHeld
<1>3. Removing(b)'
  BY DEF Local, Removing, LacksClient
<1>4. Succeeding(b)'
  BY DEF Local, Succeeding
<1>5. Named(b)'
  BY DEF Local, Named
<1> QED BY <1>1, <1>2, <1>3, <1>4, <1>5 DEF Local

\* What a step of the deployment of a leaves of the stores of the others.
Elsewhere(b) ==
    /\ SameRow(b) /\ SameKey(b) /\ keyrow'[b].status = keyrow[b].status /\ SameVM(b) /\ SameEnrollment(b)

LEMMA DeployStepElsewhere ==
    ASSUME TypeOK, NEW a \in Agents, NEW b \in Agents \ {a}, DeployStep(a) \/ CrashDeploy(a)
    PROVE  Elsewhere(b)
<1> USE StoreTypes DEF Elsewhere, SameRow, SameKey, SameVM, SameEnrollment, stores, credentials
<1>1. b \in Keys /\ Spare \in Keys /\ a \in Keys /\ b # Spare
  BY NamesAssumption DEF Keys
<1>2. CASE LookupExistingKey(a) \/ StartInstant(a) \/ ConnectVCenter(a) \/ SetGuestinfo(a) \/ CrashDeploy(a)
  BY <1>2 DEF LookupExistingKey, StartInstant, ConnectVCenter, SetGuestinfo, CrashDeploy
<1>3. CASE Enroll(a) \/ DropEnrollment(a)
  <2>1. UNCHANGED credentials \/ CredentialStep(a)
    BY <1>3 DEF Enroll, DropEnrollment, CredentialStep
  <2>2. enrollment'[b] = enrollment[b]
    BY <2>1, OthersKeepCredential DEF TypeOK, SameCredential
  <2> QED BY <1>3, <2>2 DEF Enroll, DropEnrollment
<1>4. CASE GenerateKey(a) \/ RevokeDeployKey(a) \/ CancelKey(a)
  <2>1. gkey' = gkey \/ \E x : gkey' = [gkey EXCEPT ![a] = x]
    <3>1. CASE GenerateKey(a)
      BY <3>1 DEF GenerateKey
    <3>2. CASE RevokeDeployKey(a)
      BY <3>2, KeyDeleted DEF RevokeDeployKey
    <3>3. CASE CancelKey(a)
      BY <3>3, KeyDeleted DEF CancelKey
    <3> QED BY <1>4, <3>1, <3>2, <3>3
  <2>2. gkey'[b] = gkey[b]
    BY <1>1, <2>1
  <2> QED BY <1>4, <2>2 DEF GenerateKey, RevokeDeployKey, CancelKey
<1>5. CASE PersistKey(a) \/ BindExistingKey(a) \/ UndoKey(a)
  <2>1. \/ UNCHANGED keyrow
        \/ \E x : keyrow' = [keyrow EXCEPT ![a] = x]
        \/ \E x : keyrow' = [keyrow EXCEPT ![Spare].agent = x]
    BY <1>5 DEF PersistKey, BindExistingKey, UndoKey
  <2>2. keyrow'[b] = keyrow[b]
    BY <1>1, <2>1
  <2> QED BY <1>5, <2>2 DEF PersistKey, BindExistingKey, UndoKey
<1>6. CASE CloneFromTemplate(a) \/ PowerOn(a) \/ DestroyVM(a) \/ InstantClone(a)
  BY <1>6 DEF CloneFromTemplate, PowerOn, DestroyVM, InstantClone
<1>7. CASE RecordAgent(a) \/ Finalize(a) \/ MarkFailed(a) \/ SavePhase(a) \/ InstantWork(a)
  <2>1. row'[b] = row[b]
    BY <1>7 DEF RecordAgent, Finalize, MarkFailed, SavePhase, InstantWork
  <2> QED BY <1>7, <2>1 DEF RecordAgent, Finalize, MarkFailed, SavePhase, InstantWork
<1>8. CASE DropRow(a)
  BY <1>1, <1>8, RowDeleted DEF DropRow
<1> QED BY <1>2, <1>3, <1>4, <1>5, <1>6, <1>7, <1>8 DEF DeployStep

LEMMA BindingByEffect ==
    ASSUME NEW a \in Agents, Local(a), Effect(a)
    PROVE  \/ keyrow'[Spare].agent = keyrow[Spare].agent
           \/ keyrow'[Spare].agent \in {a, NoAgent} /\ Reuses(a)
<1> USE DEF From, At, Reuses, SameKeyRows
<1>1. CASE Prepares(a) \/ HandlesVM(a)
  BY <1>1 DEF Prepares, HandlesVM
<1>2. CASE HandlesKey(a)
  BY <1>2 DEF HandlesKey, Local, Course
<1>3. CASE HandlesRow(a)
  BY <1>3 DEF HandlesRow, Local, Named
<1> QED BY <1>1, <1>2, <1>3 DEF Effect

LEMMA MovedByEffect == ASSUME NEW a \in Agents, Effect(a) PROVE Moved(a)
BY DEF Effect, Prepares, HandlesKey, HandlesRow, HandlesVM, Moves

LEMMA DeployStepKeeps ==
    ASSUME DeployInv, NEW a \in Agents, DeployStep(a) \/ CrashDeploy(a)
    PROVE  \A b \in Agents : Local(b)'
<1>1. TypeOK /\ Local(a) /\ Effect(a) /\ Moved(a)
  BY DeployStepEffect, MovedByEffect DEF DeployInv
<1>2. Local(a)'
  BY <1>1, TrackedByEffect DEF Local
<1>3. ASSUME NEW b \in Agents \ {a} PROVE Local(b)'
  <2>1. Elsewhere(b) /\ b # NoAgent /\ Local(b)
    BY <1>1, DeployStepElsewhere, NamesAssumption DEF DeployInv
  <2>2. KeepsBinding(b) /\ (Rival(b) => Rival(b)')
    <3>1. \A c \in Agents : deploy'[c].key = deploy[c].key
      BY <1>1 DEF Moved
    <3>2. \/ keyrow'[Spare].agent = keyrow[Spare].agent
          \/ keyrow'[Spare].agent \in {a, NoAgent} /\ Reuses(a)
      BY <1>1, BindingByEffect
    <3> QED BY <2>1, <3>1, <3>2 DEF KeepsBinding, Rival, Reuses
  <2>3. Beside(b)
    BY <1>1, <2>1, <2>2 DEF Beside, Elsewhere, SameEnrollment, Moved, Effect
  <2> QED BY <2>1, <2>3, BesideKeeps
<1> QED BY <1>2, <1>3

LEMMA DeployAgentKeeps ==
    ASSUME DeployInv, NEW a \in Agents, NEW mode \in Modes, NEW key \in Keys, <<a, mode, key>> \in Plans,
           DeployAgent(a, mode, key)
    PROVE  \A b \in Agents : Local(b)'
<1>1. key \in {a, Spare} /\ a # Spare /\ a # NoAgent /\ NoKey # Spare /\ a \in Keys /\ Spare \in Keys
  BY PlansAssumption, NamesAssumption DEF Keys
<1> DEFINE x == [NotAsked EXCEPT !.pc = IF key = Spare THEN "lookup" ELSE "enroll", !.mode = mode, !.key = key]
<1>2. /\ x.pc = (IF key = Spare THEN "lookup" ELSE "enroll") /\ x.mode = mode /\ x.key = key
      /\ x.async = FALSE
  BY DEF NotAsked
<1>3. deploy' = [deploy EXCEPT ![a] = x]
  BY DEF DeployAgent
<1> HIDE DEF x
<1>4. deploy'[a] = x /\ \A b \in Agents \ {a} : deploy'[b] = deploy[b]
  BY <1>3 DEF DeployInv, TypeOK
<1>5. /\ row'[a].status = "provisioning" /\ row'[a].key = NoKey /\ row'[a].vmRef = FALSE
      /\ \A b \in Agents \ {a} : row'[b] = row[b]
  BY StoreTypes DEF DeployAgent, DeployInv, NoRow
<1>6. UNCHANGED <<keyrow, gkey, vm, logged, unheard, op, overtaken, interrupted, enrollment>>
  BY DEF DeployAgent, notes, ofOps, credentials
<1>7. Fresh(a) /\ At(a, "idle")
  BY DEF DeployAgent, DeployInv, Local
<1>8. Local(a)'
  <2> USE <1>1, <1>2, <1>4, <1>5, <1>6, <1>7 DEF Fresh, At, Full, Mints, OwnKey, Exists, Reuses, OpAt,
          Async, HasVM, Building, Background, Ended
  <2>1. Course(a)' /\ Fresh(a)' /\ KeyTracked(a)' /\ RowTracked(a)'
    BY DEF Course, KeyTracked, RowTracked
  <2>2. BindingTracked(a)' /\ AsyncTracked(a)' /\ AgentTracked(a)' /\ KeyHeld(a)'
    BY DEF BindingTracked, AsyncTracked, AgentTracked, KeyHeld
  <2>3. Removing(a)' /\ Succeeding(a)' /\ Named(a)'
    BY DEF Removing, Succeeding, Named
  <2> QED BY <2>1, <2>2, <2>3 DEF Local
<1>9. ASSUME NEW b \in Agents \ {a} PROVE Local(b)'
  <2>1. Rival(b) => Rival(b)'
    BY <1>4, <1>7 DEF Rival, Fresh, Reuses
  <2>2. Beside(b)
    BY <1>4, <1>5, <1>6, <2>1 DEF Beside, KeepsBinding, SameRow, SameKey, SameVM
  <2> QED BY <2>2, BesideKeeps DEF DeployInv
<1> QED BY <1>8, <1>9


(***************************************************************************)
(* An operation only takes away what its agent's deployment has made.       *)
(***************************************************************************)
\* What the types and OpShape say of an operation on a while it is served.
Served(a, pc) ==
    /\ op.agent = a /\ op.pc = pc /\ pc # "idle" /\ a \in Agents /\ a # NoAgent /\ a # Spare
    /\ NoKey # Spare /\ NoKey # a /\ a \in Keys /\ Spare \in Keys
    /\ deploy[a].key \in {a, Spare} /\ deploy[a].pc # "idle" /\ OpShape
    /\ deploy[a].mode = "full" \/ deploy[a].mode = "instant"

LEMMA ServedTypes ==
    ASSUME TypeOK, OpShape, NEW pc, pc # "idle", OpAt(pc), \A a \in Agents : Local(a)
    PROVE  Served(op.agent, pc)
<1>1. op.agent \in Agents
  BY DEF TypeOK, OpAt
<1>2. deploy[op.agent].pc # "idle"
  BY <1>1 DEF Local, Fresh, At
<1>3. deploy[op.agent].key \in {op.agent, Spare}
  BY <1>1, <1>2 DEF TypeOK
<1>4. deploy[op.agent].mode = "full" \/ deploy[op.agent].mode = "instant"
  BY <1>1 DEF TypeOK, DeployRecord, Modes
<1> QED BY <1>1, <1>2, <1>3, <1>4, NamesAssumption DEF Served, OpAt, Keys

\* The operation is over, or goes on to the step pc.
Ends      == op' = NoOp
GoesTo(pc) ==
    op'.pc = pc /\ op'.kind = op.kind /\ op'.agent = op.agent /\ op'.key = op.key

LEMMA OpMoves ==
    ASSUME TypeOK, NEW pc, OpGoto(pc)
    PROVE  GoesTo(pc) /\ UNCHANGED <<ops, overtaken, interrupted>>
<1> DEFINE x == [op EXCEPT !.pc = pc]
<1>1. x.pc = pc /\ x.kind = op.kind /\ x.agent = op.agent /\ x.key = op.key
  BY DEF TypeOK, OpRecord
<1>2. op' = x
  BY DEF OpGoto
<1> HIDE DEF x
<1> QED BY <1>1, <1>2 DEF GoesTo, OpGoto

OpKeeps(a) ==
    /\ UNCHANGED <<deploy, overtaken>> /\ logged \subseteq logged' /\ unheard \subseteq unheard'
    /\ Exists(a)' => Exists(a)
    /\ row'[a].status = "provisioning" => row[a].status = "provisioning"
    /\ row'[a].key \in {row[a].key, NoKey}
    /\ gkey'[a] = "live" => gkey[a] = "live"
    /\ keyrow'[a].status = "none" <=> keyrow[a].status = "none"
    /\ keyrow[a].status = "revoked" => keyrow'[a].status = "revoked"
    /\ keyrow'[Spare].agent \in {keyrow[Spare].agent, NoAgent}
    /\ vm'[a] # "none" => vm[a] # "none"
    /\ enrollment'[a].status # "none" => enrollment[a].status # "none"
    /\ Ends \/ (op'.agent = a /\ op'.key = op.key)

LEMMA OpLeavesDeployment ==
    ASSUME NEW a, NEW pc, Served(a, pc), Local(a), OpKeeps(a)
    PROVE  /\ Course(a)' /\ Fresh(a)' /\ KeyTracked(a)' /\ RowTracked(a)' /\ BindingTracked(a)'
           /\ AsyncTracked(a)' /\ AgentTracked(a)' /\ KeyHeld(a)' /\ Succeeding(a)' /\ Named(a)'
<1> USE DEF Served, OpKeeps, Ends, At, Full, Mints, OwnKey, Exists, Reuses, Reported, OpAt, Async
<1>1. Course(a)' /\ Fresh(a)' /\ KeyTracked(a)' /\ RowTracked(a)'
  BY DEF Local, Course, Fresh, KeyTracked, RowTracked
<1>2. BindingTracked(a)' /\ AsyncTracked(a)' /\ AgentTracked(a)' /\ KeyHeld(a)'
  BY DEF Local, BindingTracked, AsyncTracked, AgentTracked, KeyHeld
<1>3. Succeeding(a)'
  BY DEF Local, Succeeding, Building, Ended
<1>4. Named(a)'
  BY DEF Local, Named, NoOp
<1> QED BY <1>1, <1>2, <1>3, <1>4

OpHolds(a) == OpKeeps(a) /\ Removing(a)' /\ OpShape'

\* What is known of the key of an operation on a deployed agent.
LEMMA RemovingKey ==
    ASSUME NEW a, NEW pc, Served(a, pc), Local(a), a \notin overtaken \union interrupted, At(a, "done")
    PROVE  /\ op.key = OwnKey(a) /\ op.key \in {a, Spare}
           /\ op.key = Spare => KeyGone(a)
           /\ op.key = a => keyrow[a].status # "none"
BY DEF Served, Local, Removing, KeyTracked, KeyHeld, Course, OwnKey, At, OpAt, Full, Mints, Reuses,
   KeyGone, PassedOver, Background, Building

LEMMA AfterVMIs ==
    ASSUME NEW kind \in {"recycle", "hard_delete"}, NEW key
    PROVE  AfterVM(kind, key) = IF key # NoKey THEN "revoke_key"
                                ELSE IF kind = "recycle" THEN "revoke_enrollment" ELSE "drop_row"
<1>1. CASE kind = "recycle"
  BY <1>1 DEF AfterVM
<1>2. CASE kind = "hard_delete"
  BY <1>2 DEF AfterVM
<1> QED BY <1>1, <1>2

LEMMA OpDestroyHolds == ASSUME DeployInv, NEW a \in Agents, op.agent = a, OpDestroy PROVE OpHolds(a)
<1>1. Served(a, "destroy") /\ Local(a) /\ Removing(a)
  BY ServedTypes DEF DeployInv, Local, OpDestroy
<1>2. \A pc : OpGoto(pc) => GoesTo(pc) /\ UNCHANGED <<ops, overtaken, interrupted>>
  BY OpMoves DEF DeployInv
<1>3. op.kind \in {"recycle", "hard_delete"}
  BY <1>1 DEF Served, OpShape
<1> DEFINE pc == AfterVM(op.kind, op.key)
<1>4. pc = IF op.key # NoKey THEN "revoke_key"
           ELSE IF op.kind = "recycle" THEN "revoke_enrollment" ELSE "drop_row"
  BY <1>3, AfterVMIs
<1>5. /\ UNCHANGED <<row, keyrow, gkey, deploy, unheard, enrollment, overtaken, interrupted>>
      /\ \/ GoesTo(pc) /\ vm' = [vm EXCEPT ![a] = "none"] /\ UNCHANGED logged
         \/ Ends /\ UNCHANGED <<vm, logged>>
         \/ GoesTo(pc) /\ UNCHANGED vm /\ logged' = logged \union {<<"vm", a>>}
  BY <1>2 DEF OpDestroy, Idle, Ends, Log, credentials
<1> HIDE DEF pc
<1>6. vm'[a] = "none" \/ SameVM(a)
  BY <1>5, StoreTypes DEF DeployInv, SameVM
<1>7. OpKeeps(a)
  BY <1>1, <1>5, <1>6 DEF OpKeeps, Served, GoesTo, Ends, SameVM, Exists
<1>8. Removing(a)'
  <2>1. ~Ends => VMGone(a)' /\ GoesTo(pc)
    BY <1>5, StoreTypes DEF VMGone, Reported, DeployInv
  <2>2. VMGone(a) => VMGone(a)'
    BY <1>5, <1>6 DEF VMGone, Reported, SameVM
  <2>3. a \notin overtaken \union interrupted /\ At(a, "done") => op.key # NoKey
    BY <1>1, RemovingKey DEF Served
  <2> QED BY <1>1, <1>4, <1>5, <2>1, <2>2, <2>3 DEF Removing, Served, Ends, GoesTo, NoOp, At,
             Exists, HasVM, OwnKey, KeyGone, PassedOver, LacksClient, CredentialGone, Reported, OpAt
<1>9. OpShape'
  BY <1>1, <1>3, <1>4, <1>5 DEF OpShape, Served, Ends, GoesTo, NoOp, OpAt
<1> QED BY <1>7, <1>8, <1>9 DEF OpHolds

LEMMA OpRevokeKeyHolds ==
    ASSUME DeployInv, NEW a \in Agents, op.agent = a, OpRevokeKey
    PROVE  OpHolds(a)
<1>1. Served(a, "revoke_key") /\ Local(a) /\ Removing(a)
  BY ServedTypes DEF DeployInv, Local, OpRevokeKey
<1>2. \A pc : OpGoto(pc) => GoesTo(pc) /\ UNCHANGED <<ops, overtaken, interrupted>>
  BY OpMoves DEF DeployInv
<1>3. op.kind \in {"recycle", "hard_delete"} /\ op.key \in Keys
  BY <1>1 DEF Served, OpShape, DeployInv, TypeOK
<1>4. AfterKey \in {"revoke_enrollment", "unbind"} /\ (AfterKey = "revoke_enrollment" <=> op.kind = "recycle")
  BY <1>3 DEF AfterKey
<1>5. /\ UNCHANGED <<row, keyrow, vm, deploy, enrollment, overtaken, interrupted>>
      /\ logged \subseteq logged' /\ unheard \subseteq unheard'
      /\ gkey' = gkey \/ gkey' = [gkey EXCEPT ![op.key] = "dead"]
      /\ GoesTo(AfterKey) \/ GoesTo("mark_key")
      /\ \/ keyrow[op.key].status = "none"
         \/ Reported(<<"key", op.key>>)'
         \/ gkey' = [gkey EXCEPT ![op.key] = "dead"]
         \/ op.kind = "hard_delete" /\ GoesTo("mark_key") /\ <<"client", op.key>> \in unheard'
  <2>1. UNCHANGED <<row, keyrow, vm, deploy, enrollment>>
    BY DEF OpRevokeKey, credentials
  <2>2. CASE keyrow[op.key].status = "none" /\ OpGoto(AfterKey) /\ UNCHANGED <<gkey, notes>>
    BY <1>2, <2>1, <2>2 DEF notes
  <2>3. CASE OpGoto(AfterKey) /\ unheard' = unheard \union {<<"key", op.key>>} /\ UNCHANGED <<gkey, logged>>
    <3>1. Reported(<<"key", op.key>>)'
      <4>1. op'.key = op.key
        BY <1>2, <2>3 DEF GoesTo
      <4> QED BY <2>3, <4>1 DEF Reported
    <3> QED BY <1>2, <2>1, <2>3, <3>1
  <2>4. CASE DeleteKey(op.key, TRUE) /\ OpGoto("mark_key") /\ UNCHANGED notes
    <3>1. gkey' = [gkey EXCEPT ![op.key] = "dead"]
      BY <2>4 DEF DeleteKey
    <3> QED BY <1>2, <2>1, <2>4, <3>1 DEF notes
  <2>5. CASE /\ DeleteKey(op.key, FALSE) /\ Log(<<"key", op.key>>) /\ UNCHANGED unheard
             /\ OpGoto(IF op.kind = "recycle" THEN AfterKey ELSE "mark_key")
    <3>1. GoesTo(AfterKey) \/ GoesTo("mark_key")
      BY <1>2, <2>5
    <3>2. Reported(<<"key", op.key>>)'
      <4>1. op'.key = op.key
        BY <3>1 DEF GoesTo
      <4> QED BY <2>5, <4>1 DEF Reported, Log
    <3>3. gkey' = gkey \/ gkey' = [gkey EXCEPT ![op.key] = "dead"]
      BY <2>5, KeyDeleted
    <3>4. UNCHANGED <<overtaken, interrupted>>
      BY <1>2, <2>5
    <3> QED BY <2>1, <2>5, <3>1, <3>2, <3>3, <3>4 DEF Log
  <2>6. CASE op.kind = "recycle" /\ OpGoto(AfterKey) /\ Log(<<"key", op.key>>) /\ UNCHANGED <<gkey, unheard>>
    <3>1. Reported(<<"key", op.key>>)'
      <4>1. op'.key = op.key
        BY <1>2, <2>6 DEF GoesTo
      <4> QED BY <2>6, <4>1 DEF Reported, Log
    <3> QED BY <1>2, <2>1, <2>6, <3>1 DEF Log
  <2>7. CASE /\ op.kind = "hard_delete" /\ OpGoto("mark_key") /\ UNCHANGED <<gkey, logged>>
             /\ unheard' = unheard \union {<<"client", op.key>>}
    BY <1>2, <2>1, <2>7
  <2> QED BY <2>2, <2>3, <2>4, <2>5, <2>6, <2>7 DEF OpRevokeKey
<1>6. gkey'[a] = gkey[a] \/ gkey'[a] = "dead"
  BY <1>1, <1>3, <1>5, StoreTypes DEF Served, DeployInv
<1>7. OpKeeps(a)
  BY <1>1, <1>5, <1>6 DEF OpKeeps, Served, GoesTo, Exists
<1>8. Removing(a)'
  <2>1. KeyGone(a) => KeyGone(a)'
    BY <1>5, <1>6 DEF KeyGone, PassedOver, Reported
  <2>2. a \notin overtaken \union interrupted /\ At(a, "done") =>
            KeyGone(a)' \/ (GoesTo("mark_key") /\ LacksClient(a)')
    <3> SUFFICES ASSUME a \notin overtaken \union interrupted, At(a, "done"), ~KeyGone(a)
                 PROVE  KeyGone(a)' \/ (GoesTo("mark_key") /\ LacksClient(a)')
      BY <2>1
    <3>1. op.key = a /\ keyrow[a].status # "none"
      BY <1>1, RemovingKey
    <3>2. op'.key = op.key /\ op'.kind = op.kind
      BY <1>5 DEF GoesTo
    <3>3. CASE op.kind = "hard_delete" /\ GoesTo("mark_key") /\ <<"client", op.key>> \in unheard'
      BY <3>1, <3>2, <3>3 DEF LacksClient
    <3>4. CASE Reported(<<"key", op.key>>)' \/ gkey' = [gkey EXCEPT ![op.key] = "dead"]
      <4>1. Reported(<<"key", a>>)' \/ gkey'[a] = "dead"
        BY <1>1, <3>1, <3>2, <3>4, StoreTypes DEF Served, DeployInv, Reported
      <4> QED BY <4>1 DEF KeyGone, Reported
    <3> QED BY <1>5, <3>1, <3>3, <3>4
  <2> QED BY <1>1, <1>3, <1>4, <1>5, <2>1, <2>2 DEF Removing, Served, GoesTo, At, Exists, HasVM, OwnKey,
             VMGone, CredentialGone, Reported, OpAt
<1>9. OpShape'
  BY <1>1, <1>3, <1>4, <1>5 DEF OpShape, Served, GoesTo, OpAt
<1> QED BY <1>7, <1>8, <1>9 DEF OpHolds

LEMMA KeyRowMarked ==
    ASSUME keyrow \in [Keys -> KeyRecord], NEW k \in Keys, NEW status, keyrow' = [keyrow EXCEPT ![k].status = status]
    PROVE  /\ keyrow'[k].status = status /\ keyrow'[k].agent = keyrow[k].agent
           /\ \A j \in Keys \ {k} : keyrow'[j] = keyrow[j]
BY DEF KeyRecord

LEMMA OpMarkKeyHolds == ASSUME DeployInv, NEW a \in Agents, op.agent = a, OpMarkKey PROVE OpHolds(a)
<1>1. Served(a, "mark_key") /\ Local(a) /\ Removing(a)
  BY ServedTypes DEF DeployInv, Local, OpMarkKey
<1>2. \A pc : OpGoto(pc) => GoesTo(pc) /\ UNCHANGED <<ops, overtaken, interrupted>>
  BY OpMoves DEF DeployInv
<1>3. op.kind \in {"recycle", "hard_delete"} /\ op.key \in Keys
  BY <1>1 DEF Served, OpShape, DeployInv, TypeOK
<1>4. AfterKey \in {"revoke_enrollment", "unbind"} /\ (AfterKey = "revoke_enrollment" <=> op.kind = "recycle")
  BY <1>3 DEF AfterKey
<1>5. /\ UNCHANGED <<row, gkey, vm, deploy, unheard, enrollment, overtaken, interrupted>>
      /\ logged \subseteq logged' /\ GoesTo(AfterKey)
      /\ \/ keyrow' = keyrow
         \/ keyrow[op.key].status # "none" /\ keyrow' = [keyrow EXCEPT ![op.key].status = "revoked"]
      /\ op.kind = "hard_delete" =>
             \/ <<"keyrow", op.key>> \in logged'
             \/ keyrow' = [keyrow EXCEPT ![op.key].status = "revoked"]
  BY <1>2 DEF OpMarkKey, Log, credentials
<1>6. /\ keyrow'[a].status = "none" <=> keyrow[a].status = "none"
      /\ keyrow[a].status = "revoked" => keyrow'[a].status = "revoked"
      /\ keyrow'[Spare].agent = keyrow[Spare].agent
  BY <1>1, <1>3, <1>5, StoreTypes, KeyRowMarked DEF Served, DeployInv
<1>7. OpKeeps(a)
  BY <1>1, <1>5, <1>6 DEF OpKeeps, Served, GoesTo, Exists
<1>8. Removing(a)'
  <2>1. KeyGone(a) => KeyGone(a)'
    BY <1>5, <1>6 DEF KeyGone, PassedOver, Reported
  <2>2. LacksClient(a) => KeyGone(a)'
    <3> SUFFICES ASSUME LacksClient(a) PROVE PassedOver(a)'
      BY DEF KeyGone
    <3>1. op.key = a /\ op.kind = "hard_delete" /\ <<"client", a>> \in unheard'
      BY <1>5 DEF LacksClient
    <3>2. CASE <<"keyrow", op.key>> \in logged'
      BY <3>1, <3>2 DEF PassedOver, Reported
    <3>3. CASE keyrow' = [keyrow EXCEPT ![op.key].status = "revoked"]
      <4>1. keyrow'[a].status = "revoked"
        BY <1>3, <3>1, <3>3, StoreTypes, KeyRowMarked DEF DeployInv
      <4> QED BY <3>1, <4>1 DEF PassedOver
    <3> QED BY <1>5, <3>1, <3>2, <3>3
  <2>3. a \notin overtaken \union interrupted /\ At(a, "done") => KeyGone(a)'
    BY <1>1, <1>3, <2>1, <2>2 DEF Removing, Served, OpAt
  <2> QED BY <1>1, <1>3, <1>4, <1>5, <2>1, <2>3 DEF Removing, Served, GoesTo, At, Exists, HasVM, OwnKey, VMGone,
     CredentialGone, Reported, OpAt
<1>9. OpShape'
  BY <1>1, <1>3, <1>4, <1>5 DEF OpShape, Served, GoesTo, OpAt
<1> QED BY <1>7, <1>8, <1>9 DEF OpHolds

LEMMA OpUnbindHolds == ASSUME DeployInv, NEW a \in Agents, op.agent = a, OpUnbind PROVE OpHolds(a)
<1>1. Served(a, "unbind") /\ Local(a) /\ Removing(a)
  BY ServedTypes DEF DeployInv, Local, OpUnbind
<1>2. \A pc : OpGoto(pc) => GoesTo(pc) /\ UNCHANGED <<ops, overtaken, interrupted>>
  BY OpMoves DEF DeployInv
<1>3. op.kind = "hard_delete" /\ op.key \in Keys
  BY <1>1 DEF Served, OpShape, DeployInv, TypeOK
<1>4. /\ UNCHANGED <<row, gkey, vm, deploy, unheard, enrollment, overtaken, interrupted>>
      /\ logged \subseteq logged' /\ GoesTo("drop_row")
      /\ keyrow' = keyrow \/ keyrow' = [keyrow EXCEPT ![op.key].agent = NoAgent]
  BY <1>2 DEF OpUnbind, Log, credentials
<1>5. /\ keyrow'[a].status = keyrow[a].status
      /\ keyrow'[Spare].agent \in {keyrow[Spare].agent, NoAgent}
  BY <1>1, <1>3, <1>4, StoreTypes, KeyBound DEF Served, DeployInv
<1>6. OpKeeps(a)
  BY <1>1, <1>4, <1>5 DEF OpKeeps, Served, GoesTo, Exists
<1>7. Removing(a)'
  BY <1>1, <1>3, <1>4, <1>5 DEF Removing, Served, GoesTo, At, Exists, HasVM, OwnKey, VMGone, KeyGone, PassedOver,
     CredentialGone, Reported, OpAt
<1>8. OpShape'
  BY <1>1, <1>3, <1>4 DEF OpShape, Served, GoesTo, OpAt
<1> QED BY <1>6, <1>7, <1>8 DEF OpHolds

LEMMA OpDropRowHolds == ASSUME DeployInv, NEW a \in Agents, op.agent = a, OpDropRow PROVE OpHolds(a)
<1>1. Served(a, "drop_row") /\ Local(a) /\ Removing(a)
  BY ServedTypes DEF DeployInv, Local, OpDropRow
<1>2. \A pc : OpGoto(pc) => GoesTo(pc) /\ UNCHANGED <<ops, overtaken, interrupted>>
  BY OpMoves DEF DeployInv
<1>3. op.kind = "hard_delete"
  BY <1>1 DEF Served, OpShape
<1>4. /\ UNCHANGED <<gkey, vm, deploy, logged, unheard, enrollment, overtaken, interrupted>>
      /\ \/ DeleteRow(a) /\ GoesTo("drop_enrollment")
         \/ Ends /\ UNCHANGED <<row, keyrow>>
  BY <1>2 DEF OpDropRow, Idle, Ends, notes, credentials
<1>5. \/ /\ row'[a].status = "none" /\ row'[a].key = NoKey /\ keyrow'[a].status = keyrow[a].status
         /\ keyrow'[Spare].agent \in {keyrow[Spare].agent, NoAgent} /\ GoesTo("drop_enrollment")
      \/ Ends /\ UNCHANGED <<row, keyrow>>
  BY <1>1, <1>4, StoreTypes, RowDeleted DEF Served, DeployInv
<1>6. OpKeeps(a)
  BY <1>1, <1>4, <1>5 DEF OpKeeps, Served, GoesTo, Ends, Exists
<1>7. Removing(a)'
  BY <1>1, <1>3, <1>4, <1>5 DEF Removing, Served, GoesTo, Ends, NoOp, At, Exists, HasVM, OwnKey,
     VMGone, KeyGone, PassedOver, CredentialGone, Reported, OpAt
<1>8. OpShape'
  BY <1>1, <1>3, <1>5 DEF OpShape, Served, GoesTo, Ends, NoOp, OpAt
<1> QED BY <1>6, <1>7, <1>8 DEF OpHolds

LEMMA OpDropEnrollmentHolds ==
    ASSUME DeployInv, NEW a \in Agents, op.agent = a, OpDropEnrollment
    PROVE  OpHolds(a)
<1>1. Served(a, "drop_enrollment") /\ Local(a) /\ Removing(a)
  BY ServedTypes DEF DeployInv, Local, OpDropEnrollment
<1>2. \A pc : OpGoto(pc) => GoesTo(pc) /\ UNCHANGED <<ops, overtaken, interrupted>>
  BY OpMoves DEF DeployInv
<1>3. UNCHANGED <<stores, deploy, unheard, overtaken, interrupted>> /\ logged \subseteq logged' /\ Ends
  BY DEF OpDropEnrollment, Idle, Ends, Log
<1>4. \/ enrollment'[a].status = "none"
      \/ enrollment' = enrollment /\ <<"enrollment", a>> \in logged'
  BY DEF OpDropEnrollment, DeleteEnrollment, NoEnrollment, Log, credentials, DeployInv, TypeOK,
     EnrollmentTypeOK
<1>5. OpKeeps(a)
  BY <1>1, <1>3, <1>4 DEF OpKeeps, Served, Ends, Exists, stores
<1>6. Removing(a)'
  BY <1>1, <1>3, <1>4 DEF Removing, Served, Ends, NoOp, At, Exists, HasVM, OwnKey, VMGone, KeyGone, PassedOver,
     CredentialGone, Reported, OpAt, stores
<1>7. OpShape'
  BY <1>3 DEF OpShape, Ends, NoOp, OpAt
<1> QED BY <1>5, <1>6, <1>7 DEF OpHolds

LEMMA OpRevokeEnrollmentHolds ==
    ASSUME DeployInv, NEW a \in Agents, op.agent = a, OpRevokeEnrollment
    PROVE  OpHolds(a)
<1>1. Served(a, "revoke_enrollment") /\ Local(a) /\ Removing(a)
  BY ServedTypes DEF DeployInv, Local, OpRevokeEnrollment
<1>2. \A pc : OpGoto(pc) => GoesTo(pc) /\ UNCHANGED <<ops, overtaken, interrupted>>
  BY OpMoves DEF DeployInv
<1>3. op.kind \in {"recycle", "revoke"}
  BY <1>1 DEF Served, OpShape
<1>4. /\ UNCHANGED <<stores, deploy, unheard, overtaken, interrupted>> /\ logged \subseteq logged'
      /\ IF op.kind = "recycle" THEN GoesTo("save") ELSE Ends
  BY <1>2 DEF OpRevokeEnrollment, Idle, Ends, Log
<1>5. /\ enrollment'[a].status = "none" <=> enrollment[a].status = "none"
      /\ enrollment[a].revoked = TRUE => enrollment'[a].revoked = TRUE
      /\ \/ op.kind # "recycle" \/ enrollment'[a].status = "none" \/ enrollment'[a].revoked = TRUE
         \/ <<"enrollment", a>> \in logged'
  <2>1. CASE Revoke(a)
    BY <2>1, RevokeLeaves, RowOutlivesRequests DEF DeployInv, TypeOK
  <2>2. CASE UNCHANGED credentials /\ (op.kind # "recycle" \/ Log(<<"enrollment", a>>))
    BY <2>2 DEF credentials, Log
  <2> QED BY <2>1, <2>2 DEF OpRevokeEnrollment
<1>6. OpKeeps(a)
  BY <1>1, <1>4, <1>5 DEF OpKeeps, Served, GoesTo, Ends, Exists, stores
<1>7. Removing(a)'
  BY <1>1, <1>3, <1>4, <1>5 DEF Removing, Served, GoesTo, Ends, NoOp, At, Exists, HasVM, OwnKey,
     VMGone, KeyGone, PassedOver, CredentialGone, Reported, OpAt, stores
<1>8. OpShape'
  BY <1>1, <1>3, <1>4 DEF OpShape, Served, GoesTo, Ends, NoOp, OpAt
<1> QED BY <1>6, <1>7, <1>8 DEF OpHolds

LEMMA OpPowerHolds == ASSUME DeployInv, NEW a \in Agents, op.agent = a, OpPower PROVE OpHolds(a)
<1>1. Served(a, "power") /\ Local(a) /\ Removing(a)
  BY ServedTypes DEF DeployInv, Local, OpPower
<1>2. \A pc : OpGoto(pc) => GoesTo(pc) /\ UNCHANGED <<ops, overtaken, interrupted>>
  BY OpMoves DEF DeployInv
<1>3. op.kind \in {"power_on", "power_off", "restart"}
  BY <1>1 DEF Served, OpShape
<1>4. /\ UNCHANGED <<row, keyrow, gkey, deploy, logged, unheard, enrollment, overtaken, interrupted>>
      /\ \/ GoesTo("save") /\ vm[a] # "none"
         \/ Ends /\ UNCHANGED vm
  BY <1>2, <1>3 DEF OpPower, Idle, Ends, notes, credentials
<1>5. OpKeeps(a)
  BY <1>1, <1>4 DEF OpKeeps, Served, GoesTo, Ends, Exists
<1>6. Removing(a)'
  BY <1>1, <1>3, <1>4 DEF Removing, Served, GoesTo, Ends, NoOp, At, Exists, HasVM, OwnKey, VMGone,
     KeyGone, PassedOver, CredentialGone, Reported, OpAt
<1>7. OpShape'
  BY <1>1, <1>3, <1>4 DEF OpShape, Served, GoesTo, Ends, NoOp, OpAt
<1> QED BY <1>5, <1>6, <1>7 DEF OpHolds

LEMMA OpSaveHolds == ASSUME DeployInv, NEW a \in Agents, op.agent = a, OpSave PROVE OpHolds(a)
<1>1. Served(a, "save") /\ Local(a) /\ Removing(a)
  BY ServedTypes DEF DeployInv, Local, OpSave
<1>2. \A pc : OpGoto(pc) => GoesTo(pc) /\ UNCHANGED <<ops, overtaken, interrupted>>
  BY OpMoves DEF DeployInv
<1>3. op.kind \notin {"hard_delete", "revoke"}
  BY <1>1 DEF Served, OpShape
<1>4. UNCHANGED <<keyrow, gkey, vm, deploy, logged, unheard, enrollment, overtaken, interrupted>> /\ Ends
  BY DEF OpSave, Idle, Ends, notes, credentials
<1>5. \/ UNCHANGED row
      \/ /\ Exists(a) /\ row'[a].status \in {"stopped", "running"} /\ row'[a].key = row[a].key
         /\ op.kind # "recycle" => HasVM(a)' = HasVM(a)
  <2> DEFINE x == [row[a] EXCEPT !.status = IF op.kind \in {"recycle", "power_off"} THEN "stopped" ELSE "running",
                                 !.vmRef = row[a].vmRef /\ op.kind # "recycle"]
  <2>1. row[a] \in RowRecord
    BY StoreTypes DEF DeployInv
  <2>2. /\ x.status \in {"stopped", "running"} /\ x.key = row[a].key
        /\ op.kind # "recycle" => (x.vmRef = TRUE) = (row[a].vmRef = TRUE)
    BY <2>1 DEF RowRecord
  <2>3. UNCHANGED row \/ (Exists(a) /\ row' = [row EXCEPT ![a] = x])
    BY DEF OpSave
  <2> HIDE DEF x
  <2> QED BY <2>2, <2>3, StoreTypes DEF DeployInv, HasVM
<1>6. OpKeeps(a)
  BY <1>1, <1>4, <1>5 DEF OpKeeps, Served, Ends, Exists
<1>7. Removing(a)'
  BY <1>1, <1>3, <1>4, <1>5 DEF Removing, Served, Ends, NoOp, At, Exists, HasVM, OwnKey, VMGone,
     KeyGone, PassedOver, CredentialGone, Reported, OpAt
<1>8. OpShape'
  BY <1>4 DEF OpShape, Ends, NoOp, OpAt
<1> QED BY <1>6, <1>7, <1>8 DEF OpHolds

LEMMA OpStepHolds == ASSUME DeployInv, NEW a \in Agents, op.agent = a, OpStep PROVE OpHolds(a)
BY OpDestroyHolds, OpRevokeKeyHolds, OpMarkKeyHolds, OpUnbindHolds, OpDropRowHolds,
   OpDropEnrollmentHolds, OpRevokeEnrollmentHolds, OpPowerHolds, OpSaveHolds DEF OpStep

LEMMA OpStepServes ==
    ASSUME DeployInv, OpStep
    PROVE  op.agent \in Agents /\ Served(op.agent, op.pc)
<1>1. op.pc # "idle"
  BY DEF OpStep, OpDestroy, OpRevokeKey, OpMarkKey, OpUnbind, OpDropRow, OpDropEnrollment,
     OpRevokeEnrollment, OpPower, OpSave, OpAt
<1>2. Served(op.agent, op.pc)
  BY <1>1, ServedTypes DEF DeployInv, OpAt
<1> QED BY <1>2 DEF Served

LEMMA OpStepBeside ==
    ASSUME DeployInv, NEW a \in Agents, op.agent = a, OpStep, NEW b \in Agents \ {a}
    PROVE  Beside(b)
<1>1. Served(a, op.pc) /\ b # Spare /\ b # NoAgent /\ b \in Keys
  BY OpStepServes, NamesAssumption DEF Keys
<1>2. OpKeeps(a)
  BY OpStepHolds DEF OpHolds
<1>3. UNCHANGED interrupted
  BY DEF OpStep, OpDestroy, OpRevokeKey, OpMarkKey, OpUnbind, OpDropRow, OpDropEnrollment,
     OpRevokeEnrollment, OpPower, OpSave, OpGoto, Idle
<1>4. op.agent # b /\ op'.agent # b
  BY <1>1, <1>2 DEF OpKeeps, Ends, NoOp
<1>5. SameRow(b) /\ SameVM(b)
  <2>1. CASE OpDropRow
    <3>1. UNCHANGED row \/ DeleteRow(a)
      BY <2>1 DEF OpDropRow
    <3> QED BY <2>1, <3>1, StoreTypes, RowDeleted DEF OpDropRow, DeployInv, SameRow, SameVM
  <2>2. CASE OpSave
    BY <2>2 DEF OpSave, SameRow, SameVM, DeployInv, TypeOK
  <2>3. CASE OpDestroy \/ OpPower
    BY <2>3 DEF OpDestroy, OpPower, SameRow, SameVM, DeployInv, TypeOK
  <2>4. CASE OpRevokeKey \/ OpMarkKey \/ OpUnbind \/ OpDropEnrollment \/ OpRevokeEnrollment
    BY <2>4 DEF OpRevokeKey, OpMarkKey, OpUnbind, OpDropEnrollment, OpRevokeEnrollment, SameRow,
       SameVM, stores
  <2> QED BY <2>1, <2>2, <2>3, <2>4 DEF OpStep
<1>6. enrollment'[b] = enrollment[b]
  <2>1. UNCHANGED credentials \/ CredentialStep(a)
    BY DEF OpStep, OpDestroy, OpRevokeKey, OpMarkKey, OpUnbind, OpDropRow, OpDropEnrollment,
       OpRevokeEnrollment, OpPower, OpSave, CredentialStep
  <2> QED BY <2>1, OthersKeepCredential DEF DeployInv, TypeOK, SameCredential, credentials
<1>7. op.pc \in {"revoke_key", "mark_key", "unbind"} =>
          op.key \in {a, Spare} /\ op.key # b /\ (op.key = Spare => Reuses(a))
  <2>1. Named(a)
    BY DEF DeployInv, Local
  <2>2. op.pc \in {"revoke_key", "mark_key", "unbind"} => op.key \in Keys /\ op.key # NoKey
    BY NamesAssumption DEF DeployInv, TypeOK
  <2> QED BY <1>1, <2>1, <2>2 DEF Named, OpAt, Served
<1>8. SameKey(b)
  <2>1. CASE OpRevokeKey
    <3>1. gkey' = gkey \/ \E x : gkey' = [gkey EXCEPT ![op.key] = x]
      BY <2>1, KeyDeleted DEF OpRevokeKey
    <3> QED BY <1>1, <1>7, <2>1, <3>1, StoreTypes DEF OpRevokeKey, OpAt, DeployInv, SameKey
  <2> QED BY <2>1 DEF OpStep, OpDestroy, OpMarkKey, OpUnbind, OpDropRow, OpDropEnrollment,
             OpRevokeEnrollment, OpPower, OpSave, SameKey, stores
<1>9. keyrow'[b].status = keyrow[b].status /\ KeepsBinding(b)
  <2>1. CASE OpMarkKey
    <3>1. \/ UNCHANGED keyrow
          \/ keyrow' = [keyrow EXCEPT ![op.key].status = "revoked"]
      BY <2>1 DEF OpMarkKey
    <3>2. op.key \in Keys /\ op.key # b /\ Spare \in Keys
      BY <1>1, <1>7, <2>1 DEF OpMarkKey, OpAt, Served
    <3> QED BY <1>1, <3>1, <3>2, StoreTypes, KeyRowMarked DEF DeployInv, KeepsBinding
  <2>2. CASE OpUnbind
    <3>1. \/ UNCHANGED keyrow
          \/ keyrow' = [keyrow EXCEPT ![op.key].agent = NoAgent]
      BY <2>2 DEF OpUnbind
    <3>2. op.key \in Keys /\ op.key # b /\ Spare \in Keys /\ (op.key = Spare => Reuses(a))
      BY <1>1, <1>7, <2>2 DEF OpUnbind, OpAt, Served
    <3>3. keyrow'[b].status = keyrow[b].status
      BY <1>1, <3>1, <3>2, StoreTypes, KeyBound DEF DeployInv
    <3>4. CASE op.key = Spare
      <4>1. Rival(b)'
        BY <1>2, <3>2, <3>4 DEF OpKeeps, Rival, Reuses
      <4> QED BY <1>1, <3>1, <3>2, <3>3, <3>4, <4>1, StoreTypes, KeyBound DEF DeployInv,
                 KeepsBinding
    <3>5. CASE op.key # Spare
      BY <1>1, <3>1, <3>2, <3>3, <3>5, StoreTypes, KeyBound DEF DeployInv, KeepsBinding
    <3> QED BY <3>4, <3>5
  <2>3. CASE OpDropRow
    <3>1. UNCHANGED keyrow \/ DeleteRow(a)
      BY <2>3 DEF OpDropRow
    <3>2. /\ keyrow'[b].status = keyrow[b].status
          /\ \/ keyrow'[Spare].agent = keyrow[Spare].agent
             \/ keyrow[Spare].agent = a /\ keyrow'[Spare].agent = NoAgent
      BY <1>1, <3>1, StoreTypes, RowDeleted DEF DeployInv, Served
    <3> QED BY <1>1, <3>2 DEF KeepsBinding
  <2>4. CASE OpDestroy \/ OpRevokeKey \/ OpDropEnrollment \/ OpRevokeEnrollment \/ OpPower \/ OpSave
    BY <2>4 DEF OpDestroy, OpRevokeKey, OpDropEnrollment, OpRevokeEnrollment, OpPower, OpSave,
       stores, KeepsBinding
  <2> QED BY <2>1, <2>2, <2>3, <2>4 DEF OpStep
<1>10. Rival(b) => Rival(b)'
  BY <1>2 DEF OpKeeps, Rival
<1> QED BY <1>2, <1>3, <1>4, <1>5, <1>6, <1>8, <1>9, <1>10 DEF Beside, OpKeeps

LEMMA OpStepKeeps ==
    ASSUME DeployInv, OpStep
    PROVE  OpShape' /\ \A b \in Agents : Local(b)'
<1>1. PICK a \in Agents : op.agent = a /\ Served(a, op.pc) /\ Local(a)
  BY OpStepServes DEF DeployInv
<1>2. OpKeeps(a) /\ Removing(a)' /\ OpShape'
  BY <1>1, OpStepHolds DEF OpHolds
<1>3. Local(a)'
  BY <1>1, <1>2, OpLeavesDeployment DEF Local
<1>4. ASSUME NEW b \in Agents \ {a} PROVE Local(b)'
  BY <1>1, OpStepBeside, BesideKeeps DEF DeployInv
<1> QED BY <1>2, <1>3, <1>4

LEMMA CrashOpKeeps ==
    ASSUME DeployInv, CrashOp
    PROVE  OpShape' /\ \A b \in Agents : Local(b)'
<1>1. PICK a \in Agents : op.agent = a /\ Served(a, op.pc) /\ Local(a)
  BY ServedTypes DEF CrashOp, DeployInv, OpAt, Served
<1>2. /\ UNCHANGED <<row, keyrow, gkey, vm, deploy, logged, unheard, enrollment, overtaken>> /\ Ends
      /\ interrupted' = interrupted \union {a}
  BY <1>1 DEF CrashOp, Ends, stores, notes, credentials
<1>3. OpKeeps(a) /\ Removing(a)'
  BY <1>1, <1>2 DEF OpKeeps, Removing, Exists
<1>4. Local(a)'
  BY <1>1, <1>3, OpLeavesDeployment DEF Local
<1>5. ASSUME NEW b \in Agents \ {a} PROVE Local(b)'
  <2>1. Rival(b)' <=> Rival(b)
    BY <1>2 DEF Rival
  <2>2. Beside(b)
    BY <1>1, <1>2, <2>1, NamesAssumption DEF Beside, Ends, NoOp, KeepsBinding, SameRow, SameKey,
       SameVM
  <2> QED BY <2>2, BesideKeeps DEF DeployInv
<1>6. OpShape'
  BY <1>2 DEF Ends, OpShape, NoOp, OpAt
<1> QED BY <1>4, <1>5, <1>6

(***************************************************************************)
(* An operation begins, and the daemons' requests.                          *)
(***************************************************************************)
\* The first step of an operation.
FirstPC(a, kind, pc) ==
    \/ kind = "revoke" /\ pc = "revoke_enrollment"
    \/ kind \in {"power_on", "power_off", "restart"} /\ pc \in {"power", "save"}
    \/ kind \in {"recycle", "hard_delete"} /\ HasVM(a) /\ pc = "destroy"
    \/ kind \in {"recycle", "hard_delete"} /\ ~HasVM(a) /\ row[a].key # NoKey /\ pc = "revoke_key"
    \/ kind = "recycle" /\ ~HasVM(a) /\ row[a].key = NoKey /\ pc = "revoke_enrollment"
    \/ kind = "hard_delete" /\ ~HasVM(a) /\ row[a].key = NoKey /\ pc = "drop_row"

LEMMA StartIs ==
    ASSUME TypeOK, NEW a \in Agents, NEW kind \in OpKinds, Start(a, kind)
    PROVE  /\ op'.agent = a /\ op'.kind = kind /\ op'.key = row[a].key /\ FirstPC(a, kind, op'.pc)
           /\ op' \in OpRecord
<1>1. row[a].vmRef \in BOOLEAN /\ row[a].key \in Keys \union {NoKey}
  BY DEF TypeOK, RowRecord
<1> DEFINE pc == CASE ~row[a].vmRef \/ kind = "revoke" -> AfterVM(kind, row[a].key)
                   [] row[a].vmRef /\ kind \in {"recycle", "hard_delete"} -> "destroy"
                   [] OTHER -> "power"
<1>2. FirstPC(a, kind, pc)
  <2>1. CASE kind = "revoke"
    <3>1. AfterVM(kind, row[a].key) = "revoke_enrollment" /\ kind \notin {"recycle", "hard_delete"}
      BY <2>1 DEF AfterVM
    <3> QED BY <2>1, <3>1 DEF FirstPC
  <2>2. CASE kind \in {"power_on", "power_off", "restart"}
    <3>1. AfterVM(kind, row[a].key) = "save" /\ kind \notin {"recycle", "hard_delete", "revoke"}
      BY <2>2 DEF AfterVM
    <3> QED BY <1>1, <2>2, <3>1 DEF FirstPC
  <2>3. CASE kind \in {"recycle", "hard_delete"}
    <3>1. AfterVM(kind, row[a].key) = IF row[a].key # NoKey THEN "revoke_key"
                                      ELSE IF kind = "recycle" THEN "revoke_enrollment" ELSE "drop_row"
      BY <2>3, AfterVMIs
    <3>2. kind # "revoke"
      BY <2>3
    <3>3. CASE row[a].vmRef = TRUE
      BY <2>3, <3>2, <3>3 DEF FirstPC, HasVM
    <3>4. CASE row[a].vmRef = FALSE
      BY <2>3, <3>1, <3>2, <3>4 DEF FirstPC, HasVM
    <3> QED BY <1>1, <3>3, <3>4
  <2> QED BY <2>1, <2>2, <2>3 DEF OpKinds
<1>3. op' = [pc |-> pc, kind |-> kind, agent |-> a, key |-> row[a].key]
  BY DEF Start
<1>4. pc \in {"revoke_enrollment", "power", "save", "destroy", "revoke_key", "drop_row"}
  BY <1>2 DEF FirstPC
<1> HIDE DEF pc
<1> QED BY <1>1, <1>2, <1>3, <1>4 DEF OpRecord

LEMMA StartKeeps ==
    ASSUME DeployInv, NEW a \in Agents, NEW kind \in OpKinds, Start(a, kind)
    PROVE  OpShape' /\ \A b \in Agents : Local(b)'
<1>1. /\ op'.agent = a /\ op'.kind = kind /\ op'.key = row[a].key /\ FirstPC(a, kind, op'.pc)
  BY StartIs DEF DeployInv
<1>2. /\ UNCHANGED <<row, keyrow, gkey, vm, deploy, logged, unheard, enrollment, interrupted>>
      /\ overtaken' = IF deploy[a].pc \in Ended THEN overtaken ELSE overtaken \union {a}
      /\ Exists(a) /\ OpAt("idle")
  BY DEF Start, stores, notes, credentials
<1>3. op.agent = NoAgent /\ a # NoAgent /\ NoKey # a /\ NoKey # Spare /\ a # Spare
  BY <1>2, NamesAssumption DEF DeployInv, OpShape, Keys
<1>4. Local(a)
  BY DEF DeployInv
<1>5. deploy[a].pc # "idle"
  BY <1>2, <1>4 DEF Local, Fresh, At
<1>6. deploy[a].key \in {a, Spare}
  BY <1>5 DEF DeployInv, TypeOK
<1>7. op'.pc # "idle"
  BY <1>1 DEF FirstPC
<1>8. Local(a)'
  <2> USE DEF At, Full, Mints, OwnKey, Exists, Reuses, Reported, OpAt, Async, HasVM, VMGone, KeyGone, PassedOver, CredentialGone
  <2>1. Course(a)' /\ Fresh(a)' /\ KeyTracked(a)' /\ RowTracked(a)'
    BY <1>2, <1>4, <1>5 DEF Local, Course, Fresh, KeyTracked, RowTracked
  <2>2. BindingTracked(a)' /\ AsyncTracked(a)' /\ AgentTracked(a)' /\ KeyHeld(a)'
    BY <1>2, <1>4 DEF Local, BindingTracked, AsyncTracked, AgentTracked, KeyHeld
  <2>3. Removing(a)'
    <3>1. Removing(a)
      BY <1>4 DEF Local
    <3> QED BY <1>1, <1>2, <1>3, <1>6, <1>7, <3>1 DEF Removing, FirstPC, Ended
  <2>4. Succeeding(a)'
    BY <1>2, <1>4 DEF Local, Succeeding, Building, Ended
  <2>5. Named(a)'
    BY <1>1, <1>2, <1>4 DEF Local, Named
  <2> QED BY <2>1, <2>2, <2>3, <2>4, <2>5 DEF Local
<1>9. ASSUME NEW b \in Agents \ {a} PROVE Local(b)'
  <2>1. (Rival(b)' <=> Rival(b)) /\ op.agent # b
    BY <1>2, <1>3, NamesAssumption DEF Rival
  <2>2. Beside(b)
    BY <1>1, <1>2, <2>1 DEF Beside, KeepsBinding, SameRow, SameKey, SameVM
  <2> QED BY <2>2, BesideKeeps DEF DeployInv
<1>10. OpShape'
  BY <1>1 DEF OpShape, FirstPC, OpAt
<1> QED BY <1>8, <1>9, <1>10

LEMMA DaemonKeeps ==
    ASSUME DeployInv, NEW a \in Agents, Daemon(a)
    PROVE  \A b \in Agents : Local(b)'
<1>1. UNCHANGED <<row, keyrow, gkey, vm, deploy, logged, unheard, op, overtaken, interrupted>>
  BY DEF Daemon, stores, notes, ofOps
<1>2. ASSUME NEW b \in Agents
      PROVE  /\ enrollment'[b].status = "none" <=> enrollment[b].status = "none"
             /\ enrollment[b].revoked = TRUE => enrollment'[b].revoked = TRUE
  <2>1. EnrollmentTypeOK /\ (DaemonStep(a) \/ ServerStep(a))
    BY DEF Daemon, DeployInv, TypeOK
  <2>2. CASE b = a
    BY <2>1, <2>2, RowOutlivesRequests
  <2>3. CASE b # a
    BY <2>1, <2>3, OthersKeepCredential DEF CredentialStep, SameCredential
  <2> QED BY <2>2, <2>3
<1>3. ASSUME NEW b \in Agents PROVE Local(b)'
  <2>1. Rival(b)' <=> Rival(b)
    BY <1>1 DEF Rival
  <2>2. Beside(b)
    BY <1>1, <1>2, <2>1 DEF Beside, KeepsBinding, SameRow, SameKey, SameVM
  <2> QED BY <2>2, BesideKeeps DEF DeployInv
<1> QED BY <1>3

(***************************************************************************)
(* Types                                                                    *)
(***************************************************************************)
StoresOK ==
    /\ row \in [Agents -> RowRecord] /\ keyrow \in [Keys -> KeyRecord]
    /\ gkey \in [Keys -> {"none", "live", "dead"}] /\ vm \in [Agents -> {"none", "off", "on"}]

OpOK ==
    /\ op \in OpRecord
    /\ op.pc # "idle" => op.agent \in Agents
    /\ op.pc \in {"revoke_key", "mark_key", "unbind"} => op.key \in Keys
    /\ overtaken \subseteq Agents /\ interrupted \subseteq Agents /\ ops \in 0..MaxOps

NotesOK == logged \subseteq Resources \X Keys /\ unheard \subseteq {"key", "vm", "client"} \X Keys

LEMMA TypeParts ==
    TypeOK <=> /\ StoresOK /\ DeployTypeOK /\ OpOK /\ NotesOK /\ faults \in 0..MaxFaults /\ EnrollmentTypeOK
BY DEF TypeOK, StoresOK, DeployTypeOK, OpOK, NotesOK

LEMMA TypePartsNext ==
    /\ StoresOK' /\ DeployTypeOK' /\ OpOK' /\ NotesOK' /\ faults' \in 0..MaxFaults /\ EnrollmentTypeOK'
    => TypeOK'
BY DEF TypeOK, StoresOK, DeployTypeOK, OpOK, NotesOK

LEMMA RowTypes ==
    /\ NoRow \in RowRecord /\ [NoRow EXCEPT !.status = "provisioning"] \in RowRecord
    /\ \A r \in RowRecord, status \in AgentStatus : [r EXCEPT !.status = status] \in RowRecord
    /\ \A status \in AgentStatus, k \in Keys : [status |-> status, vmRef |-> TRUE, key |-> k] \in RowRecord
    /\ {"provisioning", "building", "running", "stopped", "failed"} \subseteq AgentStatus
BY DEF NoRow, RowRecord, AgentStatus

LEMMA KeyRowTypes ==
    /\ NoKeyRow \in KeyRecord /\ [status |-> "active", agent |-> NoAgent] \in KeyRecord
    /\ \A a \in Agents : [status |-> "active", agent |-> a] \in KeyRecord
    /\ \A r \in KeyRecord, a \in Agents \union {NoAgent} : [r EXCEPT !.agent = a] \in KeyRecord
    /\ \A r \in KeyRecord, status \in {"active", "revoked"} : [r EXCEPT !.status = status] \in KeyRecord
BY DEF NoKeyRow, KeyRecord

LEMMA RowPut ==
    ASSUME row \in [Agents -> RowRecord], NEW a \in Agents, NEW r \in RowRecord, row' = [row EXCEPT ![a] = r]
    PROVE  row' \in [Agents -> RowRecord]
OBVIOUS

LEMMA RowPutStatus ==
    ASSUME row \in [Agents -> RowRecord], NEW a \in Agents, NEW status \in AgentStatus,
           row' = [row EXCEPT ![a].status = status]
    PROVE  row' \in [Agents -> RowRecord]
<1>1. row' = [row EXCEPT ![a] = [row[a] EXCEPT !.status = status]]
  OBVIOUS
<1> QED BY <1>1, RowTypes

LEMMA KeyRowPut ==
    ASSUME keyrow \in [Keys -> KeyRecord], NEW k \in Keys,
           \/ \E r \in KeyRecord : keyrow' = [keyrow EXCEPT ![k] = r]
           \/ \E a \in Agents \union {NoAgent} : keyrow' = [keyrow EXCEPT ![k].agent = a]
           \/ \E status \in {"active", "revoked"} : keyrow' = [keyrow EXCEPT ![k].status = status]
    PROVE  keyrow' \in [Keys -> KeyRecord]
<1>1. ASSUME NEW r \in KeyRecord, keyrow' = [keyrow EXCEPT ![k] = r] PROVE keyrow' \in [Keys -> KeyRecord]
  BY <1>1
<1>2. ASSUME NEW a \in Agents \union {NoAgent}, keyrow' = [keyrow EXCEPT ![k].agent = a]
      PROVE  keyrow' \in [Keys -> KeyRecord]
  <2>1. [keyrow[k] EXCEPT !.agent = a] \in KeyRecord
    BY KeyRowTypes
  <2>2. keyrow' = [keyrow EXCEPT ![k] = [keyrow[k] EXCEPT !.agent = a]]
    BY <1>2
  <2> QED BY <1>1, <2>1, <2>2
<1>3. ASSUME NEW status \in {"active", "revoked"}, keyrow' = [keyrow EXCEPT ![k].status = status]
      PROVE  keyrow' \in [Keys -> KeyRecord]
  <2>1. [keyrow[k] EXCEPT !.status = status] \in KeyRecord
    BY KeyRowTypes
  <2>2. keyrow' = [keyrow EXCEPT ![k] = [keyrow[k] EXCEPT !.status = status]]
    BY <1>3
  <2> QED BY <1>1, <2>1, <2>2
<1> QED BY <1>1, <1>2, <1>3

LEMMA RowDeletedTypes ==
    ASSUME StoresOK, NEW a \in Agents, DeleteRow(a)
    PROVE  row' \in [Agents -> RowRecord] /\ keyrow' \in [Keys -> KeyRecord]
<1>1. row' \in [Agents -> RowRecord]
  BY RowTypes, RowPut DEF StoresOK, DeleteRow
<1>2. \A k \in Keys : keyrow[k] \in KeyRecord /\ [keyrow[k] EXCEPT !.agent = NoAgent] \in KeyRecord
  BY KeyRowTypes DEF StoresOK
<1>3. keyrow' \in [Keys -> KeyRecord]
  BY <1>2 DEF DeleteRow
<1> QED BY <1>1, <1>3

LEMMA DeployStepStores ==
    ASSUME TypeOK, NEW a \in Agents, DeployStep(a) \/ CrashDeploy(a)
    PROVE  StoresOK'
<1>1. StoresOK /\ a \in Keys /\ Spare \in Keys
  BY TypeParts DEF Keys
<1>2. CASE \/ LookupExistingKey(a) \/ Enroll(a) \/ StartInstant(a) \/ ConnectVCenter(a)
           \/ SetGuestinfo(a) \/ DropEnrollment(a) \/ CrashDeploy(a)
  <2>1. UNCHANGED stores
    BY <1>2 DEF LookupExistingKey, Enroll, StartInstant, ConnectVCenter, SetGuestinfo,
       DropEnrollment, CrashDeploy
  <2> QED BY <1>1, <2>1 DEF StoresOK, stores
<1>3. CASE GenerateKey(a) \/ RevokeDeployKey(a) \/ CancelKey(a)
  <2>1. \/ gkey' = gkey \/ gkey' = [gkey EXCEPT ![a] = "live"] \/ gkey' = [gkey EXCEPT ![a] = "dead"]
    <3>1. CASE GenerateKey(a)
      BY <3>1 DEF GenerateKey
    <3>2. CASE RevokeDeployKey(a)
      BY <3>2, KeyDeleted DEF RevokeDeployKey
    <3>3. CASE CancelKey(a)
      BY <3>3, KeyDeleted DEF CancelKey
    <3> QED BY <1>3, <3>1, <3>2, <3>3
  <2>2. UNCHANGED <<row, keyrow, vm>>
    BY <1>3 DEF GenerateKey, RevokeDeployKey, CancelKey
  <2> QED BY <1>1, <2>1, <2>2 DEF StoresOK
<1>4. CASE PersistKey(a) \/ BindExistingKey(a) \/ UndoKey(a)
  <2>1. \/ UNCHANGED keyrow
        \/ \E r \in KeyRecord : keyrow' = [keyrow EXCEPT ![a] = r]
        \/ \E b \in Agents \union {NoAgent} : keyrow' = [keyrow EXCEPT ![Spare].agent = b]
    BY <1>4, KeyRowTypes DEF PersistKey, BindExistingKey, UndoKey
  <2>2. keyrow' \in [Keys -> KeyRecord]
    BY <1>1, <2>1, KeyRowPut DEF StoresOK
  <2> QED BY <1>1, <1>4, <2>2 DEF StoresOK, PersistKey, BindExistingKey, UndoKey
<1>5. CASE CloneFromTemplate(a) \/ PowerOn(a) \/ DestroyVM(a) \/ InstantClone(a)
  BY <1>1, <1>5 DEF StoresOK, CloneFromTemplate, PowerOn, DestroyVM, InstantClone
<1>6. CASE RecordAgent(a) \/ Finalize(a) \/ MarkFailed(a) \/ SavePhase(a) \/ InstantWork(a)
  <2>1. deploy[a].pc # "idle" => deploy[a].key \in Keys
    BY <1>1 DEF TypeOK
  <2>2. \/ UNCHANGED row
        \/ \E r \in RowRecord : row' = [row EXCEPT ![a] = r]
        \/ \E status \in AgentStatus : row' = [row EXCEPT ![a].status = status]
    <3>1. CASE RecordAgent(a)
      BY <1>1, <2>1, <3>1, RowTypes DEF RecordAgent, At
    <3>2. CASE Finalize(a)
      BY <1>1, <2>1, <3>2, RowTypes DEF Finalize, At
    <3>3. CASE MarkFailed(a) \/ SavePhase(a) \/ InstantWork(a)
      BY <3>3, RowTypes DEF MarkFailed, SavePhase, InstantWork
    <3> QED BY <1>6, <3>1, <3>2, <3>3
  <2>3. row' \in [Agents -> RowRecord]
    BY <1>1, <2>2, RowPut, RowPutStatus DEF StoresOK
  <2>4. UNCHANGED <<keyrow, gkey, vm>>
    BY <1>6 DEF RecordAgent, Finalize, MarkFailed, SavePhase, InstantWork
  <2> QED BY <1>1, <2>3, <2>4 DEF StoresOK
<1>7. CASE DropRow(a)
  BY <1>1, <1>7, RowDeletedTypes DEF StoresOK, DropRow
<1> QED BY <1>2, <1>3, <1>4, <1>5, <1>6, <1>7 DEF DeployStep

LEMMA DeployStepNotes ==
    ASSUME TypeOK, NEW a \in Agents, DeployStep(a) \/ CrashDeploy(a)
    PROVE  NotesOK'
<1>1. NotesOK /\ a \in Keys /\ Spare \in Keys
  BY TypeParts DEF Keys
<1>2. logged' = logged \/ \E r \in Resources, k \in Keys : logged' = logged \union {<<r, k>>}
  <2>1. CASE UndoKey(a)
    <3>1. UNCHANGED logged \/ Log(<<"binding", Spare>>) \/ Log(<<"keyrow", a>>)
      BY <2>1 DEF UndoKey
    <3> QED BY <1>1, <3>1 DEF Log, Resources
  <2>2. CASE DestroyVM(a) \/ RevokeDeployKey(a) \/ MarkFailed(a) \/ DropRow(a) \/ DropEnrollment(a) \/ CancelKey(a)
    <3>1. \/ UNCHANGED logged \/ Log(<<"vm", a>>) \/ Log(<<"key", a>>) \/ Log(<<"row", a>>)
          \/ Log(<<"enrollment", a>>)
      BY <2>2 DEF DestroyVM, RevokeDeployKey, MarkFailed, DropRow, DropEnrollment, CancelKey
    <3> QED BY <1>1, <3>1 DEF Log, Resources
  <2> QED BY <2>1, <2>2 DEF DeployStep, LookupExistingKey, Enroll, StartInstant, GenerateKey,
             PersistKey, BindExistingKey, RecordAgent, ConnectVCenter, CloneFromTemplate,
             SetGuestinfo, PowerOn, Finalize, SavePhase, InstantClone, InstantWork, CrashDeploy,
             notes
<1>3. unheard' = unheard \/ unheard' = unheard \union {<<"key", a>>} \/ unheard' = unheard \union {<<"vm", a>>}
  <2>1. CASE GenerateKey(a) \/ CloneFromTemplate(a) \/ InstantClone(a)
    BY <2>1 DEF GenerateKey, CloneFromTemplate, InstantClone
  <2> QED BY <2>1 DEF DeployStep, LookupExistingKey, Enroll, StartInstant, PersistKey,
             BindExistingKey, RecordAgent, ConnectVCenter, SetGuestinfo, PowerOn, DestroyVM,
             Finalize, UndoKey, RevokeDeployKey, MarkFailed, DropRow, DropEnrollment, SavePhase,
             InstantWork, CancelKey, CrashDeploy, notes
<1> QED BY <1>1, <1>2, <1>3 DEF NotesOK

LEMMA DeleteKeyFault == ASSUME NEW k, NEW ok, DeleteKey(k, ok) PROVE NoFault \/ Fault
BY Zenon DEF DeleteKey

LEMMA DeployStepFault == ASSUME NEW a, DeployStep(a) \/ CrashDeploy(a) PROVE NoFault \/ Fault
<1>1. CASE RevokeDeployKey(a)
  BY <1>1, DeleteKeyFault DEF RevokeDeployKey
<1>2. CASE CancelKey(a)
  BY <1>2, DeleteKeyFault DEF CancelKey
<1>3. CASE \/ LookupExistingKey(a) \/ Enroll(a) \/ StartInstant(a) \/ GenerateKey(a) \/ PersistKey(a)
           \/ BindExistingKey(a) \/ RecordAgent(a) \/ ConnectVCenter(a) \/ CloneFromTemplate(a)
           \/ SetGuestinfo(a) \/ PowerOn(a)
  BY <1>3 DEF LookupExistingKey, Enroll, StartInstant, GenerateKey, PersistKey, BindExistingKey,
     RecordAgent, ConnectVCenter, CloneFromTemplate, SetGuestinfo, PowerOn
<1>4. CASE \/ DestroyVM(a) \/ Finalize(a) \/ UndoKey(a) \/ MarkFailed(a) \/ DropRow(a) \/ DropEnrollment(a)
           \/ SavePhase(a) \/ InstantClone(a) \/ InstantWork(a) \/ CrashDeploy(a)
  BY <1>4 DEF DestroyVM, Finalize, UndoKey, MarkFailed, DropRow, DropEnrollment, SavePhase,
     InstantClone, InstantWork, CrashDeploy
<1> QED BY <1>1, <1>2, <1>3, <1>4 DEF DeployStep

LEMMA DeployStepCredentials ==
    ASSUME NEW a, DeployStep(a) \/ CrashDeploy(a)
    PROVE  CredentialStep(a) \/ UNCHANGED credentials
BY DEF DeployStep, LookupExistingKey, Enroll, StartInstant, GenerateKey, PersistKey,
   BindExistingKey, RecordAgent, ConnectVCenter, CloneFromTemplate, SetGuestinfo, PowerOn,
   DestroyVM, Finalize, UndoKey, RevokeDeployKey, MarkFailed, DropRow, DropEnrollment, SavePhase,
   InstantClone, InstantWork, CancelKey, CrashDeploy, CredentialStep

LEMMA DeployStepOfOps == ASSUME NEW a, DeployStep(a) \/ CrashDeploy(a) PROVE UNCHANGED ofOps
BY DEF DeployStep, LookupExistingKey, Enroll, StartInstant, GenerateKey, PersistKey,
   BindExistingKey, RecordAgent, ConnectVCenter, CloneFromTemplate, SetGuestinfo, PowerOn,
   DestroyVM, Finalize, UndoKey, RevokeDeployKey, MarkFailed, DropRow, DropEnrollment, SavePhase,
   InstantClone, InstantWork, CancelKey, CrashDeploy

LEMMA DeployStepInv ==
    ASSUME DeployInv, NEW a \in Agents, DeployStep(a) \/ CrashDeploy(a)
    PROVE  DeployInv'
<1>1. TypeOK /\ StoresOK' /\ NotesOK'
  BY DeployStepStores, DeployStepNotes DEF DeployInv
<1>2. DeployTypeOK'
  BY <1>1, DeployStepEffect, MovedByEffect DEF Moved
<1>3. CredentialInv'
  BY DeployStepCredentials, CredentialInvStep DEF DeployInv
<1>4. OpOK' /\ OpShape'
  BY <1>1, DeployStepOfOps, TypeParts DEF ofOps, OpOK, OpShape, OpAt, DeployInv
<1>5. faults' \in 0..MaxFaults
  BY <1>1, DeployStepFault, FaultType, TypeParts
<1>6. EnrollmentTypeOK'
  BY <1>3 DEF CredentialInv
<1>7. TypeOK'
  BY <1>1, <1>2, <1>4, <1>5, <1>6, TypePartsNext
<1> QED BY <1>3, <1>4, <1>7, DeployStepKeeps DEF DeployInv

LEMMA DeployAgentInv ==
    ASSUME DeployInv, NEW a \in Agents, NEW mode \in Modes, NEW key \in Keys, <<a, mode, key>> \in Plans,
           DeployAgent(a, mode, key)
    PROVE  DeployInv'
<1>1. key \in {a, Spare}
  BY PlansAssumption
<1> DEFINE x == [NotAsked EXCEPT !.pc = IF key = Spare THEN "lookup" ELSE "enroll", !.mode = mode, !.key = key]
<1>2. x \in DeployRecord /\ x.key = key
  <2>1. (IF key = Spare THEN "lookup" ELSE "enroll") \in PCs
    BY DEF PCs
  <2>2. NotAsked \in DeployRecord /\ NotAsked = [pc |-> "idle", mode |-> "full", key |-> NoKey,
            async |-> FALSE, nilRow |-> FALSE, phase |-> 0]
    BY DeployRecordIs DEF NotAsked, PCs, Ended, Modes
  <2> QED BY <2>1, <2>2, DeployRecordIs
<1>3. deploy' = [deploy EXCEPT ![a] = x]
  BY DEF DeployAgent
<1> HIDE DEF x
<1>4. DeployTypeOK'
  BY <1>1, <1>2, <1>3, TypeParts DEF DeployInv, DeployTypeOK
<1>5. StoresOK'
  BY RowTypes, RowPut, TypeParts DEF DeployAgent, DeployInv, StoresOK
<1>6. CredentialInv'
  BY CredentialInvStep DEF DeployInv, DeployAgent
<1>7. OpOK' /\ OpShape' /\ NotesOK' /\ faults' \in 0..MaxFaults
  BY TypeParts DEF DeployAgent, ofOps, notes, OpOK, OpShape, OpAt, NotesOK, DeployInv
<1>8. EnrollmentTypeOK'
  BY <1>6 DEF CredentialInv
<1>9. TypeOK'
  BY <1>4, <1>5, <1>7, <1>8, TypePartsNext
<1> QED BY <1>6, <1>7, <1>9, DeployAgentKeeps DEF DeployInv

LEMMA OpMovesType ==
    ASSUME OpOK, NEW pc \in {"destroy", "revoke_key", "mark_key", "unbind", "drop_row", "drop_enrollment",
                             "revoke_enrollment", "power", "save"},
           op.pc # "idle", pc \in {"revoke_key", "mark_key", "unbind"} => op.key \in Keys, OpGoto(pc)
    PROVE  OpOK'
<1> DEFINE x == [op EXCEPT !.pc = pc]
<1>1. x \in OpRecord /\ x.pc = pc /\ x.agent = op.agent /\ x.key = op.key
  BY DEF OpOK, OpRecord
<1>2. op' = x /\ UNCHANGED <<ops, overtaken, interrupted>>
  BY DEF OpGoto
<1> HIDE DEF x
<1> QED BY <1>1, <1>2 DEF OpOK

LEMMA IdleType == ASSUME OpOK, Idle PROVE OpOK'
BY DEF OpOK, Idle, NoOp, OpRecord, OpKinds

LEMMA OpStepOpType == ASSUME DeployInv, OpStep PROVE OpOK'
<1>1. OpOK /\ OpShape /\ op.key \in Keys \union {NoKey} /\ op.pc # "idle"
  BY TypeParts, OpStepServes DEF DeployInv, TypeOK, OpRecord, Served
<1>2. CASE Idle
  BY <1>1, <1>2, IdleType
<1>3. ASSUME NEW pc \in {"drop_row", "drop_enrollment", "revoke_enrollment", "power", "save"}, OpGoto(pc)
      PROVE  OpOK'
  BY <1>1, <1>3, OpMovesType
<1>4. ASSUME NEW pc \in {"mark_key", "unbind"}, OpGoto(pc), op.pc \in {"revoke_key", "mark_key", "unbind"}
      PROVE  OpOK'
  BY <1>1, <1>4, OpMovesType DEF OpOK
<1>5. CASE OpDestroy
  <2>1. op.kind \in {"recycle", "hard_delete"}
    BY <1>1, <1>5 DEF OpDestroy, OpShape, OpAt
  <2> DEFINE pc == AfterVM(op.kind, op.key)
  <2>2. /\ pc \in {"revoke_key", "revoke_enrollment", "drop_row"}
        /\ pc = "revoke_key" => op.key \in Keys
    BY <1>1, <2>1, AfterVMIs
  <2>3. Idle \/ OpGoto(pc)
    BY <1>5 DEF OpDestroy
  <2> HIDE DEF pc
  <2> QED BY <1>1, <1>2, <2>2, <2>3, OpMovesType
<1>6. CASE OpRevokeKey \/ OpMarkKey
  <2>1. \E pc \in {"mark_key", "unbind", "revoke_enrollment"} : OpGoto(pc)
    BY <1>6 DEF OpRevokeKey, OpMarkKey, AfterKey
  <2>2. op.pc \in {"revoke_key", "mark_key", "unbind"}
    BY <1>6 DEF OpRevokeKey, OpMarkKey, OpAt
  <2> QED BY <1>3, <1>4, <2>1, <2>2
<1>7. CASE \/ OpUnbind \/ OpDropRow \/ OpDropEnrollment \/ OpRevokeEnrollment \/ OpPower \/ OpSave
  <2>1. Idle \/ \E pc \in {"drop_row", "drop_enrollment", "save"} : OpGoto(pc)
    BY <1>7 DEF OpUnbind, OpDropRow, OpDropEnrollment, OpRevokeEnrollment, OpPower, OpSave
  <2> QED BY <1>2, <1>3, <2>1
<1> QED BY <1>5, <1>6, <1>7 DEF OpStep

LEMMA OpStepStores == ASSUME DeployInv, OpStep PROVE StoresOK'
<1>1. StoresOK /\ OpOK /\ op.agent \in Agents
  BY TypeParts, OpStepServes DEF DeployInv
<1>2. CASE OpDestroy \/ OpPower
  BY <1>1, <1>2 DEF StoresOK, OpDestroy, OpPower
<1>3. CASE OpRevokeKey
  <2>1. gkey' = gkey \/ gkey' = [gkey EXCEPT ![op.key] = "dead"]
    BY <1>3, KeyDeleted DEF OpRevokeKey
  <2> QED BY <1>1, <1>3, <2>1 DEF StoresOK, OpRevokeKey
<1>4. CASE OpMarkKey \/ OpUnbind
  <2>1. op.key \in Keys
    BY <1>1, <1>4 DEF OpOK, OpMarkKey, OpUnbind, OpAt
  <2>2. \/ UNCHANGED keyrow
        \/ \E b \in Agents \union {NoAgent} : keyrow' = [keyrow EXCEPT ![op.key].agent = b]
        \/ \E status \in {"active", "revoked"} : keyrow' = [keyrow EXCEPT ![op.key].status = status]
    BY <1>4 DEF OpMarkKey, OpUnbind
  <2>3. keyrow' \in [Keys -> KeyRecord]
    BY <1>1, <2>1, <2>2, KeyRowPut DEF StoresOK
  <2> QED BY <1>1, <1>4, <2>3 DEF StoresOK, OpMarkKey, OpUnbind
<1>5. CASE OpDropRow
  BY <1>1, <1>5, RowDeletedTypes DEF StoresOK, OpDropRow
<1>6. CASE OpDropEnrollment \/ OpRevokeEnrollment
  BY <1>1, <1>6 DEF StoresOK, OpDropEnrollment, OpRevokeEnrollment, stores
<1>7. CASE OpSave
  <2> DEFINE a == op.agent
             x == [row[a] EXCEPT !.status = IF op.kind \in {"recycle", "power_off"} THEN "stopped" ELSE "running",
                                 !.vmRef = row[a].vmRef /\ op.kind # "recycle"]
  <2>1. row[a] \in RowRecord
    BY <1>1 DEF StoresOK
  <2>2. x \in RowRecord
    BY <2>1 DEF RowRecord, AgentStatus
  <2>3. UNCHANGED row \/ row' = [row EXCEPT ![a] = x]
    BY <1>7 DEF OpSave
  <2> HIDE DEF x
  <2>4. row' \in [Agents -> RowRecord]
    BY <1>1, <2>2, <2>3 DEF StoresOK
  <2> QED BY <1>1, <1>7, <2>4 DEF StoresOK, OpSave
<1> QED BY <1>2, <1>3, <1>4, <1>5, <1>6, <1>7 DEF OpStep

LEMMA OpStepNotes == ASSUME DeployInv, OpStep PROVE NotesOK'
<1>1. NotesOK /\ OpOK /\ op.agent \in Agents /\ op.agent \in Keys
  BY TypeParts, OpStepServes DEF DeployInv, Keys
<1>2. op.pc \in {"revoke_key", "mark_key", "unbind"} => op.key \in Keys
  BY <1>1 DEF OpOK
<1>3. CASE OpRevokeKey
  <2>1. \/ UNCHANGED notes
        \/ UNCHANGED logged /\ unheard' = unheard \union {<<"key", op.key>>}
        \/ UNCHANGED logged /\ unheard' = unheard \union {<<"client", op.key>>}
        \/ UNCHANGED unheard /\ Log(<<"key", op.key>>)
    BY <1>3 DEF OpRevokeKey, notes
  <2>2. op.key \in Keys
    BY <1>2, <1>3 DEF OpRevokeKey, OpAt
  <2> QED BY <1>1, <2>1, <2>2 DEF NotesOK, notes, Log, Resources
<1>4. CASE OpMarkKey \/ OpUnbind
  <2>1. UNCHANGED unheard /\ (UNCHANGED logged \/ Log(<<"keyrow", op.key>>) \/ Log(<<"binding", op.key>>))
    BY <1>4 DEF OpMarkKey, OpUnbind
  <2>2. op.key \in Keys
    BY <1>2, <1>4 DEF OpMarkKey, OpUnbind, OpAt
  <2> QED BY <1>1, <2>1, <2>2 DEF NotesOK, Log, Resources
<1>5. CASE OpDestroy \/ OpDropEnrollment \/ OpRevokeEnrollment
  <2>1. /\ UNCHANGED unheard
        /\ UNCHANGED logged \/ Log(<<"vm", op.agent>>) \/ Log(<<"enrollment", op.agent>>)
    BY <1>5 DEF OpDestroy, OpDropEnrollment, OpRevokeEnrollment
  <2> QED BY <1>1, <2>1 DEF NotesOK, Log, Resources
<1>6. CASE OpDropRow \/ OpPower \/ OpSave
  BY <1>1, <1>6 DEF OpDropRow, OpPower, OpSave, notes, NotesOK
<1> QED BY <1>3, <1>4, <1>5, <1>6 DEF OpStep

LEMMA OpStepFault == ASSUME OpStep PROVE NoFault \/ Fault
<1>1. CASE OpRevokeKey
  BY <1>1, DeleteKeyFault DEF OpRevokeKey
<1> QED BY <1>1 DEF OpStep, OpDestroy, OpMarkKey, OpUnbind, OpDropRow, OpDropEnrollment,
           OpRevokeEnrollment, OpPower, OpSave

LEMMA OpStepInv == ASSUME DeployInv, OpStep PROVE DeployInv'
<1>1. OpOK' /\ StoresOK' /\ NotesOK' /\ TypeOK
  BY OpStepOpType, OpStepStores, OpStepNotes DEF DeployInv
<1>2. DeployTypeOK'
  <2>1. UNCHANGED deploy
    BY DEF OpStep, OpDestroy, OpRevokeKey, OpMarkKey, OpUnbind, OpDropRow, OpDropEnrollment,
       OpRevokeEnrollment, OpPower, OpSave
  <2> QED BY <1>1, <2>1, TypeParts DEF DeployTypeOK
<1>3. CredentialInv'
  <2>1. UNCHANGED credentials \/ CredentialStep(op.agent)
    BY DEF OpStep, OpDestroy, OpRevokeKey, OpMarkKey, OpUnbind, OpDropRow, OpDropEnrollment,
       OpRevokeEnrollment, OpPower, OpSave, CredentialStep
  <2> QED BY <2>1, OpStepServes, CredentialInvStep DEF DeployInv
<1>4. faults' \in 0..MaxFaults
  BY <1>1, OpStepFault, FaultType, TypeParts
<1>5. TypeOK'
  BY <1>1, <1>2, <1>3, <1>4, TypePartsNext DEF CredentialInv
<1> QED BY <1>3, <1>5, OpStepKeeps DEF DeployInv

LEMMA CrashOpInv == ASSUME DeployInv, CrashOp PROVE DeployInv'
<1>1. TypeOK /\ op.agent \in Agents
  BY DEF DeployInv, TypeOK, CrashOp, OpAt
<1>2. DeployTypeOK' /\ StoresOK' /\ NotesOK' /\ faults' \in 0..MaxFaults
  BY <1>1, TypeParts, FaultType DEF CrashOp, stores, notes, DeployTypeOK, StoresOK, NotesOK
<1>3. OpOK'
  BY <1>1, TypeParts DEF CrashOp, OpOK, NoOp, OpRecord, OpKinds
<1>4. CredentialInv'
  BY CredentialInvStep DEF DeployInv, CrashOp
<1>5. TypeOK'
  BY <1>2, <1>3, <1>4, TypePartsNext DEF CredentialInv
<1> QED BY <1>4, <1>5, CrashOpKeeps DEF DeployInv

LEMMA StartInv ==
    ASSUME DeployInv, NEW a \in Agents, NEW kind \in OpKinds, Start(a, kind)
    PROVE  DeployInv'
<1>1. TypeOK
  BY DEF DeployInv
<1>2. DeployTypeOK' /\ StoresOK' /\ NotesOK' /\ faults' \in 0..MaxFaults
  BY <1>1, TypeParts DEF Start, stores, notes, DeployTypeOK, StoresOK, NotesOK
<1>3. OpOK'
  <2>1. op'.pc \in {"revoke_key", "mark_key", "unbind"} => row[a].key \in Keys
    <3>1. row[a].key \in Keys \union {NoKey}
      BY <1>1 DEF TypeOK, RowRecord
    <3> QED BY <1>1, <3>1, StartIs DEF FirstPC
  <2>2. ops' \in 0..MaxOps /\ overtaken' \subseteq Agents /\ UNCHANGED interrupted
    BY <1>1, TypeParts, MaxOpsAssumption DEF Start, OpOK
  <2> QED BY <1>1, <2>1, <2>2, StartIs, TypeParts DEF OpOK
<1>4. CredentialInv'
  BY CredentialInvStep DEF DeployInv, Start
<1>5. TypeOK'
  BY <1>2, <1>3, <1>4, TypePartsNext DEF CredentialInv
<1> QED BY <1>4, <1>5, StartKeeps DEF DeployInv

LEMMA DaemonFault == ASSUME NEW a, DaemonStep(a) \/ ServerStep(a) PROVE NoFault \/ Fault
<1>1. ASSUME NEW kind, NEW status, Issue(a, kind, status) PROVE NoFault \/ Fault
  BY <1>1 DEF Issue
<1>2. CASE DaemonStep(a)
  BY <1>2 DEF DaemonStep, EnrollRead, RenewRead, Read, Receive, NoFault
<1>3. CASE ServerStep(a)
  BY <1>1, <1>3 DEF ServerStep, EnrollSave, RenewSave, LoseAnswer
<1> QED BY <1>2, <1>3

LEMMA DaemonInv == ASSUME DeployInv, NEW a \in Agents, Daemon(a) PROVE DeployInv'
<1>1. TypeOK /\ (DaemonStep(a) \/ ServerStep(a))
  BY DEF DeployInv, Daemon
<1>2. DeployTypeOK' /\ StoresOK' /\ NotesOK' /\ OpOK' /\ OpShape'
  BY <1>1, TypeParts DEF Daemon, stores, notes, ofOps, DeployTypeOK, StoresOK, NotesOK, OpOK,
     OpShape, OpAt, DeployInv
<1>3. CredentialInv'
  BY <1>1, CredentialInvStep DEF DeployInv, CredentialStep
<1>4. faults' \in 0..MaxFaults
  BY <1>1, DaemonFault, FaultType, TypeParts
<1>5. TypeOK'
  BY <1>2, <1>3, <1>4, TypePartsNext DEF CredentialInv
<1> QED BY <1>2, <1>3, <1>5, DaemonKeeps DEF DeployInv

LEMMA StutterInv == ASSUME DeployInv, UNCHANGED vars PROVE DeployInv'
<1> USE DEF vars, credentials
<1>1. TypeOK'
  BY DEF DeployInv, TypeOK, EnrollmentTypeOK
<1>2. CredentialInv'
  BY CredentialInvStep DEF DeployInv
<1>3. \A b \in Agents : Local(b)'
  <2>1. ASSUME NEW b \in Agents PROVE Local(b)'
    <3>1. Beside(b)
      BY DEF Beside, KeepsBinding, SameRow, SameKey, SameVM, Rival
    <3> QED BY <3>1, BesideKeeps DEF DeployInv
  <2> QED BY <2>1
<1>4. OpShape'
  BY DEF DeployInv, OpShape, OpAt
<1> QED BY <1>1, <1>2, <1>3, <1>4 DEF DeployInv

LEMMA DeployInvInit == Init => DeployInv
<1> SUFFICES ASSUME Init PROVE DeployInv
  OBVIOUS
<1> USE DEF Init
<1>1. /\ NotAsked \in DeployRecord /\ NotAsked.pc = "idle" /\ NotAsked.key = NoKey /\ NotAsked.async = FALSE
      /\ NotAsked.mode = "full"
  BY DeployRecordIs DEF NotAsked, PCs, Ended, Modes
<1>2. StoresOK
  <2>1. [NoKeyRow EXCEPT !.status = "active"] \in KeyRecord
    BY KeyRowTypes
  <2> QED BY <2>1, RowTypes, KeyRowTypes DEF StoresOK
<1>3. DeployTypeOK
  BY <1>1 DEF DeployTypeOK
<1>4. OpOK /\ NotesOK /\ faults \in 0..MaxFaults /\ OpShape
  BY MaxOpsAssumption, EnrollmentBounds DEF OpOK, NotesOK, NoOp, OpRecord, OpKinds, OpShape, OpAt
<1>5. CredentialInv
  BY CredentialInit
<1>6. TypeOK
  BY <1>2, <1>3, <1>4, <1>5, TypeParts DEF CredentialInv
<1>7. ASSUME NEW a \in Agents PROVE Local(a)
  <2>1. a # Spare /\ a # NoAgent /\ NoKey # Spare /\ a \in Keys /\ Spare \in Keys
    BY NamesAssumption DEF Keys
  <2>2. /\ row[a] = NoRow /\ gkey[a] = "none" /\ keyrow[a] = NoKeyRow /\ keyrow[Spare].agent = NoAgent
        /\ vm[a] = "none" /\ deploy[a] = NotAsked /\ op = NoOp /\ enrollment[a].status = "none"
    BY <2>1 DEF NoKeyRow, EnrollmentInit, NoEnrollment
  <2>3. NoRow.status = "none" /\ NoRow.key = NoKey /\ NoKeyRow.status = "none" /\ NoOp.agent = NoAgent
    BY DEF NoRow, NoKeyRow, NoOp
  <2>4. deploy[a].pc = "idle" /\ deploy[a].key = NoKey /\ deploy[a].async = FALSE /\ deploy[a].mode = "full"
    BY <1>1, <2>2
  <2> QED BY <2>1, <2>2, <2>3, <2>4 DEF Local, Course, Fresh, KeyTracked, RowTracked,
             BindingTracked, AsyncTracked, AgentTracked, KeyHeld, Removing, Succeeding, Named, At,
             Full, Mints, Exists, Reuses, OpAt, Async, Building, Background, Ended
<1> QED BY <1>4, <1>5, <1>6, <1>7 DEF DeployInv

LEMMA DeployInvHolds == Spec => []DeployInv
<1>1. DeployInv /\ [Next]_vars => DeployInv'
  <2> SUFFICES ASSUME DeployInv, [Next]_vars PROVE DeployInv'
    OBVIOUS
  <2>1. ASSUME NEW a \in Agents, NEW mode \in Modes, NEW key \in Keys,
               <<a, mode, key>> \in Plans, DeployAgent(a, mode, key)
        PROVE  DeployInv'
    BY <2>1, DeployAgentInv
  <2>2. ASSUME NEW a \in Agents, DeployStep(a) \/ CrashDeploy(a) PROVE DeployInv'
    BY <2>2, DeployStepInv
  <2>3. ASSUME NEW a \in Daemons, Daemon(a) PROVE DeployInv'
    BY <2>3, DaemonInv, DaemonsAssumption
  <2>4. ASSUME NEW a \in Agents, NEW kind \in OpKinds, Start(a, kind) PROVE DeployInv'
    BY <2>4, StartInv
  <2>5. CASE OpStep \/ CrashOp
    BY <2>5, OpStepInv, CrashOpInv
  <2>6. CASE UNCHANGED vars
    BY <2>6, StutterInv
  <2> QED BY <2>1, <2>2, <2>3, <2>4, <2>5, <2>6 DEF Next
<1> QED BY <1>1, DeployInvInit, PTL DEF Spec

(***************************************************************************)
(* The theorems                                                             *)
(***************************************************************************)
\* The variables always have their types: what each store, call and operation
\* may hold, whatever the interleaving of deployments, operations and daemons.
THEOREM TypeCorrect == Spec => []TypeOK
BY DeployInvHolds, PTL DEF DeployInv

\* A revoked credential authenticates again only through an exchange that had
\* read the row before Revoke (agentmgr/service.go:127-187).
THEOREM RevocationsHold == Spec => []RevocationHolds
<1>1. DeployInv => RevocationHolds
  BY CredentialsHold DEF DeployInv
<1> QED BY <1>1, DeployInvHolds, PTL

\* A daemon that nothing disturbed can authenticate while its enrollment is
\* active (heartbeat.go:289-307).
THEOREM NobodyIsLockedOut == Spec => []NotLockedOut
<1>1. DeployInv => NotLockedOut
  BY CredentialsHold DEF DeployInv
<1> QED BY <1>1, DeployInvHolds, PTL

\* A full deployment that was refused or has failed leaves nothing behind but what
\* the log names and what the gateway made without saying so
\* (deploy.resolvers.go:55-215, deploy_helpers.go:88-106, deploy_rollback.go).
THEOREM RollbacksAreComplete == Spec => []RollbackComplete
<1>1. DeployInv => RollbackComplete
  <2> SUFFICES ASSUME DeployInv, NEW a \in Agents, deploy[a].mode = "full",
                      deploy[a].pc \in {"refused", "failed"}
               PROVE  /\ gkey[a] = "live" => Reported(<<"key", a>>)
                      /\ keyrow[a].status # "none" => Reported(<<"keyrow", a>>)
                      /\ keyrow[Spare].agent = a => Reported(<<"binding", Spare>>)
                      /\ At(a, "refused") =>
                             /\ Exists(a) => Reported(<<"row", a>>)
                             /\ enrollment[a].status # "none" => Reported(<<"enrollment", a>>)
                             /\ vm[a] = "none"
                      /\ At(a, "failed") /\ row[a].status = "provisioning" => Reported(<<"row", a>>)
    BY DEF RollbackComplete
  <2>1. Full(a) /\ Local(a)
    BY DEF Full, At, DeployInv
  <2>2. deploy[a].pc \notin Background \union {"persist", "record", "undo_key", "undo_mint", "done", "crashed"}
    BY DEF Background, Building
  <2>3. gkey[a] = "live" => Reported(<<"key", a>>)
    BY <2>1, <2>2 DEF Local, KeyTracked
  <2>4. keyrow[a].status # "none" => Reported(<<"keyrow", a>>)
    BY <2>1, <2>2 DEF Local, RowTracked
  <2>5. keyrow[Spare].agent = a => Reported(<<"binding", Spare>>)
    BY <2>1, <2>2 DEF Local, BindingTracked
  <2>6. At(a, "refused") => vm[a] = "none"
    BY <2>1 DEF Local, AsyncTracked, Background, Building, At
  <2>7. /\ At(a, "refused") => /\ Exists(a) => Reported(<<"row", a>>)
                               /\ enrollment[a].status # "none" => Reported(<<"enrollment", a>>)
        /\ At(a, "failed") /\ row[a].status = "provisioning" => Reported(<<"row", a>>)
    BY <2>1 DEF Local, AgentTracked, At
  <2> QED BY <2>3, <2>4, <2>5, <2>6, <2>7
<1> QED BY <1>1, DeployInvHolds, PTL

\* What outlives an agent recycled or deleted after its deployment succeeded is
\* named in the log: its VM, the key minted for it, its credential.  The live key
\* that a hard delete passes over without a word, for want of a client, has a
\* row that says revoked (deploy.resolvers.go:293-331, agent.resolvers.go:321-371,
\* gateway_resolve.go:126-149).
THEOREM RemovalsAreComplete == Spec => []RemovalComplete
<1>1. DeployInv => RemovalComplete
  <2> SUFFICES ASSUME DeployInv, NEW a \in Agents \ (overtaken \union interrupted),
                      At(a, "done"), op.agent # a, Recycled(a) \/ ~Exists(a)
               PROVE  /\ vm[a] # "none" => Reported(<<"vm", a>>)
                      /\ gkey[a] = "live" => Reported(<<"key", a>>) \/ PassedOver(a)
                      /\ enrollment[a].status = "active" => a \in raced \/ Reported(<<"enrollment", a>>)
    BY DEF RemovalComplete
  <2>1. Removing(a) /\ row[a].vmRef \in BOOLEAN /\ enrollment[a].revoked \in BOOLEAN
    BY DEF DeployInv, Local, TypeOK, RowRecord, EnrollmentTypeOK, EnrollmentRecord
  <2>2. ~Exists(a) \/ ~HasVM(a)
    BY <2>1 DEF Recycled, HasVM
  <2>3. VMGone(a) /\ KeyGone(a) /\ CredentialGone(a)
    BY <2>1, <2>2 DEF Removing
  <2>4. enrollment[a].revoked = TRUE /\ enrollment[a].status = "active" => a \in raced
    BY CredentialsHold DEF DeployInv, RevocationHolds
  <2> QED BY <2>3, <2>4 DEF VMGone, KeyGone, CredentialGone
<1> QED BY <1>1, DeployInvHolds, PTL

\* A deployment reports success only for an agent whose VM runs, whose minted key
\* works and is stored under it, and whose VM can enroll, unless an operator
\* interfered with it (deploy_helpers.go:59-86, 110-360).
THEOREM SuccessesAreComplete == Spec => SuccessIsComplete
<1> DEFINE Success(a) ==
        /\ vm'[a] = "on"
        /\ enrollment'[a].status # "none"
        /\ row'[a].key = a => gkey'[a] = "live" /\ keyrow'[a].status = "active"
        /\ row'[a].key = Spare /\ keyrow'[Spare].agent = NoAgent
           => \E b \in Agents \ {a} : deploy'[b].key = Spare
<1>1. ASSUME DeployInv, NEW a \in Agents \ overtaken, ~At(a, "done"), At(a, "done")', Effect(a)
      PROVE  Success(a)
  <2>1. Local(a) /\ Moved(a) /\ Running(a, deploy[a].pc) /\ (Rival(a)' <=> Rival(a))
    BY <1>1, MovedByEffect DEF DeployInv, Effect
  <2>2. /\ SameKey(a) /\ SameVM(a) /\ SameKeyRows(a) /\ SameEnrollment(a)
        /\ \/ At(a, "record") /\ deploy[a].mode = "instant" /\ row'[a].key = a
           \/ At(a, "finalize") /\ row'[a].key = deploy[a].key
    <3> USE DEF From, At, OwnKey
    <3>1. ~Prepares(a)
      BY <1>1 DEF Prepares, Moves, Ended
    <3>2. ~HandlesKey(a)
      BY <1>1, <2>1 DEF HandlesKey, UndoneTo
    <3>3. ~HandlesVM(a)
      BY <1>1, <2>1 DEF HandlesVM
    <3>4. HandlesRow(a)
      BY <1>1, <3>1, <3>2, <3>3 DEF Effect
    <3> QED BY <1>1, <2>1, <3>4 DEF HandlesRow, Running
  <2>3. Succeeding(a) /\ Course(a)
    BY <2>1 DEF Local
  <2>4. CASE At(a, "record") /\ deploy[a].mode = "instant" /\ row'[a].key = a
    BY <1>1, <2>1, <2>2, <2>3, <2>4 DEF Succeeding, Mints, Running, At, SameKey, SameVM,
       SameKeyRows, SameEnrollment
  <2>5. CASE At(a, "finalize") /\ row'[a].key = deploy[a].key
    BY <1>1, <2>1, <2>2, <2>3, <2>5 DEF Succeeding, Course, Mints, Full, Reuses, Building, Running,
       At, SameKey, SameVM, SameKeyRows, SameEnrollment, Rival
  <2> QED BY <2>2, <2>4, <2>5
<1>2. ASSUME DeployInv, [Next]_vars, NEW a \in Agents \ overtaken, ~At(a, "done"), At(a, "done")'
      PROVE  Success(a)
  <2>1. CASE \E b \in Agents : DeployStep(b) \/ CrashDeploy(b)
    <3>1. PICK b \in Agents : DeployStep(b) \/ CrashDeploy(b)
      BY <2>1
    <3>2. Effect(b) /\ Moved(b)
      BY <3>1, DeployStepEffect, MovedByEffect, <1>2 DEF DeployInv
    <3>3. b = a
      BY <1>2, <3>2 DEF Moved, At
    <3> QED BY <1>1, <1>2, <3>2, <3>3
  <2>2. ASSUME NEW b \in Agents, NEW mode \in Modes, NEW key \in Keys, DeployAgent(b, mode, key)
        PROVE  FALSE
    <3>1. deploy'[a].pc = deploy[a].pc \/ deploy'[a].pc \in {"lookup", "enroll"}
      <4> DEFINE x == [NotAsked EXCEPT !.pc = IF key = Spare THEN "lookup" ELSE "enroll", !.mode = mode, !.key = key]
      <4>1. x.pc \in {"lookup", "enroll"}
        BY DEF NotAsked
      <4>2. deploy' = [deploy EXCEPT ![b] = x]
        BY <2>2 DEF DeployAgent
      <4> HIDE DEF x
      <4> QED BY <1>2, <4>1, <4>2 DEF DeployInv, TypeOK
    <3> QED BY <1>2, <3>1 DEF At
  <2>3. ASSUME UNCHANGED deploy PROVE FALSE
    BY <1>2, <2>3 DEF At
  <2>4. ASSUME NEW b, Daemon(b) PROVE UNCHANGED deploy
    BY <2>4 DEF Daemon
  <2>5. ASSUME NEW b, NEW kind, Start(b, kind) PROVE UNCHANGED deploy
    BY <2>5 DEF Start
  <2>6. ASSUME OpStep \/ CrashOp PROVE UNCHANGED deploy
    BY <2>6 DEF OpStep, OpDestroy, OpRevokeKey, OpMarkKey, OpUnbind, OpDropRow, OpDropEnrollment,
       OpRevokeEnrollment, OpPower, OpSave, CrashOp
  <2>7. ASSUME UNCHANGED vars PROVE UNCHANGED deploy
    BY <2>7 DEF vars
  <2> QED BY <1>2, <2>1, <2>2, <2>3, <2>4, <2>5, <2>6, <2>7 DEF Next
<1>3. DeployInv /\ [Next]_vars =>
        [\A a \in Agents \ overtaken : ~At(a, "done") /\ At(a, "done")' => Success(a)]_vars
  BY <1>2
<1> HIDE DEF Success
<1>4. Spec => [][\A a \in Agents \ overtaken : ~At(a, "done") /\ At(a, "done")' => Success(a)]_vars
  BY <1>3, DeployInvHolds, PTL DEF Spec
<1> QED BY <1>4 DEF SuccessIsComplete, Success

=============================================================================
