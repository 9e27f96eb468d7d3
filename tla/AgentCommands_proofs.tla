------------------------ MODULE AgentCommands_proofs ------------------------
(* Theorems about AgentCommands, for every value of its constants. *)
EXTENDS AgentCommands, TLAPS

LEMMA Shapes ==
    ASSUME TypeOK
    PROVE  /\ DOMAIN cmd = Commands /\ DOMAIN handler = Handlers /\ DOMAIN handed = Commands
           /\ \A c \in Commands : cmd[c] \in CommandRecord
           /\ \A h \in Handlers : handler[h] \in HandlerRecord
BY DEF TypeOK

LEMMA NewCommandType == \A k \in Kinds : NewCommand(k) \in CommandRecord
BY NoCmdAssumption DEF NewCommand, CommandRecord, Outstanding, Terminal

\* The edits of a row: of its status, of the timeout, of the secret too.
LEMMA EditType ==
    ASSUME NEW r \in CommandRecord, NEW s \in Outstanding \union Terminal, NEW l \in BOOLEAN,
           NEW x \in Commands \union {NoCmd}
    PROVE  /\ [r EXCEPT !.late = l] \in CommandRecord
           /\ [r EXCEPT !.status = s, !.late = l] \in CommandRecord
           /\ [r EXCEPT !.status = s, !.late = l, !.secret = x] \in CommandRecord
BY DEF CommandRecord

LEMMA IdleType == Idle \in HandlerRecord
BY KindsAssumption DEF Idle, HandlerRecord

\* A write of one row that keeps the table well formed.
LEMMA AdvanceType ==
    ASSUME TypeOK, NEW c \in Commands, NEW from, NEW new \in CommandRecord, Advance(c, from, new)
    PROVE  cmd' \in [Commands -> CommandRecord] /\ faults' \in 0..MaxFaults
BY BoundsAssumption DEF Advance, TypeOK, NoFault, Fault

LEMMA CreateType ==
    ASSUME TypeOK, NEW k \in Kinds, CreateCommand(k)
    PROVE  cmd' \in [Commands -> CommandRecord] /\ faults' \in 0..MaxFaults
BY BoundsAssumption, NewCommandType DEF CreateCommand, TypeOK, NoFault, Fault

LEMMA FaultType ==
    ASSUME TypeOK, NoFault \/ Fault
    PROVE  faults' \in 0..MaxFaults
BY BoundsAssumption DEF TypeOK, NoFault, Fault

LEMMA ReportType == \A c \in Commands : Report(c) \subseteq Ack /\ \A a \in Report(c) : a.cmd = c
<1> SUFFICES ASSUME NEW c \in Commands, NEW a \in Report(c) PROVE a \in Ack /\ a.cmd = c
    OBVIOUS
<1>1. \A phase \in {"acked", "completed", "failed"} : Says(c, phase) \in Ack /\ Says(c, phase).cmd = c
  BY DEF Says, Ack
<1>2. \E phase \in {"acked", "completed", "failed"} : a = Says(c, phase)
  BY DEF Report
<1> QED BY <1>1, <1>2

LEMMA TypeStep == TypeOK /\ [Next]_vars => TypeOK'
<1> SUFFICES ASSUME TypeOK, [Next]_vars PROVE TypeOK'
    OBVIOUS
<1> USE Shapes, IdleType, FaultType DEF At
<1>1. ASSUME NEW h \in Handlers, NEW acks \in SUBSET UNION {Report(c) : c \in Commands}, Heartbeat(h, acks)
      PROVE  TypeOK'
  <2>1. acks \subseteq Ack
    BY ReportType
  <2>2. [Idle EXCEPT !.pc = "acks", !.acks = acks] \in HandlerRecord
    BY <2>1 DEF HandlerRecord, Idle
  <2> QED BY <1>1, <2>2 DEF Heartbeat, TypeOK, Idle
<1>2. ASSUME NEW h \in Handlers, NEW k \in Kinds, Request(h, k) PROVE TypeOK'
  <2>1. [Idle EXCEPT !.pc = "request", !.kind = k] \in HandlerRecord
    BY DEF HandlerRecord, Idle
  <2> QED BY <1>2, <2>1 DEF Request, TypeOK, Idle
<1>3. ASSUME NEW h \in Handlers, Crash(h) PROVE TypeOK'
  BY <1>3 DEF Crash, TypeOK, Idle
<1>4. ASSUME NEW c \in Commands, DaemonActs(c) \/ Timeout(c) PROVE TypeOK'
  <2>1. CASE DaemonActs(c)
    BY <2>1 DEF DaemonActs, TypeOK
  <2>2. CASE Timeout(c)
    <3>1. cmd' \in [Commands -> CommandRecord]
      BY <2>2 DEF Timeout, CommandRecord
    <3>2. spurious' \in 0..MaxSpurious
      BY <2>2, BoundsAssumption DEF Timeout, TypeOK
    <3> QED BY <2>2, <3>1, <3>2 DEF Timeout, TypeOK
  <2> QED BY <1>4, <2>1, <2>2
<1>5. CASE Age \/ UNCHANGED vars
  BY <1>5 DEF Age, vars, TypeOK
<1>6. ASSUME NEW h \in Handlers, HandlerStep(h) PROVE TypeOK'
  <2>1. CASE ReadAck(h)
    BY <2>1 DEF ReadAck, TypeOK, HandlerRecord, AckStep, Ack
  <2>2. CASE ApplyAcked(h)
    <3>1. handler[h].cmd \in Commands
      BY <2>2 DEF ApplyAcked, TypeOK
    <3>2. [cmd[handler[h].cmd] EXCEPT !.status = "acked", !.late = FALSE] \in CommandRecord
      BY <3>1, EditType DEF Outstanding
    <3>3. cmd' \in [Commands -> CommandRecord] /\ faults' \in 0..MaxFaults
      BY <2>2, <3>1, <3>2, AdvanceType DEF ApplyAcked
    <3> QED BY <2>2, <3>3 DEF ApplyAcked, Goto, TypeOK, HandlerRecord
  <2>3. CASE ApplyFailed(h)
    <3>1. handler[h].cmd \in Commands
      BY <2>3 DEF ApplyFailed, TypeOK
    <3>2. [cmd[handler[h].cmd] EXCEPT !.status = "failed", !.late = FALSE] \in CommandRecord
      BY <3>1, EditType DEF Terminal
    <3>3. cmd' \in [Commands -> CommandRecord] /\ faults' \in 0..MaxFaults
      BY <2>3, <3>1, <3>2, AdvanceType DEF ApplyFailed
    <3> QED BY <2>3, <3>3 DEF ApplyFailed, Goto, TypeOK, HandlerRecord
  <2>4. CASE Publish(h)
    BY <2>4 DEF Publish, Goto, TypeOK, HandlerRecord
  <2>5. CASE Complete(h)
    <3>1. handler[h].cmd \in Commands /\ handler[h].secret \in Commands \union {NoCmd}
      BY <2>5 DEF Complete, TypeOK, HandlerRecord
    <3>2. [cmd[handler[h].cmd] EXCEPT !.status = "completed", !.late = FALSE,
                                      !.secret = handler[h].secret] \in CommandRecord
      BY <3>1, EditType DEF Terminal
    <3>3. cmd' \in [Commands -> CommandRecord] /\ faults' \in 0..MaxFaults
      BY <2>5, <3>1, <3>2, AdvanceType DEF Complete
    <3>4. overdue' \in BOOLEAN
      BY <2>5 DEF Complete
    <3> QED BY <2>5, <3>3, <3>4 DEF Complete, Goto, TypeOK, HandlerRecord
  <2>5a. CASE AcksDone(h)
    BY <2>5a DEF AcksDone, Goto, TypeOK, HandlerRecord
  <2>6. CASE Sweep(h)
    <3>0. \A c \in Commands : [cmd[c] EXCEPT !.status = "pending", !.late = FALSE] \in CommandRecord
      BY EditType DEF Outstanding
    <3>1. cmd' \in [Commands -> CommandRecord] /\ handed' \in [Commands -> Nat]
      <4>1. CASE UNCHANGED <<cmd, handed>>
        BY <4>1 DEF TypeOK
      <4>2. CASE /\ cmd' = [c \in Commands |-> IF Late(c) THEN [cmd[c] EXCEPT !.status = "pending", !.late = FALSE]
                                              ELSE cmd[c]]
                 /\ handed' = [c \in Commands |-> IF Late(c) THEN 0 ELSE handed[c]]
        <5>1. cmd' \in [Commands -> CommandRecord]
          BY <3>0, <4>2
        <5>2. handed' \in [Commands -> Nat]
          BY <4>2 DEF TypeOK
        <5> QED BY <5>1, <5>2
      <4> QED BY <2>6, <4>1, <4>2 DEF Sweep
    <3> QED BY <2>6, <3>1 DEF Sweep, Goto, TypeOK, HandlerRecord
  <2>7. CASE MaxAgeInFlight(h) \/ MaxAgeLast(h)
    BY <2>7 DEF MaxAgeInFlight, MaxAgeLast, Goto, TypeOK, HandlerRecord
  <2>8. CASE MaxAgeCreate(h)
    BY <2>8, CreateType, KindsAssumption DEF MaxAgeCreate, Goto, TypeOK, HandlerRecord
  <2>9. CASE QueryPending(h)
    BY <2>9 DEF QueryPending, TypeOK, HandlerRecord, Idle
  <2>10. CASE Dispatch(h)
    <3>1. PICK c \in handler[h].todo :
            \/ /\ cmd' = [cmd EXCEPT ![c].status = "dispatched", ![c].late = FALSE]
               /\ handler' = [handler EXCEPT ![h].todo = @ \ {c}, ![h].resp = @ \union {c}]
               /\ handed' = [handed EXCEPT ![c] = @ + 1]
            \/ /\ handler' = [handler EXCEPT ![h].todo = @ \ {c}]
               /\ UNCHANGED <<cmd, handed>>
      BY <2>10 DEF Dispatch
    <3>2. c \in Commands
      BY DEF HandlerRecord
    <3>3. cmd' \in [Commands -> CommandRecord]
      <4>1. [cmd[c] EXCEPT !.status = "dispatched", !.late = FALSE] \in CommandRecord
        BY <3>2, EditType DEF Outstanding
      <4> QED BY <3>1, <3>2, <4>1 DEF TypeOK
    <3>4. handed' \in [Commands -> Nat]
      BY <3>1, <3>2 DEF TypeOK
    <3>5. handler' \in [Handlers -> HandlerRecord] /\ handler'[h].pc = "dispatch"
            /\ \A g \in Handlers \ {h} : handler'[g] = handler[g]
      BY <2>10, <3>1, <3>2 DEF HandlerRecord, Dispatch
    <3>6. faults' \in 0..MaxFaults
      BY <2>10 DEF Dispatch
    <3> QED BY <2>10, <3>3, <3>4, <3>5, <3>6 DEF Dispatch, TypeOK
  <2>11. CASE Respond(h)
    BY <2>11 DEF Respond, TypeOK, Idle
  <2>12. CASE RequestCreate(h)
    <3>1. handler[h].kind \in Kinds
      BY DEF HandlerRecord
    <3> QED BY <2>12, <3>1, CreateType DEF RequestCreate, TypeOK, Idle
  <2> QED BY <1>6, <2>1, <2>2, <2>3, <2>4, <2>5, <2>5a, <2>6, <2>7, <2>8, <2>9, <2>10, <2>11, <2>12
          DEF HandlerStep
<1> QED BY <1>1, <1>2, <1>3, <1>4, <1>5, <1>6 DEF Next

\* Every state the program reaches is well formed.
THEOREM TypeCorrect == Spec => []TypeOK
<1>1. Init => TypeOK
  <2> SUFFICES ASSUME Init PROVE TypeOK
    OBVIOUS
  <2>1. [NewCommand(UI) EXCEPT !.status = "none"] \in CommandRecord
    BY KindsAssumption, NoCmdAssumption DEF CommandRecord, NewCommand
  <2>2. \A h \in Handlers : handler[h] = Idle /\ Idle.pc = "idle"
    BY DEF Init, Idle
  <2>3. handler \in [Handlers -> HandlerRecord] /\ cmd \in [Commands -> CommandRecord]
    BY <2>1, IdleType DEF Init
  <2>4. spurious \in 0..MaxSpurious /\ faults \in 0..MaxFaults /\ handed \in [Commands -> Nat]
    BY BoundsAssumption DEF Init
  <2> QED BY <2>2, <2>3, <2>4 DEF Init, TypeOK
<1> QED BY <1>1, TypeStep, PTL DEF Spec

-----------------------------------------------------------------------------
(***************************************************************************)
(* What one step does to one command.                                       *)
(***************************************************************************)
Kept(c)       == cmd'[c] = cmd[c] /\ handed'[c] = handed[c]
Created(c)    == /\ cmd[c].status = "none" /\ cmd'[c].status = "pending"
                 /\ ~HasInFlight(cmd'[c].kind) /\ handed'[c] = handed[c]
                 /\ \A d \in Commands \ {c} : cmd'[d] = cmd[d]
Delayed(c)    == /\ cmd[c].status = "dispatched" /\ cmd'[c].status = "dispatched"
                 /\ cmd'[c].kind = cmd[c].kind /\ handed'[c] = handed[c]
Acked(c)      == /\ cmd[c].status = "dispatched" /\ cmd'[c].status = "acked"
                 /\ cmd'[c].kind = cmd[c].kind /\ handed'[c] = handed[c]
Failed(c)     == /\ cmd[c].status \in {"dispatched", "acked"} /\ cmd'[c].status = "failed"
                 /\ cmd'[c].kind = cmd[c].kind /\ handed'[c] = handed[c]
Completed(c)  == /\ cmd[c].status \in {"dispatched", "acked"} /\ cmd'[c].status = "completed"
                 /\ cmd'[c].kind = cmd[c].kind /\ handed'[c] = handed[c]
                 /\ \E h \in Handlers : /\ At(h, "complete") /\ handler[h].cmd = c
                                        /\ cmd'[c].secret = handler[h].secret
TakenBack(c)  == /\ cmd[c].status = "dispatched" /\ cmd'[c].status = "pending"
                 /\ cmd'[c].kind = cmd[c].kind /\ handed'[c] = 0
Dispatched(c) == /\ cmd[c].status = "pending" /\ cmd'[c].status = "dispatched"
                 /\ cmd'[c].kind = cmd[c].kind /\ handed'[c] = handed[c] + 1

CommandStep(c) ==
    \/ Kept(c) \/ Created(c) \/ Delayed(c) \/ Acked(c) \/ Failed(c)
    \/ Completed(c) \/ TakenBack(c) \/ Dispatched(c)

LEMMA CreateSteps ==
    ASSUME TypeOK, NEW k \in Kinds, CreateCommand(k), handed' = handed, NEW c \in Commands
    PROVE  Kept(c) \/ Created(c)
<1>1. ASSUME NEW d \in Commands, Free(d), ~HasInFlight(k), cmd' = [cmd EXCEPT ![d] = NewCommand(k)]
      PROVE  Kept(c) \/ Created(c)
  BY <1>1, Shapes DEF Kept, Created, Free, NewCommand
<1>2. CASE UNCHANGED cmd
  BY <1>2 DEF Kept
<1> QED BY <1>1, <1>2 DEF CreateCommand

LEMMA CommandSteps ==
    ASSUME TypeOK, [Next]_vars, NEW c \in Commands
    PROVE  CommandStep(c)
<1> USE Shapes DEF At
<1>f. cmd[c] = [kind |-> cmd[c].kind, status |-> cmd[c].status, late |-> cmd[c].late, secret |-> cmd[c].secret]
  BY DEF CommandRecord
<1>1. CASE UNCHANGED <<cmd, handed>>
  BY <1>1 DEF CommandStep, Kept
<1>2. ASSUME NEW d \in Commands, Timeout(d) PROVE CommandStep(c)
  BY <1>2, <1>f DEF Timeout, CommandStep, Kept, Delayed
<1>3. ASSUME NEW h \in Handlers, ApplyAcked(h) PROVE CommandStep(c)
  <2>1. CASE UNCHANGED cmd
    BY <1>3, <2>1 DEF ApplyAcked, CommandStep, Kept
  <2>2. CASE c # handler[h].cmd
    BY <1>3, <2>2 DEF ApplyAcked, Advance, CommandStep, Kept
  <2>3. CASE c = handler[h].cmd /\ cmd' # cmd
    <3>1. /\ cmd[c].status \in {"dispatched"}
          /\ cmd' = [cmd EXCEPT ![c] = [cmd[c] EXCEPT !.status = "acked", !.late = FALSE]]
          /\ handed' = handed
      BY <1>3, <2>3 DEF ApplyAcked, Advance
    <3>2. cmd'[c].status = "acked" /\ cmd'[c].kind = cmd[c].kind
      BY <3>1, <1>f
    <3> QED BY <3>1, <3>2 DEF CommandStep, Acked
  <2> QED BY <2>1, <2>2, <2>3
<1>4. ASSUME NEW h \in Handlers, ApplyFailed(h) PROVE CommandStep(c)
  <2>1. CASE UNCHANGED cmd
    BY <1>4, <2>1 DEF ApplyFailed, CommandStep, Kept
  <2>2. CASE c # handler[h].cmd
    BY <1>4, <2>2 DEF ApplyFailed, Advance, CommandStep, Kept
  <2>3. CASE c = handler[h].cmd /\ cmd' # cmd
    <3>1. /\ cmd[c].status \in {"dispatched", "acked"}
          /\ cmd' = [cmd EXCEPT ![c] = [cmd[c] EXCEPT !.status = "failed", !.late = FALSE]]
          /\ handed' = handed
      BY <1>4, <2>3 DEF ApplyFailed, Advance
    <3>2. cmd'[c].status = "failed" /\ cmd'[c].kind = cmd[c].kind
      BY <3>1, <1>f
    <3> QED BY <3>1, <3>2 DEF CommandStep, Failed
  <2> QED BY <2>1, <2>2, <2>3
<1>5. ASSUME NEW h \in Handlers, Complete(h) PROVE CommandStep(c)
  <2>1. CASE UNCHANGED cmd
    BY <1>5, <2>1 DEF Complete, CommandStep, Kept
  <2>2. CASE c # handler[h].cmd
    BY <1>5, <2>2 DEF Complete, Advance, CommandStep, Kept
  <2>3. CASE c = handler[h].cmd /\ cmd' # cmd
    <3>1. /\ cmd[c].status \in {"dispatched", "acked"}
          /\ cmd' = [cmd EXCEPT ![c] = [cmd[c] EXCEPT !.status = "completed", !.late = FALSE,
                                                       !.secret = handler[h].secret]]
          /\ handed' = handed
      BY <1>5, <2>3 DEF Complete, Advance
    <3>2. /\ cmd'[c].status = "completed" /\ cmd'[c].kind = cmd[c].kind
          /\ cmd'[c].secret = handler[h].secret
      BY <3>1, <1>f
    <3> QED BY <1>5, <2>3, <3>1, <3>2 DEF Complete, CommandStep, Completed
  <2> QED BY <2>1, <2>2, <2>3
<1>6. ASSUME NEW h \in Handlers, Sweep(h) PROVE CommandStep(c)
  <2>1. CASE Late(c) /\ cmd'[c] = [cmd[c] EXCEPT !.status = "pending", !.late = FALSE] /\ handed'[c] = 0
    BY <2>1, <1>f DEF Late, CommandStep, TakenBack
  <2>2. CASE Kept(c)
    BY <2>2 DEF CommandStep
  <2> QED BY <1>6, <2>1, <2>2 DEF Sweep, Kept
<1>7. ASSUME NEW h \in Handlers, MaxAgeCreate(h) \/ RequestCreate(h) PROVE CommandStep(c)
  <2>1. handler[h].kind \in Kinds
    BY DEF HandlerRecord
  <2>2. Kept(c) \/ Created(c)
    BY <1>7, <2>1, CreateSteps, KindsAssumption DEF MaxAgeCreate, RequestCreate
  <2> QED BY <2>2 DEF CommandStep
<1>8. ASSUME NEW h \in Handlers, Dispatch(h) PROVE CommandStep(c)
  <2>1. CASE UNCHANGED <<cmd, handed>>
    BY <2>1 DEF CommandStep, Kept
  <2>2. ASSUME NEW d \in Commands, StillPending(d),
               cmd' = [cmd EXCEPT ![d].status = "dispatched", ![d].late = FALSE],
               handed' = [handed EXCEPT ![d] = @ + 1]
        PROVE  CommandStep(c)
    BY <2>2, <1>f DEF StillPending, CommandStep, Kept, Dispatched
  <2> QED BY <1>8, <2>1, <2>2 DEF Dispatch, HandlerRecord
<1> QED BY <1>1, <1>2, <1>3, <1>4, <1>5, <1>6, <1>7, <1>8
        DEF Next, HandlerStep, Heartbeat, Request, Crash, DaemonActs, Age, vars,
            ReadAck, Publish, AcksDone, MaxAgeInFlight, MaxAgeLast, QueryPending, Respond

\* The state machine of a command goes one way.
THEOREM OneWay == Spec => SingleDirection
<1>1. TypeOK /\ [Next]_vars =>
        [\A c \in Commands :
           /\ cmd[c].status # cmd'[c].status => <<cmd[c].status, cmd'[c].status>> \in Moves
           /\ cmd[c].status \in Terminal => cmd'[c] = cmd[c]]_vars
  <2> SUFFICES ASSUME TypeOK, [Next]_vars, NEW c \in Commands
               PROVE  /\ cmd[c].status # cmd'[c].status => <<cmd[c].status, cmd'[c].status>> \in Moves
                      /\ cmd[c].status \in Terminal => cmd'[c] = cmd[c]
    OBVIOUS
  <2> QED BY CommandSteps DEF CommandStep, Kept, Created, Delayed, Acked, Failed, Completed,
             TakenBack, Dispatched, Moves, Terminal
<1>2. Spec => []TypeOK
  BY TypeCorrect
<1> QED BY <1>1, <1>2, PTL DEF Spec, SingleDirection

\* A command that is not out was handed to nobody since it was last pending.
HandedInv ==
    \A c \in Commands : handed[c] <= IF cmd[c].status \in {"none", "pending"} THEN 0 ELSE 1

\* Concurrent heartbeats never both hand out one command.
THEOREM HandedOutOnce == Spec => []HandedOnce
<1>1. Init => HandedInv
  BY DEF Init, HandedInv
<1>2. TypeOK /\ HandedInv /\ [Next]_vars => HandedInv'
  <2> SUFFICES ASSUME TypeOK, HandedInv, [Next]_vars, NEW c \in Commands
               PROVE  handed'[c] <= IF cmd'[c].status \in {"none", "pending"} THEN 0 ELSE 1
    BY DEF HandedInv
  <2>1. handed[c] \in Nat /\ handed[c] <= IF cmd[c].status \in {"none", "pending"} THEN 0 ELSE 1
    BY DEF HandedInv, TypeOK
  <2> QED BY <2>1, CommandSteps DEF CommandStep, Kept, Created, Delayed, Acked, Failed, Completed,
             TakenBack, Dispatched
<1>3. TypeOK /\ HandedInv => HandedOnce
  BY DEF HandedInv, HandedOnce, TypeOK
<1>4. Spec => []TypeOK
  BY TypeCorrect
<1> QED BY <1>1, <1>2, <1>3, <1>4, PTL DEF Spec

\* At most one command of a kind is in flight.
THEOREM OneCommandInFlight == Spec => []OneInFlight
<1>1. Init => OneInFlight
  BY DEF Init, OneInFlight, NewCommand, Outstanding
<1>2. TypeOK /\ OneInFlight /\ [Next]_vars => OneInFlight'
  <2> SUFFICES ASSUME TypeOK, OneInFlight, [Next]_vars PROVE OneInFlight'
    OBVIOUS
  <2>1. CASE \E c \in Commands : Created(c)
    BY <2>1 DEF Created, OneInFlight, HasInFlight, Outstanding
  <2>2. CASE \A c \in Commands : ~Created(c)
    <3>1. \A c \in Commands : cmd'[c].status \in Outstanding =>
             cmd[c].status \in Outstanding /\ cmd'[c].kind = cmd[c].kind
      BY <2>2, CommandSteps DEF CommandStep, Kept, Delayed, Acked, Failed, Completed, TakenBack,
         Dispatched, Outstanding
    <3> QED BY <3>1 DEF OneInFlight
  <2> QED BY <2>1, <2>2
<1>3. Spec => []TypeOK
  BY TypeCorrect
<1> QED BY <1>1, <1>2, <1>3, PTL DEF Spec

-----------------------------------------------------------------------------
(***************************************************************************)
(* Publish, then commit.  A handler about to complete a UI rotation has put *)
(* the password of that command in the store; the commands the daemon and   *)
(* the handlers speak of exist, so their kind is settled.                   *)
(***************************************************************************)
Exists(c) == cmd[c].status # "none"

Known ==
    /\ \A c \in Commands : daemon[c] # "none" => Exists(c)
    /\ \A h \in Handlers :
          /\ \A a \in handler[h].acks : Exists(a.cmd)
          /\ \A c \in handler[h].todo \union handler[h].resp : Exists(c)
          /\ handler[h].pc \in {"ack", "fail", "put", "complete"} => Exists(handler[h].cmd)

\* A completion is reported of what succeeded only, always with its password or
\* always without; handlers and table know of no other completions.
Succeeded(c) == daemon[c] \in {"ok", "quiet"}

Reported ==
    /\ \A h \in Handlers :
          /\ \A a \in handler[h].acks :
                a.phase = "completed" => Succeeded(a.cmd) /\ (a.password <=> daemon[a.cmd] = "ok")
          /\ handler[h].pc \in {"put", "complete"} => Succeeded(handler[h].cmd)
    /\ \A c \in Commands : cmd[c].status = "completed" => Succeeded(c)

ReadyToComplete ==
    \A h \in Handlers :
        (At(h, "complete") /\ cmd[handler[h].cmd].kind = UI /\ daemon[handler[h].cmd] = "ok") =>
            handler[h].secret = handler[h].cmd /\ handler[h].cmd \in vault

LEMMA ExistsForever ==
    ASSUME TypeOK, [Next]_vars, NEW c \in Commands, Exists(c)
    PROVE  Exists(c)' /\ cmd'[c].kind = cmd[c].kind
BY CommandSteps DEF CommandStep, Kept, Created, Delayed, Acked, Failed, Completed, TakenBack,
   Dispatched, Exists

\* Handlers and the daemon go on speaking of commands that exist.
LEMMA KnownStep == TypeOK /\ Known /\ [Next]_vars => Known'
<1> SUFFICES ASSUME TypeOK, Known, [Next]_vars PROVE Known'
    OBVIOUS
<1> USE Shapes DEF At
<1>e. \A c \in Commands : Exists(c) => Exists(c)'
  BY ExistsForever
<1>1. ASSUME NEW h \in Handlers
      PROVE  /\ \A a \in handler[h].acks : a.cmd \in Commands
             /\ handler[h].todo \subseteq Commands /\ handler[h].resp \subseteq Commands
             /\ handler[h].pc \in {"ack", "fail", "put", "complete"} => handler[h].cmd \in Commands
  BY DEF HandlerRecord, Ack, TypeOK
<1>2. CASE handler' = handler /\ daemon' = daemon
  BY <1>e, <1>1, <1>2 DEF Known
<1>3. ASSUME NEW h \in Handlers, handler' = [handler EXCEPT ![h] = Idle], daemon' = daemon
      PROVE  Known'
  BY <1>e, <1>1, <1>3 DEF Known, Idle
<1>4. ASSUME NEW h \in Handlers, daemon' = daemon, DOMAIN handler' = Handlers,
             \A g \in Handlers \ {h} : handler'[g] = handler[g],
             handler'[h].acks \subseteq handler[h].acks,
             handler'[h].todo \subseteq handler[h].todo,
             handler'[h].resp \subseteq handler[h].resp \union handler[h].todo,
             handler'[h].pc \in {"ack", "fail", "put", "complete"} =>
                handler'[h].cmd \in Commands /\ Exists(handler'[h].cmd)
      PROVE  Known'
  BY <1>e, <1>1, <1>4 DEF Known
<1>5. ASSUME NEW h \in Handlers, HandlerStep(h) PROVE Known'
  <2>1. CASE ReadAck(h)
    <3> PICK a \in handler[h].acks :
            /\ handler' = [handler EXCEPT ![h].acks = @ \ {a}, ![h].cmd = a.cmd,
                                          ![h].secret = NoCmd, ![h].pc = AckStep(a)]
               \/ handler' = [handler EXCEPT ![h].acks = @ \ {a}]
      BY <2>1 DEF ReadAck
    <3>1. a.cmd \in Commands /\ Exists(a.cmd)
      BY <1>1 DEF Known
    <3>2. daemon' = daemon /\ handler[h].pc = "acks"
      BY <2>1 DEF ReadAck
    <3> QED BY <1>4, <3>1, <3>2 DEF HandlerRecord
  <2>2. CASE ApplyAcked(h) \/ ApplyFailed(h) \/ Complete(h) \/ AcksDone(h) \/ Sweep(h)
               \/ MaxAgeInFlight(h) \/ MaxAgeLast(h) \/ MaxAgeCreate(h)
    <3>1. \E pc \in {"acks", "sweep", "max_age", "last", "create", "query"} : Goto(h, pc)
      BY <2>2 DEF ApplyAcked, ApplyFailed, Complete, AcksDone, Sweep, MaxAgeInFlight, MaxAgeLast, MaxAgeCreate
    <3>2. daemon' = daemon
      BY <2>2 DEF ApplyAcked, ApplyFailed, Complete, AcksDone, Sweep, MaxAgeInFlight, MaxAgeLast, MaxAgeCreate
    <3> QED BY <1>4, <3>1, <3>2 DEF Goto, HandlerRecord
  <2>3. CASE Publish(h)
    <3>1. handler[h].cmd \in Commands /\ Exists(handler[h].cmd)
      BY <2>3, <1>1 DEF Publish, Known
    <3> QED BY <1>4, <2>3, <3>1 DEF Publish, Goto, HandlerRecord
  <2>4. CASE QueryPending(h)
    <3>1. CASE handler' = [handler EXCEPT ![h] = Idle]
      BY <1>3, <2>4, <3>1 DEF QueryPending
    <3>2. CASE handler' = [handler EXCEPT ![h].pc = "dispatch",
                                          ![h].todo = {c \in Commands : cmd[c].status = "pending"}]
      <4>1. /\ handler'[h].acks = handler[h].acks /\ handler'[h].resp = handler[h].resp
            /\ handler'[h].pc = "dispatch"
            /\ handler'[h].todo = {c \in Commands : cmd[c].status = "pending"}
            /\ \A g \in Handlers \ {h} : handler'[g] = handler[g]
            /\ daemon' = daemon
        BY <2>4, <3>2 DEF QueryPending, HandlerRecord
      <4>2. \A c \in handler'[h].todo : Exists(c)'
        BY <1>e, <4>1 DEF Exists
      <4> QED BY <1>e, <1>1, <4>1, <4>2 DEF Known
    <3> QED BY <2>4, <3>1, <3>2 DEF QueryPending
  <2>5. CASE Dispatch(h)
    <3> PICK c \in handler[h].todo :
            \/ handler' = [handler EXCEPT ![h].todo = @ \ {c}, ![h].resp = @ \union {c}]
            \/ handler' = [handler EXCEPT ![h].todo = @ \ {c}]
      BY <2>5 DEF Dispatch
    <3>1. daemon' = daemon /\ handler[h].pc = "dispatch"
      BY <2>5 DEF Dispatch
    <3> QED BY <1>4, <3>1 DEF HandlerRecord
  <2>6. CASE Respond(h)
    <3>1. handler'[h] = Idle /\ \A g \in Handlers \ {h} : handler'[g] = handler[g]
      BY <2>6 DEF Respond
    <3>2. \A c \in Commands : daemon'[c] # "none" => Exists(c)'
      BY <2>6, <1>e, <1>1 DEF Respond, Known
    <3> QED BY <1>e, <1>1, <3>1, <3>2 DEF Known, Idle
  <2>7. CASE RequestCreate(h)
    BY <1>3, <2>7 DEF RequestCreate
  <2> QED BY <1>5, <2>1, <2>2, <2>3, <2>4, <2>5, <2>6, <2>7 DEF HandlerStep
<1>6. ASSUME NEW h \in Handlers, NEW acks \in SUBSET UNION {Report(c) : c \in Commands}, Heartbeat(h, acks)
      PROVE  Known'
  <2>1. \A a \in acks : a.cmd \in Commands /\ Exists(a.cmd)
    <3>1. SUFFICES ASSUME NEW c \in Commands, NEW a \in Report(c)
                   PROVE  a.cmd \in Commands /\ Exists(a.cmd)
      BY <1>6
    <3>2. daemon[c] # "none"
      BY DEF Report
    <3> QED BY <3>2, ReportType DEF Known
  <2>2. /\ handler'[h].acks = acks /\ handler'[h].todo = {} /\ handler'[h].resp = {}
        /\ handler'[h].pc = "acks"
        /\ \A g \in Handlers \ {h} : handler'[g] = handler[g]
        /\ daemon' = daemon
    BY <1>6 DEF Heartbeat, Idle
  <2> QED BY <1>e, <1>1, <2>1, <2>2 DEF Known
<1>7. ASSUME NEW h \in Handlers, NEW k \in Kinds, Request(h, k) PROVE Known'
  <2>1. /\ handler'[h].acks = {} /\ handler'[h].todo = {} /\ handler'[h].resp = {}
        /\ handler'[h].pc = "request"
        /\ \A g \in Handlers \ {h} : handler'[g] = handler[g]
        /\ daemon' = daemon
    BY <1>7 DEF Request, Idle
  <2> QED BY <1>e, <1>1, <2>1 DEF Known
<1>8. ASSUME NEW h \in Handlers, Crash(h) PROVE Known'
  BY <1>3, <1>8 DEF Crash
<1>9. ASSUME NEW c \in Commands, DaemonActs(c) PROVE Known'
  BY <1>e, <1>1, <1>9 DEF DaemonActs, Known, TypeOK
<1>10. CASE Age \/ UNCHANGED vars \/ \E c \in Commands : Timeout(c)
  BY <1>2, <1>10 DEF Age, Timeout, vars
<1> QED BY <1>5, <1>6, <1>7, <1>8, <1>9, <1>10 DEF Next

\* The outcome of a command is settled.
LEMMA SucceededForever ==
    ASSUME TypeOK, [Next]_vars, NEW c \in Commands, Succeeded(c)
    PROVE  daemon'[c] = daemon[c]
<1>1. CASE \E d \in Commands : DaemonActs(d)
  BY <1>1 DEF DaemonActs, Succeeded, TypeOK
<1>2. CASE \E h \in Handlers : Respond(h)
  BY <1>2 DEF Respond, Succeeded, TypeOK
<1>3. CASE UNCHANGED daemon
  BY <1>3
<1> QED BY <1>1, <1>2, <1>3 DEF Next, HandlerStep, Heartbeat, Request, Crash, Timeout, Age, vars, ReadAck,
        ApplyAcked, ApplyFailed, Publish, Complete, AcksDone, Sweep, MaxAgeInFlight, MaxAgeLast,
        MaxAgeCreate, QueryPending, Dispatch, RequestCreate

\* A handler's acks come from a heartbeat, and only reading one, or publishing,
\* moves it to a completion.
LEMMA AcksShrink ==
    ASSUME TypeOK, [Next]_vars, NEW h \in Handlers
    PROVE  \/ handler'[h].acks \subseteq handler[h].acks
           \/ \E acks \in SUBSET UNION {Report(c) : c \in Commands} : handler'[h].acks = acks
<1> USE Shapes DEF At
<1>1. CASE handler'[h] = handler[h] \/ handler'[h] = Idle
  BY <1>1 DEF Idle
<1>2. ASSUME NEW pc, Goto(h, pc) PROVE handler'[h].acks = handler[h].acks
  BY <1>2 DEF Goto, HandlerRecord
<1>3. CASE ReadAck(h) \/ Publish(h) \/ Dispatch(h) \/ QueryPending(h)
  <2>1. CASE ReadAck(h)
    BY <2>1 DEF ReadAck, HandlerRecord
  <2>2. CASE Publish(h)
    BY <2>2, <1>2 DEF Publish, HandlerRecord
  <2>3. CASE Dispatch(h)
    BY <2>3 DEF Dispatch, HandlerRecord
  <2>4. CASE QueryPending(h)
    BY <2>4 DEF QueryPending, HandlerRecord, Idle
  <2> QED BY <1>3, <2>1, <2>2, <2>3, <2>4
<1>4. CASE ApplyAcked(h) \/ ApplyFailed(h) \/ Complete(h) \/ AcksDone(h) \/ Sweep(h)
             \/ MaxAgeInFlight(h) \/ MaxAgeLast(h) \/ MaxAgeCreate(h)
  BY <1>2, <1>4 DEF ApplyAcked, ApplyFailed, Complete, AcksDone, Sweep, MaxAgeInFlight, MaxAgeLast,
      MaxAgeCreate
<1>5. CASE Respond(h) \/ RequestCreate(h) \/ Crash(h)
  BY <1>1, <1>5 DEF Respond, RequestCreate, Crash
<1>6. ASSUME NEW k \in Kinds, Request(h, k) PROVE handler'[h].acks \subseteq handler[h].acks
  BY <1>6 DEF Request, Idle
<1>7. ASSUME NEW acks \in SUBSET UNION {Report(c) : c \in Commands}, Heartbeat(h, acks)
      PROVE  handler'[h].acks = acks
  BY <1>7 DEF Heartbeat, Idle
<1>8. ASSUME NEW g \in Handlers, g # h,
             HandlerStep(g) \/ Crash(g) \/ (\E k \in Kinds : Request(g, k))
                \/ \E acks \in SUBSET UNION {Report(c) : c \in Commands} : Heartbeat(g, acks)
      PROVE  handler'[h] = handler[h]
  BY <1>8 DEF HandlerStep, Heartbeat, Request, Crash, ReadAck, ApplyAcked, ApplyFailed, Publish,
      Complete, AcksDone, Sweep, MaxAgeInFlight, MaxAgeLast, MaxAgeCreate, QueryPending, Dispatch,
      Respond, RequestCreate, Goto
<1>9. CASE Age \/ UNCHANGED vars \/ \E c \in Commands : DaemonActs(c) \/ Timeout(c)
  BY <1>1, <1>9 DEF Age, DaemonActs, Timeout, vars
<1> QED BY <1>1, <1>3, <1>4, <1>5, <1>6, <1>7, <1>8, <1>9 DEF Next, HandlerStep

LEMMA CompletionsAreRead ==
    ASSUME TypeOK, [Next]_vars, NEW h \in Handlers, handler'[h].pc \in {"put", "complete"}
    PROVE  \/ handler'[h] = handler[h]
           \/ handler[h].pc = "put" /\ handler'[h].cmd = handler[h].cmd
           \/ \E a \in handler[h].acks : a.phase = "completed" /\ handler'[h].cmd = a.cmd
<1> USE Shapes DEF At
<1>1. CASE ReadAck(h)
  <2> PICK a \in handler[h].acks :
          /\ handler' = [handler EXCEPT ![h].acks = @ \ {a}, ![h].cmd = a.cmd,
                                        ![h].secret = NoCmd, ![h].pc = AckStep(a)]
             \/ handler' = [handler EXCEPT ![h].acks = @ \ {a}]
    BY <1>1 DEF ReadAck
  <2>1. handler[h].pc = "acks" /\ handler'[h].pc \in {"acks", AckStep(a)}
    BY <1>1 DEF ReadAck, HandlerRecord
  <2>2. AckStep(a) \in {"put", "complete"} /\ handler'[h].cmd = a.cmd
    BY <2>1 DEF HandlerRecord
  <2>3. a.phase = "completed"
    BY <2>2 DEF AckStep, HandlerRecord, Ack
  <2> QED BY <2>2, <2>3
<1>2. CASE Publish(h)
  BY <1>2 DEF Publish, Goto, HandlerRecord
<1>3. ASSUME NEW pc \in {"acks", "sweep", "max_age", "last", "create", "query"}, Goto(h, pc) PROVE FALSE
  BY <1>3 DEF Goto, HandlerRecord
<1>4. CASE ApplyAcked(h) \/ ApplyFailed(h) \/ Complete(h) \/ AcksDone(h) \/ Sweep(h)
             \/ MaxAgeInFlight(h) \/ MaxAgeLast(h) \/ MaxAgeCreate(h)
  BY <1>3, <1>4 DEF ApplyAcked, ApplyFailed, Complete, AcksDone, Sweep, MaxAgeInFlight, MaxAgeLast,
      MaxAgeCreate
<1>5. CASE QueryPending(h) \/ Respond(h) \/ RequestCreate(h) \/ Crash(h) \/ \E k \in Kinds : Request(h, k)
  <2>1. handler'[h].pc \in {"idle", "dispatch", "request"}
    <3>1. CASE QueryPending(h)
      BY <3>1 DEF QueryPending, Idle, HandlerRecord
    <3>2. CASE Respond(h) \/ RequestCreate(h) \/ Crash(h)
      BY <3>2 DEF Respond, RequestCreate, Crash, Idle
    <3>3. CASE \E k \in Kinds : Request(h, k)
      BY <3>3 DEF Request, Idle
    <3> QED BY <1>5, <3>1, <3>2, <3>3
  <2> QED BY <2>1
<1>6. CASE Dispatch(h) \/ \E acks \in SUBSET UNION {Report(c) : c \in Commands} : Heartbeat(h, acks)
  <2>1. handler'[h].pc \in {"dispatch", "acks"}
    <3>1. CASE Dispatch(h)
      BY <3>1 DEF Dispatch, HandlerRecord
    <3>2. CASE \E acks \in SUBSET UNION {Report(c) : c \in Commands} : Heartbeat(h, acks)
      BY <3>2 DEF Heartbeat, Idle
    <3> QED BY <1>6, <3>1, <3>2
  <2> QED BY <2>1
<1>7. ASSUME NEW g \in Handlers, g # h,
             HandlerStep(g) \/ Crash(g) \/ (\E k \in Kinds : Request(g, k))
                \/ \E acks \in SUBSET UNION {Report(c) : c \in Commands} : Heartbeat(g, acks)
      PROVE  handler'[h] = handler[h]
  BY <1>7 DEF HandlerStep, Heartbeat, Request, Crash, ReadAck, ApplyAcked, ApplyFailed, Publish,
      Complete, AcksDone, Sweep, MaxAgeInFlight, MaxAgeLast, MaxAgeCreate, QueryPending, Dispatch,
      Respond, RequestCreate, Goto
<1>8. CASE Age \/ UNCHANGED vars \/ \E c \in Commands : DaemonActs(c) \/ Timeout(c)
  BY <1>8 DEF Age, DaemonActs, Timeout, vars
<1> QED BY <1>1, <1>2, <1>4, <1>5, <1>6, <1>7, <1>8 DEF Next, HandlerStep

\* Nothing but reports of success reaches a completion.
LEMMA ReportedStep == TypeOK /\ Reported /\ [Next]_vars => Reported'
<1> SUFFICES ASSUME TypeOK, Reported, [Next]_vars PROVE Reported'
    OBVIOUS
<1> USE Shapes DEF At
<1>s. \A c \in Commands : Succeeded(c) => daemon'[c] \in {"ok", "quiet"} /\ daemon'[c] = daemon[c]
  BY SucceededForever DEF Succeeded
<1>1. ASSUME NEW h \in Handlers, NEW a \in handler'[h].acks, a.phase = "completed"
      PROVE  daemon'[a.cmd] \in {"ok", "quiet"} /\ (a.password <=> daemon'[a.cmd] = "ok")
  <2>1. a.cmd \in Commands /\ Succeeded(a.cmd) /\ (a.password <=> daemon[a.cmd] = "ok")
    <3>1. CASE a \in handler[h].acks
      <4>1. handler[h].acks \subseteq Ack
        BY DEF HandlerRecord
      <4> QED BY <1>1, <3>1, <4>1 DEF Reported, Ack
    <3>2. CASE a \in UNION {Report(c) : c \in Commands}
      <4> PICK c \in Commands : a \in Report(c)
        BY <3>2
      <4>1. daemon[c] \in {"none", "got", "ok", "quiet", "err"}
        BY DEF TypeOK
      <4>2. a = Says(c, "completed") /\ Succeeded(c)
        BY <1>1, <4>1 DEF Report, Says, Succeeded
      <4> QED BY <4>2 DEF Says
    <3> QED BY <1>1, <3>1, <3>2, AcksShrink
  <2> QED BY <2>1, <1>s
<1>2. ASSUME NEW h \in Handlers, handler'[h].pc \in {"put", "complete"}
      PROVE  daemon'[handler'[h].cmd] \in {"ok", "quiet"}
  <2>1. CASE handler'[h] = handler[h] \/ (handler[h].pc = "put" /\ handler'[h].cmd = handler[h].cmd)
    <3>1. handler[h].cmd \in Commands /\ Succeeded(handler[h].cmd) /\ handler'[h].cmd = handler[h].cmd
      BY <1>2, <2>1 DEF Reported, TypeOK
    <3> QED BY <3>1, <1>s
  <2>2. ASSUME NEW a \in handler[h].acks, a.phase = "completed", handler'[h].cmd = a.cmd
        PROVE  daemon'[handler'[h].cmd] \in {"ok", "quiet"}
    <3>1. a.cmd \in Commands /\ Succeeded(a.cmd)
      BY <2>2 DEF Reported, HandlerRecord, Ack
    <3> QED BY <2>2, <3>1, <1>s
  <2> QED BY <1>2, <2>1, <2>2, CompletionsAreRead
<1>3. ASSUME NEW c \in Commands, cmd'[c].status = "completed" PROVE daemon'[c] \in {"ok", "quiet"}
  <2>1. CASE Kept(c)
    BY <1>3, <2>1, <1>s DEF Kept, Reported
  <2>2. CASE Completed(c)
    BY <2>2, <1>s DEF Completed, Reported
  <2> QED BY <1>3, <2>1, <2>2, CommandSteps DEF CommandStep, Created, Delayed, Acked, Failed, TakenBack,
          Dispatched
<1>4. \A h \in Handlers : /\ \A a \in handler'[h].acks : a.phase = "completed" =>
                                   daemon'[a.cmd] \in {"ok", "quiet"} /\ (a.password <=> daemon'[a.cmd] = "ok")
                          /\ handler'[h].pc \in {"put", "complete"} => daemon'[handler'[h].cmd] \in {"ok", "quiet"}
  BY <1>1, <1>2
<1> QED BY <1>3, <1>4 DEF Reported, Succeeded

\* A handler comes to the completing update from a read that found no password
\* to publish, or from the Put; kinds and published passwords stay.
LEMMA ReadyStep == TypeOK /\ Known /\ Reported /\ ReadyToComplete /\ [Next]_vars => ReadyToComplete'
<1> SUFFICES ASSUME TypeOK, Known, Reported, ReadyToComplete, [Next]_vars, NEW g \in Handlers,
                    handler'[g].pc = "complete", cmd'[handler'[g].cmd].kind = UI,
                    daemon'[handler'[g].cmd] = "ok"
             PROVE  handler'[g].secret = handler'[g].cmd /\ handler'[g].cmd \in vault'
    BY DEF ReadyToComplete, At
<1> USE Shapes DEF At
<1>v. vault \subseteq vault'
  BY DEF Next, HandlerStep, Heartbeat, Request, Crash, DaemonActs, Timeout, Age, vars, ReadAck,
      ApplyAcked, ApplyFailed, Publish, Complete, AcksDone, Sweep, MaxAgeInFlight, MaxAgeLast,
      MaxAgeCreate, QueryPending, Dispatch, Respond, RequestCreate
<1>1. CASE handler'[g] = handler[g]
  <2>1. handler[g].cmd \in Commands /\ Exists(handler[g].cmd)
    BY <1>1 DEF Known, TypeOK
  <2>2. cmd[handler[g].cmd].kind = UI
    BY <1>1, <2>1, ExistsForever
  <2>3. daemon[handler[g].cmd] = "ok"
    BY <1>1, <2>1, SucceededForever DEF Reported
  <2> QED BY <1>1, <1>v, <2>2, <2>3 DEF ReadyToComplete
<1>2. CASE ReadAck(g)
  <2> PICK a \in handler[g].acks :
          /\ handler' = [handler EXCEPT ![g].acks = @ \ {a}, ![g].cmd = a.cmd,
                                        ![g].secret = NoCmd, ![g].pc = AckStep(a)]
             \/ handler' = [handler EXCEPT ![g].acks = @ \ {a}]
    BY <1>2 DEF ReadAck
  <2>1. handler'[g].pc \in {"acks", AckStep(a)} /\ handler[g].pc = "acks"
    BY <1>2 DEF ReadAck, HandlerRecord
  <2>2. AckStep(a) = "complete" /\ handler'[g].cmd = a.cmd
    BY <2>1 DEF HandlerRecord
  <2>4. a.cmd \in Commands /\ Exists(a.cmd) /\ a.phase \in {"acked", "completed", "failed"}
    BY DEF Known, HandlerRecord, Ack
  <2>6. a.password
    <3>1. a.phase = "completed"
      BY <2>2, <2>4 DEF AckStep
    <3>2. Succeeded(a.cmd) /\ (a.password <=> daemon[a.cmd] = "ok")
      BY <3>1 DEF Reported
    <3> QED BY <2>2, <2>4, <3>2, SucceededForever
  <2>3. cmd[a.cmd].kind # UI
    BY <2>2, <2>6 DEF AckStep
  <2>5. cmd'[a.cmd].kind = cmd[a.cmd].kind
    BY <2>4, ExistsForever
  <2> QED BY <2>2, <2>3, <2>5
<1>3. CASE Publish(g)
  <2>1. CASE Goto(g, "acks")
    BY <2>1 DEF Goto, HandlerRecord
  <2>2. CASE /\ vault' = vault \union {handler[g].cmd}
             /\ handler' = [handler EXCEPT ![g].pc = "complete", ![g].secret = handler[g].cmd]
    BY <2>2 DEF HandlerRecord
  <2> QED BY <1>3, <2>1, <2>2 DEF Publish
<1>4. ASSUME NEW pc, pc # "complete", Goto(g, pc) PROVE FALSE
  BY <1>4 DEF Goto, HandlerRecord
<1>5. CASE ApplyAcked(g) \/ ApplyFailed(g) \/ Complete(g) \/ AcksDone(g) \/ Sweep(g)
             \/ MaxAgeInFlight(g) \/ MaxAgeLast(g) \/ MaxAgeCreate(g)
  <2>1. \E pc \in {"acks", "sweep", "max_age", "last", "create", "query"} : Goto(g, pc)
    BY <1>5 DEF ApplyAcked, ApplyFailed, Complete, AcksDone, Sweep, MaxAgeInFlight, MaxAgeLast, MaxAgeCreate
  <2> QED BY <1>4, <2>1
<1>6. CASE QueryPending(g) \/ Dispatch(g) \/ Respond(g) \/ RequestCreate(g) \/ Crash(g)
             \/ (\E k \in Kinds : Request(g, k))
             \/ \E acks \in SUBSET UNION {Report(c) : c \in Commands} : Heartbeat(g, acks)
  <2>1. CASE QueryPending(g) \/ Respond(g) \/ RequestCreate(g) \/ Crash(g)
    <3>1. handler'[g].pc \in {"idle", "dispatch"}
      BY <2>1 DEF QueryPending, Respond, RequestCreate, Crash, Idle, HandlerRecord
    <3> QED BY <3>1
  <2>2. CASE Dispatch(g)
    <3>1. handler'[g].pc = "dispatch"
      BY <2>2 DEF Dispatch, HandlerRecord
    <3> QED BY <3>1
  <2>3. CASE (\E k \in Kinds : Request(g, k))
               \/ \E acks \in SUBSET UNION {Report(c) : c \in Commands} : Heartbeat(g, acks)
    <3>1. handler'[g].pc \in {"request", "acks"}
      BY <2>3 DEF Request, Heartbeat, Idle
    <3> QED BY <3>1
  <2> QED BY <1>6, <2>1, <2>2, <2>3
<1>7. ASSUME NEW h \in Handlers, h # g,
             HandlerStep(h) \/ Crash(h) \/ (\E k \in Kinds : Request(h, k))
                \/ \E acks \in SUBSET UNION {Report(c) : c \in Commands} : Heartbeat(h, acks)
      PROVE  handler'[g] = handler[g]
  BY <1>7 DEF HandlerStep, Heartbeat, Request, Crash, ReadAck, ApplyAcked, ApplyFailed, Publish,
      Complete, AcksDone, Sweep, MaxAgeInFlight, MaxAgeLast, MaxAgeCreate, QueryPending, Dispatch,
      Respond, RequestCreate, Goto
<1>8. CASE Age \/ UNCHANGED vars \/ \E c \in Commands : DaemonActs(c) \/ Timeout(c)
  BY <1>1, <1>8 DEF Age, DaemonActs, Timeout, vars
<1> QED BY <1>1, <1>2, <1>3, <1>5, <1>6, <1>7, <1>8 DEF Next, HandlerStep

\* A completed UI rotation has its secret in the store.
THEOREM PublishThenCommit == Spec => []PublishedBeforeCompleted
<1>1. Init => Known /\ Reported /\ ReadyToComplete /\ PublishedBeforeCompleted
  <2> SUFFICES ASSUME Init PROVE Known /\ Reported /\ ReadyToComplete /\ PublishedBeforeCompleted
    OBVIOUS
  <2>1. \A h \in Handlers : /\ handler[h].pc = "idle" /\ handler[h].acks = {}
                            /\ handler[h].todo = {} /\ handler[h].resp = {}
    BY DEF Init, Idle
  <2>2. \A c \in Commands : daemon[c] = "none" /\ cmd[c].status = "none"
    BY DEF Init, NewCommand
  <2> QED BY <2>1, <2>2 DEF Known, Reported, ReadyToComplete, PublishedBeforeCompleted, At
<1>2. TypeOK /\ Reported /\ ReadyToComplete /\ PublishedBeforeCompleted /\ [Next]_vars
          => PublishedBeforeCompleted'
  <2> SUFFICES ASSUME TypeOK, Reported, ReadyToComplete, PublishedBeforeCompleted, [Next]_vars,
                      NEW c \in Commands, cmd'[c].status = "completed", cmd'[c].kind = UI,
                      daemon'[c] = "ok"
               PROVE  cmd'[c].secret = c /\ c \in vault'
    BY DEF PublishedBeforeCompleted
  <2>1. vault \subseteq vault'
    BY DEF Next, HandlerStep, Heartbeat, Request, Crash, DaemonActs, Timeout, Age, vars, ReadAck,
        ApplyAcked, ApplyFailed, Publish, Complete, AcksDone, Sweep, MaxAgeInFlight, MaxAgeLast,
        MaxAgeCreate, QueryPending, Dispatch, Respond, RequestCreate
  <2>2. CASE Kept(c)
    <3>1. cmd[c].status = "completed" /\ cmd[c].kind = UI /\ cmd'[c] = cmd[c]
      BY <2>2 DEF Kept
    <3>2. daemon[c] = "ok"
      BY <3>1, SucceededForever DEF Reported
    <3> QED BY <2>1, <3>1, <3>2 DEF PublishedBeforeCompleted
  <2>3. CASE Completed(c)
    <3> PICK h \in Handlers : /\ At(h, "complete") /\ handler[h].cmd = c
                              /\ cmd'[c].secret = handler[h].secret
      BY <2>3 DEF Completed
    <3>1. cmd[c].kind = UI
      BY <2>3 DEF Completed
    <3>2. daemon[c] = "ok"
      BY SucceededForever DEF Reported, At
    <3> QED BY <2>1, <3>1, <3>2 DEF ReadyToComplete, At
  <2> QED BY <2>2, <2>3, CommandSteps DEF CommandStep, Created, Delayed, Acked, Failed, TakenBack, Dispatched
<1>3. Spec => []TypeOK
  BY TypeCorrect
<1> QED BY <1>1, <1>2, <1>3, KnownStep, ReportedStep, ReadyStep, PTL DEF Spec

-----------------------------------------------------------------------------
(***************************************************************************)
(* The refinement of CommandBoard.  Besides what is known of completions, an *)
(* ack speaks of a command the daemon has, a failure of one that failed.     *)
(***************************************************************************)
Truthful ==
    \A h \in Handlers :
        /\ \A a \in handler[h].acks :
              /\ daemon[a.cmd] # "none"
              /\ a.phase = "failed" => daemon[a.cmd] = "err"
        /\ handler[h].pc = "ack"  => daemon[handler[h].cmd] # "none"
        /\ handler[h].pc = "fail" => daemon[handler[h].cmd] = "err"

\* What the daemon has it keeps, and a failure stays one.
LEMMA DaemonKeeps ==
    ASSUME TypeOK, [Next]_vars, NEW c \in Commands
    PROVE  /\ daemon[c] # "none" => daemon'[c] # "none"
           /\ daemon[c] = "err" => daemon'[c] = "err"
<1>1. ASSUME NEW d \in Commands, DaemonActs(d)
      PROVE  /\ daemon[c] # "none" => daemon'[c] # "none"
             /\ daemon[c] = "err" => daemon'[c] = "err"
  BY <1>1 DEF DaemonActs, TypeOK
<1>2. ASSUME NEW h \in Handlers, Respond(h)
      PROVE  /\ daemon[c] # "none" => daemon'[c] # "none"
             /\ daemon[c] = "err" => daemon'[c] = "err"
  BY <1>2 DEF Respond, TypeOK
<1>3. CASE UNCHANGED daemon
  BY <1>3
<1> QED BY <1>1, <1>2, <1>3 DEF Next, HandlerStep, Heartbeat, Request, Crash, Timeout, Age, vars, ReadAck,
        ApplyAcked, ApplyFailed, Publish, Complete, AcksDone, Sweep, MaxAgeInFlight, MaxAgeLast,
        MaxAgeCreate, QueryPending, Dispatch, RequestCreate

\* A handler comes to apply an acknowledgement or a failure by reading it.
LEMMA VerdictsAreRead ==
    ASSUME TypeOK, [Next]_vars, NEW h \in Handlers, handler'[h].pc \in {"ack", "fail"}
    PROVE  \/ handler'[h] = handler[h]
           \/ \E a \in handler[h].acks :
                 /\ handler'[h].cmd = a.cmd
                 /\ handler'[h].pc = "fail" => a.phase = "failed"
<1> USE Shapes DEF At
<1>1. CASE ReadAck(h)
  <2> PICK a \in handler[h].acks :
          /\ handler' = [handler EXCEPT ![h].acks = @ \ {a}, ![h].cmd = a.cmd,
                                        ![h].secret = NoCmd, ![h].pc = AckStep(a)]
             \/ handler' = [handler EXCEPT ![h].acks = @ \ {a}]
    BY <1>1 DEF ReadAck
  <2>1. handler[h].pc = "acks" /\ handler'[h].pc \in {"acks", AckStep(a)}
    BY <1>1 DEF ReadAck, HandlerRecord
  <2>2. AckStep(a) = handler'[h].pc /\ handler'[h].cmd = a.cmd
    BY <2>1 DEF HandlerRecord
  <2>3. AckStep(a) = "fail" => a.phase = "failed"
    BY DEF AckStep, HandlerRecord, Ack
  <2> QED BY <2>2, <2>3
<1>2. ASSUME NEW pc \in {"acks", "sweep", "max_age", "last", "create", "query"}, Goto(h, pc) PROVE FALSE
  BY <1>2 DEF Goto, HandlerRecord
<1>3. CASE ApplyAcked(h) \/ ApplyFailed(h) \/ Complete(h) \/ AcksDone(h) \/ Sweep(h)
             \/ MaxAgeInFlight(h) \/ MaxAgeLast(h) \/ MaxAgeCreate(h)
  BY <1>2, <1>3 DEF ApplyAcked, ApplyFailed, Complete, AcksDone, Sweep, MaxAgeInFlight, MaxAgeLast,
      MaxAgeCreate
<1>4. CASE Publish(h)
  BY <1>2, <1>4 DEF Publish, HandlerRecord
<1>5. CASE QueryPending(h) \/ Respond(h) \/ RequestCreate(h) \/ Crash(h) \/ \E k \in Kinds : Request(h, k)
  <2>1. handler'[h].pc \in {"idle", "dispatch", "request"}
    <3>1. CASE QueryPending(h)
      BY <3>1 DEF QueryPending, Idle, HandlerRecord
    <3>2. CASE Respond(h) \/ RequestCreate(h) \/ Crash(h)
      BY <3>2 DEF Respond, RequestCreate, Crash, Idle
    <3>3. CASE \E k \in Kinds : Request(h, k)
      BY <3>3 DEF Request, Idle
    <3> QED BY <1>5, <3>1, <3>2, <3>3
  <2> QED BY <2>1
<1>6. CASE Dispatch(h) \/ \E acks \in SUBSET UNION {Report(c) : c \in Commands} : Heartbeat(h, acks)
  <2>1. handler'[h].pc \in {"dispatch", "acks"}
    <3>1. CASE Dispatch(h)
      BY <3>1 DEF Dispatch, HandlerRecord
    <3>2. CASE \E acks \in SUBSET UNION {Report(c) : c \in Commands} : Heartbeat(h, acks)
      BY <3>2 DEF Heartbeat, Idle
    <3> QED BY <1>6, <3>1, <3>2
  <2> QED BY <2>1
<1>7. ASSUME NEW g \in Handlers, g # h,
             HandlerStep(g) \/ Crash(g) \/ (\E k \in Kinds : Request(g, k))
                \/ \E acks \in SUBSET UNION {Report(c) : c \in Commands} : Heartbeat(g, acks)
      PROVE  handler'[h] = handler[h]
  BY <1>7 DEF HandlerStep, Heartbeat, Request, Crash, ReadAck, ApplyAcked, ApplyFailed, Publish,
      Complete, AcksDone, Sweep, MaxAgeInFlight, MaxAgeLast, MaxAgeCreate, QueryPending, Dispatch,
      Respond, RequestCreate, Goto
<1>8. CASE Age \/ UNCHANGED vars \/ \E c \in Commands : DaemonActs(c) \/ Timeout(c)
  BY <1>8 DEF Age, DaemonActs, Timeout, vars
<1> QED BY <1>1, <1>3, <1>4, <1>5, <1>6, <1>7, <1>8 DEF Next, HandlerStep

\* Acks go on being truthful, however late they are applied.
LEMMA TruthfulStep == TypeOK /\ Truthful /\ [Next]_vars => Truthful'
<1> SUFFICES ASSUME TypeOK, Truthful, [Next]_vars, NEW h \in Handlers
             PROVE  /\ \A a \in handler'[h].acks :
                          /\ daemon'[a.cmd] # "none"
                          /\ a.phase = "failed" => daemon'[a.cmd] = "err"
                    /\ handler'[h].pc = "ack"  => daemon'[handler'[h].cmd] # "none"
                    /\ handler'[h].pc = "fail" => daemon'[handler'[h].cmd] = "err"
    BY DEF Truthful
<1> USE Shapes, DaemonKeeps
<1>1. ASSUME NEW a \in handler'[h].acks
      PROVE  daemon'[a.cmd] # "none" /\ (a.phase = "failed" => daemon'[a.cmd] = "err")
  <2>1. a.cmd \in Commands /\ daemon[a.cmd] # "none" /\ (a.phase = "failed" => daemon[a.cmd] = "err")
    <3>1. CASE a \in handler[h].acks
      BY <3>1 DEF Truthful, HandlerRecord, Ack
    <3>2. CASE a \in UNION {Report(c) : c \in Commands}
      <4> PICK c \in Commands : a \in Report(c)
        BY <3>2
      <4>1. daemon[c] \in {"none", "got", "ok", "quiet", "err"}
        BY DEF TypeOK
      <4>2. a.cmd = c /\ daemon[c] # "none" /\ (a.phase = "failed" => daemon[c] = "err")
        BY <4>1 DEF Report, Says
      <4> QED BY <4>2
    <3> QED BY <1>1, <3>1, <3>2, AcksShrink
  <2> QED BY <2>1
<1>2. ASSUME handler'[h].pc \in {"ack", "fail"}
      PROVE  /\ handler'[h].pc = "ack"  => daemon'[handler'[h].cmd] # "none"
             /\ handler'[h].pc = "fail" => daemon'[handler'[h].cmd] = "err"
  <2>1. CASE handler'[h] = handler[h]
    <3>1. handler[h].cmd \in Commands
      BY <1>2, <2>1 DEF TypeOK
    <3> QED BY <2>1, <3>1 DEF Truthful
  <2>2. ASSUME NEW a \in handler[h].acks, handler'[h].cmd = a.cmd,
               handler'[h].pc = "fail" => a.phase = "failed"
        PROVE  /\ handler'[h].pc = "ack"  => daemon'[handler'[h].cmd] # "none"
               /\ handler'[h].pc = "fail" => daemon'[handler'[h].cmd] = "err"
    <3>1. a.cmd \in Commands
      BY DEF HandlerRecord, Ack
    <3> QED BY <2>2, <3>1 DEF Truthful
  <2> QED BY <1>2, <2>1, <2>2, VerdictsAreRead
<1> QED BY <1>1, <1>2

\* What the board sees of the table, of the daemon, and of the write of one row.
KindOf   == [c \in Commands |-> cmd[c].kind]
StatusOf == [c \in Commands |-> cmd[c].status]
WorkOf   == [c \in Commands |-> IF daemon[c] = "quiet" THEN "ok" ELSE daemon[c]]

LEMMA OneRow ==
    ASSUME TypeOK, NEW c \in Commands, daemon' = daemon, \A d \in Commands \ {c} : cmd'[d] = cmd[d]
    PROVE  /\ KindOf' = [KindOf EXCEPT ![c] = cmd'[c].kind]
           /\ StatusOf' = [StatusOf EXCEPT ![c] = cmd'[c].status]
           /\ WorkOf' = WorkOf
BY Shapes DEF KindOf, StatusOf, WorkOf

LEMMA SameKind ==
    ASSUME NEW c \in Commands
    PROVE  [KindOf EXCEPT ![c] = cmd[c].kind] = KindOf
BY DEF KindOf

\* Every step moves the board by one of its actions or leaves it.
BoardMoves ==
    \/ UNCHANGED <<KindOf, StatusOf, WorkOf>>
    \/ \E c \in Commands :
          \/ Board!HandOut(c) \/ Board!Acknowledge(c) \/ Board!Settle(c)
          \/ \E k \in Kinds : Board!Enqueue(c, k)
          \/ \E result \in {"ok", "err"} : Board!DoWork(c, result)
    \/ \E cs \in SUBSET Commands : Board!TakeBack(cs) \/ Board!Arrive(cs)

LEMMA BoardStep ==
    ASSUME TypeOK, Known, Reported, Truthful, [Next]_vars
    PROVE  BoardMoves
<1> USE Shapes DEF At
<1>a. ASSUME NEW cs \in SUBSET Commands, Board!TakeBack(cs) \/ Board!Arrive(cs) PROVE BoardMoves
  BY <1>a DEF BoardMoves
<1>b. ASSUME NEW c \in Commands, Board!HandOut(c) \/ Board!Acknowledge(c) \/ Board!Settle(c) PROVE BoardMoves
  BY <1>b DEF BoardMoves
<1>1. CASE UNCHANGED <<cmd, daemon>>
  BY <1>1 DEF BoardMoves, KindOf, StatusOf, WorkOf
<1>2. ASSUME NEW c \in Commands, DaemonActs(c) PROVE BoardMoves
  <2> PICK result \in {"ok", "quiet", "err"} : daemon' = [daemon EXCEPT ![c] = result]
    BY <1>2 DEF DaemonActs
  <2> DEFINE seen == IF result = "quiet" THEN "ok" ELSE result
  <2>1. daemon[c] = "got" /\ cmd' = cmd /\ daemon \in [Commands -> {"none", "got", "ok", "quiet", "err"}]
    BY <1>2 DEF DaemonActs, TypeOK
  <2>2. WorkOf[c] = "got" /\ WorkOf' = [WorkOf EXCEPT ![c] = seen] /\ seen \in {"ok", "err"}
    BY <2>1 DEF WorkOf
  <2>3. UNCHANGED <<KindOf, StatusOf>>
    BY <2>1 DEF KindOf, StatusOf
  <2>4. Board!DoWork(c, seen)
    BY <2>2, <2>3 DEF Board!DoWork, KindOf, StatusOf, WorkOf
  <2> QED BY <2>2, <2>4 DEF BoardMoves
<1>3. ASSUME NEW h \in Handlers, Respond(h) PROVE BoardMoves
  <2>1. CASE UNCHANGED daemon
    BY <1>1, <1>3, <2>1 DEF Respond
  <2>2. CASE daemon' = [c \in Commands |-> IF c \in handler[h].resp /\ daemon[c] = "none"
                                           THEN "got" ELSE daemon[c]]
    <3> PICK cs \in SUBSET Commands : cs = {c \in Commands : c \in handler[h].resp /\ daemon[c] = "none"}
      OBVIOUS
    <3>1. \A c \in cs : WorkOf[c] = "none" /\ StatusOf[c] # "none"
      BY DEF Known, Exists, WorkOf, StatusOf
    <3>2. WorkOf' = [c \in Commands |-> IF c \in cs THEN "got" ELSE WorkOf[c]]
      BY <2>2 DEF WorkOf
    <3>3. UNCHANGED <<KindOf, StatusOf>>
      BY <1>3 DEF Respond, KindOf, StatusOf
    <3>4. Board!Arrive(cs)
      BY <3>1, <3>2, <3>3 DEF Board!Arrive, KindOf, StatusOf, WorkOf
    <3> QED BY <1>a, <3>4
  <2> QED BY <1>3, <2>1, <2>2 DEF Respond
<1>4. ASSUME NEW h \in Handlers, Sweep(h) PROVE BoardMoves
  <2>1. CASE UNCHANGED cmd
    BY <1>1, <1>4, <2>1 DEF Sweep
  <2>2. CASE cmd' = [c \in Commands |-> IF Late(c) THEN [cmd[c] EXCEPT !.status = "pending", !.late = FALSE]
                                        ELSE cmd[c]]
    <3> PICK cs \in SUBSET Commands : cs = {c \in Commands : Late(c)}
      OBVIOUS
    <3>1. \A c \in cs : StatusOf[c] = "dispatched"
      BY DEF Late, StatusOf
    <3>2. \A c \in Commands : cmd'[c].kind = cmd[c].kind
                              /\ cmd'[c].status = IF c \in cs THEN "pending" ELSE cmd[c].status
      BY <2>2 DEF CommandRecord
    <3>3. KindOf' = KindOf /\ StatusOf' = [c \in Commands |-> IF c \in cs THEN "pending" ELSE StatusOf[c]]
      BY <3>2 DEF KindOf, StatusOf
    <3>4. WorkOf' = WorkOf
      BY <1>4 DEF Sweep, WorkOf
    <3>5. Board!TakeBack(cs)
      BY <3>1, <3>3, <3>4 DEF Board!TakeBack, KindOf, StatusOf, WorkOf
    <3> QED BY <1>a, <3>5
  <2> QED BY <1>4, <2>1, <2>2 DEF Sweep
<1>5. ASSUME NEW c \in Commands, Timeout(c) PROVE BoardMoves
  <2>1. /\ cmd' = [cmd EXCEPT ![c] = [cmd[c] EXCEPT !.late = TRUE]] /\ daemon' = daemon
        /\ [cmd[c] EXCEPT !.late = TRUE].kind = cmd[c].kind
        /\ [cmd[c] EXCEPT !.late = TRUE].status = cmd[c].status
    BY <1>5 DEF Timeout, CommandRecord
  <2>2. UNCHANGED <<KindOf, StatusOf, WorkOf>>
    BY <2>1 DEF KindOf, StatusOf, WorkOf
  <2> QED BY <2>2 DEF BoardMoves
<1>6. ASSUME NEW h \in Handlers, ApplyAcked(h) \/ ApplyFailed(h) \/ Complete(h) PROVE BoardMoves
  <2>0. handler[h].cmd \in Commands
    BY <1>6 DEF ApplyAcked, ApplyFailed, Complete, TypeOK
  <2> PICK c \in Commands : c = handler[h].cmd
    BY <2>0
  <2>1. daemon' = daemon
    BY <1>6 DEF ApplyAcked, ApplyFailed, Complete
  <2>2. CASE UNCHANGED cmd
    BY <1>1, <2>1, <2>2
  <2>3. CASE ApplyAcked(h) /\ cmd' # cmd
    <3> DEFINE r == [cmd[c] EXCEPT !.status = "acked", !.late = FALSE]
    <3>1. cmd' = [cmd EXCEPT ![c] = r] /\ StatusOf[c] = "dispatched"
      BY <2>1, <2>3 DEF ApplyAcked, Advance, StatusOf
    <3>2. /\ cmd'[c].kind = cmd[c].kind /\ cmd'[c].status = "acked"
          /\ \A d \in Commands \ {c} : cmd'[d] = cmd[d]
      BY <3>1 DEF CommandRecord
    <3>3. WorkOf[c] # "none"
      BY <2>1, <2>3 DEF ApplyAcked, Truthful, WorkOf
    <3>4. KindOf' = KindOf /\ StatusOf' = [StatusOf EXCEPT ![c] = "acked"] /\ WorkOf' = WorkOf
      BY <2>1, <3>2, OneRow, SameKind
    <3>5. Board!Acknowledge(c)
      BY <3>1, <3>3, <3>4 DEF Board!Acknowledge, Board!Move, KindOf, StatusOf, WorkOf
    <3> QED BY <1>b, <3>5
  <2>4. CASE ApplyFailed(h) /\ cmd' # cmd
    <3> DEFINE r == [cmd[c] EXCEPT !.status = "failed", !.late = FALSE]
    <3>1. cmd' = [cmd EXCEPT ![c] = r] /\ StatusOf[c] \in {"dispatched", "acked"}
      BY <2>1, <2>4 DEF ApplyFailed, Advance, StatusOf
    <3>2. /\ cmd'[c].kind = cmd[c].kind /\ cmd'[c].status = "failed"
          /\ \A d \in Commands \ {c} : cmd'[d] = cmd[d]
      BY <3>1 DEF CommandRecord
    <3>3. WorkOf[c] = "err"
      BY <2>1, <2>4 DEF ApplyFailed, Truthful, WorkOf
    <3>4. KindOf' = KindOf /\ StatusOf' = [StatusOf EXCEPT ![c] = "failed"] /\ WorkOf' = WorkOf
      BY <2>1, <3>2, OneRow, SameKind
    <3>5. Board!Settle(c)
      BY <3>1, <3>3, <3>4 DEF Board!Settle, Board!Move, KindOf, StatusOf, WorkOf
    <3> QED BY <1>b, <3>5
  <2>5. CASE Complete(h) /\ cmd' # cmd
    <3> DEFINE r == [cmd[c] EXCEPT !.status = "completed", !.late = FALSE, !.secret = handler[h].secret]
    <3>1. cmd' = [cmd EXCEPT ![c] = r] /\ StatusOf[c] \in {"dispatched", "acked"}
      BY <2>1, <2>5 DEF Complete, Advance, StatusOf
    <3>2. /\ cmd'[c].kind = cmd[c].kind /\ cmd'[c].status = "completed"
          /\ \A d \in Commands \ {c} : cmd'[d] = cmd[d]
      BY <3>1 DEF CommandRecord
    <3>3. WorkOf[c] = "ok"
      BY <2>1, <2>5 DEF Complete, Reported, Succeeded, WorkOf
    <3>4. KindOf' = KindOf /\ StatusOf' = [StatusOf EXCEPT ![c] = "completed"] /\ WorkOf' = WorkOf
      BY <2>1, <3>2, OneRow, SameKind
    <3>5. Board!Settle(c)
      BY <3>1, <3>3, <3>4 DEF Board!Settle, Board!Move, KindOf, StatusOf, WorkOf
    <3> QED BY <1>b, <3>5
  <2> QED BY <1>6, <2>2, <2>3, <2>4, <2>5
<1>7. ASSUME NEW h \in Handlers, MaxAgeCreate(h) \/ RequestCreate(h) PROVE BoardMoves
  <2>1. daemon' = daemon /\ \E k \in Kinds : CreateCommand(k)
    BY <1>7, KindsAssumption DEF MaxAgeCreate, RequestCreate, HandlerRecord
  <2> PICK k \in Kinds : CreateCommand(k)
    BY <2>1
  <2>2. ASSUME NEW c \in Commands, Free(c), ~HasInFlight(k), cmd' = [cmd EXCEPT ![c] = NewCommand(k)]
        PROVE  BoardMoves
    <3>1. /\ KindOf' = [KindOf EXCEPT ![c] = k]
          /\ StatusOf' = [StatusOf EXCEPT ![c] = "pending"]
          /\ WorkOf' = WorkOf
      <4>1. /\ cmd'[c].kind = k /\ cmd'[c].status = "pending"
            /\ \A d \in Commands \ {c} : cmd'[d] = cmd[d]
        BY <2>2 DEF NewCommand
      <4> QED BY <2>1, <4>1, OneRow
    <3>2. StatusOf[c] = "none"
      BY <2>2 DEF Free, StatusOf
    <3>3. \A d \in Commands : StatusOf[d] \in Outstanding => KindOf[d] # k
      BY <2>2 DEF HasInFlight, StatusOf, KindOf
    <3>4. Board!Enqueue(c, k)
      BY <3>1, <3>2, <3>3 DEF Board!Enqueue, Board!Move, Board!InFlight, Outstanding, KindOf, StatusOf, WorkOf
    <3> QED BY <3>4 DEF BoardMoves
  <2> QED BY <1>1, <2>1, <2>2 DEF CreateCommand
<1>8. ASSUME NEW h \in Handlers, Dispatch(h) PROVE BoardMoves
  <2>1. CASE UNCHANGED cmd
    BY <1>1, <1>8, <2>1 DEF Dispatch
  <2>2. CASE cmd' # cmd
    <3> PICK c \in handler[h].todo :
            StillPending(c) /\ cmd' = [cmd EXCEPT ![c].status = "dispatched", ![c].late = FALSE]
      BY <1>8, <2>2 DEF Dispatch
    <3> DEFINE r == [cmd[c] EXCEPT !.status = "dispatched", !.late = FALSE]
    <3>1. c \in Commands /\ StatusOf[c] = "pending"
      BY DEF StillPending, StatusOf, HandlerRecord
    <3>2. cmd' = [cmd EXCEPT ![c] = r] /\ daemon' = daemon
      BY <1>8 DEF Dispatch
    <3>3. /\ cmd'[c].kind = cmd[c].kind /\ cmd'[c].status = "dispatched"
          /\ \A d \in Commands \ {c} : cmd'[d] = cmd[d]
      BY <3>1, <3>2 DEF CommandRecord
    <3>4. KindOf' = KindOf /\ StatusOf' = [StatusOf EXCEPT ![c] = "dispatched"] /\ WorkOf' = WorkOf
      BY <3>1, <3>2, <3>3, OneRow, SameKind
    <3>5. Board!HandOut(c)
      BY <3>1, <3>4 DEF Board!HandOut, Board!Move, KindOf, StatusOf, WorkOf
    <3> QED BY <1>b, <3>1, <3>5
  <2> QED BY <2>1, <2>2
<1> QED BY <1>1, <1>2, <1>3, <1>4, <1>5, <1>6, <1>7, <1>8
        DEF Next, HandlerStep, Heartbeat, Request, Crash, Age, vars, ReadAck, Publish, AcksDone,
            MaxAgeInFlight, MaxAgeLast, QueryPending

\* The commands implement the board: each is worked on at most once and recorded as
\* it went, whatever is lost, repeated, late or cut short.
THEOREM CommandsImplementBoard == Spec => ImplementsBoard
<1>1. Init => Board!Init
  <2> SUFFICES ASSUME Init PROVE Board!Init
    OBVIOUS
  <2>1. \A c \in Commands : cmd[c].kind = UI /\ cmd[c].status = "none" /\ daemon[c] = "none"
    BY DEF Init, NewCommand
  <2> QED BY <2>1, KindsAssumption DEF Board!Init
<1>2. Init => Known /\ Reported /\ Truthful
  <2> SUFFICES ASSUME Init PROVE Known /\ Reported /\ Truthful
    OBVIOUS
  <2>1. \A h \in Handlers : /\ handler[h].pc = "idle" /\ handler[h].acks = {}
                            /\ handler[h].todo = {} /\ handler[h].resp = {}
    BY DEF Init, Idle
  <2>2. \A c \in Commands : daemon[c] = "none" /\ cmd[c].status = "none"
    BY DEF Init, NewCommand
  <2> QED BY <2>1, <2>2 DEF Known, Reported, Truthful
<1>3. TypeOK /\ Known /\ Reported /\ Truthful /\ [Next]_vars => [Board!Next]_(Board!board)
  BY BoardStep DEF BoardMoves, Board!Next, Board!board, KindOf, StatusOf, WorkOf
<1>4. Spec => []TypeOK
  BY TypeCorrect
<1> QED BY <1>1, <1>2, <1>3, <1>4, KnownStep, ReportedStep, TruthfulStep, PTL
        DEF Spec, ImplementsBoard, Board!Spec
=============================================================================
