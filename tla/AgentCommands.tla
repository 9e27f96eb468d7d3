--------------------------- MODULE AgentCommands ---------------------------
(***************************************************************************)
(* The commands the control plane sends to the daemon in one agent's VM     *)
(* (internal/agentmgr): rotations and upgrades are rows of the table        *)
(* rotation_commands, handed out in answers to heartbeats and advanced by   *)
(* the acks later heartbeats carry.                                         *)
(*                                                                          *)
(* A heartbeat handler makes one database or secret-store call per action;  *)
(* the daemon may time out and send again, so several run at once.  The     *)
(* daemon itself is external: it acts once on a command id, repeats its     *)
(* reports (a completion with the new password or, which the code accepts,  *)
(* without), and its clock and network decide when.                         *)
(***************************************************************************)
EXTENDS Naturals, FiniteSets

CONSTANTS
    Commands,   \* command ids
    Kinds,      \* kinds of commands in use
    Handlers,   \* concurrent requests: heartbeats and admin mutations
    NoCmd,
    MaxAcks,    \* acks in one heartbeat
    MaxSpurious,\* bound on timeouts of commands that did reach the daemon
    MaxFaults   \* bound on failed calls, lost answers and crashes

UI == "rotate_ui_password"
AllKinds == {UI, "rotate_os_password", "upgrade"}

ASSUME KindsAssumption == UI \in Kinds /\ Kinds \subseteq AllKinds
ASSUME NoCmdAssumption == NoCmd \notin Commands
ASSUME BoundsAssumption == MaxAcks \in Nat /\ MaxSpurious \in Nat /\ MaxFaults \in Nat

VARIABLES
    cmd,        \* the table rotation_commands
    vault,      \* the new passwords that are in the secret store
    overdue,    \* the last UI rotation is older than the max-age policy
    handler,    \* local state of each request
    daemon,     \* what the daemon did about each command
    handed,     \* history: answers a command was put in since it was last pending
    spurious, faults

vars == <<cmd, vault, overdue, handler, daemon, handed, spurious, faults>>

Outstanding == {"pending", "dispatched", "acked"}
Terminal    == {"completed", "failed"}

CommandRecord ==
    [kind : Kinds, status : {"none"} \union Outstanding \union Terminal,
     late : BOOLEAN,                       \* dispatched_at is past the timeout
     secret : Commands \union {NoCmd}]     \* secret_ref: the password it resolves to

NewCommand(k) == [kind |-> k, status |-> "pending", late |-> FALSE, secret |-> NoCmd]

\* password: the ack carries the new password in plain text, a completion may.
Ack == [cmd : Commands, phase : {"acked", "completed", "failed"}, password : BOOLEAN]

Idle == [pc |-> "idle", acks |-> {}, cmd |-> NoCmd, secret |-> NoCmd, kind |-> UI,
         todo |-> {}, resp |-> {}]

HandlerRecord ==
    [pc     : {"idle", "acks", "ack", "fail", "put", "complete", "sweep", "max_age",
               "last", "create", "query", "dispatch", "request"},
     acks   : SUBSET Ack,                  \* acks not yet applied
     cmd    : Commands \union {NoCmd},     \* the command of the ack being applied
     secret : Commands \union {NoCmd},     \* the secret that was put for it
     kind   : Kinds,                       \* kind an admin asked for
     todo   : SUBSET Commands,             \* pending commands not yet dispatched
     resp   : SUBSET Commands]             \* commands of the answer

TypeOK ==
    /\ cmd \in [Commands -> CommandRecord]
    /\ vault \subseteq Commands
    /\ overdue \in BOOLEAN
    /\ handler \in [Handlers -> HandlerRecord]
    /\ \A h \in Handlers :
          handler[h].pc \in {"ack", "fail", "put", "complete"} => handler[h].cmd \in Commands
    /\ daemon \in [Commands -> {"none", "got", "ok", "quiet", "err"}]
    /\ handed \in [Commands -> Nat]
    /\ spurious \in 0..MaxSpurious
    /\ faults \in 0..MaxFaults

Init ==
    /\ cmd = [c \in Commands |-> [NewCommand(UI) EXCEPT !.status = "none"]]
    /\ vault = {}
    /\ overdue = FALSE
    /\ handler = [h \in Handlers |-> Idle]
    /\ daemon = [c \in Commands |-> "none"]
    /\ handed = [c \in Commands |-> 0]
    /\ spurious = 0
    /\ faults = 0

At(h, pc)   == handler[h].pc = pc
Goto(h, pc) == handler' = [handler EXCEPT ![h].pc = pc]
NoFault     == faults' = faults
Fault       == faults < MaxFaults /\ faults' = faults + 1

\* The conditional UPDATE ... WHERE id = c AND status IN from.
Advance(c, from, new) ==
    \/ cmd[c].status \in from /\ cmd' = [cmd EXCEPT ![c] = new] /\ NoFault
    \/ cmd[c].status \notin from /\ UNCHANGED cmd /\ NoFault
    \/ UNCHANGED cmd /\ Fault

HasInFlight(k) == \E c \in Commands : cmd[c].kind = k /\ cmd[c].status \in Outstanding

\* createCommand.  The partial unique index refuses a second command in flight
\* of the same kind, which is no error; out of ids is the bound of the model.
Free(c) == cmd[c].status = "none"

\* Mutant: the table without its partial index.
CreateCommandUnindexed(k) ==
    /\ NoFault
    /\ \/ \E c \in Commands : Free(c) /\ cmd' = [cmd EXCEPT ![c] = NewCommand(k)]
       \/ (\A c \in Commands : ~Free(c)) /\ UNCHANGED cmd

CreateCommand(k) ==
    \/ \E c \in Commands : Free(c) /\ ~HasInFlight(k) /\ cmd' = [cmd EXCEPT ![c] = NewCommand(k)]
                           /\ NoFault
    \/ (HasInFlight(k) \/ \A c \in Commands : ~Free(c)) /\ UNCHANGED cmd /\ NoFault
    \/ UNCHANGED cmd /\ Fault

(***************************************************************************)
(* The daemon (external)                                                    *)
(***************************************************************************)
\* What the daemon says of a command: that it has it, and how it went; "quiet" is
\* a success reported without the new password, which the platform accepts.
Says(c, phase) == [cmd |-> c, phase |-> phase, password |-> phase = "completed" /\ daemon[c] = "ok"]

Report(c) ==
    CASE daemon[c] = "none" -> {}
      [] daemon[c] = "got"  -> {Says(c, "acked")}
      [] daemon[c] = "err"  -> {Says(c, "acked"), Says(c, "failed")}
      [] OTHER              -> {Says(c, "acked"), Says(c, "completed")}

DaemonActs(c) ==
    /\ daemon[c] = "got"
    /\ \E result \in {"ok", "quiet", "err"} :
          /\ result = "quiet" => cmd[c].kind = UI      \* the others have no password
          /\ daemon' = [daemon EXCEPT ![c] = result]
    /\ UNCHANGED <<cmd, vault, overdue, handler, handed, spurious, faults>>

(***************************************************************************)
(* ProcessHeartbeat                                                         *)
(***************************************************************************)
Heartbeat(h, acks) ==
    /\ At(h, "idle")
    /\ acks \subseteq UNION {Report(c) : c \in Commands} /\ Cardinality(acks) <= MaxAcks
    /\ handler' = [handler EXCEPT ![h] = [Idle EXCEPT !.pc = "acks", !.acks = acks]]
    /\ UNCHANGED <<cmd, vault, overdue, daemon, handed, spurious, faults>>

\* Mutant: whatever is not an acknowledgement completes the command.
AckStepAnyEnd(a) ==
    IF a.phase = "acked" THEN "ack"
    ELSE IF cmd[a.cmd].kind = UI /\ a.password THEN "put" ELSE "complete"

\* Where the command goes whose row was read for an ack: a completion of a
\* terminal command is ignored, one that brings a new UI password publishes first.
AckStep(a) ==
    CASE a.phase = "acked"  -> "ack"
      [] a.phase = "failed" -> "fail"
      [] OTHER -> IF cmd[a.cmd].status \in Terminal THEN "acks"
                  ELSE IF cmd[a.cmd].kind = UI /\ a.password THEN "put" ELSE "complete"

\* Mutant: the ack is applied though its command was not found.
ReadAckIgnoringError(h) ==
    /\ At(h, "acks")
    /\ \E a \in handler[h].acks :
          \/ /\ handler' = [handler EXCEPT ![h].acks = @ \ {a}, ![h].cmd = a.cmd,
                                          ![h].secret = NoCmd, ![h].pc = AckStep(a)]
             /\ NoFault
          \/ handler' = [handler EXCEPT ![h].acks = @ \ {a}, ![h].cmd = NoCmd, ![h].pc = AckStep(a)] /\ Fault
    /\ UNCHANGED <<cmd, vault, overdue, daemon, handed, spurious>>

ReadAck(h) ==
    /\ At(h, "acks")
    /\ \E a \in handler[h].acks :
          \/ /\ handler' = [handler EXCEPT ![h].acks = @ \ {a}, ![h].cmd = a.cmd,
                                          ![h].secret = NoCmd, ![h].pc = AckStep(a)]
             /\ NoFault
          \/ handler' = [handler EXCEPT ![h].acks = @ \ {a}] /\ Fault
    /\ UNCHANGED <<cmd, vault, overdue, daemon, handed, spurious>>

ApplyAcked(h) ==
    /\ At(h, "ack")
    /\ LET c == handler[h].cmd
       IN  Advance(c, {"dispatched"}, [cmd[c] EXCEPT !.status = "acked", !.late = FALSE])
    /\ Goto(h, "acks")
    /\ UNCHANGED <<vault, overdue, daemon, handed, spurious>>

\* Mutant: only an acknowledged command can fail.
ApplyFailedAcked(h) ==
    /\ At(h, "fail")
    /\ LET c == handler[h].cmd
       IN  Advance(c, {"acked"}, [cmd[c] EXCEPT !.status = "failed", !.late = FALSE])
    /\ Goto(h, "acks")
    /\ UNCHANGED <<vault, overdue, daemon, handed, spurious>>

ApplyFailed(h) ==
    /\ At(h, "fail")
    /\ LET c == handler[h].cmd
       IN  Advance(c, {"dispatched", "acked"}, [cmd[c] EXCEPT !.status = "failed", !.late = FALSE])
    /\ Goto(h, "acks")
    /\ UNCHANGED <<vault, overdue, daemon, handed, spurious>>

\* Mutant: a failed Put does not stop the completion.
PublishIgnoringFailure(h) ==
    /\ At(h, "put")
    /\ \/ vault' = vault \union {handler[h].cmd} /\ NoFault
       \/ UNCHANGED vault /\ Fault
    /\ handler' = [handler EXCEPT ![h].pc = "complete", ![h].secret = handler[h].cmd]
    /\ UNCHANGED <<cmd, overdue, daemon, handed, spurious>>

\* completeCommand of a UI rotation, its first half: the new password is put
\* under a fresh ref; a failure leaves the command as it is.
Publish(h) ==
    /\ At(h, "put")
    /\ \/ /\ vault' = vault \union {handler[h].cmd}
          /\ handler' = [handler EXCEPT ![h].pc = "complete", ![h].secret = handler[h].cmd]
          /\ NoFault
       \/ UNCHANGED vault /\ Goto(h, "acks") /\ Fault
    /\ UNCHANGED <<cmd, overdue, daemon, handed, spurious>>

\* Mutant: the update completes whatever command it finds.
CompleteUnconditionally(h) ==
    /\ At(h, "complete")
    /\ LET c == handler[h].cmd
       IN  cmd' = [cmd EXCEPT ![c].status = "completed", ![c].late = FALSE, ![c].secret = handler[h].secret]
    /\ Goto(h, "acks")
    /\ UNCHANGED <<vault, overdue, daemon, handed, spurious, faults>>

Complete(h) ==
    /\ At(h, "complete")
    /\ LET c == handler[h].cmd
       IN  /\ Advance(c, {"dispatched", "acked"},
                      [cmd[c] EXCEPT !.status = "completed", !.late = FALSE,
                                     !.secret = handler[h].secret])
           /\ overdue' = (overdue /\ ~(cmd' # cmd /\ cmd[c].kind = UI))
    /\ Goto(h, "acks")
    /\ UNCHANGED <<vault, daemon, handed, spurious>>

AcksDone(h) ==
    /\ At(h, "acks") /\ handler[h].acks = {}
    /\ Goto(h, "sweep")
    /\ UNCHANGED <<cmd, vault, overdue, daemon, handed, spurious, faults>>

\* Mutant: nothing is ever taken back.
NeverLate(c) == FALSE

Late(c) == cmd[c].status = "dispatched" /\ cmd[c].late

Sweep(h) ==
    /\ At(h, "sweep")
    /\ \/ /\ cmd' = [c \in Commands |->
                        IF Late(c) THEN [cmd[c] EXCEPT !.status = "pending", !.late = FALSE] ELSE cmd[c]]
          /\ handed' = [c \in Commands |-> IF Late(c) THEN 0 ELSE handed[c]]
          /\ NoFault
       \/ UNCHANGED <<cmd, handed>> /\ Fault
    /\ Goto(h, "max_age")
    /\ UNCHANGED <<vault, overdue, daemon, spurious>>

\* applyMaxAge: three reads and writes, each on its own.
MaxAgeInFlight(h) ==
    /\ At(h, "max_age")
    /\ \/ Goto(h, IF HasInFlight(UI) THEN "query" ELSE "last") /\ NoFault
       \/ Goto(h, "query") /\ Fault
    /\ UNCHANGED <<cmd, vault, overdue, daemon, handed, spurious>>

MaxAgeLast(h) ==
    /\ At(h, "last")
    /\ Goto(h, IF overdue THEN "create" ELSE "query")
    /\ UNCHANGED <<cmd, vault, overdue, daemon, handed, spurious, faults>>

MaxAgeCreate(h) ==
    /\ At(h, "create")
    /\ CreateCommand(UI)
    /\ Goto(h, "query")
    /\ UNCHANGED <<vault, overdue, daemon, handed, spurious>>

\* dispatchAndAssemble
QueryPending(h) ==
    /\ At(h, "query")
    /\ \/ /\ handler' = [handler EXCEPT ![h].pc = "dispatch",
                                        ![h].todo = {c \in Commands : cmd[c].status = "pending"}]
          /\ NoFault
       \/ handler' = [handler EXCEPT ![h] = Idle] /\ Fault
    /\ UNCHANGED <<cmd, vault, overdue, daemon, handed, spurious>>

\* Mutant: the commands found pending are dispatched without looking again.
AnyPending(c) == TRUE

\* Whether the conditional update of one of them succeeds.
StillPending(c) == cmd[c].status = "pending"

Dispatch(h) ==
    /\ At(h, "dispatch")
    /\ \E c \in handler[h].todo :
          \/ /\ StillPending(c)
             /\ cmd' = [cmd EXCEPT ![c].status = "dispatched", ![c].late = FALSE]
             /\ handler' = [handler EXCEPT ![h].todo = @ \ {c}, ![h].resp = @ \union {c}]
             /\ handed' = [handed EXCEPT ![c] = @ + 1]
             /\ NoFault
          \/ /\ \/ ~StillPending(c) /\ NoFault
                \/ Fault
             /\ handler' = [handler EXCEPT ![h].todo = @ \ {c}]
             /\ UNCHANGED <<cmd, handed>>
    /\ UNCHANGED <<vault, overdue, daemon, spurious>>

Respond(h) ==
    /\ At(h, "dispatch") /\ handler[h].todo = {}
    /\ \/ /\ daemon' = [c \in Commands |-> IF c \in handler[h].resp /\ daemon[c] = "none"
                                           THEN "got" ELSE daemon[c]]
          /\ NoFault
       \/ UNCHANGED daemon /\ Fault
    /\ handler' = [handler EXCEPT ![h] = Idle]
    /\ UNCHANGED <<cmd, vault, overdue, handed, spurious>>

(***************************************************************************)
(* RequestRotation and RequestUpgrade                                       *)
(***************************************************************************)
Request(h, k) ==
    /\ At(h, "idle")
    /\ ~HasInFlight(k)
    /\ handler' = [handler EXCEPT ![h] = [Idle EXCEPT !.pc = "request", !.kind = k]]
    /\ UNCHANGED <<cmd, vault, overdue, daemon, handed, spurious, faults>>

RequestCreate(h) ==
    /\ At(h, "request")
    /\ CreateCommand(handler[h].kind)
    /\ handler' = [handler EXCEPT ![h] = Idle]
    /\ UNCHANGED <<vault, overdue, daemon, handed, spurious>>

Crash(h) ==
    /\ ~At(h, "idle") /\ Fault
    /\ handler' = [handler EXCEPT ![h] = Idle]
    /\ UNCHANGED <<cmd, vault, overdue, daemon, handed, spurious>>

(***************************************************************************)
(* Time                                                                     *)
(***************************************************************************)
Lost(c) == daemon[c] = "none" /\ \A h \in Handlers : c \notin handler[h].resp

Timeout(c) ==
    /\ cmd[c].status = "dispatched" /\ ~cmd[c].late
    /\ cmd' = [cmd EXCEPT ![c].late = TRUE]
    /\ \/ Lost(c) /\ UNCHANGED spurious
       \/ ~Lost(c) /\ spurious < MaxSpurious /\ spurious' = spurious + 1
    /\ UNCHANGED <<vault, overdue, handler, daemon, handed, faults>>

Age ==
    /\ ~overdue /\ overdue' = TRUE
    /\ UNCHANGED <<cmd, vault, handler, daemon, handed, spurious, faults>>

HandlerStep(h) ==
    \/ ReadAck(h) \/ ApplyAcked(h) \/ ApplyFailed(h) \/ Publish(h) \/ Complete(h) \/ AcksDone(h)
    \/ Sweep(h) \/ MaxAgeInFlight(h) \/ MaxAgeLast(h) \/ MaxAgeCreate(h)
    \/ QueryPending(h) \/ Dispatch(h) \/ Respond(h) \/ RequestCreate(h)

Next ==
    \/ \E h \in Handlers :
          \/ HandlerStep(h)
          \/ \E acks \in SUBSET UNION {Report(c) : c \in Commands} : Heartbeat(h, acks)
          \/ \E k \in Kinds : Request(h, k)
          \/ Crash(h)
    \/ \E c \in Commands : DaemonActs(c) \/ Timeout(c)
    \/ Age

\* A handler runs to its end, time passes, and the daemon works on what it got
\* and repeats the outcome in its heartbeats until the platform has it.
Outcome(c) == {a \in Report(c) : a.phase \in Terminal}

Fairness ==
    /\ \A h \in Handlers : WF_vars(HandlerStep(h))
    /\ \A c \in Commands :
          /\ WF_vars(DaemonActs(c)) /\ WF_vars(Timeout(c))
          /\ SF_vars(\E h \in Handlers : Heartbeat(h, Outcome(c)))

Spec     == Init /\ [][Next]_vars
FairSpec == Spec /\ Fairness
-----------------------------------------------------------------------------
\* At most one command of a kind is in flight, though the check and the insert
\* of a heartbeat and of an admin's request overlap.
OneInFlight ==
    \A c, d \in Commands :
        (c # d /\ cmd[c].status \in Outstanding /\ cmd[d].status \in Outstanding)
            => cmd[c].kind # cmd[d].kind

\* Publish, then commit: a completed UI rotation whose password the daemon
\* reports names a secret that is in the store and is that very password, though
\* acks are repeated and several handlers complete one command.
PublishedBeforeCompleted ==
    \A c \in Commands :
        (cmd[c].status = "completed" /\ cmd[c].kind = UI /\ daemon[c] = "ok")
            => cmd[c].secret = c /\ c \in vault

\* Concurrent heartbeats never both hand out one command: between two times it
\* is put in an answer a sweep has taken it back.
HandedOnce == \A c \in Commands : handed[c] <= 1

\* The state machine of the table's comment: a command goes one way, except
\* that what was dispatched may be pending again; what is terminal is not
\* written again, though acks are repeated, late and read before they are applied.
Moves ==
    {<<"none", "pending">>, <<"pending", "dispatched">>, <<"dispatched", "pending">>}
        \union {"dispatched"} \X {"acked", "completed", "failed"}
        \union {"acked"} \X Terminal

SingleDirection ==
    [][\A c \in Commands :
          /\ cmd[c].status # cmd'[c].status => <<cmd[c].status, cmd'[c].status>> \in Moves
          /\ cmd[c].status \in Terminal => cmd'[c] = cmd[c]]_vars

\* A command that was enqueued is eventually completed or failed, whatever
\* answers are lost and whatever handlers die on the way.
CommandsEnd ==
    \A c \in Commands : cmd[c].status = "pending" ~> cmd[c].status \in Terminal

\* The table, the requests, the acks and the daemon together implement the board:
\* whatever is repeated, late or lost, a command is worked on at most once, and it
\* is recorded as completed only after it succeeded and as failed only after it
\* failed, one of a kind at a time.
Board == INSTANCE CommandBoard WITH
    kind   <- [c \in Commands |-> cmd[c].kind],
    status <- [c \in Commands |-> cmd[c].status],
    work   <- [c \in Commands |-> IF daemon[c] = "quiet" THEN "ok" ELSE daemon[c]]

ImplementsBoard == Board!Spec

\* Its liveness too: what waits is handed out, and what was done is recorded.
SettlesLikeBoard == Board!FairSpec
=============================================================================
