---------------------------- MODULE CommandBoard ----------------------------
(***************************************************************************)
(* What the command table and the heartbeats promise together, without      *)
(* requests, acks or failures: a command is one piece of work, done at most  *)
(* once and recorded as it went.  AgentCommands implements this.            *)
(***************************************************************************)
CONSTANTS Commands, Kinds

VARIABLES
    kind,       \* kind of each command
    status,     \* where the platform has it
    work        \* what became of it in the VM

board == <<kind, status, work>>

InFlight == {"pending", "dispatched", "acked"}

Init ==
    /\ kind \in [Commands -> Kinds]
    /\ status = [c \in Commands |-> "none"]
    /\ work = [c \in Commands |-> "none"]

Move(c, from, to) == status[c] \in from /\ status' = [status EXCEPT ![c] = to]

\* One command of a kind in flight.
Enqueue(c, k) ==
    /\ \A d \in Commands : status[d] \in InFlight => kind[d] # k
    /\ Move(c, {"none"}, "pending")
    /\ kind' = [kind EXCEPT ![c] = k]
    /\ UNCHANGED work

HandOut(c) == Move(c, {"pending"}, "dispatched") /\ UNCHANGED <<kind, work>>

\* A sweep takes several back at once; an answer brings several to the VM.
TakeBack(cs) ==
    /\ \A c \in cs : status[c] = "dispatched"
    /\ status' = [c \in Commands |-> IF c \in cs THEN "pending" ELSE status[c]]
    /\ UNCHANGED <<kind, work>>

Arrive(cs) ==
    /\ \A c \in cs : work[c] = "none" /\ status[c] # "none"
    /\ work' = [c \in Commands |-> IF c \in cs THEN "got" ELSE work[c]]
    /\ UNCHANGED <<kind, status>>

DoWork(c, result) ==
    /\ work[c] = "got"
    /\ work' = [work EXCEPT ![c] = result]
    /\ UNCHANGED <<kind, status>>

Acknowledge(c) ==
    work[c] # "none" /\ Move(c, {"dispatched"}, "acked") /\ UNCHANGED <<kind, work>>

\* The record is the truth: completed after a success, failed after a failure.
Settle(c) ==
    /\ \/ work[c] = "ok" /\ Move(c, {"dispatched", "acked"}, "completed")
       \/ work[c] = "err" /\ Move(c, {"dispatched", "acked"}, "failed")
    /\ UNCHANGED <<kind, work>>

Next ==
    \/ \E c \in Commands :
          \/ HandOut(c) \/ Acknowledge(c) \/ Settle(c)
          \/ \E k \in Kinds : Enqueue(c, k)
          \/ \E result \in {"ok", "err"} : DoWork(c, result)
    \/ \E cs \in SUBSET Commands : TakeBack(cs) \/ Arrive(cs)

Spec == Init /\ [][Next]_board

\* What waits is handed out, and what is out often enough is settled.
FairSpec ==
    /\ Spec
    /\ \A c \in Commands : WF_board(HandOut(c)) /\ SF_board(Settle(c))
=============================================================================
