------------------------------ MODULE Enrollment -------------------------------
(***************************************************************************)
(* The credentials of the daemons in the agents' VMs                        *)
(* (internal/agentmgr/service.go, maybeRenew in heartbeat.go): the table    *)
(* agent_enrollments, the exchange of the one-time enroll token for a VM    *)
(* token, and the sliding renewal that a heartbeat carries out.             *)
(*                                                                          *)
(* The server reads the row and later saves it; requests of one daemon may  *)
(* overlap, because it repeats one it has waited for too long.  VM tokens   *)
(* are numbered in the order they are stored.                               *)
(***************************************************************************)
EXTENDS Naturals

CONSTANTS
    Agents,
    MaxOverlap, \* bound on requests of one kind that a daemon has in flight
    MaxTokens,  \* bound on VM tokens issued to one daemon
    MaxFaults   \* bound on failures, lost answers and crashes

ASSUME EnrollmentBounds ==
    MaxOverlap \in Nat /\ MaxTokens \in Nat /\ MaxFaults \in Nat

VARIABLES
    enrollment, \* the table agent_enrollments, by agent
    request,    \* exchanges and renewals that have read the row and not saved it
    answer,     \* VM tokens on their way to the daemon
    held,       \* the VM token the daemon uses; 0 is none
    raced,      \* history: agents revoked while an exchange was in flight
    disturbed,  \* history: daemons that lost an answer or overlapped requests
    faults

credentials == <<enrollment, request, answer, held, raced, disturbed>>

NoFault == faults' = faults
Fault   == faults < MaxFaults /\ faults' = faults + 1

Kinds == {"exchange", "renewal"}

\* token is the VM token whose hash is stored, issued the number of them so far.
EnrollmentRecord ==
    [status : {"none", "pending", "active", "revoked"},
     token : 0..MaxTokens, issued : 0..MaxTokens, revoked : BOOLEAN]

NoEnrollment == [status |-> "none", token |-> 0, issued |-> 0, revoked |-> FALSE]
NoRequests   == [kind \in Kinds |-> 0]

EnrollmentTypeOK ==
    /\ enrollment \in [Agents -> EnrollmentRecord]
    /\ request \in [Agents -> [Kinds -> 0..MaxOverlap]]
    /\ answer \in [Agents -> SUBSET (1..MaxTokens)]
    /\ held \in [Agents -> 0..MaxTokens]
    /\ raced \subseteq Agents /\ disturbed \subseteq Agents

EnrollmentInit ==
    /\ enrollment = [a \in Agents |-> NoEnrollment]
    /\ request = [a \in Agents |-> NoRequests]
    /\ answer = [a \in Agents |-> {}]
    /\ held = [a \in Agents |-> 0]
    /\ raced = {} /\ disturbed = {}

(***************************************************************************)
(* What the resolvers do to the row.  The history field revoked of a row    *)
(* tells that Revoke has reached it.                                        *)
(***************************************************************************)
IssueEnrollment(a) ==
    /\ enrollment' = [enrollment EXCEPT ![a] = [NoEnrollment EXCEPT !.status = "pending"]]
    /\ UNCHANGED <<request, answer, held, raced, disturbed>>

\* Mutant: Revoke drops the VM token and leaves the enroll token usable.
RevokeVMTokenOnly(a) ==
    /\ IF enrollment[a].status = "none"
       THEN UNCHANGED enrollment
       ELSE enrollment' = [enrollment EXCEPT ![a].token = 0, ![a].revoked = TRUE]
    /\ raced' = IF request[a]["exchange"] > 0 THEN raced \union {a} ELSE raced
    /\ UNCHANGED <<request, answer, held, disturbed>>

Revoke(a) ==
    /\ IF enrollment[a].status = "none"
       THEN UNCHANGED enrollment
       ELSE enrollment' = [enrollment EXCEPT ![a].status = "revoked", ![a].token = 0,
                                             ![a].revoked = TRUE]
    /\ raced' = IF request[a]["exchange"] > 0 THEN raced \union {a} ELSE raced
    /\ UNCHANGED <<request, answer, held, disturbed>>

DeleteEnrollment(a) ==
    /\ enrollment' = [enrollment EXCEPT ![a] = NoEnrollment]
    /\ UNCHANGED <<request, answer, held, raced, disturbed>>

(***************************************************************************)
(* Requests of a daemon.  Authenticate guards the heartbeat; the clock may  *)
(* have brought any token near its expiry.                                  *)
(***************************************************************************)
Authenticate(a) ==
    enrollment[a].status = "active" /\ held[a] > 0 /\ enrollment[a].token = held[a]

Read(a, kind) ==
    /\ request[a][kind] < MaxOverlap
    /\ request' = [request EXCEPT ![a][kind] = @ + 1]
    /\ disturbed' = IF request[a] # NoRequests \/ answer[a] # {}
                    THEN disturbed \union {a} ELSE disturbed
    /\ UNCHANGED <<enrollment, answer, held, raced, faults>>

\* Enroll, up to its verification of the token, and maybeRenew up to its save.
EnrollRead(a) == enrollment[a].status = "pending" /\ Read(a, "exchange")
RenewRead(a)  == Authenticate(a) /\ Read(a, "renewal")

\* Mutant: the heartbeat does not carry the renewed token.
IssueUnanswered(a, kind, status) ==
    LET token == enrollment[a].issued + 1
    IN  /\ request[a][kind] > 0 /\ token <= MaxTokens
        /\ request' = [request EXCEPT ![a][kind] = @ - 1]
        /\ enrollment' = [enrollment EXCEPT ![a].status = status, ![a].token = token,
                                            ![a].issued = token]
        /\ answer' = IF kind = "exchange" THEN [answer EXCEPT ![a] = @ \union {token}] ELSE answer
        /\ UNCHANGED <<held, raced, disturbed, faults>>

\* Stores the hash of a new VM token and answers with the token.  The update
\* fails when the row has been deleted.
Issue(a, kind, status) ==
    LET token == enrollment[a].issued + 1
    IN  /\ request[a][kind] > 0 /\ token <= MaxTokens
        /\ request' = [request EXCEPT ![a][kind] = @ - 1]
        /\ \/ /\ enrollment[a].status # "none"
              /\ enrollment' = [enrollment EXCEPT ![a].status = status, ![a].token = token,
                                                  ![a].issued = token]
              /\ answer' = [answer EXCEPT ![a] = @ \union {token}]
              /\ NoFault
           \/ /\ UNCHANGED <<enrollment, answer>>
              /\ IF enrollment[a].status = "none" THEN NoFault ELSE Fault
        /\ UNCHANGED <<held, raced, disturbed>>

\* Enroll's save sets the status whatever the row has become since it was read.
EnrollSave(a) == Issue(a, "exchange", "active")
RenewSave(a)  == Issue(a, "renewal", enrollment[a].status)

Receive(a) ==
    /\ \E token \in answer[a] :
          /\ answer' = [answer EXCEPT ![a] = @ \ {token}]
          /\ held' = [held EXCEPT ![a] = token]
    /\ UNCHANGED <<enrollment, request, raced, disturbed, faults>>

LoseAnswer(a) ==
    /\ Fault
    /\ \E token \in answer[a] : answer' = [answer EXCEPT ![a] = @ \ {token}]
    /\ disturbed' = disturbed \union {a}
    /\ UNCHANGED <<enrollment, request, held, raced>>

\* What the daemon takes part in, and what happens without it.
DaemonStep(a) == EnrollRead(a) \/ RenewRead(a) \/ Receive(a)
ServerStep(a) == EnrollSave(a) \/ RenewSave(a) \/ LoseAnswer(a)

(***************************************************************************)
(* Properties                                                               *)
(***************************************************************************)
\* A revoked credential stays revoked: it authenticates again only through an
\* exchange that had read the row before Revoke (agentmgr/service.go:127-187).
RevocationHolds ==
    \A a \in Agents :
        enrollment[a].revoked /\ enrollment[a].status = "active" => a \in raced

\* A daemon whose requests never overlapped and whose answers all arrived can
\* authenticate as long as its enrollment is active: neither the exchange nor
\* a renewal locks it out (heartbeat.go:289-307 replaces the hash at once).
NotLockedOut ==
    \A a \in Agents :
        /\ enrollment[a].status = "active" /\ a \notin disturbed
        /\ request[a] = NoRequests /\ answer[a] = {}
        => Authenticate(a)
=============================================================================
