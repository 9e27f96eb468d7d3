--------------------------- MODULE Enrollment_proofs ---------------------------
(***************************************************************************)
(* Lemmas about Enrollment, for every value of its constants: what each of  *)
(* its steps does to the types, to a revoked credential and to a daemon     *)
(* that nothing disturbed.  The specification that takes these steps is     *)
(* AgentDeployment.                                                         *)
(***************************************************************************)
EXTENDS Enrollment, TLAPS

CredentialStep(a) ==
    \/ IssueEnrollment(a) \/ Revoke(a) \/ DeleteEnrollment(a)
    \/ DaemonStep(a) \/ ServerStep(a)

LEMMA FaultType ==
    ASSUME faults \in 0..MaxFaults, NoFault \/ Fault
    PROVE  faults' \in 0..MaxFaults
BY EnrollmentBounds DEF NoFault, Fault

LEMMA NoEnrollmentType ==
    NoEnrollment \in EnrollmentRecord /\ [NoEnrollment EXCEPT !.status = "pending"] \in EnrollmentRecord
<1>1. 0 \in 0..MaxTokens
  BY EnrollmentBounds
<1> QED BY <1>1 DEF NoEnrollment, EnrollmentRecord

LEMMA CredentialsInit == EnrollmentInit => EnrollmentTypeOK
BY NoEnrollmentType, EnrollmentBounds DEF EnrollmentInit, EnrollmentTypeOK, NoRequests

\* What Issue may leave: a request less, and the row and the answers as they
\* were or with the next token.
Stored(a, kind, status) ==
    /\ request[a][kind] > 0 /\ request' = [request EXCEPT ![a][kind] = request[a][kind] - 1]
    /\ UNCHANGED <<held, raced, disturbed>>
    /\ \/ UNCHANGED <<enrollment, answer>>
       \/ /\ enrollment[a].status # "none" /\ enrollment[a].issued + 1 <= MaxTokens
          /\ enrollment' = [enrollment EXCEPT ![a].status = status,
                                              ![a].token = enrollment[a].issued + 1,
                                              ![a].issued = enrollment[a].issued + 1]
          /\ answer' = [answer EXCEPT ![a] = answer[a] \union {enrollment[a].issued + 1}]

LEMMA IssueStores ==
    ASSUME EnrollmentTypeOK, NEW a \in Agents, NEW kind \in Kinds, NEW status, Issue(a, kind, status)
    PROVE  Stored(a, kind, status)
BY DEF Issue, Stored, EnrollmentTypeOK

LEMMA CredentialsType ==
    ASSUME EnrollmentTypeOK, NEW a \in Agents, CredentialStep(a)
    PROVE  EnrollmentTypeOK'
<1> USE EnrollmentBounds DEF EnrollmentTypeOK
<1>1. CASE IssueEnrollment(a) \/ DeleteEnrollment(a)
  BY <1>1, NoEnrollmentType DEF IssueEnrollment, DeleteEnrollment
<1>2. CASE Revoke(a)
  <2> DEFINE x == [enrollment[a] EXCEPT !.status = "revoked", !.token = 0, !.revoked = TRUE]
  <2>1. 0 \in 0..MaxTokens
    OBVIOUS
  <2>2. x \in EnrollmentRecord
    BY <2>1 DEF EnrollmentRecord
  <2>3. enrollment' = enrollment \/ enrollment' = [enrollment EXCEPT ![a] = x]
    BY <1>2 DEF Revoke
  <2> HIDE DEF x
  <2> QED BY <1>2, <2>2, <2>3 DEF Revoke
<1>3. ASSUME NEW kind \in Kinds, Read(a, kind) PROVE EnrollmentTypeOK'
  <2>1. request[a][kind] + 1 \in 0..MaxOverlap
    BY <1>3 DEF Read
  <2> QED BY <1>3, <2>1 DEF Read
<1>4. ASSUME NEW kind \in Kinds, NEW status \in {"none", "pending", "active", "revoked"},
             Issue(a, kind, status)
      PROVE  EnrollmentTypeOK'
  <2>1. Stored(a, kind, status)
    BY <1>4, IssueStores
  <2>2. request[a][kind] - 1 \in 0..MaxOverlap
    BY <2>1 DEF Stored
  <2>3. request' \in [Agents -> [Kinds -> 0..MaxOverlap]]
    BY <2>1, <2>2 DEF Stored
  <2>4. enrollment[a].issued \in Nat
    BY DEF EnrollmentRecord
  <2>5. enrollment' \in [Agents -> EnrollmentRecord] /\ answer' \in [Agents -> SUBSET (1..MaxTokens)]
    BY <2>1, <2>4 DEF Stored, EnrollmentRecord
  <2> QED BY <2>1, <2>3, <2>5 DEF Stored
<1>5. CASE Receive(a) \/ LoseAnswer(a)
  BY <1>5 DEF Receive, LoseAnswer
<1>6. enrollment[a].status \in {"none", "pending", "active", "revoked"} /\ "exchange" \in Kinds /\ "renewal" \in Kinds
  BY DEF EnrollmentRecord, Kinds
<1> QED BY <1>1, <1>2, <1>3, <1>4, <1>5, <1>6
        DEF CredentialStep, DaemonStep, ServerStep, EnrollRead, RenewRead, EnrollSave, RenewSave

(***************************************************************************)
(* The steps of one agent leave the credentials of the others alone, and    *)
(* the daemon and the server neither make nor delete a row nor forget that  *)
(* it was revoked.                                                          *)
(***************************************************************************)
SameCredential(b) ==
    /\ enrollment'[b] = enrollment[b] /\ request'[b] = request[b] /\ answer'[b] = answer[b]
    /\ held'[b] = held[b] /\ (b \in raced' <=> b \in raced) /\ (b \in disturbed' <=> b \in disturbed)

LEMMA OthersKeepCredential ==
    ASSUME EnrollmentTypeOK, NEW a \in Agents, NEW b \in Agents \ {a}, CredentialStep(a)
    PROVE  SameCredential(b)
<1> USE DEF EnrollmentTypeOK, SameCredential
<1>1. CASE IssueEnrollment(a) \/ DeleteEnrollment(a) \/ Revoke(a)
  BY <1>1 DEF IssueEnrollment, DeleteEnrollment, Revoke
<1>2. CASE DaemonStep(a)
  BY <1>2 DEF DaemonStep, EnrollRead, RenewRead, Read, Receive
<1>3. CASE LoseAnswer(a)
  <2>1. PICK t \in answer[a] : answer' = [answer EXCEPT ![a] = answer[a] \ {t}]
    BY <1>3 DEF LoseAnswer
  <2>2. answer'[b] = answer[b] /\ (b \in disturbed' <=> b \in disturbed)
    BY <1>3, <2>1 DEF LoseAnswer
  <2> QED BY <1>3, <2>2 DEF LoseAnswer
<1>4. ASSUME NEW kind \in Kinds, NEW status, Issue(a, kind, status) PROVE SameCredential(b)
  <2>1. Stored(a, kind, status)
    BY <1>4, IssueStores
  <2> QED BY <2>1 DEF Stored
<1> QED BY <1>1, <1>2, <1>3, <1>4 DEF CredentialStep, ServerStep, EnrollSave, RenewSave, Kinds

\* What a step does to the row of its own agent, beside the calls that replace it.
LEMMA RevokeLeaves ==
    ASSUME EnrollmentTypeOK, NEW a \in Agents, Revoke(a)
    PROVE  enrollment'[a].status = "none" \/ (enrollment'[a].status = "revoked" /\ enrollment'[a].revoked = TRUE)
<1> DEFINE x == [enrollment[a] EXCEPT !.status = "revoked", !.token = 0, !.revoked = TRUE]
<1>1. x.status = "revoked" /\ x.revoked = TRUE
  BY DEF EnrollmentTypeOK, EnrollmentRecord
<1>2. IF enrollment[a].status = "none" THEN enrollment' = enrollment
                                       ELSE enrollment' = [enrollment EXCEPT ![a] = x]
  BY DEF Revoke
<1> HIDE DEF x
<1> QED BY <1>1, <1>2 DEF EnrollmentTypeOK

LEMMA RowOutlivesRequests ==
    ASSUME EnrollmentTypeOK, NEW a \in Agents, DaemonStep(a) \/ ServerStep(a) \/ Revoke(a)
    PROVE  /\ enrollment'[a].status = "none" <=> enrollment[a].status = "none"
           /\ enrollment[a].revoked = TRUE => enrollment'[a].revoked = TRUE
<1> USE DEF EnrollmentTypeOK
<1>0. enrollment[a] \in EnrollmentRecord
  OBVIOUS
<1>1. CASE Revoke(a)
  <2> DEFINE x == [enrollment[a] EXCEPT !.status = "revoked", !.token = 0, !.revoked = TRUE]
  <2>1. x.status = "revoked" /\ x.revoked = TRUE
    BY <1>0 DEF EnrollmentRecord
  <2>2. IF enrollment[a].status = "none" THEN enrollment' = enrollment
                                         ELSE enrollment' = [enrollment EXCEPT ![a] = x]
    BY <1>1 DEF Revoke
  <2> HIDE DEF x
  <2> QED BY <2>1, <2>2
<1>2. DaemonStep(a) \/ LoseAnswer(a) => UNCHANGED enrollment
  BY DEF DaemonStep, EnrollRead, RenewRead, Read, Receive, LoseAnswer
<1>4. ASSUME NEW kind \in Kinds, NEW status, status # "none", Issue(a, kind, status)
      PROVE  /\ enrollment'[a].status = "none" <=> enrollment[a].status = "none"
             /\ enrollment[a].revoked = TRUE => enrollment'[a].revoked = TRUE
  <2> DEFINE x == [enrollment[a] EXCEPT !.status = status, !.token = enrollment[a].issued + 1,
                                        !.issued = enrollment[a].issued + 1]
  <2>1. x.status = status /\ x.revoked = enrollment[a].revoked
    BY <1>0 DEF EnrollmentRecord
  <2>2. \/ enrollment' = enrollment
        \/ enrollment[a].status # "none" /\ enrollment' = [enrollment EXCEPT ![a] = x]
    <3>1. Stored(a, kind, status)
      BY <1>4, IssueStores
    <3> QED BY <3>1 DEF Stored
  <2> HIDE DEF x
  <2> QED BY <1>4, <2>1, <2>2
<1>5. CASE EnrollSave(a)
  BY <1>4, <1>5 DEF EnrollSave, Kinds
<1>6. CASE RenewSave(a)
  BY <1>4, <1>6 DEF RenewSave, Kinds, Issue
<1> QED BY <1>1, <1>2, <1>5, <1>6 DEF ServerStep

(***************************************************************************)
(* Revocation.  A revoked row is never pending again, so the exchanges that *)
(* can still activate it had read it before Revoke and are in raced.        *)
(***************************************************************************)
Revocable(a) ==
    enrollment[a].revoked = TRUE =>
        /\ enrollment[a].status # "pending"
        /\ enrollment[a].status = "active" \/ request[a]["exchange"] > 0 => a \in raced

LEMMA RevocableStep ==
    ASSUME EnrollmentTypeOK, NEW a \in Agents, Revocable(a), CredentialStep(a)
    PROVE  Revocable(a)'
<1> USE DEF EnrollmentTypeOK
<1>0. /\ enrollment[a] \in EnrollmentRecord /\ "exchange" \in Kinds /\ "renewal" \in Kinds
      /\ \A kind \in Kinds : request[a][kind] \in Nat
  BY EnrollmentBounds DEF Kinds
<1>1. CASE IssueEnrollment(a) \/ DeleteEnrollment(a)
  <2>1. enrollment'[a].revoked = FALSE
    BY <1>1 DEF IssueEnrollment, DeleteEnrollment, NoEnrollment
  <2> QED BY <2>1 DEF Revocable
<1>2. CASE Revoke(a)
  <2> DEFINE x == [enrollment[a] EXCEPT !.status = "revoked", !.token = 0, !.revoked = TRUE]
  <2>1. x.status = "revoked"
    BY <1>0 DEF EnrollmentRecord
  <2>2. \/ enrollment' = enrollment
        \/ enrollment' = [enrollment EXCEPT ![a] = x]
    BY <1>2 DEF Revoke
  <2>3. request' = request /\ raced \subseteq raced' /\ (request[a]["exchange"] > 0 => a \in raced')
    BY <1>2 DEF Revoke
  <2> HIDE DEF x
  <2> QED BY <2>1, <2>2, <2>3 DEF Revocable
<1>3. ASSUME NEW kind \in Kinds, Read(a, kind), kind = "exchange" => enrollment[a].status = "pending"
      PROVE  Revocable(a)'
  <2>1. enrollment' = enrollment /\ raced' = raced
    BY <1>3 DEF Read
  <2>2. kind # "exchange" => request'[a]["exchange"] = request[a]["exchange"]
    BY <1>0, <1>3 DEF Read
  <2> QED BY <1>3, <2>1, <2>2 DEF Revocable
<1>4. ASSUME NEW kind \in Kinds, NEW status, Issue(a, kind, status), status # "pending" \/ enrollment[a].status = "pending",
             status = "active" => kind = "exchange" \/ enrollment[a].status = "active"
      PROVE  Revocable(a)'
  <2>1. Stored(a, kind, status)
    BY <1>4, IssueStores
  <2> DEFINE x == [enrollment[a] EXCEPT !.status = status, !.token = enrollment[a].issued + 1,
                                        !.issued = enrollment[a].issued + 1]
  <2>2. x.status = status /\ x.revoked = enrollment[a].revoked
    BY <1>0 DEF EnrollmentRecord
  <2>3. \/ enrollment' = enrollment
        \/ enrollment' = [enrollment EXCEPT ![a] = x]
    BY <2>1 DEF Stored
  <2>4. raced' = raced /\ request[a][kind] > 0 /\ request' = [request EXCEPT ![a][kind] = request[a][kind] - 1]
    BY <2>1 DEF Stored
  <2>5. request'[a]["exchange"] > 0 => request[a]["exchange"] > 0
    BY <1>0, <2>4
  <2> HIDE DEF x
  <2> QED BY <1>4, <2>2, <2>3, <2>4, <2>5 DEF Revocable
<1>5. CASE Receive(a) \/ LoseAnswer(a)
  BY <1>5 DEF Receive, LoseAnswer, Revocable
<1>6. CASE EnrollSave(a) \/ RenewSave(a)
  BY <1>0, <1>4, <1>6 DEF EnrollSave, RenewSave
<1>7. CASE EnrollRead(a) \/ RenewRead(a)
  BY <1>0, <1>3, <1>7 DEF EnrollRead, RenewRead
<1> QED BY <1>1, <1>2, <1>5, <1>6, <1>7 DEF CredentialStep, DaemonStep, ServerStep

LEMMA RevocableOthers ==
    ASSUME NEW b, Revocable(b), SameCredential(b)
    PROVE  Revocable(b)'
BY DEF Revocable, SameCredential

(***************************************************************************)
(* Lock-out.  A daemon that nothing disturbed has one request or one answer *)
(* under way, an exchange only before its row is active, and otherwise      *)
(* holds the token whose hash is stored, or is about to receive it.         *)
(***************************************************************************)
Undisturbed(a) ==
    a \notin disturbed =>
        /\ answer[a] = {} \/ request[a] = NoRequests
        /\ request[a]["exchange"] + request[a]["renewal"] <= 1
        /\ enrollment[a].status = "active" =>
               /\ request[a]["exchange"] = 0
               /\ answer[a] = {} => held[a] > 0 /\ held[a] = enrollment[a].token
               /\ answer[a] # {} => answer[a] = {enrollment[a].token}

LEMMA LastRequest ==
    ASSUME NEW f \in [Kinds -> Nat], NEW kind \in Kinds,
           f["exchange"] + f["renewal"] <= 1, f[kind] > 0
    PROVE  [f EXCEPT ![kind] = f[kind] - 1] = NoRequests
<1> DEFINE h == [f EXCEPT ![kind] = f[kind] - 1]
<1>1. "exchange" \in Kinds /\ "renewal" \in Kinds /\ kind \in {"exchange", "renewal"}
  BY DEF Kinds
<1>2. f["exchange"] \in Nat /\ f["renewal"] \in Nat
  BY <1>1
<1>3. h["exchange"] = 0 /\ h["renewal"] = 0
  <2>1. CASE kind = "exchange"
    BY <1>1, <1>2, <2>1
  <2>2. CASE kind = "renewal"
    BY <1>1, <1>2, <2>2
  <2> QED BY <1>1, <2>1, <2>2
<1> QED BY <1>3 DEF Kinds, NoRequests

LEMMA UndisturbedStep ==
    ASSUME EnrollmentTypeOK, NEW a \in Agents, Undisturbed(a), CredentialStep(a)
    PROVE  Undisturbed(a)'
<1> USE DEF EnrollmentTypeOK
<1>0. /\ enrollment[a] \in EnrollmentRecord /\ "exchange" \in Kinds /\ "renewal" \in Kinds
      /\ \A kind \in Kinds : request[a][kind] \in Nat /\ kind \in {"exchange", "renewal"}
      /\ request[a] \in [Kinds -> Nat]
      /\ NoRequests["exchange"] = 0 /\ NoRequests["renewal"] = 0
      /\ enrollment[a].issued \in Nat /\ answer[a] \subseteq 1..MaxTokens
  BY EnrollmentBounds DEF Kinds, EnrollmentRecord, NoRequests
<1>1. ASSUME a \in disturbed, disturbed \subseteq disturbed' PROVE Undisturbed(a)'
  BY <1>1 DEF Undisturbed
<1>2. CASE IssueEnrollment(a) \/ DeleteEnrollment(a) \/ Revoke(a)
  <2>1. UNCHANGED <<request, answer, disturbed>>
    BY <1>2 DEF IssueEnrollment, DeleteEnrollment, Revoke
  <2>2. enrollment'[a].status # "active" \/ (enrollment' = enrollment /\ held' = held)
    BY <1>0, <1>2 DEF IssueEnrollment, DeleteEnrollment, Revoke, NoEnrollment, EnrollmentRecord
  <2> QED BY <2>1, <2>2 DEF Undisturbed
<1>3. ASSUME NEW kind \in Kinds, Read(a, kind), kind = "exchange" => enrollment[a].status # "active"
      PROVE  Undisturbed(a)'
  <2>1. UNCHANGED <<enrollment, answer, held>>
    BY <1>3 DEF Read
  <2>2. a \in disturbed' \/ (request[a] = NoRequests /\ answer[a] = {} /\ a \notin disturbed)
    BY <1>3 DEF Read
  <2>3. request' = [request EXCEPT ![a][kind] = request[a][kind] + 1]
    BY <1>3 DEF Read
  <2>4. request[a] = NoRequests =>
           /\ request'[a]["exchange"] + request'[a]["renewal"] = 1
           /\ kind # "exchange" => request'[a]["exchange"] = 0
    BY <1>0, <2>3
  <2> QED BY <1>3, <2>1, <2>2, <2>4 DEF Undisturbed
<1>4. ASSUME NEW kind \in Kinds, NEW status, Stored(a, kind, status),
             kind = "exchange" \/ status = enrollment[a].status
      PROVE  Undisturbed(a)'
  <2>1. SUFFICES ASSUME a \notin disturbed PROVE Undisturbed(a)'
    BY <1>4 DEF Stored, Undisturbed
  <2> DEFINE x == [enrollment[a] EXCEPT !.status = status, !.token = enrollment[a].issued + 1,
                                        !.issued = enrollment[a].issued + 1]
  <2>2. x.status = status /\ x.token = enrollment[a].issued + 1
    BY <1>0 DEF EnrollmentRecord
  <2>3. /\ request[a][kind] > 0 /\ request' = [request EXCEPT ![a][kind] = request[a][kind] - 1]
        /\ UNCHANGED <<held, raced, disturbed>>
    BY <1>4 DEF Stored
  <2>4. /\ answer[a] = {}
        /\ request[a]["exchange"] + request[a]["renewal"] <= 1
        /\ enrollment[a].status = "active" =>
             request[a]["exchange"] = 0 /\ held[a] > 0 /\ held[a] = enrollment[a].token
    <3>1. request[a] # NoRequests
      BY <1>0, <2>3
    <3> QED BY <2>1, <3>1 DEF Undisturbed
  <2>5. request'[a] = NoRequests
    <3>1. request'[a] = [request[a] EXCEPT ![kind] = request[a][kind] - 1]
      BY <2>3
    <3> QED BY <1>0, <2>3, <2>4, <3>1, LastRequest
  <2>6. request'[a]["exchange"] = 0 /\ request'[a]["renewal"] = 0
    BY <1>0, <2>5
  <2>7. \/ enrollment' = enrollment /\ answer' = answer
        \/ /\ enrollment' = [enrollment EXCEPT ![a] = x]
           /\ answer' = [answer EXCEPT ![a] = answer[a] \union {enrollment[a].issued + 1}]
    BY <1>4 DEF Stored
  <2> HIDE DEF x
  <2>8. CASE enrollment' = enrollment /\ answer' = answer
    BY <2>3, <2>4, <2>5, <2>6, <2>8 DEF Undisturbed
  <2>9. CASE /\ enrollment' = [enrollment EXCEPT ![a] = x]
             /\ answer' = [answer EXCEPT ![a] = answer[a] \union {enrollment[a].issued + 1}]
    <3>1. enrollment'[a] = x /\ answer'[a] = {x.token} /\ answer'[a] # {}
      BY <2>2, <2>4, <2>9
    <3>2. request'[a]["exchange"] + request'[a]["renewal"] <= 1
      BY <2>6
    <3> QED BY <2>5, <2>6, <3>1, <3>2 DEF Undisturbed
  <2> QED BY <2>7, <2>8, <2>9
<1>5. CASE Receive(a)
  <2>1. PICK t \in answer[a] : /\ answer' = [answer EXCEPT ![a] = answer[a] \ {t}]
                              /\ held' = [held EXCEPT ![a] = t]
    BY <1>5 DEF Receive
  <2>2. UNCHANGED <<enrollment, request, disturbed>>
    BY <1>5 DEF Receive
  <2>3. answer'[a] = answer[a] \ {t} /\ held'[a] = t /\ t > 0
    BY <1>0, <2>1
  <2> QED BY <2>2, <2>3 DEF Undisturbed
<1>6. CASE LoseAnswer(a)
  BY <1>6 DEF LoseAnswer, Undisturbed
<1>7. CASE EnrollSave(a) \/ RenewSave(a)
  BY <1>0, <1>4, <1>7, IssueStores DEF EnrollSave, RenewSave
<1>8. CASE EnrollRead(a) \/ RenewRead(a)
  BY <1>0, <1>3, <1>8 DEF EnrollRead, RenewRead
<1> QED BY <1>2, <1>5, <1>6, <1>7, <1>8 DEF CredentialStep, DaemonStep, ServerStep

LEMMA UndisturbedOthers ==
    ASSUME NEW b, Undisturbed(b), SameCredential(b)
    PROVE  Undisturbed(b)'
BY DEF Undisturbed, SameCredential

\* What a specification that takes these steps one agent at a time keeps.
CredentialInv == EnrollmentTypeOK /\ \A a \in Agents : Revocable(a) /\ Undisturbed(a)

LEMMA CredentialInit == EnrollmentInit => CredentialInv
<1> SUFFICES ASSUME EnrollmentInit PROVE CredentialInv
  OBVIOUS
<1>1. NoEnrollment.status = "none" /\ NoEnrollment.revoked = FALSE
  BY DEF NoEnrollment
<1>2. NoRequests["exchange"] = 0 /\ NoRequests["renewal"] = 0
  BY DEF NoRequests, Kinds
<1> QED BY <1>1, <1>2, CredentialsInit DEF EnrollmentInit, CredentialInv, Revocable, Undisturbed

LEMMA CredentialInvStep ==
    ASSUME CredentialInv, (\E a \in Agents : CredentialStep(a)) \/ UNCHANGED credentials
    PROVE  CredentialInv'
<1>1. ASSUME NEW a \in Agents, CredentialStep(a) PROVE CredentialInv'
  <2>1. ASSUME NEW b \in Agents PROVE Revocable(b)' /\ Undisturbed(b)'
    BY <1>1, <2>1, RevocableStep, UndisturbedStep, OthersKeepCredential, RevocableOthers, UndisturbedOthers
       DEF CredentialInv
  <2> QED BY <1>1, <2>1, CredentialsType DEF CredentialInv
<1>2. ASSUME UNCHANGED credentials PROVE CredentialInv'
  <2>1. UNCHANGED <<enrollment, request, answer, held, raced, disturbed>>
    BY <1>2 DEF credentials
  <2> QED BY <2>1 DEF CredentialInv, EnrollmentTypeOK, Revocable, Undisturbed
<1> QED BY <1>1, <1>2

LEMMA CredentialsHold == CredentialInv => RevocationHolds /\ NotLockedOut
<1> SUFFICES ASSUME CredentialInv PROVE RevocationHolds /\ NotLockedOut
  OBVIOUS
<1>1. RevocationHolds
  BY DEF CredentialInv, Revocable, RevocationHolds, EnrollmentTypeOK, EnrollmentRecord
<1>2. NotLockedOut
  BY DEF CredentialInv, Undisturbed, NotLockedOut, Authenticate
<1> QED BY <1>1, <1>2
=============================================================================
