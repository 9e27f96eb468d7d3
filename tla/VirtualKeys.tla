---------------------------- MODULE VirtualKeys ----------------------------
(***************************************************************************)
(* The governance of virtual keys: the virtual_keys table of the control   *)
(* plane, the keys that live at one model gateway, the GraphQL handlers     *)
(* that change both (internal/graph/virtualkey.resolvers.go) and the keys   *)
(* phase of the reconciler (internal/reconcile/reconcile.go).               *)
(*                                                                          *)
(* A handler is a sequence of calls, to the database or to the gateway;     *)
(* each call is one action, so that handlers, the reconciler and crashes    *)
(* interleave between any two calls.  What a handler read stays in its      *)
(* local record until it answers: the row it loaded may since be stale.     *)
(*                                                                          *)
(* A key stands for the raw key and its hashed token: rows store both, a    *)
(* listing names a key by either, and the reconciler compares with both.    *)
(***************************************************************************)
EXTENDS Naturals, FiniteSets

CONSTANTS
    Rows,       \* ids of virtual_keys rows; an id is used once
    Keys,       \* raw keys the gateway can mint; a key is minted once
    Names,      \* names of keys
    Agents,     \* agents a key can be bound to
    Handlers,   \* concurrent request handlers, of all replicas
    NoRow, NoKey, NoName, NoAgent, NoArg,
    Ops,        \* the mutations clients send
    Reconciling,\* whether a reconcile interval is configured
    MaxFaults,  \* bound on lost calls, failed writes and crashes
    MaxPurges   \* bound on purgeRevokedVirtualKeys calls

AllOps == {"issue", "revoke", "regenerate", "set_enabled", "associate"}

ASSUME OpsAssumption == Ops \subseteq AllOps /\ Reconciling \in BOOLEAN
ASSUME BoundsAssumption == MaxFaults \in Nat /\ MaxPurges \in Nat
ASSUME NullsAssumption ==
    NoRow \notin Rows /\ NoKey \notin Keys /\ NoName \notin Names /\ NoAgent \notin Agents

VARIABLES
    row,        \* the virtual_keys table
    gate,       \* the keys of the gateway
    handler,    \* local state of each handler
    rec,        \* local state of the reconciler's keys phase
    faults,     \* environment faults so far
    purges      \* purges so far

vars == <<row, gate, handler, rec, faults, purges>>

(***************************************************************************)
(* Rows.  An id not used yet has status "none", a purged one "purged".      *)
(***************************************************************************)
Unrevoked == {"active", "disabled"}
Stored    == Unrevoked \union {"revoked"}

EmptyRow == [status |-> "none", key |-> NoKey, name |-> NoName, agent |-> NoAgent]
PurgedRow == [EmptyRow EXCEPT !.status = "purged"]

RowRecord ==
    [status : Stored, key : Keys, name : Names, agent : Agents \union {NoAgent}]
        \union {EmptyRow, PurgedRow}

\* The two partial unique indexes: among the rows that are not revoked a name
\* occurs once (per gateway) and so does an agent; a NULL agent is no agent.
NameFree(n, r)  == \A q \in Rows \ {r} : row[q].status \in Unrevoked => row[q].name # n
AgentFree(a, r) == \A q \in Rows \ {r} :
                      (row[q].status \in Unrevoked /\ a # NoAgent) => row[q].agent # a

\* Mutant: the table without its partial indexes.
AdmissibleUnindexed(r, c) == TRUE

\* Whether the database accepts row r with contents c.
Admissible(r, c) == c.status \in Unrevoked => NameFree(c.name, r) /\ AgentFree(c.agent, r)

(***************************************************************************)
(* The gateway.  A live key serves requests; a blocked one is kept but      *)
(* rejected; "gone" is a key deleted or rotated away.                       *)
(***************************************************************************)
AtGateway == {k \in Keys : gate[k] \in {"live", "blocked"}}

Idle == [pc |-> "idle", row |-> NoRow, key |-> NoKey, arg |-> NoArg]

HandlerRecord ==
    {Idle}
    \union [pc : {"generate"}, row : {NoRow}, key : {NoKey}, arg : Names]
    \union [pc : {"create", "compensate"}, row : {NoRow}, key : Keys, arg : Names]
    \union [pc : {"delete_key", "mark_revoked", "regenerate", "store_key"},
            row : Rows, key : Keys, arg : {NoArg}]
    \union [pc : {"update_key", "store_status"}, row : Rows, key : Keys, arg : Unrevoked]
    \union [pc : {"bind"}, row : Rows, key : {NoKey}, arg : Agents]

RecRecord == [pc : {"idle", "list", "delete"}, snap : [Rows -> RowRecord],
              todo : SUBSET Keys]

RecIdle == [pc |-> "idle", snap |-> [r \in Rows |-> EmptyRow], todo |-> {}]

TypeOK ==
    /\ row \in [Rows -> RowRecord]
    /\ gate \in [Keys -> {"unminted", "live", "blocked", "gone"}]
    /\ handler \in [Handlers -> HandlerRecord]
    /\ rec \in RecRecord
    /\ faults \in 0..MaxFaults
    /\ purges \in 0..MaxPurges

Init ==
    /\ row = [r \in Rows |-> EmptyRow]
    /\ gate = [k \in Keys |-> "unminted"]
    /\ handler = [h \in Handlers |-> Idle]
    /\ rec = RecIdle
    /\ faults = 0
    /\ purges = 0

(***************************************************************************)
(* Steps of a handler                                                       *)
(***************************************************************************)
At(h, pc)       == handler[h].pc = pc
Begin(h, local) == At(h, "idle") /\ handler' = [handler EXCEPT ![h] = local]
Goto(h, pc)     == handler' = [handler EXCEPT ![h].pc = pc]
Answer(h)       == handler' = [handler EXCEPT ![h] = Idle]

NoFault    == faults' = faults
Fault      == faults < MaxFaults /\ faults' = faults + 1
Rest(h)    == UNCHANGED <<rec, purges>>

\* A write of row r by primary key: applied when the row is stored and the
\* indexes admit it, refused otherwise.
Writable(r, c) == row[r].status \in Stored /\ Admissible(r, c)
WriteRow(r, c) == row' = [row EXCEPT ![r] = c]

(***************************************************************************)
(* DeleteKey at the gateway: applied and confirmed, lost before or after    *)
(* it was applied, or sent for a key the gateway does not have: then the    *)
(* answer is the gateway's choice, an error (404) or a success.             *)
(***************************************************************************)
DeleteKeyOk(k)   == gate' = [gate EXCEPT ![k] = IF k \in AtGateway THEN "gone" ELSE @] /\ NoFault
DeleteKeyErr(k)  ==
    \/ k \notin AtGateway /\ UNCHANGED gate /\ NoFault
    \/ Fault /\ \/ UNCHANGED gate
                \/ gate' = [gate EXCEPT ![k] = IF k \in AtGateway THEN "gone" ELSE @]

(***************************************************************************)
(* issueVirtualKey: mint at the gateway, then store the governance row; a   *)
(* row that cannot be stored is compensated by deleting the key.            *)
(***************************************************************************)
Issue(h, n) ==
    /\ "issue" \in Ops
    /\ Begin(h, [pc |-> "generate", row |-> NoRow, key |-> NoKey, arg |-> n])
    /\ UNCHANGED <<row, gate, faults>> /\ Rest(h)

IssueGenerate(h) ==
    /\ At(h, "generate")
    /\ \/ \E k \in Keys :
             /\ gate[k] = "unminted"
             /\ gate' = [gate EXCEPT ![k] = "live"]
             /\ \/ handler' = [handler EXCEPT ![h].pc = "create", ![h].key = k] /\ NoFault
                \/ Answer(h) /\ Fault          \* minted, but the answer or its check is lost
       \/ UNCHANGED gate /\ Answer(h) /\ Fault
    /\ UNCHANGED row /\ Rest(h)

\* Mutant: the row is stored before the minted key is known.
NewRowWithoutKey(h) ==
    [status |-> "active", key |-> NoKey, name |-> handler[h].arg, agent |-> NoAgent]

NewRow(h) == [status |-> "active", key |-> handler[h].key, name |-> handler[h].arg,
              agent |-> NoAgent]

IssueCreate(h) ==
    /\ At(h, "create")
    /\ \E r \in Rows :
          /\ row[r].status = "none"
          /\ \/ Admissible(r, NewRow(h)) /\ WriteRow(r, NewRow(h)) /\ Answer(h) /\ NoFault
             \/ ~Admissible(r, NewRow(h)) /\ UNCHANGED row /\ Goto(h, "compensate") /\ NoFault
             \/ UNCHANGED row /\ Goto(h, "compensate") /\ Fault
    /\ UNCHANGED gate /\ Rest(h)

\* Mutant: a row that cannot be stored leaves its key behind.
IssueCompensateForgotten(h) ==
    /\ At(h, "compensate")
    /\ Answer(h)
    /\ UNCHANGED <<row, gate, faults>> /\ Rest(h)

IssueCompensate(h) ==
    /\ At(h, "compensate")
    /\ DeleteKeyOk(handler[h].key) \/ DeleteKeyErr(handler[h].key)   \* a failure is only logged
    /\ Answer(h)
    /\ UNCHANGED row /\ Rest(h)

(***************************************************************************)
(* revokeVirtualKey: the gateway first, then the row.  The status of the    *)
(* loaded row is not looked at.                                             *)
(***************************************************************************)
Revoke(h, r) ==
    /\ "revoke" \in Ops
    /\ row[r].status \in Stored
    /\ Begin(h, [pc |-> "delete_key", row |-> r, key |-> row[r].key, arg |-> NoArg])
    /\ UNCHANGED <<row, gate, faults>> /\ Rest(h)

RevokeAtGateway(h) ==
    /\ At(h, "delete_key")
    /\ \/ DeleteKeyOk(handler[h].key) /\ Goto(h, "mark_revoked")
       \/ DeleteKeyErr(handler[h].key) /\ Answer(h)
    /\ UNCHANGED row /\ Rest(h)

\* Mutant: the key is deleted at the gateway and the row keeps its status.
RevokeStoreForgotten(h) ==
    /\ At(h, "mark_revoked")
    /\ Answer(h)
    /\ UNCHANGED <<row, gate, faults>> /\ Rest(h)

RevokeStore(h) ==
    /\ At(h, "mark_revoked")
    /\ LET r == handler[h].row
           c == [row[r] EXCEPT !.status = "revoked"]
       IN  \/ Writable(r, c) /\ WriteRow(r, c) /\ NoFault
           \/ ~Writable(r, c) /\ UNCHANGED row /\ NoFault
           \/ UNCHANGED row /\ Fault
    /\ Answer(h)
    /\ UNCHANGED gate /\ Rest(h)

(***************************************************************************)
(* regenerateVirtualKey: the gateway replaces the secret of the loaded key  *)
(* (a blocked key stays blocked), then the new one is stored in the row,    *)
(* whose status is neither read again nor written.                          *)
(***************************************************************************)
Regenerate(h, r) ==
    /\ "regenerate" \in Ops
    /\ row[r].status \in Unrevoked
    /\ Begin(h, [pc |-> "regenerate", row |-> r, key |-> row[r].key, arg |-> NoArg])
    /\ UNCHANGED <<row, gate, faults>> /\ Rest(h)

Rotate(old, new) == gate' = [gate EXCEPT ![old] = "gone", ![new] = gate[old]]

RegenerateAtGateway(h) ==
    /\ At(h, "regenerate")
    /\ LET old == handler[h].key
       IN  \/ \E new \in Keys :
                 /\ old \in AtGateway /\ gate[new] = "unminted"
                 /\ Rotate(old, new)
                 /\ \/ handler' = [handler EXCEPT ![h].pc = "store_key", ![h].key = new] /\ NoFault
                    \/ Answer(h) /\ Fault
           \/ old \notin AtGateway /\ UNCHANGED gate /\ Answer(h) /\ NoFault
           \/ UNCHANGED gate /\ Answer(h) /\ Fault
    /\ UNCHANGED row /\ Rest(h)

\* Mutant: the update loses its WHERE id = r.
RegenerateStoreEverywhere(h) ==
    /\ At(h, "store_key")
    /\ row' = [r \in Rows |-> IF row[r].status \in Stored
                              THEN [row[r] EXCEPT !.key = handler[h].key] ELSE row[r]]
    /\ Answer(h)
    /\ UNCHANGED <<gate, faults>> /\ Rest(h)

\* Mutant: the whole loaded row is saved, with the status it had when loaded.
RegenerateStoreLoaded(h) ==
    /\ At(h, "store_key")
    /\ LET r == handler[h].row
           c == [row[r] EXCEPT !.key = handler[h].key, !.status = "active"]
       IN  IF Writable(r, c) THEN WriteRow(r, c) ELSE UNCHANGED row
    /\ Answer(h)
    /\ UNCHANGED <<gate, faults>> /\ Rest(h)

RegenerateStore(h) ==
    /\ At(h, "store_key")
    /\ LET r == handler[h].row
           c == [row[r] EXCEPT !.key = handler[h].key]
       IN  \/ Writable(r, c) /\ WriteRow(r, c) /\ NoFault
           \/ ~Writable(r, c) /\ UNCHANGED row /\ NoFault
           \/ UNCHANGED row /\ Fault
    /\ Answer(h)
    /\ UNCHANGED gate /\ Rest(h)

(***************************************************************************)
(* setVirtualKeyEnabled: block or unblock the loaded key at the gateway,    *)
(* then write the wanted status over whatever the row holds by then.        *)
(***************************************************************************)
SetEnabled(h, r, status) ==
    /\ "set_enabled" \in Ops
    /\ row[r].status \in Unrevoked
    /\ Begin(h, [pc |-> "update_key", row |-> r, key |-> row[r].key, arg |-> status])
    /\ UNCHANGED <<row, gate, faults>> /\ Rest(h)

SetEnabledAtGateway(h) ==
    /\ At(h, "update_key")
    /\ LET k  == handler[h].key
           to == IF handler[h].arg = "active" THEN "live" ELSE "blocked"
       IN  \/ k \in AtGateway /\ gate' = [gate EXCEPT ![k] = to]
              /\ Goto(h, "store_status") /\ NoFault
           \/ k \in AtGateway /\ gate' = [gate EXCEPT ![k] = to] /\ Answer(h) /\ Fault
           \/ k \notin AtGateway /\ UNCHANGED gate /\ Answer(h) /\ NoFault
           \/ UNCHANGED gate /\ Answer(h) /\ Fault
    /\ UNCHANGED row /\ Rest(h)

SetEnabledStore(h) ==
    /\ At(h, "store_status")
    /\ LET r == handler[h].row
           c == [row[r] EXCEPT !.status = handler[h].arg]
       IN  \/ Writable(r, c) /\ WriteRow(r, c) /\ NoFault
           \/ ~Writable(r, c) /\ UNCHANGED row /\ NoFault
           \/ UNCHANGED row /\ Fault
    /\ Answer(h)
    /\ UNCHANGED gate /\ Rest(h)

(***************************************************************************)
(* associateVirtualKeyAgent: a friendly check that no other unrevoked key   *)
(* holds the agent, then the write, which the index has the last word on.   *)
(***************************************************************************)
Associate(h, r, a) ==
    /\ "associate" \in Ops
    /\ row[r].status \in Stored
    /\ AgentFree(a, r)
    /\ Begin(h, [pc |-> "bind", row |-> r, key |-> NoKey, arg |-> a])
    /\ UNCHANGED <<row, gate, faults>> /\ Rest(h)

AssociateStore(h) ==
    /\ At(h, "bind")
    /\ LET r == handler[h].row
           c == [row[r] EXCEPT !.agent = handler[h].arg]
       IN  \/ Writable(r, c) /\ WriteRow(r, c) /\ NoFault
           \/ ~Writable(r, c) /\ UNCHANGED row /\ NoFault
           \/ UNCHANGED row /\ Fault
    /\ Answer(h)
    /\ UNCHANGED gate /\ Rest(h)

\* purgeRevokedVirtualKeys: one DELETE of the revoked rows older than a past
\* instant; any set of revoked rows may be the older ones.
Purge ==
    /\ purges < MaxPurges
    /\ \E old \in SUBSET {r \in Rows : row[r].status = "revoked"} :
          /\ old # {}
          /\ row' = [r \in Rows |-> IF r \in old THEN PurgedRow ELSE row[r]]
    /\ purges' = purges + 1
    /\ UNCHANGED <<gate, handler, rec, faults>>

(***************************************************************************)
(* The reconciler's keys phase: a snapshot of the rows, then the gateway's  *)
(* listing, then one DELETE per revoked row whose key is listed.            *)
(***************************************************************************)
ReconcileTargets ==
    /\ Reconciling
    /\ rec.pc = "idle"
    /\ rec' = [rec EXCEPT !.pc = "list", !.snap = row]
    /\ UNCHANGED <<row, gate, handler, faults, purges>>

SnapRows(snap)    == {r \in Rows : snap[r].status \in Stored}
SnapKeys(snap)    == {snap[r].key : r \in SnapRows(snap)}
Orphans(snap, ks) == ks \ SnapKeys(snap)                                   \* Drift A
StaleRows(snap, ks) == {r \in SnapRows(snap) : snap[r].status # "revoked" /\ snap[r].key \notin ks}

\* Mutant: Drift C does not look at the status of the row.
DriftCAnyStatus(snap, ks) == SnapKeys(snap) \intersect ks

\* Mutant: Drift C takes the listed keys that have no row.
DriftCOrphans(snap, ks) == Orphans(snap, ks)

\* Drift C: the listed keys of the revoked rows.
DriftC(snap, ks) == {snap[r].key : r \in {q \in SnapRows(snap) : snap[q].status = "revoked"}} \intersect ks

\* The mass-delete guard.
AllUnmatched(snap, ks) == ks # {} /\ Orphans(snap, ks) = ks /\ SnapRows(snap) # {}
CanDelete(snap, ks) ==
    ~(AllUnmatched(snap, ks) \/ (ks = {} /\ StaleRows(snap, ks) # {}))

ReconcileList ==
    /\ rec.pc = "list"
    /\ \/ /\ rec' = [pc   |-> "delete",
                     snap |-> RecIdle.snap,
                     todo |-> IF CanDelete(rec.snap, AtGateway) THEN DriftC(rec.snap, AtGateway) ELSE {}]
          /\ NoFault
       \/ rec' = RecIdle /\ Fault              \* the listing failed: the phase is over
    /\ UNCHANGED <<row, gate, handler, purges>>

ReconcileDelete ==
    /\ rec.pc = "delete"
    /\ \E k \in rec.todo :
          /\ DeleteKeyOk(k) \/ DeleteKeyErr(k)
          /\ rec' = [rec EXCEPT !.todo = @ \ {k}]
    /\ UNCHANGED <<row, handler, purges>>

ReconcileDone ==
    /\ rec.pc = "delete" /\ rec.todo = {}
    /\ rec' = RecIdle
    /\ UNCHANGED <<row, gate, handler, faults, purges>>

\* The process of a handler, or the one that runs the reconciler, dies.
Crash ==
    /\ Fault
    /\ \/ \E h \in Handlers : ~At(h, "idle") /\ Answer(h) /\ UNCHANGED rec
       \/ rec.pc # "idle" /\ rec' = RecIdle /\ UNCHANGED handler
    /\ UNCHANGED <<row, gate, purges>>

HandlerStep(h) ==
    \/ IssueGenerate(h) \/ IssueCreate(h) \/ IssueCompensate(h)
    \/ RevokeAtGateway(h) \/ RevokeStore(h)
    \/ RegenerateAtGateway(h) \/ RegenerateStore(h)
    \/ SetEnabledAtGateway(h) \/ SetEnabledStore(h)
    \/ AssociateStore(h)

Request(h) ==
    \/ \E n \in Names : Issue(h, n)
    \/ \E r \in Rows : \/ Revoke(h, r)
                       \/ Regenerate(h, r)
                       \/ \E s \in Unrevoked : SetEnabled(h, r, s)
                       \/ \E a \in Agents : Associate(h, r, a)

ReconcileStep == ReconcileTargets \/ ReconcileList \/ ReconcileDelete \/ ReconcileDone

Next ==
    \/ \E h \in Handlers : Request(h) \/ HandlerStep(h)
    \/ ReconcileStep
    \/ Purge
    \/ Crash

\* The ticker loop starts cycle after cycle and a handler runs to its end;
\* nothing makes a client send a request.
Fairness == WF_vars(ReconcileStep) /\ \A h \in Handlers : WF_vars(HandlerStep(h))

Spec     == Init /\ [][Next]_vars
FairSpec == Spec /\ Fairness
-----------------------------------------------------------------------------
(***************************************************************************)
(* What the governance promises                                             *)
(***************************************************************************)

\* An agent has at most one key that is not revoked, and so has a name: the
\* resolver's check and its write are two calls, and a revoked row can be
\* written by a handler that loaded it earlier; the partial indexes decide.
ActiveKeysUnique ==
    \A r, q \in Rows :
        (r # q /\ row[r].status \in Unrevoked /\ row[q].status \in Unrevoked) =>
            /\ row[r].name # row[q].name
            /\ row[r].agent = row[q].agent => row[r].agent = NoAgent

\* The key a handler has at the gateway and not yet (or not any more) in a row.
InFlight(k) == \E h \in Handlers : /\ handler[h].key = k
                                  /\ handler[h].pc \in {"create", "compensate", "store_key"}

Governed(k) == \E r \in Rows : row[r].status \in Stored /\ row[r].key = k

\* No key serves requests behind the platform's back: while nothing fails and
\* no row is purged, a key at the gateway has its row, or a handler that is
\* about to store it or to delete it.
LiveKeysGoverned ==
    (faults = 0 /\ purges = 0) => \A k \in AtGateway : Governed(k) \/ InFlight(k)

\* The keys the reconciler is about to delete, chosen from a snapshot that is
\* stale by now, belong to no row that is in service: no stale snapshot kills
\* the key of an active agent.
DoomedKeysAreRevoked ==
    \A k \in rec.todo : \A r \in Rows : row[r].key = k => row[r].status \notin Unrevoked

\* Two rows never share a key, however regenerations and revocations of the
\* same rows interleave.
KeysNotShared ==
    \A r, q \in Rows : (r # q /\ row[r].key = row[q].key) => row[r].key = NoKey

\* While nothing fails, a row that says active and that no handler works on
\* has a key that serves requests: revocations, regenerations and the
\* reconciler's deletions overlap without taking the key of an active row.
ActiveKeysWork ==
    \A r \in Rows :
        (faults = 0 /\ row[r].status = "active" /\ \A h \in Handlers : handler[h].row # r)
            => gate[row[r].key] = "live"

\* "status=revoked (terminal)": a revoked row is never put back in service.
RevokedIsTerminal ==
    [][\A r \in Rows : row[r].status = "revoked" => row'[r].status \in {"revoked", "purged"}]_vars

\* A key of a revoked row that is still at the gateway is found and deleted by
\* the reconciler, unless the row is written again or purged first.
RevokedKeysDie ==
    \A r \in Rows, k \in Keys :
        (row[r].status = "revoked" /\ row[r].key = k /\ k \in AtGateway)
            ~> (k \notin AtGateway \/ row[r].status # "revoked" \/ row[r].key # k)
=============================================================================
