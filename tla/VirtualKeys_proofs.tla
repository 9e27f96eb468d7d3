------------------------- MODULE VirtualKeys_proofs -------------------------
(* Theorems about VirtualKeys, for every value of its constants. *)
EXTENDS VirtualKeys, TLAPS

\* What the type invariant says of a handler at each place of its code.
LEMMA HandlerShapes ==
    ASSUME TypeOK, NEW h \in Handlers
    PROVE  /\ DOMAIN handler = Handlers
           /\ At(h, "generate") => handler[h].arg \in Names /\ handler[h].row = NoRow
           /\ handler[h].pc \in {"create", "compensate"} =>
                 handler[h].key \in Keys /\ handler[h].arg \in Names /\ handler[h].row = NoRow
           /\ handler[h].pc \in {"delete_key", "mark_revoked", "regenerate", "store_key"} =>
                 handler[h].row \in Rows /\ handler[h].key \in Keys /\ handler[h].arg = NoArg
           /\ handler[h].pc \in {"update_key", "store_status"} =>
                 handler[h].row \in Rows /\ handler[h].key \in Keys /\ handler[h].arg \in Unrevoked
           /\ At(h, "bind") => handler[h].row \in Rows /\ handler[h].arg \in Agents
           /\ handler[h] = [pc |-> handler[h].pc, row |-> handler[h].row,
                            key |-> handler[h].key, arg |-> handler[h].arg]
BY DEF TypeOK, HandlerRecord, Idle, At

\* A row that is stored has a key, a name and maybe an agent.
LEMMA RowShapes ==
    ASSUME TypeOK, NEW r \in Rows
    PROVE  /\ row[r] \in RowRecord
           /\ row[r].status \in Stored =>
                 /\ row[r] \in [status : Stored, key : Keys, name : Names,
                                agent : Agents \union {NoAgent}]
           /\ row[r].key \in Keys \union {NoKey}
           /\ row[r].key = NoKey => row[r].status \notin Stored
BY NullsAssumption DEF TypeOK, RowRecord, Stored, Unrevoked, EmptyRow, PurgedRow

\* The type invariant is inductive on its own.
LEMMA TypeStep == TypeOK /\ [Next]_vars => TypeOK'
<1> SUFFICES ASSUME TypeOK, [Next]_vars PROVE TypeOK'
    OBVIOUS
<1> USE DEF Unrevoked, Stored
<1>1. ASSUME NEW h \in Handlers, Request(h) PROVE TypeOK'
  <2>1. handler' \in [Handlers -> HandlerRecord]
    <3>1. CASE \E n \in Names : Issue(h, n)
      BY <3>1 DEF Issue, Begin, HandlerRecord, TypeOK
    <3>2. CASE \E r \in Rows : Revoke(h, r)
      BY <3>2, RowShapes DEF Revoke, Begin, HandlerRecord, TypeOK
    <3>3. CASE \E r \in Rows : Regenerate(h, r)
      BY <3>3, RowShapes DEF Regenerate, Begin, HandlerRecord, TypeOK
    <3>4. CASE \E r \in Rows, s \in Unrevoked : SetEnabled(h, r, s)
      BY <3>4, RowShapes DEF SetEnabled, Begin, HandlerRecord, TypeOK
    <3>5. CASE \E r \in Rows, a \in Agents : Associate(h, r, a)
      BY <3>5, RowShapes DEF Associate, Begin, HandlerRecord, TypeOK
    <3> QED BY <1>1, <3>1, <3>2, <3>3, <3>4, <3>5 DEF Request
  <2>2. UNCHANGED <<row, gate, faults, rec, purges>>
    BY <1>1 DEF Request, Issue, Revoke, Regenerate, SetEnabled, Associate, Rest
  <2> QED BY <2>1, <2>2 DEF TypeOK
<1>2. ASSUME NEW h \in Handlers, HandlerStep(h) PROVE TypeOK'
  <2> USE DEF At
  <2>1. UNCHANGED <<rec, purges>>
    BY <1>2 DEF HandlerStep, IssueGenerate, IssueCreate, IssueCompensate, RevokeAtGateway,
        RevokeStore, RegenerateAtGateway, RegenerateStore, SetEnabledAtGateway,
        SetEnabledStore, AssociateStore, Rest
  <2>2. faults' \in 0..MaxFaults
    BY <1>2, BoundsAssumption DEF HandlerStep, IssueGenerate, IssueCreate, IssueCompensate,
        RevokeAtGateway, RevokeStore, RegenerateAtGateway, RegenerateStore,
        SetEnabledAtGateway, SetEnabledStore, AssociateStore, NoFault, Fault, DeleteKeyOk,
        DeleteKeyErr, TypeOK
  <2>3. CASE IssueGenerate(h)
    <3>1. handler' \in [Handlers -> HandlerRecord]
      BY <2>3, HandlerShapes DEF IssueGenerate, Answer, Idle, HandlerRecord, TypeOK
    <3>2. row' \in [Rows -> RowRecord] /\ gate' \in [Keys -> {"unminted", "live", "blocked", "gone"}]
      BY <2>3 DEF IssueGenerate, TypeOK
    <3> QED BY <2>1, <2>2, <3>1, <3>2 DEF TypeOK
  <2>4. CASE IssueCreate(h)
    <3>1. handler' \in [Handlers -> HandlerRecord]
      BY <2>4, HandlerShapes DEF IssueCreate, Answer, Goto, Idle, HandlerRecord, TypeOK
    <3>2. NewRow(h) \in RowRecord
      BY <2>4, HandlerShapes DEF IssueCreate, NewRow, RowRecord
    <3>3. row' \in [Rows -> RowRecord] /\ gate' = gate
      BY <2>4, <3>2 DEF IssueCreate, WriteRow, TypeOK
    <3> QED BY <2>1, <2>2, <3>1, <3>3 DEF TypeOK
  <2>5. CASE IssueCompensate(h) \/ RevokeAtGateway(h)
    <3>1. handler' \in [Handlers -> HandlerRecord]
      BY <2>5, HandlerShapes DEF IssueCompensate, RevokeAtGateway, Answer, Goto, Idle, HandlerRecord, TypeOK
    <3>2. row' = row /\ gate' \in [Keys -> {"unminted", "live", "blocked", "gone"}]
      BY <2>5 DEF IssueCompensate, RevokeAtGateway, DeleteKeyOk, DeleteKeyErr, AtGateway, TypeOK
    <3> QED BY <2>1, <2>2, <3>1, <3>2 DEF TypeOK
  <2>6. CASE RevokeStore(h) \/ RegenerateStore(h) \/ SetEnabledStore(h) \/ AssociateStore(h)
    <3>1. handler' \in [Handlers -> HandlerRecord] /\ gate' = gate
      BY <2>6 DEF RevokeStore, RegenerateStore, SetEnabledStore, AssociateStore, Answer,
          HandlerRecord, TypeOK
    <3>2. row' \in [Rows -> RowRecord]
      <4>1. CASE RevokeStore(h)
        BY <4>1, HandlerShapes, RowShapes DEF RevokeStore, Writable, WriteRow, RowRecord, TypeOK
      <4>2. CASE RegenerateStore(h)
        BY <4>2, HandlerShapes, RowShapes DEF RegenerateStore, Writable, WriteRow, RowRecord, TypeOK
      <4>3. CASE SetEnabledStore(h)
        BY <4>3, HandlerShapes, RowShapes DEF SetEnabledStore, Writable, WriteRow, RowRecord, TypeOK
      <4>4. CASE AssociateStore(h)
        BY <4>4, HandlerShapes, RowShapes DEF AssociateStore, Writable, WriteRow, RowRecord, TypeOK
      <4> QED BY <2>6, <4>1, <4>2, <4>3, <4>4
    <3> QED BY <2>1, <2>2, <3>1, <3>2 DEF TypeOK
  <2>7. CASE RegenerateAtGateway(h)
    <3>1. handler' \in [Handlers -> HandlerRecord]
      BY <2>7, HandlerShapes DEF RegenerateAtGateway, Answer, Idle, HandlerRecord, TypeOK
    <3>2. row' = row /\ gate' \in [Keys -> {"unminted", "live", "blocked", "gone"}]
      BY <2>7 DEF RegenerateAtGateway, Rotate, AtGateway, TypeOK
    <3> QED BY <2>1, <2>2, <3>1, <3>2 DEF TypeOK
  <2>8. CASE SetEnabledAtGateway(h)
    <3>1. handler' \in [Handlers -> HandlerRecord]
      BY <2>8, HandlerShapes DEF SetEnabledAtGateway, Answer, Goto, Idle, HandlerRecord, TypeOK
    <3>2. row' = row /\ gate' \in [Keys -> {"unminted", "live", "blocked", "gone"}]
      BY <2>8 DEF SetEnabledAtGateway, AtGateway, TypeOK
    <3> QED BY <2>1, <2>2, <3>1, <3>2 DEF TypeOK
  <2> QED BY <1>2, <2>3, <2>4, <2>5, <2>6, <2>7, <2>8 DEF HandlerStep
<1>3. CASE ReconcileStep
  <2>1. CASE ReconcileTargets
    BY <2>1 DEF ReconcileTargets, TypeOK, RecRecord
  <2>2. CASE ReconcileList
    <3>1. rec' \in RecRecord
      BY <2>2 DEF ReconcileList, RecIdle, RecRecord, DriftC, AtGateway, RowRecord, TypeOK
    <3> QED BY <2>2, <3>1, BoundsAssumption DEF ReconcileList, NoFault, Fault, TypeOK
  <2>3. CASE ReconcileDelete
    <3>1. rec' \in RecRecord
      BY <2>3 DEF ReconcileDelete, RecRecord, TypeOK
    <3> QED BY <2>3, <3>1, BoundsAssumption DEF ReconcileDelete, DeleteKeyOk, DeleteKeyErr, NoFault,
              Fault, AtGateway, TypeOK
  <2>4. CASE ReconcileDone
    BY <2>4 DEF ReconcileDone, RecIdle, RecRecord, RowRecord, TypeOK
  <2> QED BY <1>3, <2>1, <2>2, <2>3, <2>4 DEF ReconcileStep
<1>4. CASE Purge
  BY <1>4, BoundsAssumption DEF Purge, RowRecord, TypeOK
<1>5. CASE Crash
  BY <1>5, BoundsAssumption DEF Crash, Fault, Answer, RecIdle, RecRecord, RowRecord, HandlerRecord, TypeOK
<1>6. CASE UNCHANGED vars
  BY <1>6 DEF vars, TypeOK
<1> QED BY <1>1, <1>2, <1>3, <1>4, <1>5, <1>6 DEF Next

\* Every state the program reaches is well formed.
THEOREM TypeCorrect == Spec => []TypeOK
<1>1. Init => TypeOK
  BY BoundsAssumption DEF Init, TypeOK, RowRecord, HandlerRecord, RecIdle, RecRecord
<1> QED BY <1>1, TypeStep, PTL DEF Spec

-----------------------------------------------------------------------------
(***************************************************************************)
(* How a step changes the table: not at all, by one write the indexes       *)
(* admit, or by a purge.                                                    *)
(***************************************************************************)
LEMMA RowSteps ==
    ASSUME TypeOK, [Next]_vars
    PROVE  \/ row' = row
           \/ \E r \in Rows : \E c \in RowRecord : Admissible(r, c) /\ WriteRow(r, c)
           \/ Purge
<1> USE DEF Unrevoked, Stored, At
<1>1. ASSUME NEW h \in Handlers, Request(h) PROVE row' = row
  BY <1>1 DEF Request, Issue, Revoke, Regenerate, SetEnabled, Associate
<1>2. ASSUME NEW h \in Handlers, HandlerStep(h)
      PROVE  row' = row \/ \E r \in Rows : \E c \in RowRecord : Admissible(r, c) /\ WriteRow(r, c)
  <2>1. CASE IssueCreate(h)
    <3>1. NewRow(h) \in RowRecord
      BY <2>1, HandlerShapes DEF IssueCreate, NewRow, RowRecord
    <3> QED BY <2>1, <3>1 DEF IssueCreate
  <2>2. CASE RevokeStore(h)
    <3> DEFINE r == handler[h].row
               c == [row[r] EXCEPT !.status = "revoked"]
    <3>0. r \in Rows
      BY <2>2, HandlerShapes DEF RevokeStore
    <3>1. Writable(r, c) => c \in RowRecord
      BY <2>2, <3>0, RowShapes DEF RevokeStore, Writable, RowRecord
    <3>2. row' = row \/ (Writable(r, c) /\ WriteRow(r, c))
      BY <2>2 DEF RevokeStore
    <3>3. Writable(r, c) => Admissible(r, c)
      BY DEF Writable
    <3> HIDE DEF r, c
    <3> QED BY <3>0, <3>1, <3>2, <3>3
  <2>3. CASE RegenerateStore(h)
    <3> DEFINE r == handler[h].row
               c == [row[r] EXCEPT !.key = handler[h].key]
    <3>0. r \in Rows
      BY <2>3, HandlerShapes DEF RegenerateStore
    <3>1. Writable(r, c) => c \in RowRecord
      BY <2>3, <3>0, HandlerShapes, RowShapes DEF RegenerateStore, Writable, RowRecord
    <3>2. row' = row \/ (Writable(r, c) /\ WriteRow(r, c))
      BY <2>3 DEF RegenerateStore
    <3>3. Writable(r, c) => Admissible(r, c)
      BY DEF Writable
    <3> HIDE DEF r, c
    <3> QED BY <3>0, <3>1, <3>2, <3>3
  <2>4. CASE SetEnabledStore(h)
    <3> DEFINE r == handler[h].row
               c == [row[r] EXCEPT !.status = handler[h].arg]
    <3>0. r \in Rows
      BY <2>4, HandlerShapes DEF SetEnabledStore
    <3>1. Writable(r, c) => c \in RowRecord
      BY <2>4, <3>0, HandlerShapes, RowShapes DEF SetEnabledStore, Writable, RowRecord
    <3>2. row' = row \/ (Writable(r, c) /\ WriteRow(r, c))
      BY <2>4 DEF SetEnabledStore
    <3>3. Writable(r, c) => Admissible(r, c)
      BY DEF Writable
    <3> HIDE DEF r, c
    <3> QED BY <3>0, <3>1, <3>2, <3>3
  <2>5. CASE AssociateStore(h)
    <3> DEFINE r == handler[h].row
               c == [row[r] EXCEPT !.agent = handler[h].arg]
    <3>0. r \in Rows
      BY <2>5, HandlerShapes DEF AssociateStore
    <3>1. Writable(r, c) => c \in RowRecord
      BY <2>5, <3>0, HandlerShapes, RowShapes DEF AssociateStore, Writable, RowRecord
    <3>2. row' = row \/ (Writable(r, c) /\ WriteRow(r, c))
      BY <2>5 DEF AssociateStore
    <3>3. Writable(r, c) => Admissible(r, c)
      BY DEF Writable
    <3> HIDE DEF r, c
    <3> QED BY <3>0, <3>1, <3>2, <3>3
  <2>6. CASE IssueGenerate(h) \/ IssueCompensate(h) \/ RevokeAtGateway(h)
             \/ RegenerateAtGateway(h) \/ SetEnabledAtGateway(h)
    BY <2>6 DEF IssueGenerate, IssueCompensate, RevokeAtGateway, RegenerateAtGateway,
        SetEnabledAtGateway
  <2> QED BY <1>2, <2>1, <2>2, <2>3, <2>4, <2>5, <2>6 DEF HandlerStep
<1>3. CASE ReconcileStep
  BY <1>3 DEF ReconcileStep, ReconcileTargets, ReconcileList, ReconcileDelete, ReconcileDone
<1>4. CASE Crash \/ UNCHANGED vars
  BY <1>4 DEF Crash, vars
<1> QED BY <1>1, <1>2, <1>3, <1>4 DEF Next

LEMMA UniqueStep == TypeOK /\ ActiveKeysUnique /\ [Next]_vars => ActiveKeysUnique'
<1> SUFFICES ASSUME TypeOK, ActiveKeysUnique, [Next]_vars PROVE ActiveKeysUnique'
    OBVIOUS
<1>1. CASE row' = row
  BY <1>1 DEF ActiveKeysUnique
<1>2. ASSUME NEW r \in Rows, NEW c \in RowRecord, Admissible(r, c), WriteRow(r, c)
      PROVE  ActiveKeysUnique'
  <2>1. row' = [row EXCEPT ![r] = c] /\ DOMAIN row = Rows
    BY <1>2 DEF WriteRow, TypeOK
  <2>2. c.status \in Unrevoked =>
          \A q \in Rows \ {r} : row[q].status \in Unrevoked =>
              /\ row[q].name # c.name
              /\ row[q].agent = c.agent => c.agent = NoAgent
    BY <1>2 DEF Admissible, NameFree, AgentFree
  <2> QED BY <2>1, <2>2 DEF ActiveKeysUnique
<1>3. CASE Purge
  BY <1>3 DEF Purge, ActiveKeysUnique, PurgedRow, EmptyRow, Unrevoked, TypeOK
<1> QED BY <1>1, <1>2, <1>3, RowSteps

\* However the handlers of the resolvers interleave, two keys in service never
\* have the same name nor the same agent.
THEOREM ActiveKeysAreUnique == Spec => []ActiveKeysUnique
<1>1. Init => ActiveKeysUnique
  BY DEF Init, ActiveKeysUnique, EmptyRow, Unrevoked
<1>2. Spec => []TypeOK
  BY TypeCorrect
<1> QED BY <1>1, <1>2, UniqueStep, PTL DEF Spec

-----------------------------------------------------------------------------
(***************************************************************************)
(* The mass-delete guard of the reconciler.  When it forbids deletions,     *)
(* none of the listed keys belongs to a row of the snapshot, so there was   *)
(* nothing to delete: the guard changes no cycle.                           *)
(***************************************************************************)
THEOREM MassDeleteGuardIsIdle ==
    ASSUME NEW snap, NEW ks, ~CanDelete(snap, ks)
    PROVE  DriftC(snap, ks) = {}
<1>1. DriftC(snap, ks) \subseteq SnapKeys(snap) \intersect ks
  BY DEF DriftC, SnapKeys
<1>2. CASE AllUnmatched(snap, ks)
  BY <1>1, <1>2 DEF AllUnmatched, Orphans
<1>3. CASE ks = {}
  BY <1>1, <1>3
<1> QED BY <1>2, <1>3 DEF CanDelete

-----------------------------------------------------------------------------
(***************************************************************************)
(* Custody.  A key is minted once and from then on has at most one place:   *)
(* one row, or one handler that is to store it or to delete it.             *)
(***************************************************************************)
Carries(h) == handler[h].pc \in {"create", "compensate", "store_key"}

Minted(k) == gate[k] # "unminted"

KeyCustody ==
    /\ \A r \in Rows : row[r].key # NoKey => Minted(row[r].key)
    /\ \A h \in Handlers : handler[h].key # NoKey => Minted(handler[h].key)
    /\ \A h \in Handlers, r \in Rows : Carries(h) => row[r].key # handler[h].key
    /\ \A h, g \in Handlers : (h # g /\ Carries(h) /\ Carries(g)) => handler[h].key # handler[g].key
    /\ KeysNotShared

\* No step takes a key back to unminted, and a fresh key had no place.
LEMMA MintedForever ==
    ASSUME TypeOK, [Next]_vars, NEW k \in Keys, Minted(k)
    PROVE  Minted(k)'
<1>1. ASSUME NEW h \in Handlers, Request(h) PROVE gate' = gate
  BY <1>1 DEF Request, Issue, Revoke, Regenerate, SetEnabled, Associate
<1>2. ASSUME NEW h \in Handlers, HandlerStep(h) PROVE Minted(k)'
  <2>1. CASE RegenerateAtGateway(h)
    BY <2>1, HandlerShapes DEF RegenerateAtGateway, Rotate, AtGateway, Minted, TypeOK, At
  <2>2. CASE IssueGenerate(h)
    BY <2>2 DEF IssueGenerate, Minted, TypeOK
  <2>3. CASE IssueCompensate(h) \/ RevokeAtGateway(h)
    BY <2>3 DEF IssueCompensate, RevokeAtGateway, DeleteKeyOk, DeleteKeyErr, Minted, AtGateway, TypeOK
  <2>4. CASE SetEnabledAtGateway(h)
    BY <2>4 DEF SetEnabledAtGateway, Minted, TypeOK
  <2>5. CASE IssueCreate(h) \/ RevokeStore(h) \/ RegenerateStore(h) \/ SetEnabledStore(h) \/ AssociateStore(h)
    BY <2>5 DEF IssueCreate, RevokeStore, RegenerateStore, SetEnabledStore, AssociateStore, Minted
  <2> QED BY <1>2, <2>1, <2>2, <2>3, <2>4, <2>5 DEF HandlerStep
<1>3. CASE ReconcileStep
  BY <1>3 DEF ReconcileStep, ReconcileTargets, ReconcileList, ReconcileDelete, ReconcileDone,
      DeleteKeyOk, DeleteKeyErr, AtGateway, Minted, TypeOK
<1>4. CASE Purge \/ Crash \/ UNCHANGED vars
  BY <1>4 DEF Purge, Crash, vars, Minted
<1> QED BY <1>1, <1>2, <1>3, <1>4 DEF Next, Minted

LEMMA CustodyStep == TypeOK /\ KeyCustody /\ [Next]_vars => KeyCustody'
<1> SUFFICES ASSUME TypeOK, KeyCustody, [Next]_vars PROVE KeyCustody'
    OBVIOUS
<1> USE DEF At
<1>m. \A k \in Keys : Minted(k) => Minted(k)'
  BY MintedForever
<1>k. /\ \A r \in Rows : row[r].key \in Keys \union {NoKey}
      /\ \A h \in Handlers : handler[h].key \in Keys \union {NoKey}
      /\ DOMAIN handler = Handlers /\ DOMAIN row = Rows
      /\ NoKey \notin Keys
  <2>1. \A h \in Handlers : handler[h].key \in Keys \union {NoKey}
    BY DEF TypeOK, HandlerRecord, Idle
  <2> QED BY <2>1, RowShapes, NullsAssumption DEF TypeOK
<1>1. ASSUME NEW h \in Handlers, Request(h) PROVE KeyCustody'
  <2>1. row' = row /\ gate' = gate
    BY <1>1 DEF Request, Issue, Revoke, Regenerate, SetEnabled, Associate
  <2>2. /\ handler'[h].pc \in {"generate", "delete_key", "regenerate", "update_key", "bind"}
        /\ handler'[h].key = NoKey \/ \E r \in Rows : handler'[h].key = row[r].key
        /\ \A g \in Handlers \ {h} : handler'[g] = handler[g]
    <3>1. CASE \E n \in Names : Issue(h, n)
      BY <1>k, <3>1 DEF Issue, Begin
    <3>2. CASE \E r \in Rows : Revoke(h, r)
      BY <1>k, <3>2 DEF Revoke, Begin
    <3>3. CASE \E r \in Rows : Regenerate(h, r)
      BY <1>k, <3>3 DEF Regenerate, Begin
    <3>4. CASE \E r \in Rows, s \in Unrevoked : SetEnabled(h, r, s)
      BY <1>k, <3>4 DEF SetEnabled, Begin
    <3>5. CASE \E r \in Rows, a \in Agents : Associate(h, r, a)
      BY <1>k, <3>5 DEF Associate, Begin
    <3> QED BY <1>1, <3>1, <3>2, <3>3, <3>4, <3>5 DEF Request
  <2> QED BY <2>1, <2>2, <1>k, <1>m DEF KeyCustody, Carries, KeysNotShared, Minted
<1>2. ASSUME NEW h \in Handlers, HandlerStep(h) PROVE KeyCustody'
  <2>1. CASE IssueGenerate(h)
    <3>1. row' = row
      BY <2>1 DEF IssueGenerate
    <3>2. CASE Answer(h)
      BY <3>1, <3>2, <1>k, <1>m DEF Answer, Idle, KeyCustody, Carries, KeysNotShared
    <3>3. CASE \E k \in Keys : /\ ~Minted(k) /\ gate' = [gate EXCEPT ![k] = "live"]
                               /\ handler' = [handler EXCEPT ![h].pc = "create", ![h].key = k]
      <4> PICK k \in Keys : /\ ~Minted(k) /\ gate' = [gate EXCEPT ![k] = "live"]
                            /\ handler' = [handler EXCEPT ![h].pc = "create", ![h].key = k]
        BY <3>3
      <4>1. Minted(k)'
        BY DEF Minted, TypeOK
      <4>2. \A r \in Rows : row[r].key # k
        BY <1>k DEF KeyCustody
      <4>3. \A g \in Handlers : handler[g].key # k
        BY <1>k DEF KeyCustody
      <4>4. handler'[h].key = k /\ \A g \in Handlers \ {h} : handler'[g] = handler[g]
        BY <1>k DEF TypeOK, HandlerRecord, Idle
      <4> QED BY <3>1, <4>1, <4>2, <4>3, <4>4, <1>k, <1>m DEF KeyCustody, Carries, KeysNotShared
    <3> QED BY <2>1, <3>2, <3>3 DEF IssueGenerate, Minted
  <2>2. CASE IssueCreate(h)
    <3>1. gate' = gate
      BY <2>2 DEF IssueCreate
    <3>2. CASE row' = row /\ Goto(h, "compensate")
      BY <2>2, <3>1, <3>2, <1>k, <1>m, HandlerShapes DEF Goto, IssueCreate, KeyCustody, Carries, KeysNotShared
    <3>3. CASE Answer(h) /\ \E r \in Rows : WriteRow(r, NewRow(h))
      <4> PICK r \in Rows : WriteRow(r, NewRow(h))
        BY <3>3
      <4>1. row'[r].key = handler[h].key /\ \A q \in Rows \ {r} : row'[q] = row[q]
        BY <1>k DEF WriteRow, NewRow
      <4>2. Carries(h)
        BY <2>2 DEF IssueCreate, Carries
      <4>3. handler'[h] = Idle /\ \A g \in Handlers \ {h} : handler'[g] = handler[g]
        BY <3>3, <1>k DEF Answer
      <4> QED BY <4>1, <4>2, <4>3, <1>k, <1>m DEF KeyCustody, Carries, KeysNotShared, Idle
    <3> QED BY <2>2, <3>2, <3>3 DEF IssueCreate
  <2>3. CASE RegenerateAtGateway(h)
    <3>1. row' = row
      BY <2>3 DEF RegenerateAtGateway
    <3>2. CASE Answer(h)
      BY <3>1, <3>2, <1>k, <1>m DEF Answer, Idle, KeyCustody, Carries, KeysNotShared
    <3>3. CASE \E k \in Keys : /\ ~Minted(k) /\ handler[h].key \in AtGateway /\ Rotate(handler[h].key, k)
                               /\ handler' = [handler EXCEPT ![h].pc = "store_key", ![h].key = k]
      <4> PICK k \in Keys : /\ ~Minted(k) /\ handler[h].key \in AtGateway /\ Rotate(handler[h].key, k)
                            /\ handler' = [handler EXCEPT ![h].pc = "store_key", ![h].key = k]
        BY <3>3
      <4>1. Minted(k)'
        BY DEF Minted, Rotate, AtGateway, TypeOK
      <4>2. \A r \in Rows : row[r].key # k
        BY <1>k DEF KeyCustody
      <4>3. \A g \in Handlers : handler[g].key # k
        BY <1>k DEF KeyCustody
      <4>4. handler'[h].key = k /\ \A g \in Handlers \ {h} : handler'[g] = handler[g]
        BY <1>k DEF TypeOK, HandlerRecord, Idle
      <4> QED BY <3>1, <4>1, <4>2, <4>3, <4>4, <1>k, <1>m DEF KeyCustody, Carries, KeysNotShared
    <3> QED BY <2>3, <3>2, <3>3 DEF RegenerateAtGateway, Minted
  <2>4. CASE RegenerateStore(h)
    <3>1. handler'[h] = Idle /\ \A g \in Handlers \ {h} : handler'[g] = handler[g]
      BY <2>4, <1>k DEF RegenerateStore, Answer
    <3>2. CASE row' = row
      BY <3>1, <3>2, <1>k, <1>m DEF Idle, KeyCustody, Carries, KeysNotShared
    <3>3. CASE WriteRow(handler[h].row, [row[handler[h].row] EXCEPT !.key = handler[h].key])
      <4> DEFINE r == handler[h].row
      <4>1. r \in Rows /\ Carries(h)
        BY <2>4, HandlerShapes DEF RegenerateStore, Carries
      <4>2. row'[r].key = handler[h].key /\ \A q \in Rows \ {r} : row'[q] = row[q]
        BY <3>3, <4>1, <1>k DEF WriteRow, TypeOK, RowRecord, EmptyRow, PurgedRow
      <4> HIDE DEF r
      <4> QED BY <3>1, <4>1, <4>2, <1>k, <1>m DEF KeyCustody, Carries, KeysNotShared, Idle
    <3> QED BY <2>4, <3>2, <3>3 DEF RegenerateStore
  <2>5. CASE RevokeStore(h) \/ SetEnabledStore(h) \/ AssociateStore(h)
    <3>1. handler'[h] = Idle /\ \A g \in Handlers \ {h} : handler'[g] = handler[g]
      BY <2>5, <1>k DEF RevokeStore, SetEnabledStore, AssociateStore, Answer
    <3>2. row' = row \/ \E r \in Rows : \E c : c.key = row[r].key /\ WriteRow(r, c)
      <4>1. /\ handler[h].row \in Rows
            /\ row[handler[h].row].status \in Stored => row[handler[h].row] \in
                   [status : Stored, key : Keys, name : Names, agent : Agents \union {NoAgent}]
        BY <2>5, HandlerShapes, RowShapes DEF RevokeStore, SetEnabledStore, AssociateStore
      <4>2. CASE RevokeStore(h)
        BY <4>1, <4>2 DEF RevokeStore, Writable
      <4>3. CASE SetEnabledStore(h)
        BY <4>1, <4>3 DEF SetEnabledStore, Writable
      <4>4. CASE AssociateStore(h)
        BY <4>1, <4>4 DEF AssociateStore, Writable
      <4> QED BY <2>5, <4>2, <4>3, <4>4
    <3>3. \A r \in Rows : row'[r].key = row[r].key
      BY <3>2, <1>k DEF WriteRow
    <3> QED BY <3>1, <3>3, <1>k, <1>m DEF Idle, KeyCustody, Carries, KeysNotShared
  <2>6. CASE IssueCompensate(h) \/ RevokeAtGateway(h) \/ SetEnabledAtGateway(h)
    <3>1. row' = row
      BY <2>6 DEF IssueCompensate, RevokeAtGateway, SetEnabledAtGateway
    <3>2. /\ handler'[h].key \in {handler[h].key, NoKey}
          /\ handler'[h].pc \in {"idle", "mark_revoked", "store_status"}
          /\ \A g \in Handlers \ {h} : handler'[g] = handler[g]
      BY <2>6, <1>k DEF IssueCompensate, RevokeAtGateway, SetEnabledAtGateway, Answer, Goto, Idle, TypeOK, HandlerRecord
    <3> QED BY <3>1, <3>2, <1>k, <1>m DEF KeyCustody, Carries, KeysNotShared
  <2> QED BY <1>2, <2>1, <2>2, <2>3, <2>4, <2>5, <2>6 DEF HandlerStep
<1>3. CASE ReconcileStep \/ UNCHANGED vars
  <2>1. row' = row /\ handler' = handler
    BY <1>3 DEF ReconcileStep, ReconcileTargets, ReconcileList, ReconcileDelete, ReconcileDone, vars
  <2> QED BY <2>1, <1>k, <1>m DEF KeyCustody, Carries, KeysNotShared
<1>4. CASE Purge
  <2>0. PurgedRow.key = NoKey
    BY DEF PurgedRow, EmptyRow
  <2>1. handler' = handler /\ \A r \in Rows : row'[r] \in {row[r], PurgedRow}
    BY <1>4 DEF Purge
  <2>2. \A h \in Handlers : Carries(h) => handler[h].key # NoKey
    BY HandlerShapes, <1>k DEF Carries
  <2> QED BY <2>0, <2>1, <2>2, <1>k, <1>m DEF KeyCustody, Carries, KeysNotShared, Minted
<1>5. CASE Crash
  <2>1. row' = row
    BY <1>5 DEF Crash
  <2>2. \A g \in Handlers : handler'[g] = handler[g] \/ handler'[g] = Idle
    BY <1>5, <1>k DEF Crash, Answer
  <2> QED BY <2>1, <2>2, <1>k, <1>m DEF KeyCustody, Carries, KeysNotShared, Idle
<1> QED BY <1>1, <1>2, <1>3, <1>4, <1>5 DEF Next

\* Every key is in one place, so two rows never hold the same key.
THEOREM KeysAreNotShared == Spec => []KeysNotShared
<1>1. Init => KeyCustody
  <2> SUFFICES ASSUME Init PROVE KeyCustody
    OBVIOUS
  <2>1. /\ \A r \in Rows : row[r].key = NoKey
        /\ \A h \in Handlers : handler[h].key = NoKey /\ handler[h].pc = "idle"
    BY DEF Init, EmptyRow, Idle
  <2> QED BY <2>1 DEF KeyCustody, Carries, KeysNotShared
<1>2. Spec => []TypeOK
  BY TypeCorrect
<1>3. KeyCustody => KeysNotShared
  BY DEF KeyCustody
<1> QED BY <1>1, <1>2, <1>3, CustodyStep, PTL DEF Spec

-----------------------------------------------------------------------------
(***************************************************************************)
(* Without setVirtualKeyEnabled.  Its last write puts a status over a row   *)
(* that may have been revoked since; where clients never send it, no        *)
(* handler writes a status other than "revoked".                            *)
(***************************************************************************)
NoToggle == \A h \in Handlers : handler[h].pc \notin {"update_key", "store_status"}

LEMMA NoToggleStep ==
    ASSUME "set_enabled" \notin Ops, TypeOK, NoToggle, [Next]_vars
    PROVE  NoToggle'
<1> USE DEF At
<1>k. DOMAIN handler = Handlers /\ \A h \in Handlers : DOMAIN handler[h] = {"pc", "row", "key", "arg"}
  BY DEF TypeOK, HandlerRecord, Idle
<1>1. ASSUME NEW h \in Handlers, Request(h) PROVE NoToggle'
  BY <1>1, <1>k DEF Request, Issue, Revoke, Regenerate, SetEnabled, Associate, Begin, NoToggle
<1>2. ASSUME NEW h \in Handlers, HandlerStep(h) PROVE NoToggle'
  <2>1. CASE IssueGenerate(h) \/ RegenerateAtGateway(h)
    BY <2>1, <1>k DEF IssueGenerate, RegenerateAtGateway, Answer, Idle, NoToggle
  <2>2. CASE IssueCreate(h) \/ IssueCompensate(h) \/ RevokeAtGateway(h)
    BY <2>2, <1>k DEF IssueCreate, IssueCompensate, RevokeAtGateway, Answer, Goto, Idle, NoToggle
  <2>3. CASE RevokeStore(h) \/ RegenerateStore(h) \/ AssociateStore(h)
    BY <2>3, <1>k DEF RevokeStore, RegenerateStore, AssociateStore, Answer, Idle, NoToggle
  <2>4. CASE SetEnabledAtGateway(h) \/ SetEnabledStore(h)
    BY <2>4 DEF SetEnabledAtGateway, SetEnabledStore, NoToggle
  <2> QED BY <1>2, <2>1, <2>2, <2>3, <2>4 DEF HandlerStep
<1>3. CASE ReconcileStep \/ Purge \/ UNCHANGED vars
  BY <1>3 DEF ReconcileStep, ReconcileTargets, ReconcileList, ReconcileDelete, ReconcileDone,
      Purge, vars, NoToggle
<1>4. CASE Crash
  BY <1>4, <1>k DEF Crash, Answer, Idle, NoToggle
<1> QED BY <1>1, <1>2, <1>3, <1>4 DEF Next

\* What a step does to one row: it leaves the key and the status, revokes the
\* row, purges a revoked row, or stores in it the key its handler carries.
LEMMA RowFate ==
    ASSUME TypeOK, NoToggle, [Next]_vars, NEW r \in Rows
    PROVE  \/ row'[r].key = row[r].key /\ row'[r].status = row[r].status
           \/ row'[r].key = row[r].key /\ row'[r].status = "revoked" /\ row[r].status \in Stored
           \/ row'[r] = PurgedRow /\ row[r].status = "revoked"
           \/ /\ row'[r].status = IF row[r].status = "none" THEN "active" ELSE row[r].status
              /\ \E h \in Handlers : Carries(h) /\ row'[r].key = handler[h].key
<1> USE DEF At
<1>k. DOMAIN row = Rows
  BY DEF TypeOK
<1>1. ASSUME NEW h \in Handlers, Request(h) PROVE row' = row
  BY <1>1 DEF Request, Issue, Revoke, Regenerate, SetEnabled, Associate
<1>2. ASSUME NEW h \in Handlers, IssueCreate(h), NEW q \in Rows, row[q].status = "none",
             WriteRow(q, NewRow(h))
      PROVE  \/ row'[r] = row[r]
             \/ /\ row'[r].status = IF row[r].status = "none" THEN "active" ELSE row[r].status
                /\ Carries(h) /\ row'[r].key = handler[h].key
  BY <1>2, <1>k DEF IssueCreate, WriteRow, NewRow, Carries
<1>3. ASSUME NEW h \in Handlers, HandlerStep(h), ~IssueCreate(h), row' # row
      PROVE  LET q == handler[h].row
             IN  /\ q \in Rows
                 /\ row[q].status \in Stored
                 /\ \/ WriteRow(q, [row[q] EXCEPT !.status = "revoked"])
                    \/ WriteRow(q, [row[q] EXCEPT !.key = handler[h].key]) /\ Carries(h)
                    \/ WriteRow(q, [row[q] EXCEPT !.agent = handler[h].arg])
  <2>1. CASE RevokeStore(h)
    BY <1>3, <2>1, HandlerShapes DEF RevokeStore, Writable
  <2>2. CASE RegenerateStore(h)
    BY <1>3, <2>2, HandlerShapes DEF RegenerateStore, Writable, Carries
  <2>3. CASE AssociateStore(h)
    BY <1>3, <2>3, HandlerShapes DEF AssociateStore, Writable
  <2>4. CASE SetEnabledAtGateway(h) \/ SetEnabledStore(h)
    BY <2>4 DEF SetEnabledAtGateway, SetEnabledStore, NoToggle
  <2>5. CASE IssueGenerate(h) \/ IssueCompensate(h) \/ RevokeAtGateway(h) \/ RegenerateAtGateway(h)
    BY <1>3, <2>5 DEF IssueGenerate, IssueCompensate, RevokeAtGateway, RegenerateAtGateway
  <2> QED BY <1>3, <2>1, <2>2, <2>3, <2>4, <2>5 DEF HandlerStep
<1>4. CASE ReconcileStep \/ Crash \/ UNCHANGED vars
  BY <1>4 DEF ReconcileStep, ReconcileTargets, ReconcileList, ReconcileDelete, ReconcileDone, Crash, vars
<1>5. CASE Purge
  BY <1>5 DEF Purge
<1>6. ASSUME NEW h \in Handlers, HandlerStep(h), ~IssueCreate(h), row' # row
      PROVE  \/ row'[r].key = row[r].key /\ row'[r].status = row[r].status
             \/ row'[r].key = row[r].key /\ row'[r].status = "revoked" /\ row[r].status \in Stored
             \/ /\ row'[r].status = row[r].status /\ row[r].status # "none"
                /\ Carries(h) /\ row'[r].key = handler[h].key
  <2> DEFINE q == handler[h].row
  <2>0. /\ q \in Rows /\ row[q].status \in Stored
        /\ row[q] \in [status : Stored, key : Keys, name : Names, agent : Agents \union {NoAgent}]
    BY <1>3, <1>6, RowShapes
  <2>1. CASE WriteRow(q, [row[q] EXCEPT !.status = "revoked"])
    BY <2>0, <2>1, <1>k DEF WriteRow
  <2>2. CASE WriteRow(q, [row[q] EXCEPT !.key = handler[h].key]) /\ Carries(h)
    BY <2>0, <2>2, <1>k DEF WriteRow, Stored, Unrevoked
  <2>3. CASE WriteRow(q, [row[q] EXCEPT !.agent = handler[h].arg])
    BY <2>0, <2>3, <1>k DEF WriteRow
  <2> QED BY <1>3, <1>6, <2>1, <2>2, <2>3
<1>7. ASSUME NEW h \in Handlers, IssueCreate(h), row' # row
      PROVE  \E q \in Rows : row[q].status = "none" /\ WriteRow(q, NewRow(h))
  BY <1>7 DEF IssueCreate
<1> QED BY <1>1, <1>2, <1>4, <1>5, <1>6, <1>7 DEF Next

\* A revoked row is never put back in service, where enabling is not offered.
THEOREM RevocationIsTerminal ==
    ASSUME "set_enabled" \notin Ops
    PROVE  Spec => RevokedIsTerminal
<1>1. Init => NoToggle
  BY DEF Init, Idle, NoToggle
<1>2. TypeOK /\ NoToggle /\ [Next]_vars => NoToggle'
  BY NoToggleStep
<1>3. TypeOK /\ NoToggle /\ [Next]_vars =>
          [\A r \in Rows : row[r].status = "revoked" => row'[r].status \in {"revoked", "purged"}]_vars
  BY RowFate DEF PurgedRow, EmptyRow
<1>4. Spec => []TypeOK
  BY TypeCorrect
<1> QED BY <1>1, <1>2, <1>3, <1>4, PTL DEF Spec, RevokedIsTerminal

(***************************************************************************)
(* The reconciler deletes by key, from a snapshot.  The keys it has chosen, *)
(* or may choose from the snapshot it holds, stay minted, stay out of the   *)
(* hands of the handlers and stay with revoked rows.                        *)
(***************************************************************************)
Chosen(k) == k \in rec.todo \/ \E r \in Rows : rec.snap[r].status = "revoked" /\ rec.snap[r].key = k

ChosenAreDead ==
    \A k \in Keys : Chosen(k) =>
        /\ Minted(k)
        /\ \A r \in Rows : row[r].key = k => row[r].status \notin Unrevoked
        /\ \A h \in Handlers : Carries(h) => handler[h].key # k

LEMMA ChosenStep ==
    ASSUME TypeOK, NoToggle, KeyCustody, ChosenAreDead, [Next]_vars
    PROVE  ChosenAreDead'
<1> USE DEF At
<1>k. DOMAIN handler = Handlers /\ NoKey \notin Keys
  BY NullsAssumption DEF TypeOK
\* A key that is chosen and minted before the step is kept by the step.
<1>1. ASSUME NEW k \in Keys, Minted(k),
             \A r \in Rows : row[r].key = k => row[r].status \notin Unrevoked,
             \A h \in Handlers : Carries(h) => handler[h].key # k
      PROVE  /\ Minted(k)'
             /\ \A r \in Rows : row'[r].key = k => row'[r].status \notin Unrevoked
             /\ \A h \in Handlers : Carries(h)' => handler'[h].key # k
  <2>1. Minted(k)'
    BY <1>1, MintedForever
  <2>2. ASSUME NEW r \in Rows, row'[r].key = k PROVE row'[r].status \notin Unrevoked
    BY <1>1, <1>k, <2>2, RowFate DEF PurgedRow, EmptyRow, Unrevoked
  <2>3. ASSUME NEW h \in Handlers, Carries(h)' PROVE handler'[h].key # k
    <3>1. CASE handler'[h] = handler[h]
      BY <1>1, <2>3, <3>1 DEF Carries
    <3>2. CASE \E g \in Handlers : Request(g) /\ handler'[h] # handler[h]
      <4>1. h \in Handlers /\ handler'[h].pc \in {"generate", "delete_key", "regenerate", "update_key", "bind"}
        BY <3>2, <1>k DEF Request, Issue, Revoke, Regenerate, SetEnabled, Associate, Begin
      <4> QED BY <2>3, <4>1 DEF Carries
    <3>3. CASE \E g \in Handlers : HandlerStep(g) /\ handler'[h] # handler[h]
      <4>1. PICK g \in Handlers : HandlerStep(g) /\ handler'[h] # handler[h]
        BY <3>3
      <4>2. g = h
        BY <4>1, <1>k DEF HandlerStep, IssueGenerate, IssueCreate, IssueCompensate,
            RevokeAtGateway, RevokeStore, RegenerateAtGateway, RegenerateStore,
            SetEnabledAtGateway, SetEnabledStore, AssociateStore, Answer, Goto
      <4>3. CASE IssueGenerate(h) \/ RegenerateAtGateway(h)
        <5>1. handler'[h] = Idle \/ \E n \in Keys : ~Minted(n) /\ handler'[h].key = n
          <6>1. CASE IssueGenerate(h)
            BY <6>1, <1>k DEF IssueGenerate, Answer, Minted, TypeOK, HandlerRecord, Idle
          <6>2. CASE RegenerateAtGateway(h)
            BY <4>1, <4>2, <6>2, <1>k DEF RegenerateAtGateway, Answer, Minted, TypeOK, HandlerRecord, Idle
          <6> QED BY <4>3, <6>1, <6>2
        <5> QED BY <1>1, <2>3, <5>1 DEF Carries, Idle
      <4>4. CASE IssueCreate(h)
        <5>1. handler'[h].key = handler[h].key \/ handler'[h] = Idle
          BY <4>4, <1>k, HandlerShapes DEF IssueCreate, Answer, Goto
        <5>2. Carries(h)
          BY <4>4 DEF IssueCreate, Carries
        <5> QED BY <1>1, <2>3, <5>1, <5>2 DEF Carries, Idle
      <4>5. CASE IssueCompensate(h) \/ RevokeAtGateway(h) \/ SetEnabledAtGateway(h) \/ RevokeStore(h)
                  \/ RegenerateStore(h) \/ SetEnabledStore(h) \/ AssociateStore(h)
        <5>1. handler'[h] = Idle \/ handler'[h].pc \in {"mark_revoked", "store_status"}
          BY <4>5, <1>k, HandlerShapes DEF IssueCompensate, RevokeAtGateway, SetEnabledAtGateway,
              RevokeStore, RegenerateStore, SetEnabledStore, AssociateStore, Answer, Goto
        <5> QED BY <2>3, <5>1 DEF Carries, Idle
      <4> QED BY <4>1, <4>2, <4>3, <4>4, <4>5 DEF HandlerStep
    <3>4. CASE ReconcileStep \/ Purge \/ Crash \/ UNCHANGED vars
      <4>1. handler'[h] = handler[h] \/ handler'[h] = Idle
        BY <3>4, <1>k DEF ReconcileStep, ReconcileTargets, ReconcileList, ReconcileDelete, ReconcileDone,
            Purge, Crash, Answer, vars
      <4> QED BY <1>1, <2>3, <4>1 DEF Carries, Idle
    <3> QED BY <3>1, <3>2, <3>3, <3>4 DEF Next
  <2> QED BY <2>1, <2>2, <2>3
\* The snapshot starts as the table, where a revoked row is the only one with its key.
<1>2. ASSUME NEW k \in Keys, Chosen(k)', ~Chosen(k)
      PROVE  \E r \in Rows : row[r].status = "revoked" /\ row[r].key = k /\ row' = row /\ handler' = handler
  <2>1. CASE ReconcileTargets
    BY <1>2, <2>1 DEF ReconcileTargets, Chosen, TypeOK, RecRecord
  <2>2. CASE ReconcileList
    BY <1>2, <2>2 DEF ReconcileList, Chosen, DriftC, SnapRows, RecIdle, EmptyRow, TypeOK, RecRecord
  <2>3. CASE ReconcileDelete
    BY <1>2, <2>3 DEF ReconcileDelete, Chosen, TypeOK, RecRecord
  <2>4. CASE rec' = rec \/ rec' = RecIdle
    BY <1>2, <2>4 DEF Chosen, RecIdle, EmptyRow
  <2>5. rec' = rec \/ rec' = RecIdle \/ ReconcileTargets \/ ReconcileList \/ ReconcileDelete
    BY DEF Next, vars, Request, Issue, Revoke, Regenerate, SetEnabled, Associate, HandlerStep,
        IssueGenerate, IssueCreate, IssueCompensate, RevokeAtGateway, RevokeStore,
        RegenerateAtGateway, RegenerateStore, SetEnabledAtGateway, SetEnabledStore,
        AssociateStore, Rest, ReconcileStep, ReconcileDone, Purge, Crash
  <2> QED BY <2>1, <2>2, <2>3, <2>4, <2>5
<1>3. ASSUME NEW k \in Keys, NEW r \in Rows, row[r].status = "revoked", row[r].key = k
      PROVE  /\ Minted(k)
             /\ \A q \in Rows : row[q].key = k => row[q].status \notin Unrevoked
             /\ \A h \in Handlers : Carries(h) => handler[h].key # k
  BY <1>3, <1>k DEF KeyCustody, KeysNotShared, Unrevoked
<1>4. ASSUME NEW k \in Keys, Chosen(k)'
      PROVE  /\ Minted(k)
             /\ \A q \in Rows : row[q].key = k => row[q].status \notin Unrevoked
             /\ \A h \in Handlers : Carries(h) => handler[h].key # k
  BY <1>2, <1>3, <1>4 DEF ChosenAreDead
<1> QED BY <1>1, <1>4 DEF ChosenAreDead

\* Where enabling is not offered, the reconciler never deletes the key of a row
\* in service, however stale the snapshot it chose the key from.
THEOREM DoomedKeysStayRevoked ==
    ASSUME "set_enabled" \notin Ops
    PROVE  Spec => []DoomedKeysAreRevoked
<1>1. Init => NoToggle /\ KeyCustody /\ ChosenAreDead
  <2> SUFFICES ASSUME Init PROVE NoToggle /\ KeyCustody /\ ChosenAreDead
    OBVIOUS
  <2>1. NoToggle
    BY DEF Init, Idle, NoToggle
  <2>2. /\ \A r \in Rows : row[r].key = NoKey
        /\ \A h \in Handlers : handler[h].key = NoKey /\ handler[h].pc = "idle"
        /\ rec.todo = {} /\ \A r \in Rows : rec.snap[r].status = "none"
    BY DEF Init, EmptyRow, Idle, RecIdle
  <2> QED BY <2>1, <2>2 DEF KeyCustody, Carries, KeysNotShared, ChosenAreDead, Chosen
<1>2. TypeOK /\ NoToggle /\ KeyCustody /\ ChosenAreDead /\ [Next]_vars
          => NoToggle' /\ KeyCustody' /\ ChosenAreDead'
  BY NoToggleStep, CustodyStep, ChosenStep
<1>3. TypeOK /\ ChosenAreDead => DoomedKeysAreRevoked
  BY DEF TypeOK, RecRecord, ChosenAreDead, Chosen, DoomedKeysAreRevoked
<1>4. Spec => []TypeOK
  BY TypeCorrect
<1> QED BY <1>1, <1>2, <1>3, <1>4, PTL DEF Spec
-----------------------------------------------------------------------------
(***************************************************************************)
(* Steps in which nothing fails.  Each alternative says what one kind of    *)
(* step does to the table, to the gateway and to the handler h that takes   *)
(* it; the two properties below are about runs made of such steps.          *)
(***************************************************************************)
Others(h) == \A g \in Handlers \ {h} : handler'[g] = handler[g]

\* A request is accepted: its row, if it has one, is stored and was loaded.
Accepted(h) ==
    /\ At(h, "idle") /\ row' = row /\ gate' = gate
    /\ handler'[h].pc \in {"generate", "delete_key", "regenerate", "update_key", "bind"}
    /\ handler'[h].row \in Rows => row[handler'[h].row].status \in Stored
    /\ handler'[h].key # NoKey => /\ handler'[h].row \in Rows
                                  /\ handler'[h].key = row[handler'[h].row].key
    /\ handler'[h].pc = "regenerate" => handler'[h].key # NoKey

Mints(h) ==
    /\ At(h, "generate") /\ row' = row
    /\ \E k \in Keys : /\ ~Minted(k)
                       /\ gate' = [gate EXCEPT ![k] = "live"]
                       /\ handler'[h] = [handler[h] EXCEPT !.pc = "create", !.key = k]

Creates(h) ==
    /\ At(h, "create") /\ gate' = gate /\ handler'[h] = Idle
    /\ \E r \in Rows : row[r].status = "none" /\ WriteRow(r, NewRow(h))

IsRefused(h) ==
    /\ At(h, "create") /\ row' = row /\ gate' = gate
    /\ handler'[h] = [handler[h] EXCEPT !.pc = "compensate"]

\* Whatever the gateway answers, it does not have the key any more.
DeletesKey(h) ==
    /\ handler[h].pc \in {"compensate", "delete_key"} /\ row' = row
    /\ gate'[handler[h].key] \notin {"live", "blocked"}
    /\ \A k \in Keys \ {handler[h].key} : gate'[k] = gate[k]
    /\ gate'[handler[h].key] # gate[handler[h].key] => gate[handler[h].key] \in {"live", "blocked"}
    /\ \/ handler'[h] = Idle
       \/ At(h, "delete_key") /\ handler'[h] = [handler[h] EXCEPT !.pc = "mark_revoked"]
    /\ handler'[h] = Idle => At(h, "compensate") \/ gate' = gate

Replaces(h) ==
    /\ At(h, "regenerate") /\ row' = row /\ handler[h].key \in AtGateway
    /\ \E k \in Keys : /\ ~Minted(k) /\ Rotate(handler[h].key, k)
                       /\ handler'[h] = [handler[h] EXCEPT !.pc = "store_key", !.key = k]

Toggles(h) ==
    /\ At(h, "update_key") /\ row' = row /\ handler[h].key \in AtGateway
    /\ gate'[handler[h].key] \in {"live", "blocked"}
    /\ \A k \in Keys \ {handler[h].key} : gate'[k] = gate[k]
    /\ handler'[h] = [handler[h] EXCEPT !.pc = "store_status"]

GivesUp(h) ==
    /\ handler[h].pc \in {"regenerate", "update_key"}
    /\ row' = row /\ gate' = gate /\ handler'[h] = Idle

\* The contents a handler that writes its row last stores in it.
ToStore(h) ==
    LET c == row[handler[h].row]
    IN  CASE At(h, "mark_revoked") -> [c EXCEPT !.status = "revoked"]
          [] At(h, "store_key")    -> [c EXCEPT !.key = handler[h].key]
          [] At(h, "store_status") -> [c EXCEPT !.status = handler[h].arg]
          [] OTHER                 -> [c EXCEPT !.agent = handler[h].arg]

StoresRow(h) ==
    /\ handler[h].pc \in {"mark_revoked", "store_key", "store_status", "bind"}
    /\ gate' = gate /\ handler'[h] = Idle
    /\ IF Writable(handler[h].row, ToStore(h)) THEN WriteRow(handler[h].row, ToStore(h)) ELSE row' = row

\* The reconciler, which deletes keys it has chosen and nothing else.
Reconciles ==
    /\ row' = row /\ handler' = handler
    /\ \A k \in Keys : gate'[k] = gate[k] \/ (k \in rec.todo /\ gate'[k] = "gone")

CalmHandler(h) ==
    /\ Others(h) /\ purges' = purges
    /\ \/ Accepted(h) \/ Mints(h) \/ Creates(h) \/ IsRefused(h) \/ DeletesKey(h)
       \/ Replaces(h) \/ Toggles(h) \/ GivesUp(h) \/ StoresRow(h)

LEMMA CalmSteps ==
    ASSUME TypeOK, [Next]_vars, faults' = 0
    PROVE  /\ faults = 0
           /\ \/ \E h \in Handlers : CalmHandler(h)
              \/ Reconciles
              \/ Purge
<1> USE DEF At
<1>k. /\ DOMAIN handler = Handlers /\ DOMAIN row = Rows /\ NoKey \notin Keys /\ NoRow \notin Rows
      /\ \A h \in Handlers : DOMAIN handler[h] = {"pc", "row", "key", "arg"}
      /\ faults \in Nat /\ DOMAIN gate = Keys
  BY NullsAssumption, BoundsAssumption DEF TypeOK, HandlerRecord, Idle
<1>f. ~Fault
  BY <1>k DEF Fault
<1>1. ASSUME NEW h \in Handlers, Request(h) PROVE CalmHandler(h) /\ faults' = faults
  <2>1. faults' = faults /\ purges' = purges /\ row' = row /\ gate' = gate /\ At(h, "idle") /\ Others(h)
    BY <1>1, <1>k DEF Request, Issue, Revoke, Regenerate, SetEnabled, Associate, Rest, Begin, Others
  <2>2. Accepted(h)
    <3>1. CASE \E n \in Names : Issue(h, n)
      BY <1>k, <2>1, <3>1 DEF Issue, Begin, Accepted
    <3>2. CASE \E r \in Rows : Revoke(h, r)
      BY <1>k, <2>1, <3>2 DEF Revoke, Begin, Accepted
    <3>3. CASE \E r \in Rows : Regenerate(h, r)
      BY <1>k, <2>1, <3>3, RowShapes DEF Regenerate, Begin, Accepted, Stored
    <3>4. CASE \E r \in Rows, s \in Unrevoked : SetEnabled(h, r, s)
      BY <1>k, <2>1, <3>4 DEF SetEnabled, Begin, Accepted, Stored
    <3>5. CASE \E r \in Rows, a \in Agents : Associate(h, r, a)
      BY <1>k, <2>1, <3>5 DEF Associate, Begin, Accepted
    <3> QED BY <1>1, <3>1, <3>2, <3>3, <3>4, <3>5 DEF Request
  <2> QED BY <2>1, <2>2 DEF CalmHandler
<1>2. ASSUME NEW h \in Handlers, HandlerStep(h) PROVE CalmHandler(h) /\ faults' = faults
  <2>1. faults' = faults /\ purges' = purges
    BY <1>2, <1>f DEF HandlerStep, IssueGenerate, IssueCreate, IssueCompensate, RevokeAtGateway, RevokeStore,
        RegenerateAtGateway, RegenerateStore, SetEnabledAtGateway, SetEnabledStore, AssociateStore,
        NoFault, DeleteKeyOk, DeleteKeyErr, Rest
  <2>2. Others(h)
    BY <1>2, <1>k DEF HandlerStep, IssueGenerate, IssueCreate, IssueCompensate, RevokeAtGateway, RevokeStore,
        RegenerateAtGateway, RegenerateStore, SetEnabledAtGateway, SetEnabledStore, AssociateStore,
        Answer, Goto, Others
  <2>3. CASE IssueGenerate(h)
    <3>1. Mints(h)
      BY <2>3, <1>k, <1>f, HandlerShapes DEF IssueGenerate, Mints, Minted
    <3> QED BY <2>1, <2>2, <3>1 DEF CalmHandler
  <2>4. CASE IssueCreate(h)
    <3>1. Creates(h) \/ IsRefused(h)
      BY <2>4, <1>k, <1>f DEF IssueCreate, Creates, IsRefused, Answer, Goto
    <3> QED BY <2>1, <2>2, <3>1 DEF CalmHandler
  <2>5. CASE IssueCompensate(h) \/ RevokeAtGateway(h)
    <3>1. handler[h].key \in Keys
      BY <2>5, HandlerShapes DEF IssueCompensate, RevokeAtGateway
    <3>2. /\ gate'[handler[h].key] \notin {"live", "blocked"}
          /\ \A k \in Keys \ {handler[h].key} : gate'[k] = gate[k]
          /\ gate'[handler[h].key] # gate[handler[h].key] => gate[handler[h].key] \in {"live", "blocked"}
      BY <2>5, <3>1, <1>k, <1>f DEF IssueCompensate, RevokeAtGateway, DeleteKeyOk, DeleteKeyErr, AtGateway
    <3>3. /\ handler[h].pc \in {"compensate", "delete_key"} /\ row' = row
          /\ \/ handler'[h] = Idle
             \/ At(h, "delete_key") /\ handler'[h] = [handler[h] EXCEPT !.pc = "mark_revoked"]
          /\ handler'[h] = Idle => At(h, "compensate") \/ gate' = gate
      BY <2>5, <1>k, <1>f DEF IssueCompensate, RevokeAtGateway, DeleteKeyErr, Answer, Goto, Idle
    <3>4. DeletesKey(h)
      BY <3>2, <3>3 DEF DeletesKey
    <3> QED BY <2>1, <2>2, <3>4 DEF CalmHandler
  <2>6. CASE RegenerateAtGateway(h)
    <3>1. Replaces(h) \/ GivesUp(h)
      BY <2>6, <1>k, <1>f DEF RegenerateAtGateway, Replaces, GivesUp, Answer, Minted
    <3> QED BY <2>1, <2>2, <3>1 DEF CalmHandler
  <2>7. CASE SetEnabledAtGateway(h)
    <3>1. Toggles(h) \/ GivesUp(h)
      BY <2>7, <1>k, <1>f DEF SetEnabledAtGateway, Toggles, GivesUp, Answer, Goto, AtGateway
    <3> QED BY <2>1, <2>2, <3>1 DEF CalmHandler
  <2>8. CASE RevokeStore(h) \/ RegenerateStore(h) \/ SetEnabledStore(h) \/ AssociateStore(h)
    <3>1. StoresRow(h)
      <4>1. CASE RevokeStore(h)
        BY <4>1, <1>k, <1>f DEF RevokeStore, StoresRow, ToStore, Answer
      <4>2. CASE RegenerateStore(h)
        BY <4>2, <1>k, <1>f DEF RegenerateStore, StoresRow, ToStore, Answer
      <4>3. CASE SetEnabledStore(h)
        BY <4>3, <1>k, <1>f DEF SetEnabledStore, StoresRow, ToStore, Answer
      <4>4. CASE AssociateStore(h)
        BY <4>4, <1>k, <1>f DEF AssociateStore, StoresRow, ToStore, Answer
      <4> QED BY <2>8, <4>1, <4>2, <4>3, <4>4
    <3> QED BY <2>1, <2>2, <3>1 DEF CalmHandler
  <2> QED BY <1>2, <2>3, <2>4, <2>5, <2>6, <2>7, <2>8 DEF HandlerStep
<1>3. CASE ReconcileStep
  BY <1>3, <1>k, <1>f DEF ReconcileStep, ReconcileTargets, ReconcileList, ReconcileDelete, ReconcileDone,
      DeleteKeyOk, DeleteKeyErr, NoFault, AtGateway, Reconciles
<1>4. CASE Purge
  BY <1>4 DEF Purge
<1>5. CASE Crash
  BY <1>5, <1>f DEF Crash
<1>6. CASE UNCHANGED vars
  BY <1>6 DEF vars, Reconciles
<1> QED BY <1>1, <1>2, <1>3, <1>4, <1>5, <1>6 DEF Next

\* The table's last word never refuses the new secret of a stored row: the
\* write leaves its name and its agent, which are unique already.
LEMMA SecretIsStored ==
    ASSUME TypeOK, ActiveKeysUnique, NEW r \in Rows, NEW k, row[r].status \in Stored
    PROVE  Writable(r, [row[r] EXCEPT !.key = k])
<1> DEFINE c == [row[r] EXCEPT !.key = k]
<1>1. c.status = row[r].status /\ c.name = row[r].name /\ c.agent = row[r].agent
  BY RowShapes
<1>2. c.status \in Unrevoked => NameFree(c.name, r) /\ AgentFree(c.agent, r)
  BY <1>1 DEF ActiveKeysUnique, NameFree, AgentFree
<1> QED BY <1>2 DEF Writable, Admissible

\* What a faultless run without purges keeps for the regenerations it has under
\* way: a handler works on a stored row; the row it regenerates holds the key
\* it loaded, for as long as the gateway has that key; once the gateway has
\* replaced the secret, the row's old key is gone there, so that one handler
\* at most has a new secret for the row.
InOrder ==
    /\ \A h \in Handlers : handler[h].row \in Rows => row[handler[h].row].status \in Stored
    /\ \A h \in Handlers : (At(h, "regenerate") /\ handler[h].key \in AtGateway)
                              => row[handler[h].row].key = handler[h].key
    /\ \A h \in Handlers : At(h, "store_key") => row[handler[h].row].key \notin AtGateway
    /\ \A h, g \in Handlers : (/\ At(h, "store_key") /\ At(g, "store_key")
                               /\ handler[h].row = handler[g].row) => h = g
    /\ \A k \in AtGateway : Governed(k) \/ InFlight(k)

\* No step leads from a state that lost nothing to one that did and back.
LEMMA LossIsFinal ==
    ASSUME TypeOK, [Next]_vars, faults' = 0, purges' = 0
    PROVE  /\ faults = 0 /\ purges = 0
           /\ (\E h \in Handlers : CalmHandler(h)) \/ Reconciles
<1>1. faults = 0 /\ ((\E h \in Handlers : CalmHandler(h)) \/ Reconciles \/ Purge)
  BY CalmSteps
<1>2. ~Purge
  BY BoundsAssumption DEF Purge, TypeOK
<1>3. purges = 0
  BY <1>2 DEF Next, vars, Request, Issue, Revoke, Regenerate, SetEnabled, Associate, HandlerStep,
      IssueGenerate, IssueCreate, IssueCompensate, RevokeAtGateway, RevokeStore,
      RegenerateAtGateway, RegenerateStore, SetEnabledAtGateway, SetEnabledStore,
      AssociateStore, Rest, ReconcileStep, ReconcileTargets, ReconcileList, ReconcileDelete,
      ReconcileDone, Crash
<1> QED BY <1>1, <1>2, <1>3

\* Most steps leave the table alone and add no key to the gateway.
LEMMA InOrderKept ==
    ASSUME InOrder, row' = row, AtGateway' \subseteq AtGateway, NEW h \in Handlers, Others(h),
           handler'[h].row \in Rows => row[handler'[h].row].status \in Stored,
           handler'[h].pc = "regenerate" => handler'[h].key = row[handler'[h].row].key,
           handler'[h].pc # "store_key",
           Carries(h) /\ handler[h].key \in AtGateway' =>
               handler'[h].key = handler[h].key /\ handler'[h].pc \in {"create", "compensate"}
    PROVE  InOrder'
<1> USE DEF At
<1>1. \A g \in Handlers \ {h} : handler'[g] = handler[g]
  BY DEF Others
<1>2. ASSUME NEW k \in AtGateway' PROVE (Governed(k) \/ InFlight(k))'
  <2>1. CASE Governed(k)
    BY <2>1 DEF Governed
  <2>2. CASE InFlight(k)
    BY <1>1, <1>2, <2>2 DEF InFlight, Carries
  <2> QED BY <1>2, <2>1, <2>2 DEF InOrder
<1>3. \A g \in Handlers : handler'[g].row \in Rows => row'[handler'[g].row].status \in Stored
  BY <1>1 DEF InOrder
<1>4. \A g \in Handlers : (handler'[g].pc = "regenerate" /\ handler'[g].key \in AtGateway')
                             => row'[handler'[g].row].key = handler'[g].key
  BY <1>1 DEF InOrder
<1>5. \A g \in Handlers : handler'[g].pc = "store_key" => row'[handler'[g].row].key \notin AtGateway'
  BY <1>1 DEF InOrder
<1>6. \A f, g \in Handlers : (/\ handler'[f].pc = "store_key" /\ handler'[g].pc = "store_key"
                              /\ handler'[f].row = handler'[g].row) => f = g
  BY <1>1 DEF InOrder
<1> QED BY <1>2, <1>3, <1>4, <1>5, <1>6 DEF InOrder

LEMMA InOrderStep ==
    ASSUME TypeOK, KeyCustody, ActiveKeysUnique, InOrder, [Next]_vars, faults' = 0, purges' = 0
    PROVE  InOrder'
<1> USE DEF At
<1>k. /\ DOMAIN row = Rows /\ DOMAIN gate = Keys /\ NoKey \notin Keys /\ NoRow \notin Rows
      /\ \A h \in Handlers : DOMAIN handler[h] = {"pc", "row", "key", "arg"}
      /\ \A h \in Handlers : handler[h].key \in Keys \union {NoKey}
      /\ \A r \in Rows : row[r].key \in Keys \union {NoKey}
  BY NullsAssumption, RowShapes DEF TypeOK, HandlerRecord, Idle
<1>c. /\ \A r \in Rows : row[r].key # NoKey => Minted(row[r].key)
      /\ \A h \in Handlers : handler[h].key # NoKey => Minted(handler[h].key)
      /\ \A k \in AtGateway : Minted(k)
  BY DEF KeyCustody, Minted, AtGateway
<1>1. ASSUME NEW h \in Handlers, Others(h), Accepted(h) PROVE InOrder'
  <2>1. row' = row /\ AtGateway' = AtGateway /\ ~Carries(h)
    BY <1>1 DEF Accepted, AtGateway, Carries
  <2> QED BY <1>1, <2>1, InOrderKept DEF Accepted
<1>2. ASSUME NEW h \in Handlers, Others(h), Mints(h) PROVE InOrder'
  <2>0. PICK k \in Keys : /\ ~Minted(k) /\ gate' = [gate EXCEPT ![k] = "live"]
                          /\ handler'[h] = [handler[h] EXCEPT !.pc = "create", !.key = k]
    BY <1>2 DEF Mints
  <2>1. AtGateway' = AtGateway \union {k}
    BY <2>0, <1>k DEF AtGateway, TypeOK
  <2>2. handler'[h].pc = "create" /\ handler'[h].key = k /\ handler'[h].row = NoRow /\ handler[h].pc = "generate"
    BY <2>0, <1>2, <1>k, HandlerShapes DEF Mints
  <2>3. /\ \A g \in Handlers \ {h} : handler'[g] = handler[g]
        /\ row' = row
        /\ \A r \in Rows : row[r].key # k
        /\ \A g \in Handlers : handler[g].key # k
    BY <2>0, <1>2, <1>c, <1>k DEF Others, Mints
  <2>4. ASSUME NEW n \in AtGateway' PROVE (Governed(n) \/ InFlight(n))'
    <3>1. CASE n = k
      BY <2>2, <3>1 DEF InFlight
    <3>2. CASE Governed(n)
      BY <2>3, <3>2 DEF Governed
    <3>3. CASE InFlight(n)
      BY <2>2, <2>3, <3>3 DEF InFlight
    <3> QED BY <2>1, <2>4, <3>1, <3>2, <3>3 DEF InOrder
  <2>5. \A g \in Handlers : handler'[g].row \in Rows => row'[handler'[g].row].status \in Stored
    BY <2>2, <2>3, <1>k DEF InOrder
  <2>6. \A g \in Handlers : (handler'[g].pc = "regenerate" /\ handler'[g].key \in AtGateway')
                               => row'[handler'[g].row].key = handler'[g].key
    BY <2>1, <2>2, <2>3 DEF InOrder
  <2>7. \A g \in Handlers : handler'[g].pc = "store_key" => row'[handler'[g].row].key \notin AtGateway'
    <3>1. \A g \in Handlers : handler[g].pc = "store_key" => handler[g].row \in Rows
      BY HandlerShapes
    <3> QED BY <2>1, <2>2, <2>3, <3>1 DEF InOrder
  <2>8. \A f, g \in Handlers : (/\ handler'[f].pc = "store_key" /\ handler'[g].pc = "store_key"
                                /\ handler'[f].row = handler'[g].row) => f = g
    BY <2>2, <2>3 DEF InOrder
  <2> QED BY <2>4, <2>5, <2>6, <2>7, <2>8 DEF InOrder
<1>3. ASSUME NEW h \in Handlers, Others(h), Creates(h) PROVE InOrder'
  <2> PICK r \in Rows : row[r].status = "none" /\ WriteRow(r, NewRow(h))
    BY <1>3 DEF Creates
  <2>1. /\ row'[r].status = "active" /\ row'[r].key = handler[h].key
        /\ \A q \in Rows \ {r} : row'[q] = row[q]
    BY <1>k DEF WriteRow, NewRow
  <2>2. /\ AtGateway' = AtGateway
        /\ handler'[h].pc = "idle" /\ handler'[h].row = NoRow
        /\ handler[h].pc = "create"
        /\ \A g \in Handlers \ {h} : handler'[g] = handler[g] /\ handler[g].row # r
    BY <1>3 DEF Creates, Idle, Others, AtGateway, InOrder, Stored, Unrevoked
  <2>3. \A g \in Handlers : handler[g].pc \in {"regenerate", "store_key"} => handler[g].row \in Rows
    BY HandlerShapes
  <2>4. ASSUME NEW k \in AtGateway' PROVE (Governed(k) \/ InFlight(k))'
    <3>1. CASE Governed(k)
      BY <2>1, <3>1 DEF Governed, Stored, Unrevoked
    <3>2. CASE InFlight(k) /\ k # handler[h].key
      BY <2>2, <3>2 DEF InFlight
    <3>3. CASE k = handler[h].key
      BY <2>1, <3>3 DEF Governed, Stored, Unrevoked
    <3> QED BY <2>2, <2>4, <3>1, <3>2, <3>3 DEF InOrder
  <2>5. \A g \in Handlers : handler'[g].row \in Rows => row'[handler'[g].row].status \in Stored
    BY <2>1, <2>2, <1>k DEF InOrder
  <2> QED BY <2>1, <2>2, <2>3, <2>4, <2>5, <1>k DEF InOrder
<1>4. ASSUME NEW h \in Handlers, Others(h), IsRefused(h) PROVE InOrder'
  <2>1. /\ row' = row /\ AtGateway' = AtGateway
        /\ handler'[h].pc = "compensate" /\ handler'[h].row = NoRow /\ handler'[h].key = handler[h].key
    BY <1>4, <1>k, HandlerShapes DEF IsRefused, AtGateway
  <2> QED BY <1>4, <2>1, <1>k, InOrderKept
<1>5. ASSUME NEW h \in Handlers, Others(h), DeletesKey(h) PROVE InOrder'
  <2>1. AtGateway' \subseteq AtGateway /\ handler[h].key \notin AtGateway'
    BY <1>5, <1>k DEF DeletesKey, AtGateway
  <2>2. handler'[h].row \in Rows => handler'[h].row = handler[h].row
    BY <1>5, <1>k DEF DeletesKey, Idle
  <2>3. handler'[h].pc \in {"idle", "mark_revoked"}
    BY <1>5, <1>k DEF DeletesKey, Idle
  <2>4. handler'[h].row \in Rows => row[handler'[h].row].status \in Stored
    BY <2>2 DEF InOrder
  <2>5. row' = row
    BY <1>5 DEF DeletesKey
  <2> QED BY <1>5, <2>1, <2>3, <2>4, <2>5, InOrderKept
<1>6. ASSUME NEW h \in Handlers, Others(h), Replaces(h) PROVE InOrder'
  <2> DEFINE old == handler[h].key
             r   == handler[h].row
  <2>0. PICK k \in Keys : /\ ~Minted(k) /\ Rotate(old, k)
                          /\ handler'[h] = [handler[h] EXCEPT !.pc = "store_key", !.key = k]
    BY <1>6 DEF Replaces
  <2>1. /\ row' = row /\ r \in Rows /\ old \in AtGateway /\ row[r].key = old /\ row[r].status \in Stored
        /\ handler[h].pc = "regenerate"
    BY <1>6, HandlerShapes DEF Replaces, InOrder
  <2>2. AtGateway' = (AtGateway \ {old}) \union {k} /\ k # old
    BY <2>0, <2>1, <1>c, <1>k DEF AtGateway, Rotate, TypeOK, Minted
  <2>3. handler'[h].pc = "store_key" /\ handler'[h].key = k /\ handler'[h].row = r
    BY <2>0, <1>k
  <2>4. /\ \A g \in Handlers \ {h} : handler'[g] = handler[g]
        /\ \A q \in Rows : row[q].key # k
        /\ \A g \in Handlers : handler[g].key # k
    BY <2>0, <1>6, <1>c, <1>k DEF Others
  <2>5. ASSUME NEW n \in AtGateway' PROVE (Governed(n) \/ InFlight(n))'
    <3>1. CASE n = k
      BY <2>3, <3>1 DEF InFlight
    <3>2. CASE n # k
      BY <2>1, <2>2, <2>3, <2>4, <2>5, <3>2 DEF InOrder, Governed, InFlight
    <3> QED BY <3>1, <3>2
  <2>6. \A g \in Handlers \ {h} : handler[g].pc = "store_key" => handler[g].row # r
    BY <2>1 DEF InOrder
  <2> HIDE DEF old, r
  <2>7. \A g \in Handlers : handler'[g].row \in Rows => row'[handler'[g].row].status \in Stored
    BY <2>1, <2>3, <2>4 DEF InOrder
  <2>8. \A g \in Handlers : (handler'[g].pc = "regenerate" /\ handler'[g].key \in AtGateway')
                               => row'[handler'[g].row].key = handler'[g].key
    <3>1. ASSUME NEW g \in Handlers \ {h}, handler[g].pc = "regenerate", handler[g].key \in AtGateway'
          PROVE  row[handler[g].row].key = handler[g].key
      BY <2>2, <2>4, <3>1 DEF InOrder
    <3> QED BY <2>1, <2>3, <2>4, <3>1
  <2>9. \A g \in Handlers : handler'[g].pc = "store_key" => row'[handler'[g].row].key \notin AtGateway'
    <3>1. \A g \in Handlers : handler[g].pc = "store_key" => handler[g].row \in Rows
      BY HandlerShapes
    <3>2. ASSUME NEW g \in Handlers \ {h}, handler[g].pc = "store_key"
          PROVE  row[handler[g].row].key \notin AtGateway'
      BY <2>2, <2>4, <3>1, <3>2 DEF InOrder
    <3>3. row[r].key \notin AtGateway'
      BY <2>1, <2>2
    <3> QED BY <2>1, <2>3, <2>4, <3>2, <3>3
  <2>10. \A f, g \in Handlers : (/\ handler'[f].pc = "store_key" /\ handler'[g].pc = "store_key"
                                 /\ handler'[f].row = handler'[g].row) => f = g
    <3>1. \A f, g \in Handlers \ {h} : (/\ handler[f].pc = "store_key" /\ handler[g].pc = "store_key"
                                        /\ handler[f].row = handler[g].row) => f = g
      BY DEF InOrder
    <3> QED BY <2>3, <2>4, <2>6, <3>1
  <2> QED BY <2>5, <2>7, <2>8, <2>9, <2>10 DEF InOrder
<1>7. ASSUME NEW h \in Handlers, Others(h), Toggles(h) PROVE InOrder'
  <2>1. AtGateway' = AtGateway
    BY <1>7, <1>k DEF Toggles, AtGateway
  <2>2. /\ row' = row /\ handler'[h].pc = "store_status" /\ handler'[h].row = handler[h].row
        /\ ~Carries(h)
    BY <1>7, <1>k DEF Toggles, Carries
  <2>3. handler'[h].row \in Rows => row[handler'[h].row].status \in Stored
    BY <2>2 DEF InOrder
  <2> QED BY <1>7, <2>1, <2>2, <2>3, InOrderKept
<1>8. ASSUME NEW h \in Handlers, Others(h), GivesUp(h) PROVE InOrder'
  <2>1. /\ row' = row /\ AtGateway' = AtGateway /\ handler'[h].pc = "idle" /\ handler'[h].row = NoRow
        /\ ~Carries(h)
    BY <1>8 DEF GivesUp, AtGateway, Carries, Idle
  <2> QED BY <1>8, <1>k, <2>1, InOrderKept
<1>9. ASSUME NEW h \in Handlers, Others(h), StoresRow(h) PROVE InOrder'
  <2> DEFINE r == handler[h].row
             c == ToStore(h)
  <2>1. /\ r \in Rows /\ row[r].status \in Stored /\ AtGateway' = AtGateway
        /\ handler'[h].pc = "idle" /\ handler'[h].row = NoRow
        /\ handler[h].pc \in {"mark_revoked", "store_key", "store_status", "bind"}
    <3>1. /\ AtGateway' = AtGateway /\ handler'[h].pc = "idle" /\ handler'[h].row = NoRow
          /\ handler[h].pc \in {"mark_revoked", "store_key", "store_status", "bind"}
      BY <1>9 DEF StoresRow, AtGateway, Idle
    <3>2. r \in Rows
      BY <3>1, HandlerShapes
    <3> QED BY <3>1, <3>2 DEF InOrder
  <2>2. \A g \in Handlers \ {h} : handler'[g] = handler[g]
    BY <1>9 DEF Others
  <2>3. row[r] \in [status : Stored, key : Keys, name : Names, agent : Agents \union {NoAgent}]
    BY <2>1, RowShapes
  <2>4. c.status \in Stored
    BY <2>1, <2>3, HandlerShapes DEF ToStore, Stored, Unrevoked
  <2>5. c.key = IF handler[h].pc = "store_key" THEN handler[h].key ELSE row[r].key
    BY <2>1, <2>3 DEF ToStore
  <2>6. handler[h].pc = "store_key" => Writable(r, c)
    BY <2>1, SecretIsStored DEF ToStore
  <2>7. row' = row \/ row' = [row EXCEPT ![r] = c]
    BY <1>9 DEF StoresRow, WriteRow
  <2>8. handler[h].pc = "store_key" => row' = [row EXCEPT ![r] = c]
    BY <1>9, <2>6 DEF StoresRow, WriteRow
  <2> HIDE DEF c
  <2>9. /\ row'[r].status \in Stored /\ \A q \in Rows \ {r} : row'[q] = row[q]
        /\ row'[r].key = IF handler[h].pc = "store_key" THEN handler[h].key ELSE row[r].key
    BY <2>1, <2>4, <2>5, <2>7, <2>8, <1>k
  <2>10. \A g \in Handlers : handler[g].pc \in {"regenerate", "store_key"} => handler[g].row \in Rows
    BY HandlerShapes
  <2> HIDE DEF r
  <2>11. ASSUME NEW k \in AtGateway' PROVE (Governed(k) \/ InFlight(k))'
    <3>1. CASE Governed(k) /\ ~(handler[h].pc = "store_key" /\ k = row[r].key)
      BY <2>1, <2>9, <3>1 DEF Governed
    <3>2. CASE InFlight(k) /\ k # handler[h].key
      BY <2>2, <3>2 DEF InFlight
    <3>3. CASE handler[h].pc = "store_key" /\ k = handler[h].key
      BY <2>1, <2>9, <3>3 DEF Governed
    <3>4. CASE InFlight(k) /\ handler[h].pc # "store_key"
      BY <2>1, <2>2, <3>4 DEF InFlight
    <3>5. handler[h].pc = "store_key" => row[r].key \notin AtGateway
      BY DEF InOrder, r
    <3> QED BY <2>1, <2>11, <3>1, <3>2, <3>3, <3>4, <3>5 DEF InOrder
  <2>12. \A g \in Handlers : handler'[g].row \in Rows => row'[handler'[g].row].status \in Stored
    BY <2>1, <2>2, <2>9, <1>k DEF InOrder
  <2>13. ASSUME NEW g \in Handlers, handler'[g].pc = "regenerate", handler'[g].key \in AtGateway'
         PROVE  row'[handler'[g].row].key = handler'[g].key
    <3>1. g # h /\ handler'[g] = handler[g] /\ handler[g].row \in Rows
      BY <2>1, <2>2, <2>10, <2>13
    <3>2. row[handler[g].row].key = handler[g].key /\ handler[g].key \in AtGateway
      BY <2>1, <2>13, <3>1 DEF InOrder
    <3>3. ~(handler[h].pc = "store_key" /\ handler[g].row = r)
      BY <3>2 DEF InOrder, r
    <3> QED BY <2>9, <3>1, <3>2, <3>3
  <2>14. ASSUME NEW g \in Handlers, handler'[g].pc = "store_key"
         PROVE  row'[handler'[g].row].key \notin AtGateway'
    <3>1. g # h /\ handler'[g] = handler[g] /\ handler[g].row \in Rows /\ handler[g].pc = "store_key"
      BY <2>1, <2>2, <2>10, <2>14
    <3>2. ~(handler[h].pc = "store_key" /\ handler[g].row = r)
      BY <3>1 DEF InOrder, r
    <3> QED BY <2>1, <2>9, <3>1, <3>2 DEF InOrder
  <2>15. \A f, g \in Handlers : (/\ handler'[f].pc = "store_key" /\ handler'[g].pc = "store_key"
                                 /\ handler'[f].row = handler'[g].row) => f = g
    BY <2>1, <2>2 DEF InOrder
  <2> QED BY <2>11, <2>12, <2>13, <2>14, <2>15 DEF InOrder
<1>10. CASE Reconciles
  <2>1. AtGateway' \subseteq AtGateway /\ row' = row /\ handler' = handler
    BY <1>10 DEF Reconciles, AtGateway
  <2>2. \A k \in Keys : (Governed(k) \/ InFlight(k)) => (Governed(k) \/ InFlight(k))'
    BY <2>1 DEF Governed, InFlight
  <2>3. AtGateway' \subseteq Keys
    BY DEF AtGateway
  <2> QED BY <2>1, <2>2, <2>3 DEF InOrder
<1> QED BY <1>1, <1>2, <1>3, <1>4, <1>5, <1>6, <1>7, <1>8, <1>9, <1>10, LossIsFinal DEF CalmHandler

\* Issuing, revoking, regenerating, enabling and associating overlap without
\* ever leaving a key that serves requests and that no row governs.
THEOREM LiveKeysAreGoverned == Spec => []LiveKeysGoverned
<1> DEFINE Inv == (faults = 0 /\ purges = 0) => InOrder
<1>1. Init => KeyCustody /\ ActiveKeysUnique /\ Inv
  <2> SUFFICES ASSUME Init PROVE KeyCustody /\ ActiveKeysUnique /\ InOrder
    OBVIOUS
  <2>1. /\ \A r \in Rows : row[r].key = NoKey /\ row[r].status = "none"
        /\ \A h \in Handlers : /\ handler[h].key = NoKey /\ handler[h].pc = "idle"
                               /\ handler[h].row = NoRow
        /\ AtGateway = {}
    BY DEF Init, EmptyRow, Idle, AtGateway
  <2> QED BY <2>1, NullsAssumption DEF KeyCustody, Carries, KeysNotShared, ActiveKeysUnique, Unrevoked,
                InOrder, At
<1>2. TypeOK /\ KeyCustody /\ ActiveKeysUnique /\ Inv /\ [Next]_vars
          => KeyCustody' /\ ActiveKeysUnique' /\ Inv'
  BY CustodyStep, UniqueStep, InOrderStep, LossIsFinal
<1>3. Inv => LiveKeysGoverned
  BY DEF InOrder, LiveKeysGoverned
<1>4. Spec => []TypeOK
  BY TypeCorrect
<1> HIDE DEF Inv
<1> QED BY <1>1, <1>2, <1>3, <1>4, PTL DEF Spec

-----------------------------------------------------------------------------
(***************************************************************************)
(* Keys that serve, where enabling is not offered and nothing fails.  A     *)
(* carried key is live and in nobody else's hands, a handler that loaded a  *)
(* key loaded it from the only row that has it, and the key of an active    *)
(* row is live unless a handler is about to revoke the row or to give it    *)
(* its new secret.                                                          *)
(***************************************************************************)
Served ==
    /\ \A k \in Keys : gate[k] # "blocked"
    /\ \A h, g \in Handlers : (h # g /\ Carries(h)) => handler[g].key # handler[h].key
    /\ \A h \in Handlers, r \in Rows :
          (handler[h].row \in Rows /\ handler[h].key # NoKey /\ row[r].key = handler[h].key)
              => handler[h].row = r
    /\ \A h \in Handlers : handler[h].pc \in {"create", "store_key"} => gate[handler[h].key] = "live"
    /\ \A r \in Rows : row[r].status = "active" =>
          \/ gate[row[r].key] = "live"
          \/ \E h \in Handlers : handler[h].row = r /\ handler[h].pc \in {"mark_revoked", "store_key"}

LEMMA ServedStep ==
    ASSUME TypeOK, NoToggle, KeyCustody, ChosenAreDead, ActiveKeysUnique, Served, [Next]_vars,
           faults' = 0
    PROVE  Served'
<1> USE DEF At
<1>k. /\ DOMAIN row = Rows /\ DOMAIN gate = Keys /\ NoKey \notin Keys /\ NoRow \notin Rows
      /\ \A h \in Handlers : DOMAIN handler[h] = {"pc", "row", "key", "arg"}
      /\ \A h \in Handlers : handler[h].key \in Keys \union {NoKey}
      /\ \A r \in Rows : row[r].key \in Keys \union {NoKey}
      /\ \A r \in Rows : row[r].status = "active" => row[r].key \in Keys
  BY NullsAssumption, RowShapes DEF TypeOK, HandlerRecord, Idle, Stored, Unrevoked
<1>c. /\ \A r \in Rows : row[r].key # NoKey => Minted(row[r].key)
      /\ \A h \in Handlers : handler[h].key # NoKey => Minted(handler[h].key)
      /\ \A h \in Handlers, r \in Rows : Carries(h) => row[r].key # handler[h].key
      /\ \A r, q \in Rows : (r # q /\ row[r].key = row[q].key) => row[r].key = NoKey
  BY DEF KeyCustody, KeysNotShared
<1>h. \A h \in Handlers : Carries(h) => handler[h].key \in Keys
  BY HandlerShapes DEF Carries
<1>s. /\ \A k \in Keys : gate[k] # "blocked"
      /\ \A h, g \in Handlers : (h # g /\ Carries(h)) => handler[g].key # handler[h].key
      /\ \A h \in Handlers, r \in Rows :
            (handler[h].row \in Rows /\ handler[h].key # NoKey /\ row[r].key = handler[h].key)
                => handler[h].row = r
      /\ \A h \in Handlers : handler[h].pc \in {"create", "store_key"} => gate[handler[h].key] = "live"
      /\ \A r \in Rows : row[r].status = "active" =>
            \/ gate[row[r].key] = "live"
            \/ \E h \in Handlers : handler[h].row = r /\ handler[h].pc \in {"mark_revoked", "store_key"}
  BY DEF Served
\* The handler that moves keeps what it held, or takes nothing that is held.
<1>q. ASSUME row' = row, NEW h \in Handlers, Others(h),
             \A k \in Keys : gate'[k] # "blocked",
             \A g \in Handlers \ {h} : Carries(g) => handler'[h].key # handler[g].key,
             Carries(h)' => \A g \in Handlers \ {h} : handler[g].key # handler'[h].key,
             \A r \in Rows : (handler'[h].row \in Rows /\ handler'[h].key # NoKey
                                /\ row[r].key = handler'[h].key) => handler'[h].row = r,
             handler'[h].pc \in {"create", "store_key"} => gate'[handler'[h].key] = "live",
             \A g \in Handlers \ {h} :
                handler[g].pc \in {"create", "store_key"} => gate'[handler[g].key] = "live",
             \A r \in Rows : row[r].status = "active" =>
                \/ gate'[row[r].key] = "live"
                \/ handler'[h].row = r /\ handler'[h].pc \in {"mark_revoked", "store_key"}
                \/ \E g \in Handlers \ {h} : /\ handler[g].row = r
                                             /\ handler[g].pc \in {"mark_revoked", "store_key"}
      PROVE  Served'
  <2>1. \A g \in Handlers \ {h} : handler'[g] = handler[g]
    BY <1>q DEF Others
  <2>2. \A f, g \in Handlers : (f # g /\ Carries(f)') => handler'[g].key # handler'[f].key
    BY <1>q, <1>s, <2>1 DEF Carries
  <2>3. \A g \in Handlers, r \in Rows :
            (handler'[g].row \in Rows /\ handler'[g].key # NoKey /\ row'[r].key = handler'[g].key)
                => handler'[g].row = r
    BY <1>q, <1>s, <2>1
  <2>4. \A g \in Handlers : handler'[g].pc \in {"create", "store_key"} => gate'[handler'[g].key] = "live"
    BY <1>q, <2>1
  <2>5. \A r \in Rows : row'[r].status = "active" =>
            \/ gate'[row'[r].key] = "live"
            \/ \E g \in Handlers : handler'[g].row = r /\ handler'[g].pc \in {"mark_revoked", "store_key"}
    BY <1>q, <2>1
  <2> QED BY <1>q, <2>2, <2>3, <2>4, <2>5 DEF Served
<1>1. ASSUME NEW h \in Handlers, Others(h), Accepted(h) PROVE Served'
  <2>1. /\ row' = row /\ gate' = gate /\ handler[h].pc = "idle"
        /\ handler'[h].pc \in {"generate", "delete_key", "regenerate", "update_key", "bind"}
        /\ handler'[h].key # NoKey =>
              /\ handler'[h].row \in Rows
              /\ handler'[h].key = row[handler'[h].row].key
    BY <1>1 DEF Accepted
  <2>2. \A g \in Handlers \ {h} : Carries(g) => handler'[h].key # handler[g].key
    BY <2>1, <1>c, <1>h, <1>k
  <2>3. \A r \in Rows : (handler'[h].row \in Rows /\ handler'[h].key # NoKey
                            /\ row[r].key = handler'[h].key) => handler'[h].row = r
    BY <2>1, <1>c
  <2>4. ~Carries(h)'
    BY <2>1 DEF Carries
  <2> QED BY <1>1, <1>s, <1>q, <2>1, <2>2, <2>3, <2>4
<1>2. ASSUME NEW h \in Handlers, Others(h), Mints(h) PROVE Served'
  <2>0. PICK k \in Keys : /\ ~Minted(k) /\ gate' = [gate EXCEPT ![k] = "live"]
                          /\ handler'[h] = [handler[h] EXCEPT !.pc = "create", !.key = k]
    BY <1>2 DEF Mints
  <2>1. /\ handler'[h].pc = "create" /\ handler'[h].key = k /\ handler'[h].row = NoRow
        /\ handler[h].pc = "generate" /\ row' = row
    <3>1. handler[h].pc = "generate" /\ handler[h].row = NoRow /\ row' = row
      BY <1>2, HandlerShapes DEF Mints
    <3> QED BY <2>0, <3>1, <1>k
  <2>2. gate'[k] = "live" /\ \A n \in Keys \ {k} : gate'[n] = gate[n]
    BY <2>0, <1>k
  <2>3. \A g \in Handlers : handler[g].key # k
    BY <2>0, <1>c, <1>k
  <2>4. \A g \in Handlers : handler[g].pc \in {"create", "store_key"} => gate'[handler[g].key] = "live"
    BY <2>2, <2>3, <1>s, <1>h DEF Carries
  <2>5. \A r \in Rows : row[r].status = "active" =>
                \/ gate'[row[r].key] = "live"
                \/ \E g \in Handlers \ {h} : /\ handler[g].row = r
                                             /\ handler[g].pc \in {"mark_revoked", "store_key"}
    BY <2>1, <2>2, <1>s, <1>k
  <2>6. \A n \in Keys : gate'[n] # "blocked"
    BY <2>2, <1>s
  <2> QED BY <1>2, <1>q, <1>k, <2>1, <2>2, <2>3, <2>4, <2>5, <2>6
<1>3. ASSUME NEW h \in Handlers, Others(h), Creates(h) PROVE Served'
  <2>0. PICK r \in Rows : row[r].status = "none" /\ WriteRow(r, NewRow(h))
    BY <1>3 DEF Creates
  <2>1. /\ row'[r].key = handler[h].key /\ \A q \in Rows \ {r} : row'[q] = row[q]
    BY <2>0, <1>k DEF WriteRow, NewRow
  <2>2. /\ gate' = gate /\ handler[h].pc = "create"
        /\ handler'[h].pc = "idle" /\ handler'[h].row = NoRow /\ handler'[h].key = NoKey
        /\ \A g \in Handlers \ {h} : handler'[g] = handler[g]
    BY <1>3 DEF Creates, Idle, Others
  <2>3. \A f, g \in Handlers : (f # g /\ Carries(f)') => handler'[g].key # handler'[f].key
    BY <2>2, <1>s, <1>h, <1>k DEF Carries
  <2>4. \A g \in Handlers, q \in Rows :
            (handler'[g].row \in Rows /\ handler'[g].key # NoKey /\ row'[q].key = handler'[g].key)
                => handler'[g].row = q
    BY <2>1, <2>2, <1>s, <1>k DEF Carries
  <2>5. \A q \in Rows : row'[q].status = "active" =>
            \/ gate'[row'[q].key] = "live"
            \/ \E g \in Handlers : handler'[g].row = q /\ handler'[g].pc \in {"mark_revoked", "store_key"}
    BY <2>1, <2>2, <1>s
  <2> QED BY <2>2, <2>3, <2>4, <2>5, <1>s DEF Served
<1>4. ASSUME NEW h \in Handlers, Others(h), IsRefused(h) PROVE Served'
  <2>1. /\ handler'[h].pc = "compensate" /\ handler'[h].key = handler[h].key /\ handler'[h].row = NoRow
        /\ handler[h].pc = "create" /\ row' = row /\ gate' = gate
    BY <1>4, <1>k, HandlerShapes DEF IsRefused
  <2> QED BY <1>4, <1>q, <1>s, <1>k, <2>1 DEF Carries
<1>5. ASSUME NEW h \in Handlers, Others(h), DeletesKey(h) PROVE Served'
  <2> DEFINE d == handler[h].key
  <2>1. /\ row' = row /\ handler[h].pc \in {"compensate", "delete_key"} /\ d \in Keys
        /\ gate'[d] \notin {"live", "blocked"} /\ \A k \in Keys \ {d} : gate'[k] = gate[k]
    BY <1>5, HandlerShapes DEF DeletesKey
  <2>2. \/ handler'[h] = Idle /\ (handler[h].pc = "compensate" \/ gate' = gate)
        \/ /\ handler[h].pc = "delete_key" /\ handler'[h].pc = "mark_revoked"
           /\ handler'[h].key = d /\ handler'[h].row = handler[h].row /\ handler[h].row \in Rows
    BY <1>5, <1>k, HandlerShapes DEF DeletesKey
  <2> HIDE DEF d
  <2>3. \A g \in Handlers \ {h} :
            handler[g].pc \in {"create", "store_key"} => gate'[handler[g].key] = "live"
    BY <2>1, <1>s, <1>h DEF Carries, d
  <2>4. \A r \in Rows : row[r].status = "active" =>
                \/ gate'[row[r].key] = "live"
                \/ handler'[h].row = r /\ handler'[h].pc \in {"mark_revoked", "store_key"}
                \/ \E g \in Handlers \ {h} : /\ handler[g].row = r
                                             /\ handler[g].pc \in {"mark_revoked", "store_key"}
    <3> SUFFICES ASSUME NEW r \in Rows, row[r].status = "active", gate'[row[r].key] # "live",
                        gate[row[r].key] = "live"
                 PROVE  handler'[h].row = r /\ handler'[h].pc = "mark_revoked"
      BY <2>1, <1>s
    <3>1. row[r].key = d /\ gate' # gate
      BY <2>1, <1>k
    <3>2. ~Carries(h)
      BY <3>1, <1>c DEF d
    <3>3. handler[h].row \in Rows => handler[h].row = r
      BY <3>1, <2>1, <1>s, <1>k DEF d
    <3> QED BY <2>2, <3>1, <3>2, <3>3 DEF Carries
  <2>5. \A k \in Keys : gate'[k] # "blocked"
    BY <2>1, <1>s
  <2>6. handler'[h].pc \in {"idle", "mark_revoked"} /\ handler'[h].key \in {d, NoKey}
        /\ (handler'[h].row \in Rows => handler'[h].row = handler[h].row)
    BY <2>2, <1>k DEF Idle
  <2>7. \A g \in Handlers \ {h} : Carries(g) => handler'[h].key # handler[g].key
    BY <2>6, <1>s, <1>h, <1>k DEF d
  <2> QED BY <1>5, <1>q, <1>s, <2>1, <2>3, <2>4, <2>5, <2>6, <2>7 DEF Carries, d
<1>6. ASSUME NEW h \in Handlers, Others(h), Replaces(h) PROVE Served'
  <2> DEFINE old == handler[h].key
             r   == handler[h].row
  <2>0. PICK k \in Keys : /\ ~Minted(k) /\ Rotate(old, k)
                          /\ handler'[h] = [handler[h] EXCEPT !.pc = "store_key", !.key = k]
    BY <1>6 DEF Replaces
  <2>1. /\ row' = row /\ r \in Rows /\ old \in Keys /\ gate[old] = "live" /\ handler[h].pc = "regenerate"
    BY <1>6, <1>s, HandlerShapes DEF Replaces, AtGateway
  <2>2. /\ k # old /\ gate'[old] = "gone" /\ gate'[k] = "live"
        /\ \A n \in Keys \ {k, old} : gate'[n] = gate[n]
    BY <2>0, <2>1, <1>k DEF Rotate, Minted
  <2>3. handler'[h].pc = "store_key" /\ handler'[h].key = k /\ handler'[h].row = r
    BY <2>0, <1>k
  <2>4. /\ \A q \in Rows : row[q].key # k
        /\ \A g \in Handlers : handler[g].key # k
    BY <2>0, <1>c, <1>k
  <2>5. \A g \in Handlers \ {h} :
            handler[g].pc \in {"create", "store_key"} => gate'[handler[g].key] = "live"
    BY <2>2, <2>4, <1>s, <1>h DEF Carries, old
  <2>6. \A q \in Rows : row[q].status = "active" =>
                \/ gate'[row[q].key] = "live"
                \/ handler'[h].row = q
                \/ \E g \in Handlers \ {h} : /\ handler[g].row = q
                                             /\ handler[g].pc \in {"mark_revoked", "store_key"}
    <3>1. \A q \in Rows : row[q].key = old => q = r
      BY <2>1, <1>s, <1>k
    <3> HIDE DEF old, r
    <3> QED BY <2>1, <2>2, <2>3, <2>4, <3>1, <1>s, <1>k DEF r
  <2>7. \A n \in Keys : gate'[n] # "blocked"
    BY <2>2, <1>s
  <2> HIDE DEF old, r
  <2> QED BY <1>6, <1>q, <2>1, <2>2, <2>3, <2>4, <2>5, <2>6, <2>7
<1>7. ASSUME NEW h \in Handlers, Toggles(h) PROVE Served'
  BY <1>7 DEF Toggles, NoToggle
<1>8. ASSUME NEW h \in Handlers, Others(h), GivesUp(h) PROVE Served'
  <2>1. /\ row' = row /\ gate' = gate /\ handler[h].pc \notin {"mark_revoked", "store_key"}
        /\ handler'[h].pc = "idle" /\ handler'[h].row = NoRow /\ handler'[h].key = NoKey
    BY <1>8 DEF GivesUp, Idle
  <2> QED BY <1>8, <1>q, <1>s, <1>h, <1>k, <2>1 DEF Carries
<1>9. ASSUME NEW h \in Handlers, Others(h), StoresRow(h) PROVE Served'
  <2> DEFINE r == handler[h].row
             c == ToStore(h)
  <2>1. /\ gate' = gate
        /\ handler'[h].pc = "idle" /\ handler'[h].row = NoRow /\ handler'[h].key = NoKey
        /\ handler[h].pc \in {"mark_revoked", "store_key", "bind"}
    BY <1>9 DEF StoresRow, Idle, NoToggle
  <2>2. \A g \in Handlers \ {h} : handler'[g] = handler[g]
    BY <1>9 DEF Others
  <2>3. r \in Rows
    BY <2>1, HandlerShapes
  <2>4. row' = IF Writable(r, c) THEN [row EXCEPT ![r] = c] ELSE row
    BY <1>9 DEF StoresRow, WriteRow
  <2>5. /\ \A q \in Rows \ {r} : row'[q] = row[q]
        /\ row'[r].key \in {row[r].key, handler[h].key}
        /\ row'[r].key # row[r].key => handler[h].pc = "store_key"
        /\ row'[r].status = "active" =>
              /\ row[r].status = "active"
              /\ handler[h].pc # "mark_revoked"
              /\ handler[h].pc = "store_key" => row'[r].key = handler[h].key
    <3>1. CASE ~Writable(r, c)
      <4>1. row[r].status = "active" => handler[h].pc = "bind"
        <5>1. ASSUME row[r].status = "active", handler[h].pc = "mark_revoked" PROVE FALSE
          <6>1. row[r].status \in Stored /\ c.status = "revoked"
            BY <5>1, <2>3, RowShapes DEF ToStore, Stored, Unrevoked
          <6> QED BY <3>1, <6>1 DEF Writable, Admissible, Unrevoked
        <5>2. ASSUME row[r].status = "active", handler[h].pc = "store_key" PROVE FALSE
          <6>1. row[r].status \in Stored /\ c = [row[r] EXCEPT !.key = handler[h].key]
            BY <5>2 DEF ToStore, Stored, Unrevoked
          <6> HIDE DEF c
          <6> QED BY <3>1, <6>1, <2>3, SecretIsStored
        <5> QED BY <2>1, <5>1, <5>2
      <4>2. row' = row
        BY <2>4, <3>1
      <4> HIDE DEF r, c
      <4> QED BY <4>1, <4>2
    <3>2. CASE Writable(r, c)
      <4>1. row[r] \in [status : Stored, key : Keys, name : Names, agent : Agents \union {NoAgent}]
        BY <2>3, <3>2, RowShapes DEF Writable
      <4>2. /\ handler[h].pc = "mark_revoked" => c.status = "revoked" /\ c.key = row[r].key
            /\ handler[h].pc = "store_key" => c.status = row[r].status /\ c.key = handler[h].key
            /\ handler[h].pc = "bind" => c.status = row[r].status /\ c.key = row[r].key
        BY <4>1 DEF ToStore
      <4>3. row'[r] = c /\ \A q \in Rows \ {r} : row'[q] = row[q]
        BY <2>3, <2>4, <3>2, <1>k
      <4> HIDE DEF r, c
      <4> QED BY <2>1, <4>2, <4>3
    <3> QED BY <3>1, <3>2
  <2>6. \A f, g \in Handlers : (f # g /\ Carries(f)') => handler'[g].key # handler'[f].key
    BY <2>1, <2>2, <1>s, <1>h, <1>k DEF Carries
  <2> HIDE DEF r, c
  <2>7. ASSUME NEW g \in Handlers, NEW q \in Rows,
               handler'[g].row \in Rows, handler'[g].key # NoKey, row'[q].key = handler'[g].key
        PROVE  handler'[g].row = q
    <3>1. g # h /\ handler'[g] = handler[g]
      BY <2>1, <2>2, <2>7
    <3>2. row'[q].key = row[q].key
      BY <2>5, <2>7, <3>1, <1>s DEF Carries
    <3> QED BY <2>7, <3>1, <3>2, <1>s
  <2>8. ASSUME NEW q \in Rows, row'[q].status = "active"
        PROVE  \/ gate'[row'[q].key] = "live"
               \/ \E g \in Handlers : handler'[g].row = q /\ handler'[g].pc \in {"mark_revoked", "store_key"}
    <3>1. CASE q # r
      <4>1. row'[q] = row[q] /\ handler[h].row # q
        BY <2>5, <3>1 DEF r
      <4> QED BY <2>1, <2>2, <2>8, <4>1, <1>s
    <3>2. CASE q = r /\ handler[h].pc = "store_key"
      BY <2>1, <2>5, <2>8, <3>2, <1>s
    <3>3. CASE q = r /\ handler[h].pc = "bind"
      BY <2>1, <2>2, <2>5, <2>8, <3>3, <1>s
    <3> QED BY <2>1, <2>5, <2>8, <3>1, <3>2, <3>3
  <2>9. \A g \in Handlers : handler'[g].pc \in {"create", "store_key"} => gate'[handler'[g].key] = "live"
    BY <2>1, <2>2, <1>s
  <2> QED BY <2>1, <2>6, <2>7, <2>8, <2>9, <1>s DEF Served
<1>10. CASE Reconciles
  <2>1. /\ row' = row /\ handler' = handler
        /\ \A k \in Keys : gate'[k] = gate[k] \/ (k \in rec.todo /\ gate'[k] = "gone")
    BY <1>10 DEF Reconciles
  <2>2. \A h \in Handlers : Carries(h) => gate'[handler[h].key] = gate[handler[h].key]
    BY <2>1, <1>h DEF ChosenAreDead, Chosen
  <2>3. \A r \in Rows : row[r].status = "active" => gate'[row[r].key] = gate[row[r].key]
    BY <2>1, <1>k DEF ChosenAreDead, Chosen, Unrevoked
  <2> QED BY <2>1, <2>2, <2>3, <1>s DEF Served, Carries
<1>11. CASE Purge
  <2>1. /\ handler' = handler /\ gate' = gate
        /\ \A r \in Rows : row'[r] # row[r] => row'[r].key = NoKey /\ row'[r].status = "purged"
    BY <1>11 DEF Purge, PurgedRow, EmptyRow
  <2> QED BY <2>1, <1>s DEF Served, Carries
<1> QED BY <1>1, <1>2, <1>3, <1>4, <1>5, <1>6, <1>7, <1>8, <1>9, <1>10, <1>11, CalmSteps DEF CalmHandler

\* Where enabling is not offered and nothing fails, a row in service that no
\* handler works on has a key that serves: no revocation, regeneration or stale
\* reconcile cycle takes the key of an active row, whatever their overlap.
THEOREM ActiveKeysDoWork ==
    ASSUME "set_enabled" \notin Ops
    PROVE  Spec => []ActiveKeysWork
<1> DEFINE Inv == faults = 0 => Served
<1>1. Init => NoToggle /\ KeyCustody /\ ChosenAreDead /\ ActiveKeysUnique /\ Inv
  <2> SUFFICES ASSUME Init PROVE NoToggle /\ KeyCustody /\ ChosenAreDead /\ ActiveKeysUnique /\ Served
    OBVIOUS
  <2>1. /\ \A r \in Rows : row[r].key = NoKey /\ row[r].status = "none"
        /\ \A h \in Handlers : /\ handler[h].key = NoKey /\ handler[h].pc = "idle"
                               /\ handler[h].row = NoRow
        /\ rec.todo = {} /\ \A r \in Rows : rec.snap[r].status = "none"
        /\ \A k \in Keys : gate[k] = "unminted"
    BY DEF Init, EmptyRow, Idle, RecIdle
  <2> QED BY <2>1, NullsAssumption DEF NoToggle, KeyCustody, Carries, KeysNotShared, ChosenAreDead,
                Chosen, ActiveKeysUnique, Unrevoked, Served
<1>2. TypeOK /\ NoToggle /\ KeyCustody /\ ChosenAreDead /\ ActiveKeysUnique /\ Inv /\ [Next]_vars
          => NoToggle' /\ KeyCustody' /\ ChosenAreDead' /\ ActiveKeysUnique' /\ Inv'
  BY NoToggleStep, CustodyStep, ChosenStep, UniqueStep, ServedStep, CalmSteps
<1>3. Inv => ActiveKeysWork
  BY DEF Served, ActiveKeysWork
<1>4. Spec => []TypeOK
  BY TypeCorrect
<1> HIDE DEF Inv
<1> QED BY <1>1, <1>2, <1>3, <1>4, PTL DEF Spec

=============================================================================
