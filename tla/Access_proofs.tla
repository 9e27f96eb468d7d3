----------------------------- MODULE Access_proofs -----------------------------
(* Theorems about Access, for every value of its constants. *)
EXTENDS Access, FiniteSetTheorems, TLAPS

(***************************************************************************)
(* What a handler holds at each place of its code.                          *)
(***************************************************************************)
HandlerOK(x) ==
    /\ x \in HandlerRecord
    /\ x.pc \notin {"idle", "evict"} => x.user \in Users
    /\ x.pc = "verify" => x.name \in Names
    /\ x.pc = "index" => x.session \in Sessions
    /\ x.opens => x.data \in Data
    /\ x.pc \in {"save_password", "store", "index"} => x.opens
    /\ x.opens => x.pc \in {"save_password", "list", "delete", "store", "index"}
    /\ x.pc = "idle" => x = Idle

HandlersOK == DOMAIN handler = Handlers /\ \A h \in Handlers : HandlerOK(handler[h])

RowsOK ==
    /\ row \in [Users -> UserRecord]
    /\ \A u \in Users : row[u].state = "here" => row[u].data \in Data

TypeInv == TypeOK /\ HandlersOK

LEMMA IdleOK == HandlerOK(Idle)
BY DEF HandlerOK, Idle, HandlerRecord

LEMMA OpeningOK ==
    ASSUME NEW z \in HandlerRecord, z.opens = TRUE, z.data \in Data, z.user \in Users,
           z.pc \in {"save_password", "list", "delete", "store", "index"},
           z.pc = "index" => z.session \in Sessions
    PROVE  HandlerOK(z)
<1>1. z.pc \notin {"idle", "evict"} /\ z.pc \in {"save_password", "store", "index"} => z.opens
  OBVIOUS
<1>2. z.opens => z.data \in Data /\ z.pc \in {"save_password", "list", "delete", "store", "index"}
  OBVIOUS
<1> QED BY <1>1, <1>2 DEF HandlerOK

LEMMA ClosedOK ==
    ASSUME NEW z \in HandlerRecord, z.opens = FALSE,
           z.pc \in {"verify", "toggle", "list", "delete", "evict", "read_perms", "put"},
           z.pc # "evict" => z.user \in Users, z.pc = "verify" => z.name \in Names
    PROVE  HandlerOK(z)
<1>1. z.opens => z.data \in Data /\ z.pc \in {"save_password", "list", "delete", "store", "index"}
  OBVIOUS
<1>2. z.pc \notin {"idle", "index", "save_password", "store"}
  OBVIOUS
<1> QED BY <1>1, <1>2 DEF HandlerOK

LEMMA GotoOK ==
    ASSUME TypeInv, NEW h \in Handlers, NEW x, HandlerOK(x), Goto(h, x)
    PROVE  HandlersOK' /\ handler' \in [Handlers -> HandlerRecord]
<1>1. \A y \in Handlers : handler'[y] = IF y = h THEN x ELSE handler[y]
  BY DEF Goto, TypeInv, HandlersOK
<1>2. \A y \in Handlers : HandlerOK(handler'[y])
  BY <1>1 DEF TypeInv, HandlersOK
<1>3. handler' \in [Handlers -> HandlerRecord]
  BY DEF Goto, TypeInv, TypeOK, HandlerOK
<1> QED BY <1>2, <1>3 DEF HandlersOK, HandlerOK

LEMMA PassOverOK ==
    ASSUME TypeInv, NEW h \in Handlers, NEW x, HandlerOK(x), NEW others,
           \A y \in others : handler[y].opens, PassOver(h, x, others)
    PROVE  HandlersOK' /\ handler' \in [Handlers -> HandlerRecord]
<1>1. ASSUME NEW y \in Handlers, handler[y].opens
      PROVE  HandlerOK([handler[y] EXCEPT !.late = TRUE])
  <2>1. HandlerOK(handler[y]) /\ handler[y].pc # "idle"
    BY <1>1 DEF TypeInv, HandlersOK, HandlerOK
  <2> DEFINE z == [handler[y] EXCEPT !.late = TRUE]
  <2>2. z \in HandlerRecord
    BY <2>1 DEF HandlerOK, HandlerRecord
  <2>3. /\ z.pc = handler[y].pc /\ z.user = handler[y].user /\ z.session = handler[y].session
        /\ z.opens = TRUE /\ z.data = handler[y].data
    BY <1>1, <2>1 DEF HandlerOK, HandlerRecord
  <2>4. /\ handler[y].user \in Users /\ handler[y].data \in Data
        /\ handler[y].pc \in {"save_password", "list", "delete", "store", "index"}
        /\ handler[y].pc = "index" => handler[y].session \in Sessions
    BY <1>1, <2>1 DEF HandlerOK
  <2> HIDE DEF z
  <2>5. HandlerOK(z)
    BY <2>2, <2>3, <2>4, OpeningOK
  <2> QED BY <2>5 DEF z
<1>2. ASSUME NEW y \in Handlers PROVE HandlerOK(handler'[y])
  <2>1. handler'[y] = IF y = h THEN x ELSE IF y \in others THEN [handler[y] EXCEPT !.late = TRUE]
                                      ELSE handler[y]
    BY DEF PassOver
  <2>2. y \in others => HandlerOK([handler[y] EXCEPT !.late = TRUE])
    BY <1>1
  <2>3. HandlerOK(handler[y])
    BY DEF TypeInv, HandlersOK
  <2> QED BY <2>1, <2>2, <2>3
<1>3. \A y \in Handlers : handler'[y] \in HandlerRecord
  BY <1>2 DEF HandlerOK
<1>4. DOMAIN handler' = Handlers /\ handler' = [y \in Handlers |-> handler'[y]]
  BY DEF PassOver
<1> QED BY <1>2, <1>3, <1>4 DEF HandlersOK

(***************************************************************************)
(* The type invariant.                                                      *)
(***************************************************************************)
StoreOK == StoreTypeOK /\ changes \in 0..MaxChanges

\* What the calls of Redis leave.
LEMMA FaultsOK ==
    ASSUME faults \in 0..MaxFaults, NoFault \/ Fault
    PROVE  faults' \in 0..MaxFaults /\ faults <= faults'
BY LimitsAssumption DEF NoFault, Fault

LEMMA RedisKept ==
    ASSUME StoreTypeOK, UNCHANGED <<session, index, ttl, slipped>>, faults' \in 0..MaxFaults,
           UNCHANGED fails \/ \E k \in Users \X Names : fails' = [fails EXCEPT ![k] = NoFails]
    PROVE  StoreTypeOK'
<1>0. NoFails \in [count : Nat, expires : BOOLEAN]
  BY DEF NoFails
<1>1. fails' \in [Users \X Names -> [count : Nat, expires : BOOLEAN]]
  BY <1>0 DEF StoreTypeOK
<1>2. /\ session' = session /\ index' = index /\ ttl' = ttl /\ slipped' = slipped
  OBVIOUS
<1>3. /\ session' \in [Sessions -> SessionRecord]
      /\ index' \in [Users -> SUBSET Sessions]
      /\ ttl' \in [Users -> [keeper : Sessions \union {NoUser}, brief : BOOLEAN]]
      /\ slipped' \subseteq Sessions
  BY <1>2 DEF StoreTypeOK
<1>4. \A s \in Sessions :
          session'[s].state = "live" => session'[s].user \in Users /\ session'[s].data \in Data
  BY <1>2 DEF StoreTypeOK
<1> QED BY <1>1, <1>3, <1>4 DEF StoreTypeOK

LEMMA DropOK ==
    ASSUME StoreTypeOK, NEW ids, Drop(ids)
    PROVE  /\ session' \in [Sessions -> SessionRecord] /\ slipped' \subseteq Sessions
           /\ \A s \in Sessions :
                session'[s].state = "live" => session'[s].user \in Users /\ session'[s].data \in Data
<1>1. Gone \in SessionRecord /\ Gone.state = "gone"
  BY DEF Gone, Unused, SessionRecord
<1> QED BY <1>1 DEF Drop, StoreTypeOK, Live

LEMMA LiveOfOK == \A u : LiveOf(u) \subseteq Sessions
BY DEF LiveOf


LEMMA SlippedOK ==
    ASSUME StoreTypeOK, UNCHANGED <<session, index, ttl, fails>>, slipped' \subseteq Sessions,
           faults' \in 0..MaxFaults
    PROVE  StoreTypeOK'
<1>1. session' = session /\ index' = index /\ ttl' = ttl /\ fails' = fails
  OBVIOUS
<1> QED BY <1>1 DEF StoreTypeOK

\* A step of a handler that leaves the users alone.
LEMMA HandlerTyped ==
    ASSUME TypeInv, NEW h \in Handlers, NEW x, HandlerOK(x), Goto(h, x), row' = row,
           changes' \in 0..MaxChanges, StoreTypeOK', PermissionTypeOK'
    PROVE  TypeInv'
<1>1. HandlersOK' /\ handler' \in [Handlers -> HandlerRecord]
  BY GotoOK
<1>2. \A y \in Handlers : /\ handler'[y].pc \notin {"idle", "evict"} => handler'[y].user \in Users
                          /\ handler'[y].pc = "verify" => handler'[y].name \in Names
                          /\ handler'[y].pc = "index" => handler'[y].session \in Sessions
                          /\ handler'[y].opens => handler'[y].data \in Data
  BY <1>1 DEF HandlersOK, HandlerOK
<1> QED BY <1>1, <1>2 DEF TypeInv, TypeOK

LEMMA SaveRowTyped ==
    ASSUME TypeInv, NEW h \in Handlers, NEW u \in Users, NEW value \in UserRecord,
           value.state = "here" => value.data \in Data, NEW next, HandlerOK(next),
           SaveRow(h, u, value, next), changes' \in 0..MaxChanges, PermissionTypeOK'
    PROVE  TypeInv'
<1>1. faults' \in 0..MaxFaults
  BY FaultsOK DEF SaveRow, TypeInv, TypeOK, StoreTypeOK
<1>2. slipped' = slipped \/ slipped' = slipped \union LiveOf(u)
  BY DEF SaveRow, NoRevocation
<1>3. StoreTypeOK'
  <2>1. slipped' \subseteq Sessions
    BY <1>2, LiveOfOK DEF TypeInv, TypeOK, StoreTypeOK
  <2> QED BY <1>1, <2>1, SlippedOK DEF SaveRow, TypeInv, TypeOK
<1>4. HandlersOK' /\ handler' \in [Handlers -> HandlerRecord]
  <2>1. \/ Goto(h, next) \/ Goto(h, Idle)
        \/ PassOver(h, Idle, {y \in Handlers : Opening(y, u)})
    BY DEF SaveRow, NoRevocation, Answer
  <2>2. \A y \in {z \in Handlers : Opening(z, u)} : handler[y].opens
    BY DEF Opening
  <2>3. CASE Goto(h, next) \/ Goto(h, Idle)
    BY <2>3, GotoOK, IdleOK
  <2>4. CASE PassOver(h, Idle, {y \in Handlers : Opening(y, u)})
    BY <2>2, <2>4, PassOverOK, IdleOK
  <2> QED BY <2>1, <2>3, <2>4
<1>5. row' \in [Users -> UserRecord] /\ \A v \in Users : row'[v].state = "here" => row'[v].data \in Data
  <2>1. row' = row \/ row' = [row EXCEPT ![u] = value]
    BY DEF SaveRow
  <2> QED BY <2>1 DEF TypeInv, TypeOK
<1>6. \A y \in Handlers : /\ handler'[y].pc \notin {"idle", "evict"} => handler'[y].user \in Users
                          /\ handler'[y].pc = "verify" => handler'[y].name \in Names
                          /\ handler'[y].pc = "index" => handler'[y].session \in Sessions
                          /\ handler'[y].opens => handler'[y].data \in Data
  BY <1>4 DEF HandlersOK, HandlerOK
<1> QED BY <1>3, <1>4, <1>5, <1>6 DEF TypeInv, TypeOK

LEMMA RevocationOK == \A u \in Users : HandlerOK(Revocation(u))
<1> SUFFICES ASSUME NEW u \in Users PROVE HandlerOK(Revocation(u))
  OBVIOUS
<1>1. Revocation(u) \in HandlerRecord
  BY DEF Revocation, Idle, HandlerRecord
<1>2. Revocation(u).opens = FALSE /\ Revocation(u).pc = "list" /\ Revocation(u).user = u
  BY DEF Revocation, Idle
<1> QED BY <1>1, <1>2, ClosedOK

LEMMA GivenOK ==
    ASSUME NEW S, NEW argument \in Optional(S), NEW otherwise \in S
    PROVE  Given(argument, otherwise) \in S
BY DEF Optional, Given

\* A mutation of the tables of roles and its answer.
LEMMA RolesTyped ==
    ASSUME PermissionTypeOK, NEW c \in CustomRoles, NEW told \in BOOLEAN,
           \/ DeleteCustomRole(c, told)
           \/ \E perms \in SUBSET Permissions : SetRolePermissions(c, perms, told)
           \/ \E u \in Users : AssignUserRole(u, c, told) \/ RemoveUserRole(u, c, told)
    PROVE  PermissionTypeOK'
<1> USE HoldersAssumption
<1>1. cache' = cache /\ gen' = gen /\ missed' \subseteq Holders
  BY DEF DeleteCustomRole, SetRolePermissions, AssignUserRole, RemoveUserRole, Tell, PermissionTypeOK
<1>2. exists' \subseteq CustomRoles /\ grants' \in [CustomRoles -> SUBSET Permissions]
  BY DEF DeleteCustomRole, SetRolePermissions, AssignUserRole, RemoveUserRole, PermissionTypeOK
<1>3. holds' \in [Holders -> SUBSET exists']
  <2>1. CASE DeleteCustomRole(c, told)
    BY <2>1 DEF DeleteCustomRole, PermissionTypeOK
  <2>2. CASE \E perms \in SUBSET Permissions : SetRolePermissions(c, perms, told)
    BY <2>2 DEF SetRolePermissions, PermissionTypeOK
  <2>3. CASE \E u \in Users : AssignUserRole(u, c, told)
    BY <2>3 DEF AssignUserRole, PermissionTypeOK
  <2>4. CASE \E u \in Users : RemoveUserRole(u, c, told)
    BY <2>4 DEF RemoveUserRole, PermissionTypeOK
  <2> QED BY <2>1, <2>2, <2>3, <2>4
<1> QED BY <1>1, <1>2, <1>3 DEF PermissionTypeOK

LEMMA TypeStep == TypeInv /\ [Next]_vars => TypeInv'
<1> SUFFICES ASSUME TypeInv, [Next]_vars PROVE TypeInv'
    OBVIOUS
<1> USE HoldersAssumption
<1>t. /\ TypeOK /\ HandlersOK /\ StoreTypeOK /\ PermissionTypeOK
      /\ row \in [Users -> UserRecord] /\ changes \in 0..MaxChanges /\ faults \in 0..MaxFaults
      /\ \A u \in Users : Here(u) => row[u].data \in Data
      /\ \A h \in Handlers : HandlerOK(handler[h])
  BY DEF TypeInv, TypeOK, StoreTypeOK, HandlersOK, Here
<1>p. ASSUME UNCHANGED permissions PROVE PermissionTypeOK'
  BY <1>p, <1>t DEF permissions, PermissionTypeOK
<1>r. ASSUME UNCHANGED redis, faults' \in 0..MaxFaults PROVE StoreTypeOK'
  <2>1. /\ session' = session /\ index' = index /\ ttl' = ttl /\ fails' = fails
        /\ slipped' = slipped
    BY <1>r DEF redis
  <2> QED BY <1>r, <1>t, <2>1, RedisKept

<1>f. NoFault \/ Fault => faults' \in 0..MaxFaults
  BY <1>t, FaultsOK
<1>c. Change \/ changes' = changes => changes' \in 0..MaxChanges
  BY <1>t, MaxChangesAssumption DEF Change
<1>i. HandlerOK(Idle)
  BY IdleOK
\* What makes a well-formed state: first of any step, then of one that moves no handler.
<1>x. ASSUME HandlersOK', handler' \in [Handlers -> HandlerRecord], row' = row, changes' \in 0..MaxChanges,
             StoreTypeOK', PermissionTypeOK'
      PROVE  TypeInv'
  <2>1. \A y \in Handlers : /\ handler'[y].pc \notin {"idle", "evict"} => handler'[y].user \in Users
                            /\ handler'[y].pc = "verify" => handler'[y].name \in Names
                            /\ handler'[y].pc = "index" => handler'[y].session \in Sessions
                            /\ handler'[y].opens => handler'[y].data \in Data
    BY <1>x DEF HandlersOK, HandlerOK
  <2> QED BY <1>x, <2>1, <1>t DEF TypeInv, TypeOK
<1>y. ASSUME handler' = handler, row' = row, changes' = changes, StoreTypeOK', PermissionTypeOK'
      PROVE  TypeInv'
  <2>1. HandlersOK' /\ handler' \in [Handlers -> HandlerRecord]
    BY <1>y, <1>t DEF HandlersOK, TypeOK
  <2> QED BY <1>y, <2>1, <1>t, <1>x
\* Logins.
<1>1. ASSUME NEW h \in Handlers, NEW u \in Users, NEW n \in Names, LoginBegin(h, u, n) PROVE TypeInv'
  <2> DEFINE x == [Idle EXCEPT !.pc = "verify", !.user = u, !.name = n]
  <2>1. x \in HandlerRecord /\ x.opens = FALSE /\ x.pc = "verify" /\ x.user = u /\ x.name = n
    BY DEF Idle, HandlerRecord
  <2> HIDE DEF x
  <2>2. HandlerOK(x)
    BY <2>1, ClosedOK
  <2>3. Goto(h, x) /\ row' = row /\ changes' = changes /\ UNCHANGED redis /\ UNCHANGED permissions
        /\ (NoFault \/ Fault)
    BY <1>1 DEF LoginBegin, NotBlocked, x
  <2> QED BY <2>2, <2>3, <1>t, <1>p, <1>r, <1>f, HandlerTyped
<1>2. ASSUME NEW h \in Handlers, LoginFails(h) PROVE TypeInv'
  <2> DEFINE k == Counter(h)
  <2>1. k \in Users \X Names /\ Fail(k)
    BY <1>2, <1>t DEF LoginFails, At, HandlerOK, Counter
  <2>2. UNCHANGED <<session, index, ttl, slipped>> /\ faults' \in 0..MaxFaults
        /\ row' = row /\ changes' = changes /\ Goto(h, Idle) /\ UNCHANGED permissions
    BY <1>2, <1>f DEF LoginFails, Fail, Answer
  <2> HIDE DEF k
  <2>3. fails' \in [Users \X Names -> [count : Nat, expires : BOOLEAN]]
    <3>1. fails' = fails \/ fails' = [fails EXCEPT ![k] = [count |-> fails[k].count + 1,
                                          expires |-> fails[k].expires \/ fails[k].count = 0]]
      BY <2>1 DEF Fail
    <3>2. fails[k].count + 1 \in Nat /\ (fails[k].expires \/ fails[k].count = 0) \in BOOLEAN
      BY <2>1, <1>t DEF StoreTypeOK
    <3> DEFINE new == [count |-> fails[k].count + 1, expires |-> fails[k].expires \/ fails[k].count = 0]
    <3>3. new \in [count : Nat, expires : BOOLEAN]
      BY <3>2
    <3> HIDE DEF new
    <3>4. fails' = fails \/ fails' = [fails EXCEPT ![k] = new]
      BY <3>1 DEF new
    <3> QED BY <3>3, <3>4, <1>t DEF StoreTypeOK
  <2>4. StoreTypeOK'
    <3>1. session' = session /\ index' = index /\ ttl' = ttl /\ slipped' = slipped
      BY <2>2
    <3> QED BY <2>2, <2>3, <3>1, <1>t DEF StoreTypeOK
  <2> QED BY <2>2, <2>4, <1>t, <1>p, <1>i, HandlerTyped
<1>3. ASSUME NEW h \in Handlers, LoginDisabled(h) \/ StoreFails(h) PROVE TypeInv'
  <2>1. Goto(h, Idle) /\ row' = row /\ changes' = changes /\ UNCHANGED redis /\ UNCHANGED permissions
        /\ (NoFault \/ Fault)
    BY <1>3 DEF LoginDisabled, StoreFails, Answer
  <2> QED BY <2>1, <1>t, <1>p, <1>r, <1>f, <1>i, HandlerTyped
<1>4. ASSUME NEW h \in Handlers, LoginVerified(h) PROVE TypeInv'
  <2> DEFINE u == handler[h].user
             k == Counter(h)
             x == [handler[h] EXCEPT !.pc = "store", !.opens = TRUE, !.name = NoUser, !.data = row[u].data]
  <2>1. u \in Users /\ k \in Users \X Names /\ Reset(k) /\ row[u].data \in Data /\ handler[h] \in HandlerRecord
    BY <1>4, <1>t DEF LoginVerified, At, HandlerOK, Counter
  <2>2. x \in HandlerRecord /\ x.opens = TRUE /\ x.pc = "store" /\ x.user = u /\ x.data \in Data
    BY <2>1 DEF HandlerRecord
  <2>3. Goto(h, x) /\ row' = row /\ changes' = changes /\ UNCHANGED permissions
    BY <1>4 DEF LoginVerified
  <2>4. UNCHANGED <<session, index, ttl, slipped>> /\ faults' \in 0..MaxFaults
        /\ (fails' = fails \/ fails' = [fails EXCEPT ![k] = NoFails])
    BY <2>1, <1>f DEF Reset
  <2> HIDE DEF x, u, k
  <2>5. StoreTypeOK'
    BY <2>1, <2>4, <1>t, RedisKept
  <2>6. HandlerOK(x)
    BY <2>1, <2>2, OpeningOK
  <2> QED BY <2>3, <2>5, <2>6, <1>t, <1>p, HandlerTyped
<1>5. ASSUME NEW h \in Handlers, Store(h) PROVE TypeInv'
  <2>0. PICK s \in Sessions : StoreSession(s, handler[h].user, handler[h].data, handler[h].late)
                              /\ Goto(h, [handler[h] EXCEPT !.pc = "index", !.session = s])
    BY <1>5 DEF Store
  <2> DEFINE x == [handler[h] EXCEPT !.pc = "index", !.session = s]
             n == [state |-> "live", user |-> handler[h].user, data |-> handler[h].data]
  <2>1. handler[h].user \in Users /\ handler[h].data \in Data /\ handler[h] \in HandlerRecord
        /\ handler[h].opens = TRUE
    BY <1>5, <1>t DEF Store, At, HandlerOK, HandlerRecord
  <2>2. x \in HandlerRecord /\ x.opens = TRUE /\ x.pc = "index" /\ x.user = handler[h].user
        /\ x.data = handler[h].data /\ x.session = s
    BY <2>1 DEF HandlerRecord
  <2>3. n \in SessionRecord /\ n.user \in Users /\ n.data \in Data
    BY <2>1 DEF SessionRecord
  <2>4. session' = [session EXCEPT ![s] = n] /\ index' = index /\ ttl' = ttl /\ fails' = fails
        /\ slipped' \subseteq slipped \union {s}
    BY <2>0 DEF StoreSession
  <2> HIDE DEF x, n
  <2>5. StoreTypeOK'
    <3>1. session' \in [Sessions -> SessionRecord]
          /\ \A t \in Sessions :
                session'[t].state = "live" => session'[t].user \in Users /\ session'[t].data \in Data
      BY <2>3, <2>4, <1>t DEF StoreTypeOK
    <3>2. faults' \in 0..MaxFaults
      BY <1>5, <1>f DEF Store
    <3> QED BY <2>4, <3>1, <3>2, <1>t DEF StoreTypeOK
  <2>6. HandlerOK(x)
    BY <2>1, <2>2, OpeningOK
  <2>7. Goto(h, x) /\ row' = row /\ changes' = changes /\ UNCHANGED permissions
    BY <1>5, <2>0 DEF Store, x
  <2> QED BY <2>5, <2>6, <2>7, <1>t, <1>p, HandlerTyped
<1>6. ASSUME NEW h \in Handlers, Index(h) PROVE TypeInv'
  <2> DEFINE u == handler[h].user
             s == handler[h].session
  <2>1. u \in Users /\ s \in Sessions /\ IndexSession(s, u, Deleting(u))
    BY <1>6, <1>t DEF Index, At, HandlerOK
  <2>2. Goto(h, Idle) /\ row' = row /\ changes' = changes /\ UNCHANGED permissions
    BY <1>6 DEF Index, Answer
  <2> HIDE DEF u, s
  <2>a. ttl[u] \in [keeper : Sessions \union {NoUser}, brief : BOOLEAN] /\ Lapsed(u) \in BOOLEAN
    BY <2>1, <1>t DEF StoreTypeOK, Lapsed
  <2> DEFINE mine == [keeper |-> s, brief |-> FALSE]
             kept == [ttl[u] EXCEPT !.brief = @ \/ Lapsed(u)]
  <2>b. mine \in [keeper : Sessions \union {NoUser}, brief : BOOLEAN]
    BY <2>1
  <2>c. kept \in [keeper : Sessions \union {NoUser}, brief : BOOLEAN]
    BY <2>a
  <2>d. ttl' = ttl \/ ttl' = [ttl EXCEPT ![u] = mine] \/ ttl' = [ttl EXCEPT ![u] = kept]
    BY <2>1 DEF IndexSession
  <2> HIDE DEF mine, kept
  <2>e. ttl' \in [Users -> [keeper : Sessions \union {NoUser}, brief : BOOLEAN]]
    BY <2>1, <2>b, <2>c, <2>d, <1>t DEF StoreTypeOK
  <2>f. faults' \in 0..MaxFaults
    BY <2>1, <1>f, <1>t DEF IndexSession
  <2>g. index' = index \/ index' = [index EXCEPT ![u] = @ \union {s}]
    BY <2>1 DEF IndexSession
  <2>h. index' \in [Users -> SUBSET Sessions]
    BY <2>1, <2>g, <1>t DEF StoreTypeOK
  <2>i. slipped' \subseteq Sessions /\ session' = session /\ fails' = fails
    BY <2>1, <1>t DEF IndexSession, StoreTypeOK
  <2>4. StoreTypeOK'
    BY <2>e, <2>f, <2>h, <2>i, <1>t DEF StoreTypeOK
  <2> QED BY <2>2, <2>4, <1>t, <1>p, <1>i, HandlerTyped
\* Mutations of users.
<1>7. ASSUME NEW h \in Handlers, NEW u \in Users, NEW data \in Data, NEW enabled \in BOOLEAN,
             CreateUser(h, u, data, enabled)
      PROVE  TypeInv'
  <2>1. [state |-> "here", active |-> enabled, data |-> data] \in UserRecord
    BY DEF UserRecord
  <2>2. SaveRow(h, u, [state |-> "here", active |-> enabled, data |-> data], Idle)
        /\ changes' = changes /\ UNCHANGED permissions
    BY <1>7 DEF CreateUser
  <2> QED BY <2>1, <2>2, <1>t, <1>p, <1>i, SaveRowTyped
<1>8. ASSUME NEW h \in Handlers, NEW u \in Users, NEW value \in UserRecord, value.data \in Data,
             NEW revoke \in BOOLEAN, Administer(h, u, value, revoke), PermissionTypeOK'
      PROVE  TypeInv'
  <2> DEFINE next == IF revoke THEN Revocation(u) ELSE Idle
  <2>1. HandlerOK(next)
    BY <1>i, RevocationOK
  <2>2. SaveRow(h, u, value, next) /\ changes' \in 0..MaxChanges
    BY <1>8, <1>c DEF Administer
  <2> HIDE DEF next
  <2> QED BY <1>8, <2>1, <2>2, SaveRowTyped
<1>9. ASSUME NEW h \in Handlers, NEW u \in Users, NEW role \in Optional(Roles),
             NEW enabled \in Optional(BOOLEAN), UpdateUser(h, u, role, enabled)
      PROVE  TypeInv'
  <2>1. row[u] \in UserRecord /\ row[u].data \in Data
    BY <1>9, <1>t DEF UpdateUser
  <2>2. Given(role, row[u].data.role) \in Roles /\ Given(enabled, row[u].active) \in BOOLEAN
    BY <2>1, GivenOK DEF UserRecord, Data
  <2>3. Updated(u, role, enabled) \in UserRecord /\ Updated(u, role, enabled).data \in Data
    BY <2>1, <2>2 DEF Updated, UserRecord, Data
  <2>4. (role # {} \/ enabled = {FALSE}) \in BOOLEAN
    OBVIOUS
  <2> QED BY <1>9, <2>3, <2>4, <1>8, <1>p DEF UpdateUser
<1>10. ASSUME NEW h \in Handlers, NEW u \in Users, DeleteUser(h, u) PROVE TypeInv'
  <2>1. [row[u] EXCEPT !.state = "gone"] \in UserRecord /\ [row[u] EXCEPT !.state = "gone"].data \in Data
    BY <1>10, <1>t DEF DeleteUser, UserRecord
  <2>2. PermissionTypeOK'
    BY <1>10, <1>t DEF DeleteUser, PermissionTypeOK
  <2> QED BY <1>10, <2>1, <2>2, <1>8 DEF DeleteUser
<1>11. ASSUME NEW h \in Handlers, NEW u \in Users, NEW password \in Passwords,
              ResetUserPassword(h, u, password)
       PROVE  TypeInv'
  <2>1. [row[u] EXCEPT !.data.password = password] \in UserRecord
        /\ [row[u] EXCEPT !.data.password = password].data \in Data
    BY <1>11, <1>t DEF ResetUserPassword, UserRecord, Data
  <2> QED BY <1>11, <2>1, <1>8, <1>p DEF ResetUserPassword
<1>12. ASSUME NEW h \in Handlers, NEW u \in Users, ToggleRead(h, u) PROVE TypeInv'
  <2> DEFINE x == [Idle EXCEPT !.pc = "toggle", !.user = u, !.active = ~row[u].active]
  <2>1. x \in HandlerRecord /\ x.opens = FALSE /\ x.pc = "toggle" /\ x.user = u
    BY DEF Idle, HandlerRecord
  <2>2. Goto(h, x) /\ row' = row /\ Change /\ UNCHANGED redis /\ UNCHANGED permissions /\ NoFault
    BY <1>12 DEF ToggleRead
  <2> HIDE DEF x
  <2>3. HandlerOK(x)
    BY <2>1, ClosedOK
  <2> QED BY <2>2, <2>3, <1>c, <1>f, <1>p, <1>r, HandlerTyped
<1>13. ASSUME NEW h \in Handlers, ToggleSave(h) PROVE TypeInv'
  <2> DEFINE u == handler[h].user
  <2>0. u \in Users /\ changes' = changes /\ UNCHANGED permissions
    BY <1>13, <1>t DEF ToggleSave, At, HandlerOK
  <2>1. CASE Here(u) /\ SaveRow(h, u, [row[u] EXCEPT !.active = handler[h].active],
                                IF handler[h].active THEN Idle ELSE Revocation(u))
    <3> DEFINE value == [row[u] EXCEPT !.active = handler[h].active]
               next  == IF handler[h].active THEN Idle ELSE Revocation(u)
    <3>1. handler[h].active \in BOOLEAN
      BY <1>t DEF HandlerOK, HandlerRecord
    <3>2. value \in UserRecord /\ value.data \in Data
      BY <2>0, <2>1, <3>1, <1>t DEF UserRecord
    <3>3. HandlerOK(next)
      BY <2>0, <1>i, RevocationOK
    <3>4. SaveRow(h, u, value, next)
      BY <2>1
    <3> HIDE DEF value, next, u
    <3> QED BY <2>0, <3>2, <3>3, <3>4, <1>t, <1>p, SaveRowTyped
  <2>2. CASE Answer(h) /\ NoFault /\ UNCHANGED <<row, redis>>
    BY <2>0, <2>2, <1>t, <1>p, <1>r, <1>f, <1>i, HandlerTyped DEF Answer
  <2> QED BY <1>13, <2>1, <2>2 DEF ToggleSave
<1>14. ASSUME NEW h \in Handlers, NEW s \in Sessions, ChangePasswordRead(h, s) PROVE TypeInv'
  <2> DEFINE u == session[s].user
             late == s \in slipped \/ (~row[u].active /\ Deleting(u))
             x == [Idle EXCEPT !.pc = "save_password", !.user = u, !.opens = TRUE,
                               !.late = late, !.data = row[u].data]
  <2>1. u \in Users /\ row[u].data \in Data
    BY <1>14, <1>t DEF ChangePasswordRead, Known, Live, StoreTypeOK
  <2>2. late \in BOOLEAN
    OBVIOUS
  <2>3. Goto(h, x) /\ row' = row /\ Change /\ UNCHANGED redis /\ UNCHANGED permissions /\ NoFault
    BY <1>14 DEF ChangePasswordRead
  <2> HIDE DEF u, late
  <2>4. x \in HandlerRecord /\ x.opens = TRUE /\ x.pc = "save_password" /\ x.user = u /\ x.data \in Data
    BY <2>1, <2>2 DEF Idle, HandlerRecord
  <2> HIDE DEF x
  <2>5. HandlerOK(x)
    BY <2>1, <2>4, OpeningOK
  <2> QED BY <2>3, <2>5, <1>c, <1>f, <1>p, <1>r, HandlerTyped
<1>15. ASSUME NEW h \in Handlers, NEW password \in Passwords, ChangePasswordSave(h, password)
       PROVE  TypeInv'
  <2> DEFINE u == handler[h].user
  <2>0. u \in Users /\ changes' = changes /\ UNCHANGED permissions /\ handler[h] \in HandlerRecord
        /\ handler[h].opens = TRUE /\ handler[h].data \in Data
    BY <1>15, <1>t DEF ChangePasswordSave, At, HandlerOK, HandlerRecord
  <2>1. CASE Here(u) /\ SaveRow(h, u, [row[u] EXCEPT !.data.password = password],
                                [handler[h] EXCEPT !.pc = "list", !.data.password = password])
    <3> DEFINE value == [row[u] EXCEPT !.data.password = password]
               next  == [handler[h] EXCEPT !.pc = "list", !.data.password = password]
    <3>1. value \in UserRecord /\ value.data \in Data
      BY <2>0, <2>1, <1>t DEF UserRecord, Data
    <3>2. next \in HandlerRecord /\ next.opens = TRUE /\ next.pc = "list" /\ next.user = u
          /\ next.data \in Data
      <4>1. [handler[h].data EXCEPT !.password = password] \in Data
        BY <2>0 DEF Data
      <4> QED BY <2>0, <4>1 DEF HandlerRecord
    <3>4. SaveRow(h, u, value, next)
      BY <2>1
    <3> HIDE DEF value, next, u
    <3>3. HandlerOK(next)
      BY <2>0, <3>2, OpeningOK
    <3> QED BY <2>0, <3>1, <3>3, <3>4, <1>t, <1>p, SaveRowTyped
  <2>2. CASE Answer(h) /\ NoFault /\ UNCHANGED <<row, redis>>
    BY <2>0, <2>2, <1>t, <1>p, <1>r, <1>f, <1>i, HandlerTyped DEF Answer
  <2> QED BY <1>15, <2>1, <2>2 DEF ChangePasswordSave
\* DeleteByUser.
<1>16. ASSUME NEW h \in Handlers, At(h, "list") \/ At(h, "delete") PROVE HandlerOK(After(h))
  <2> DEFINE x == [handler[h] EXCEPT !.pc = "store", !.listed = {}]
  <2>1. CASE handler[h].opens
    <3>0. handler[h] \in HandlerRecord /\ handler[h].opens = TRUE /\ handler[h].user \in Users
          /\ handler[h].data \in Data
      BY <1>16, <2>1, <1>t DEF HandlerOK, HandlerRecord, At
    <3>1. x \in HandlerRecord /\ x.opens = TRUE /\ x.pc = "store" /\ x.user \in Users /\ x.data \in Data
      BY <3>0 DEF HandlerRecord
    <3> HIDE DEF x
    <3>2. HandlerOK(x)
      BY <3>1, OpeningOK
    <3> QED BY <2>1, <3>2 DEF After, x
  <2> QED BY <2>1, <1>i DEF After
<1>17. ASSUME NEW h \in Handlers, List(h) PROVE TypeInv'
  <2> DEFINE u == handler[h].user
             x == [handler[h] EXCEPT !.pc = "delete", !.listed = index[u]]
  <2>1. u \in Users /\ index[u] \subseteq Sessions /\ HandlerOK(handler[h]) /\ handler[h].pc = "list"
        /\ handler[h] \in HandlerRecord /\ handler[h].opens \in BOOLEAN
    BY <1>17, <1>t DEF List, At, HandlerOK, HandlerRecord, StoreTypeOK
  <2>2. x \in HandlerRecord /\ x.opens = handler[h].opens /\ x.pc = "delete" /\ x.user = u
        /\ x.data = handler[h].data
    BY <2>1 DEF HandlerRecord
  <2>3. handler[h].opens => handler[h].data \in Data
    BY <2>1 DEF HandlerOK
  <2>4. PassOver(h, x, Late(h, u)) /\ \A y \in Late(h, u) : handler[y].opens
    BY <1>17 DEF List, Late, Opening
  <2> HIDE DEF x
  <2>5. HandlerOK(x)
    BY <2>1, <2>2, <2>3, OpeningOK, ClosedOK
  <2>6. HandlersOK' /\ handler' \in [Handlers -> HandlerRecord]
    BY <2>4, <2>5, PassOverOK
  <2>7. slipped' \subseteq Sessions
    <3>1. \A y \in Late(h, u) : At(y, "index") => handler[y].session \in Sessions
      BY <1>t DEF Late, At, HandlerOK
    <3> QED BY <1>17, <3>1, <1>t DEF List, StoreTypeOK
  <2>8. UNCHANGED <<session, index, ttl, fails>> /\ faults' \in 0..MaxFaults /\ UNCHANGED permissions
        /\ row' = row /\ changes' = changes
    BY <1>17, <1>f DEF List
  <2>9. StoreTypeOK' /\ PermissionTypeOK'
    <3>1. UNCHANGED <<session, index, ttl, fails>>
      BY <2>8
    <3>2. StoreTypeOK'
      BY <2>7, <2>8, <3>1, <1>t, SlippedOK
    <3> QED BY <2>8, <3>2, <1>p
  <2> QED BY <2>6, <2>8, <2>9, <1>t, <1>x
<1>18. ASSUME NEW h \in Handlers, ListFails(h) PROVE TypeInv'
  <2> DEFINE u == handler[h].user
  <2>1. PassOver(h, After(h), {y \in Handlers : Opening(y, u)})
        /\ \A y \in {z \in Handlers : Opening(z, u)} : handler[y].opens
    BY <1>18 DEF ListFails, NoRevocation, Opening
  <2>2. HandlersOK' /\ handler' \in [Handlers -> HandlerRecord]
    BY <1>16, <1>18, <2>1, PassOverOK DEF ListFails
  <2>3. slipped' \subseteq Sessions
    BY <1>18, <1>t, LiveOfOK DEF ListFails, NoRevocation, StoreTypeOK
  <2>4. UNCHANGED <<session, index, ttl, fails>> /\ faults' \in 0..MaxFaults /\ UNCHANGED permissions
        /\ row' = row /\ changes' = changes
    BY <1>18, <1>f DEF ListFails
  <2>5. StoreTypeOK' /\ PermissionTypeOK'
    <3>1. UNCHANGED <<session, index, ttl, fails>>
      BY <2>4
    <3>2. StoreTypeOK'
      BY <2>3, <2>4, <3>1, <1>t, SlippedOK
    <3> QED BY <2>4, <3>2, <1>p
  <2> QED BY <2>2, <2>4, <2>5, <1>t, <1>x
<1>19. ASSUME NEW h \in Handlers, Delete(h) PROVE TypeInv'
  <2> DEFINE u   == handler[h].user
             ids == handler[h].listed
  <2>1. u \in Users /\ ids \subseteq Sessions /\ DeleteListed(u, ids) /\ HandlerOK(After(h))
    BY <1>16, <1>19, <1>t DEF Delete, At, HandlerOK, HandlerRecord
  <2>2. Goto(h, After(h)) /\ row' = row /\ changes' = changes /\ UNCHANGED permissions
    BY <1>19 DEF Delete
  <2> HIDE DEF u, ids
  <2>3. StoreTypeOK'
    <3>1. CASE NoFault /\ Drop(ids) /\ index' = [index EXCEPT ![u] = {}] /\ ttl' = [ttl EXCEPT ![u] = NoTtl]
      <4>1. index' \in [Users -> SUBSET Sessions] /\ ttl' \in [Users -> [keeper : Sessions \union {NoUser}, brief : BOOLEAN]] /\ fails' = fails
            /\ faults' \in 0..MaxFaults
        BY <2>1, <3>1, <1>f, <1>t DEF DeleteListed, StoreTypeOK, NoTtl
      <4> QED BY <3>1, <4>1, <1>t, DropOK DEF StoreTypeOK
    <3>2. CASE Fault /\ slipped' = slipped \union LiveOf(u) /\ UNCHANGED <<session, index, ttl>>
      <4>1. slipped' \subseteq Sessions /\ faults' \in 0..MaxFaults
        BY <3>2, <1>f, <1>t, LiveOfOK DEF StoreTypeOK
      <4>2. UNCHANGED <<session, index, ttl, fails>>
        BY <2>1, <3>2 DEF DeleteListed
      <4> QED BY <4>1, <4>2, <1>t, SlippedOK
    <3> QED BY <2>1, <3>1, <3>2 DEF DeleteListed
  <2> QED BY <2>1, <2>2, <2>3, <1>t, <1>p, HandlerTyped
\* Roles and the permission cache.
<1>20. ASSUME NEW h \in Handlers, NEW told \in BOOLEAN, RoleMutation(h, told) PROVE TypeInv'
  <2>1. PICK c \in CustomRoles, users \in SUBSET Users :
            /\ EditRoles(h, users, told)
            /\ \/ DeleteCustomRole(c, told)
               \/ \E perms \in SUBSET Permissions : SetRolePermissions(c, perms, told)
               \/ \E u \in Users : AssignUserRole(u, c, told) \/ RemoveUserRole(u, c, told)
    BY <1>20 DEF RoleMutation
  <2>2. PermissionTypeOK'
    BY <2>1, <1>t, RolesTyped
  <2> DEFINE x == [Idle EXCEPT !.pc = "evict", !.users = users]
  <2>3. x \in HandlerRecord /\ x.opens = FALSE /\ x.pc = "evict"
    BY DEF Idle, HandlerRecord
  <2>4. Goto(h, x) \/ Goto(h, Idle)
    BY <2>1 DEF EditRoles, Answer
  <2>5. row' = row /\ changes' \in 0..MaxChanges /\ StoreTypeOK'
    BY <2>1, <1>c, <1>f, <1>r DEF EditRoles, Told
  <2> HIDE DEF x
  <2>6. HandlerOK(x)
    BY <2>3, ClosedOK
  <2> QED BY <2>2, <2>4, <2>5, <2>6, <1>i, HandlerTyped
<1>21. ASSUME NEW h \in Handlers, NEW c \in CustomRoles, CreateRole(h, c) PROVE TypeInv'
  <2>1. PermissionTypeOK'
    BY <1>21, <1>t DEF CreateRole, CreateCustomRole, PermissionTypeOK
  <2>2. StoreTypeOK' /\ row' = row /\ handler' = handler /\ changes' = changes
    BY <1>21, <1>r, <1>f DEF CreateRole
  <2> QED BY <2>1, <2>2, <1>t, <1>y
<1>22. ASSUME NEW h \in Handlers, EvictUsers(h) PROVE TypeInv'
  <2>1. PermissionTypeOK'
    BY <1>22, <1>t DEF EvictUsers, Evict, PermissionTypeOK, NoEntry, roleTables
  <2>2. StoreTypeOK' /\ row' = row /\ Goto(h, Idle) /\ changes' = changes
    BY <1>22, <1>r, <1>f DEF EvictUsers, Answer
  <2> QED BY <2>1, <2>2, <1>t, <1>i, HandlerTyped
<1>23. ASSUME NEW h \in Handlers, NEW s \in Sessions, RequestBegin(h, s) PROVE TypeInv'
  <2> DEFINE u == session[s].user
             x == [Idle EXCEPT !.pc = "read_perms", !.user = u, !.seen = gen]
  <2>1. u \in Users /\ gen \in Nat
    BY <1>23, <1>t DEF RequestBegin, Known, Live, StoreTypeOK, PermissionTypeOK
  <2>2. x \in HandlerRecord /\ x.opens = FALSE /\ x.pc = "read_perms" /\ x.user = u
    BY <2>1 DEF Idle, HandlerRecord
  <2>3. Goto(h, x) /\ row' = row /\ changes' = changes /\ UNCHANGED redis /\ UNCHANGED permissions
        /\ NoFault
    BY <1>23 DEF RequestBegin
  <2> HIDE DEF x, u
  <2>4. HandlerOK(x)
    BY <2>1, <2>2, ClosedOK
  <2> QED BY <2>3, <2>4, <1>t, <1>f, <1>p, <1>r, HandlerTyped
<1>24. ASSUME NEW h \in Handlers, ReadPerms(h) PROVE TypeInv'
  <2> DEFINE u == handler[h].user
             x == [handler[h] EXCEPT !.pc = "put", !.perms = Effective(u)]
  <2>1. u \in Users /\ handler[h] \in HandlerRecord /\ handler[h].opens = FALSE
    BY <1>24, <1>t DEF ReadPerms, At, HandlerOK, HandlerRecord
  <2>2. Effective(u) \subseteq Permissions
    BY <2>1, <1>t DEF Effective, PermissionTypeOK
  <2>3. x \in HandlerRecord /\ x.opens = FALSE /\ x.pc = "put" /\ x.user = u
    BY <2>1, <2>2 DEF HandlerRecord
  <2>4. Goto(h, x) \/ Goto(h, Idle)
    BY <1>24 DEF ReadPerms, Answer
  <2>5. row' = row /\ changes' = changes /\ UNCHANGED redis /\ UNCHANGED permissions /\ NoFault
    BY <1>24 DEF ReadPerms
  <2> HIDE DEF x, u
  <2>6. HandlerOK(x)
    BY <2>1, <2>3, ClosedOK
  <2> QED BY <2>4, <2>5, <2>6, <1>t, <1>f, <1>i, <1>p, <1>r, HandlerTyped
<1>25. ASSUME NEW h \in Handlers, PutPerms(h) PROVE TypeInv'
  <2>1. handler[h].perms \subseteq Permissions
    BY <1>t DEF HandlerOK, HandlerRecord
  <2>2. PermissionTypeOK'
    BY <1>25, <2>1, <1>t DEF PutPerms, Put, PermissionTypeOK, roleTables
  <2>3. StoreTypeOK' /\ row' = row /\ Goto(h, Idle) /\ changes' = changes
    BY <1>25, <1>r, <1>f DEF PutPerms, Answer
  <2> QED BY <2>2, <2>3, <1>t, <1>i, HandlerTyped
\* The rest.
<1>26. CASE Restart
  <2>1. HandlersOK' /\ handler' \in [Handlers -> HandlerRecord]
    <3>1. handler' = [h \in Handlers |-> Idle]
      BY <1>26 DEF Restart
    <3>2. Idle \in HandlerRecord
      BY <1>i DEF HandlerOK
    <3> QED BY <3>1, <3>2, <1>i DEF HandlersOK
  <2>2. PermissionTypeOK'
    BY <1>26, <1>t DEF Restart, EmptyCache, NoEntry, PermissionTypeOK
  <2>3. slipped' \subseteq Sessions
    <3>1. \A h \in Handlers : At(h, "index") => handler[h].session \in Sessions
      BY <1>t DEF HandlerOK, At
    <3> QED BY <1>26, <3>1, <1>t, LiveOfOK DEF Restart, StoreTypeOK
  <2>4. StoreTypeOK' /\ row' = row /\ changes' = changes
    <3>1. UNCHANGED <<session, index, ttl, fails>> /\ faults' \in 0..MaxFaults
      BY <1>26, <1>f DEF Restart
    <3>2. UNCHANGED <<session, index, ttl, fails>>
      BY <3>1
    <3>3. StoreTypeOK'
      BY <2>3, <3>1, <3>2, <1>t, SlippedOK
    <3> QED BY <1>26, <3>3 DEF Restart
  <2> QED BY <2>1, <2>2, <2>4, <1>t, <1>x
<1>27. CASE Environment
  <2>1. row' = row /\ handler' = handler /\ changes' = changes /\ faults' \in 0..MaxFaults
    BY <1>27, <1>f DEF Environment
  <2>2. CASE \E s \in Sessions : (Logout(s) \/ SessionExpires(s)) /\ UNCHANGED permissions
    <3>1. PICK s \in Sessions : Drop({s}) /\ UNCHANGED <<index, ttl, fails>> /\ UNCHANGED permissions
      BY <2>2 DEF Logout, SessionExpires, DeleteSession
    <3>2. StoreTypeOK'
      BY <2>1, <3>1, <1>t, DropOK DEF StoreTypeOK
    <3> QED BY <2>1, <3>1, <3>2, <1>p, <1>y
  <2>3. CASE \E u \in Users : IndexExpires(u) /\ UNCHANGED permissions
    <3>1. StoreTypeOK'
      BY <2>1, <2>3, <1>t, LiveOfOK DEF IndexExpires, StoreTypeOK, NoTtl
    <3> QED BY <2>1, <2>3, <3>1, <1>p, <1>y
  <2>4. CASE \E k \in Users \X Names : WindowEnds(k) /\ UNCHANGED permissions
    <3>1. StoreTypeOK'
      BY <2>1, <2>4, <1>t, RedisKept DEF WindowEnds
    <3> QED BY <2>1, <2>4, <3>1, <1>p, <1>y
  <2>5. CASE \E u \in Users : EntryExpires(u) /\ UNCHANGED redis
    <3>1. PermissionTypeOK'
      BY <2>5, <1>t DEF EntryExpires, NoEntry, PermissionTypeOK, roleTables
    <3> QED BY <2>1, <2>5, <3>1, <1>r, <1>y
  <2> QED BY <1>27, <2>2, <2>3, <2>4, <2>5 DEF Environment
<1>28. CASE UNCHANGED vars
  <2>1. row' = row /\ handler' = handler /\ changes' = changes /\ faults' = faults
        /\ UNCHANGED redis /\ UNCHANGED permissions
    BY <1>28 DEF vars
  <2> QED BY <2>1, <1>t, <1>p, <1>r, <1>y
<1>29. ASSUME NEW h \in Handlers, Begin(h) PROVE TypeInv'
  BY <1>29, <1>1, <1>7, <1>9, <1>10, <1>11, <1>12, <1>14, <1>20, <1>21, <1>23 DEF Begin
<1>30. ASSUME NEW h \in Handlers, Continue(h) PROVE TypeInv'
  BY <1>30, <1>2, <1>3, <1>4, <1>5, <1>6, <1>13, <1>15, <1>17, <1>18, <1>19, <1>22, <1>24, <1>25
     DEF Continue
<1> QED BY <1>26, <1>27, <1>28, <1>29, <1>30 DEF Next

LEMMA InitTypeInv == Init => TypeInv
<1> SUFFICES ASSUME Init PROVE TypeInv
  OBVIOUS
<1>1. HandlersOK /\ handler \in [Handlers -> HandlerRecord]
  <2>1. handler = [h \in Handlers |-> Idle] /\ Idle \in HandlerRecord
    BY IdleOK DEF Init, HandlerOK
  <2> QED BY <2>1, IdleOK DEF HandlersOK
<1>2. row \in [Users -> UserRecord] /\ \A u \in Users : row[u].state = "here" => row[u].data \in Data
  <2>1. NewUser \in UserRecord /\ NewUser.state # "here"
    BY DEF NewUser, UserRecord
  <2>2. \A x \in [state : {"here"}, active : BOOLEAN, data : Data] : x \in UserRecord /\ x.data \in Data
    BY DEF UserRecord
  <2>3. row \in [Users -> {NewUser} \union [state : {"here"}, active : BOOLEAN, data : Data]]
    BY DEF Init
  <2> QED BY <2>1, <2>2, <2>3
<1>3. StoreTypeOK
  BY LimitsAssumption DEF Init, StoreInit, StoreTypeOK, Unused, NoFails, NoTtl, SessionRecord
<1>4. PermissionTypeOK
  BY DEF Init, PermissionInit, PermissionTypeOK, NoEntry
<1>5. changes \in 0..MaxChanges
  BY MaxChangesAssumption DEF Init
<1>6. \A y \in Handlers : /\ handler[y].pc \notin {"idle", "evict"} => handler[y].user \in Users
                          /\ handler[y].pc = "verify" => handler[y].name \in Names
                          /\ handler[y].pc = "index" => handler[y].session \in Sessions
                          /\ handler[y].opens => handler[y].data \in Data
  BY <1>1 DEF HandlersOK, HandlerOK
<1> QED BY <1>1, <1>2, <1>3, <1>4, <1>5, <1>6 DEF TypeInv, TypeOK

\* Every state the program reaches is well formed.
THEOREM TypeCorrect == Spec => []TypeOK
<1>2. TypeInv => TypeOK
  BY DEF TypeInv
<1> QED BY InitTypeInv, <1>2, TypeStep, PTL DEF Spec

-----------------------------------------------------------------------------
(***************************************************************************)
(* The limiter.  A login that was let in counts from the time it is let in: *)
(* the failures of a window and the logins being verified stay together     *)
(* below the threshold and one for every handler, unless Redis failed open. *)
(***************************************************************************)
Verifying(k) == {h \in Handlers : At(h, "verify") /\ Counter(h) = k}
Weight(k)    == fails[k].count + Cardinality(Verifying(k))

GuessInv ==
    \A u \in Users :
        /\ \A n \in Names : Weight(<<u, n>>) <= Guesses + faults
        /\ Weight(<<u, Username>>) + Weight(<<u, Email>>) <= 2 * Guesses + faults

LEMMA VerifyingIsFinite ==
    \A k : /\ IsFiniteSet(Verifying(k))
           /\ Cardinality(Verifying(k)) \in Nat
           /\ Cardinality(Handlers) \in Nat
           /\ Cardinality(Verifying(k)) <= Cardinality(Handlers)
<1> SUFFICES ASSUME NEW k
             PROVE  /\ IsFiniteSet(Verifying(k)) /\ Cardinality(Verifying(k)) \in Nat
                    /\ Cardinality(Handlers) \in Nat
                    /\ Cardinality(Verifying(k)) <= Cardinality(Handlers)
  OBVIOUS
<1>1. Verifying(k) \subseteq Handlers
  BY DEF Verifying
<1> QED BY <1>1, HandlersAssumption, FS_Subset, FS_CardinalityType

\* Only a login that begins is verified next.
LEMMA OtherStepsVerifyNothing ==
    ASSUME TypeInv, [Next]_vars
    PROVE  \/ \E h \in Handlers, u \in Users, n \in Names : LoginBegin(h, u, n)
           \/ \A h \in Handlers : handler'[h].pc = "verify" =>
                  handler[h].pc = "verify" /\ Counter(h)' = Counter(h)
<1> DEFINE Kept(h) == handler'[h].pc = "verify" =>
                         handler[h].pc = "verify" /\ Counter(h)' = Counter(h)
<1> USE DEF Counter
<1>d. DOMAIN handler = Handlers /\ \A h \in Handlers : handler[h] \in HandlerRecord
  BY DEF TypeInv, HandlersOK, HandlerOK
<1>1. ASSUME NEW h \in Handlers, NEW x, x.pc # "verify", Goto(h, x)
      PROVE  \A y \in Handlers : Kept(y)
  BY <1>1, <1>d DEF Goto
<1>2. ASSUME NEW h \in Handlers, NEW x, x.pc # "verify", NEW others, PassOver(h, x, others)
      PROVE  \A y \in Handlers : Kept(y)
  <2> SUFFICES ASSUME NEW y \in Handlers PROVE Kept(y)
    OBVIOUS
  <2>1. handler'[y] = IF y = h THEN x ELSE IF y \in others THEN [handler[y] EXCEPT !.late = TRUE]
                                      ELSE handler[y]
    BY <1>2 DEF PassOver
  <2>2. [handler[y] EXCEPT !.late = TRUE].pc = handler[y].pc
        /\ [handler[y] EXCEPT !.late = TRUE].user = handler[y].user
        /\ [handler[y] EXCEPT !.late = TRUE].name = handler[y].name
    BY <1>d DEF HandlerRecord
  <2> QED BY <1>2, <2>1, <2>2
<1>3. Idle.pc # "verify" /\ \A u : Revocation(u).pc # "verify"
  BY DEF Idle, Revocation
<1>4. ASSUME NEW h \in Handlers, NEW u, NEW value, NEW next, next.pc # "verify", SaveRow(h, u, value, next)
      PROVE  \A y \in Handlers : Kept(y)
  <2>1. \/ Goto(h, next) \/ Goto(h, Idle)
        \/ PassOver(h, Idle, {y \in Handlers : Opening(y, u)})
    BY <1>4 DEF SaveRow, NoRevocation, Answer
  <2>2. CASE Goto(h, next)
    BY <1>1, <1>4, <2>2
  <2>3. CASE Goto(h, Idle)
    BY <1>1, <1>3, <2>3
  <2>4. CASE PassOver(h, Idle, {y \in Handlers : Opening(y, u)})
    BY <1>2, <1>3, <2>4
  <2> QED BY <2>1, <2>2, <2>3, <2>4
<1>5. ASSUME NEW h \in Handlers, Begin(h), ~\E u \in Users, n \in Names : LoginBegin(h, u, n)
      PROVE  \A y \in Handlers : Kept(y)
  <2>1. CASE \E u \in Users, data \in Data, enabled \in BOOLEAN : CreateUser(h, u, data, enabled)
    BY <2>1, <1>3, <1>4 DEF CreateUser
  <2>2. ASSUME NEW u \in Users, NEW value, NEW revoke \in BOOLEAN, Administer(h, u, value, revoke)
        PROVE  \A y \in Handlers : Kept(y)
    <3>1. SaveRow(h, u, value, IF revoke THEN Revocation(u) ELSE Idle)
      BY <2>2 DEF Administer
    <3>2. (IF revoke THEN Revocation(u) ELSE Idle).pc # "verify"
      BY <1>3
    <3> QED BY <3>1, <3>2, <1>4
  <2>3. CASE \E u \in Users, role \in Optional(Roles), enabled \in Optional(BOOLEAN) :
                 UpdateUser(h, u, role, enabled)
    BY <2>2, <2>3 DEF UpdateUser
  <2>4. CASE \E u \in Users : DeleteUser(h, u)
    BY <2>2, <2>4 DEF DeleteUser
  <2>5. CASE \E u \in Users, password \in Passwords : ResetUserPassword(h, u, password)
    BY <2>2, <2>5 DEF ResetUserPassword
  <2>6. CASE \E u \in Users : ToggleRead(h, u)
    BY <2>6, <1>1 DEF ToggleRead, Idle
  <2>7. CASE \E s \in Sessions : ChangePasswordRead(h, s)
    BY <2>7, <1>1 DEF ChangePasswordRead, Idle
  <2>8. CASE \E s \in Sessions : RequestBegin(h, s)
    BY <2>8, <1>1 DEF RequestBegin, Idle
  <2>9. CASE \E c \in CustomRoles : CreateRole(h, c)
    BY <2>9 DEF CreateRole
  <2>10. CASE \E told \in BOOLEAN : RoleMutation(h, told)
    <3>1. PICK users : Goto(h, [Idle EXCEPT !.pc = "evict", !.users = users]) \/ Goto(h, Idle)
      BY <2>10 DEF RoleMutation, EditRoles, Answer
    <3>2. [Idle EXCEPT !.pc = "evict", !.users = users].pc # "verify"
      BY DEF Idle
    <3> QED BY <3>1, <3>2, <1>1, <1>3
  <2> QED BY <1>5, <2>1, <2>3, <2>4, <2>5, <2>6, <2>7, <2>8, <2>9, <2>10 DEF Begin
<1>6. ASSUME NEW h \in Handlers, Continue(h) PROVE \A y \in Handlers : Kept(y)
  <2>a. After(h).pc # "verify"
    BY <1>3, <1>d DEF After, HandlerRecord
  <2>1. CASE LoginFails(h) \/ LoginDisabled(h) \/ StoreFails(h) \/ Index(h) \/ EvictUsers(h) \/ PutPerms(h)
    BY <2>1, <1>1, <1>3 DEF LoginFails, LoginDisabled, StoreFails, Index, EvictUsers, PutPerms, Answer
  <2>2. CASE LoginVerified(h)
    <3> DEFINE x == [handler[h] EXCEPT !.pc = "store", !.opens = TRUE, !.name = NoUser,
                                       !.data = row[handler[h].user].data]
    <3>1. x.pc = "store"
      BY <1>d DEF HandlerRecord
    <3>2. Goto(h, x)
      BY <2>2 DEF LoginVerified
    <3> QED BY <3>1, <3>2, <1>1
  <2>3. CASE Store(h)
    BY <2>3, <1>1, <1>d DEF Store, HandlerRecord
  <2>4. CASE ToggleSave(h)
    <3>1. CASE SaveRow(h, handler[h].user, [row[handler[h].user] EXCEPT !.active = handler[h].active],
                       IF handler[h].active THEN Idle ELSE Revocation(handler[h].user))
      BY <3>1, <1>3, <1>4
    <3>2. CASE Answer(h)
      BY <3>2, <1>1, <1>3 DEF Answer
    <3> QED BY <2>4, <3>1, <3>2 DEF ToggleSave
  <2>5. CASE \E password \in Passwords : ChangePasswordSave(h, password)
    <3>1. PICK password \in Passwords : ChangePasswordSave(h, password)
      BY <2>5
    <3>2. [handler[h] EXCEPT !.pc = "list", !.data.password = password].pc # "verify"
      BY <1>d DEF HandlerRecord
    <3>3. CASE Answer(h)
      BY <3>3, <1>1, <1>3 DEF Answer
    <3> QED BY <3>1, <3>2, <3>3, <1>4 DEF ChangePasswordSave
  <2>6. CASE List(h)
    <3>1. [handler[h] EXCEPT !.pc = "delete", !.listed = index[handler[h].user]].pc # "verify"
      BY <1>d DEF HandlerRecord
    <3> QED BY <2>6, <3>1, <1>2 DEF List
  <2>7. CASE ListFails(h)
    BY <2>7, <2>a, <1>2 DEF ListFails, NoRevocation
  <2>8. CASE Delete(h)
    BY <2>8, <2>a, <1>1 DEF Delete
  <2>9. CASE ReadPerms(h)
    <3>1. [handler[h] EXCEPT !.pc = "put", !.perms = Effective(handler[h].user)].pc # "verify"
      BY <1>d DEF HandlerRecord
    <3> QED BY <2>9, <3>1, <1>1, <1>3 DEF ReadPerms, Answer
  <2> QED BY <1>6, <2>1, <2>2, <2>3, <2>4, <2>5, <2>6, <2>7, <2>8, <2>9 DEF Continue
<1>7. CASE Restart
  BY <1>3, <1>7 DEF Restart
<1>8. CASE Environment \/ UNCHANGED vars
  BY <1>8 DEF Environment, vars
<1> QED BY <1>5, <1>6, <1>7, <1>8 DEF Next

\* Only a login that is verified and fails adds to a counter.
LEMMA OtherStepsCountNothing ==
    ASSUME TypeInv, [Next]_vars
    PROVE  /\ faults' \in 0..MaxFaults /\ faults <= faults'
           /\ \/ \E h \in Handlers : LoginFails(h)
              \/ fails' = fails
              \/ \E k \in Users \X Names : fails' = [fails EXCEPT ![k] = NoFails]
<1>1. NoFault \/ Fault
  <2>1. ASSUME NEW h \in Handlers, Begin(h) PROVE NoFault \/ Fault
    BY <2>1 DEF Begin, LoginBegin, NotBlocked, DeleteUser, Administer, SaveRow, ToggleRead, CreateUser,
       UpdateUser, ResetUserPassword, ChangePasswordRead, RequestBegin, CreateRole, RoleMutation,
       EditRoles, Told
  <2>2. ASSUME NEW h \in Handlers, Continue(h) PROVE NoFault \/ Fault
    BY <2>2 DEF Continue, LoginFails, Fail, LoginDisabled, LoginVerified, Reset, Store, StoreFails, Index,
       IndexSession, ToggleSave, ChangePasswordSave, SaveRow, List, ListFails, Delete, DeleteListed,
       EvictUsers, ReadPerms, PutPerms
  <2>3. CASE Restart \/ Environment \/ UNCHANGED vars
    BY <2>3 DEF Restart, Environment, vars, NoFault
  <2> QED BY <2>1, <2>2, <2>3 DEF Next
<1>2. faults' \in 0..MaxFaults /\ faults <= faults'
  BY <1>1, FaultsOK DEF TypeInv, TypeOK, StoreTypeOK
<1>3. \/ \E h \in Handlers : LoginFails(h)
      \/ fails' = fails
      \/ \E k \in Users \X Names : fails' = [fails EXCEPT ![k] = NoFails]
  <2>1. ASSUME NEW h \in Handlers, LoginVerified(h)
        PROVE  fails' = fails \/ \E k \in Users \X Names : fails' = [fails EXCEPT ![k] = NoFails]
    <3>1. Counter(h) \in Users \X Names
      BY <2>1 DEF TypeInv, HandlersOK, HandlerOK, LoginVerified, At, Counter
    <3> QED BY <2>1, <3>1 DEF LoginVerified, Reset
  <2>2. CASE Environment
    BY <2>2 DEF Environment, Logout, SessionExpires, DeleteSession, IndexExpires, WindowEnds, redis
  <2>3. ASSUME NEW h \in Handlers, Begin(h) PROVE fails' = fails
    BY <2>3 DEF Begin, LoginBegin, DeleteUser, Administer, SaveRow, ToggleRead, CreateUser, UpdateUser,
       ResetUserPassword, ChangePasswordRead, RequestBegin, CreateRole, RoleMutation, EditRoles, redis
  <2>4. ASSUME NEW h \in Handlers, Continue(h), ~LoginFails(h), ~LoginVerified(h) PROVE fails' = fails
    BY <2>4 DEF Continue, LoginDisabled, Store, StoreSession, StoreFails, Index, IndexSession, ToggleSave,
       ChangePasswordSave, SaveRow, List, ListFails, Delete, DeleteListed, EvictUsers, ReadPerms,
       PutPerms, redis
  <2>5. CASE Restart \/ UNCHANGED vars
    BY <2>5 DEF Restart, vars, redis
  <2> QED BY <2>1, <2>2, <2>3, <2>4, <2>5 DEF Next
<1> QED BY <1>2, <1>3

\* A login that is let in adds to one counter: below its bound, or for a fault.
LetIn(c) ==
    /\ \A k \in Users \X Names : k # c => Weight(k)' = Weight(k)
    /\ \/ Weight(c)' <= Guesses
       \/ Weight(c)' = Weight(c) + 1 /\ faults' = faults + 1

LEMMA WeightIsNat ==
    ASSUME TypeInv, NEW k \in Users \X Names
    PROVE  /\ Weight(k) \in Nat /\ fails[k].count \in Nat /\ Cardinality(Verifying(k)) \in Nat
           /\ fails[k].count <= Weight(k) /\ Guesses \in Nat /\ faults \in Nat
<1>1. fails[k].count \in Nat /\ faults \in Nat
  BY DEF TypeInv, TypeOK, StoreTypeOK
<1> QED BY <1>1, VerifyingIsFinite, LimitsAssumption DEF Weight, Guesses

LEMMA LoginBeginIsLetIn ==
    ASSUME TypeInv, NEW h \in Handlers, NEW u \in Users, NEW n \in Names, LoginBegin(h, u, n)
    PROVE  LetIn(<<u, n>>)
<1> DEFINE x == [Idle EXCEPT !.pc = "verify", !.user = u, !.name = n]
          c == <<u, n>>
<1>1. x.pc = "verify" /\ x.user = u /\ x.name = n
  BY DEF Idle
<1>2. /\ handler' = [handler EXCEPT ![h] = x] /\ fails' = fails /\ handler[h].pc = "idle"
      /\ NotBlocked(c) /\ DOMAIN handler = Handlers /\ c \in Users \X Names
  BY DEF LoginBegin, Goto, redis, At, TypeInv, HandlersOK
<1> HIDE DEF x
<1>3. /\ Verifying(c)' = Verifying(c) \union {h} /\ h \notin Verifying(c)
      /\ \A k : k # c => Verifying(k)' = Verifying(k)
  BY <1>1, <1>2 DEF Verifying, At, Counter
<1>4. \A k \in Users \X Names : k # c => Weight(k)' = Weight(k)
  BY <1>2, <1>3 DEF Weight
<1> HIDE DEF c
<1>5. Cardinality(Verifying(c)') = Cardinality(Verifying(c)) + 1
  BY <1>3, VerifyingIsFinite, FS_AddElement
<1>6. /\ Cardinality(Verifying(c)') <= Cardinality(Handlers)
      /\ Cardinality(Handlers) \in Nat /\ Cardinality(Verifying(c)') \in Nat
  <2>1. Verifying(c)' \subseteq Handlers
    BY <1>3 DEF Verifying
  <2> QED BY <2>1, HandlersAssumption, FS_Subset, FS_CardinalityType
<1>7. fails[c].count \in Nat /\ Cardinality(Verifying(c)) \in Nat
  BY <1>2, WeightIsNat
<1>8. Weight(c)' = fails[c].count + Cardinality(Verifying(c)') /\ Weight(c) = fails[c].count + Cardinality(Verifying(c))
  BY <1>2 DEF Weight
<1>9. CASE fails[c].count < Threshold
  <2>1. Weight(c)' <= Guesses
    BY <1>6, <1>7, <1>8, <1>9, LimitsAssumption DEF Guesses
  <2> QED BY <1>4, <2>1 DEF LetIn, c
<1>10. CASE Fault
  <2>1. Weight(c)' = Weight(c) + 1 /\ faults' = faults + 1
    BY <1>5, <1>7, <1>8, <1>10 DEF Fault
  <2> QED BY <1>4, <2>1 DEF LetIn, c
<1> QED BY <1>2, <1>9, <1>10 DEF NotBlocked

LEMMA LoginFailsKeepsWeight ==
    ASSUME TypeInv, NEW h \in Handlers, LoginFails(h), NEW k \in Users \X Names
    PROVE  Weight(k)' <= Weight(k)
<1> DEFINE c == Counter(h)
<1>1. /\ Fail(c) /\ Goto(h, Idle) /\ handler[h].pc = "verify" /\ DOMAIN handler = Handlers
      /\ DOMAIN fails = Users \X Names
  BY DEF LoginFails, Answer, At, TypeInv, TypeOK, StoreTypeOK, HandlersOK
<1>2. Verifying(k)' = Verifying(k) \ {h} /\ (h \in Verifying(k) <=> k = c)
  BY <1>1 DEF Goto, Verifying, At, Idle, Counter
<1>3. fails'[k].count = fails[k].count \/ (k = c /\ fails'[k].count = fails[k].count + 1)
  BY <1>1 DEF Fail
<1> HIDE DEF c
<1>4. fails[k].count \in Nat /\ Cardinality(Verifying(k)) \in Nat
  BY WeightIsNat
<1>5. CASE k = c
  <2>1. Cardinality(Verifying(k)') = Cardinality(Verifying(k)) - 1
    BY <1>2, <1>5, VerifyingIsFinite, FS_RemoveElement
  <2> QED BY <1>3, <1>4, <2>1 DEF Weight
<1>6. CASE k # c
  <2>1. Verifying(k)' = Verifying(k)
    BY <1>2, <1>6
  <2> QED BY <1>3, <1>4, <1>6, <2>1 DEF Weight
<1> QED BY <1>5, <1>6

LEMMA GuessStep == TypeInv /\ TypeInv' /\ GuessInv /\ [Next]_vars => GuessInv'
<1> SUFFICES ASSUME TypeInv, TypeInv', GuessInv, [Next]_vars
             PROVE  GuessInv'
  OBVIOUS
<1>n. Guesses' = Guesses /\ faults <= faults' /\ faults \in Nat /\ faults' \in Nat
  BY OtherStepsCountNothing DEF Guesses, TypeInv, TypeOK, StoreTypeOK
<1>w. \A k \in Users \X Names : Weight(k) \in Nat /\ Weight(k)' \in Nat /\ Guesses \in Nat
  <2>1. ASSUME NEW k \in Users \X Names PROVE Weight(k)' \in Nat
    <3>1. fails'[k].count \in Nat
      BY DEF TypeInv, TypeOK, StoreTypeOK
    <3>2. Verifying(k)' \subseteq Handlers
      BY DEF Verifying
    <3> QED BY <3>1, <3>2, HandlersAssumption, FS_Subset, FS_CardinalityType DEF Weight
  <2> QED BY <2>1, WeightIsNat
<1>k. \A u \in Users : <<u, Username>> \in Users \X Names /\ <<u, Email>> \in Users \X Names
  BY DEF Names
<1>1. ASSUME \A k \in Users \X Names : Weight(k)' <= Weight(k) PROVE GuessInv'
  <2> SUFFICES ASSUME NEW u \in Users
               PROVE  /\ \A n \in Names : Weight(<<u, n>>)' <= Guesses + faults'
                      /\ Weight(<<u, Username>>)' + Weight(<<u, Email>>)' <= 2 * Guesses + faults'
    BY <1>n DEF GuessInv
  <2>1. \A n \in Names : Weight(<<u, n>>)' <= Guesses + faults'
    <3> SUFFICES ASSUME NEW n \in Names PROVE Weight(<<u, n>>)' <= Guesses + faults'
      OBVIOUS
    <3>1. Weight(<<u, n>>)' <= Weight(<<u, n>>) /\ Weight(<<u, n>>) <= Guesses + faults
      BY <1>1 DEF GuessInv
    <3>2. Weight(<<u, n>>)' \in Nat /\ Weight(<<u, n>>) \in Nat /\ Guesses \in Nat
      BY <1>w
    <3> QED BY <3>1, <3>2, <1>n
  <2>2. Weight(<<u, Username>>)' <= Weight(<<u, Username>>) /\ Weight(<<u, Email>>)' <= Weight(<<u, Email>>)
    BY <1>1, <1>k
  <2>3. Weight(<<u, Username>>) + Weight(<<u, Email>>) <= 2 * Guesses + faults
    BY DEF GuessInv
  <2>4. /\ Weight(<<u, Username>>) \in Nat /\ Weight(<<u, Email>>) \in Nat /\ Guesses \in Nat
        /\ Weight(<<u, Username>>)' \in Nat /\ Weight(<<u, Email>>)' \in Nat
    BY <1>w, <1>k
  <2>5. Weight(<<u, Username>>)' + Weight(<<u, Email>>)' <= 2 * Guesses + faults'
    BY <2>2, <2>3, <2>4, <1>n
  <2> QED BY <2>1, <2>5
<1>2. ASSUME NEW c \in Users \X Names, LetIn(c) PROVE GuessInv'
  <2> SUFFICES ASSUME NEW u \in Users
               PROVE  /\ \A n \in Names : Weight(<<u, n>>)' <= Guesses + faults'
                      /\ Weight(<<u, Username>>)' + Weight(<<u, Email>>)' <= 2 * Guesses + faults'
    BY <1>n DEF GuessInv
  <2>1. /\ \A n \in Names : Weight(<<u, n>>) <= Guesses + faults
        /\ Weight(<<u, Username>>) + Weight(<<u, Email>>) <= 2 * Guesses + faults
        /\ Weight(<<u, Username>>) <= Guesses + faults /\ Weight(<<u, Email>>) <= Guesses + faults
    BY DEF GuessInv, Names
  <2>2. \A n \in Names : Weight(<<u, n>>)' <= Guesses + faults'
    <3> SUFFICES ASSUME NEW n \in Names PROVE Weight(<<u, n>>)' <= Guesses + faults'
      OBVIOUS
    <3>1. /\ Weight(<<u, n>>)' \in Nat /\ Weight(<<u, n>>) \in Nat /\ Guesses \in Nat
          /\ Weight(<<u, n>>) <= Guesses + faults
      BY <1>w, <2>1
    <3>2. CASE c = <<u, n>>
      BY <1>2, <3>1, <3>2, <1>n DEF LetIn
    <3>3. CASE c # <<u, n>>
      <4>1. Weight(<<u, n>>)' = Weight(<<u, n>>)
        BY <1>2, <3>3 DEF LetIn
      <4> QED BY <4>1, <3>1, <1>n
    <3> QED BY <3>2, <3>3
  <2>3. PICK a \in Users \X Names, b \in Users \X Names :
            a = <<u, Username>> /\ b = <<u, Email>> /\ a # b
    BY <1>k, NamesAssumption
  <2>4. /\ Weight(a) \in Nat /\ Weight(b) \in Nat /\ Weight(a)' \in Nat /\ Weight(b)' \in Nat
        /\ Guesses \in Nat
    BY <1>w
  <2>5. /\ Weight(a) + Weight(b) <= 2 * Guesses + faults
        /\ Weight(a) <= Guesses + faults /\ Weight(b) <= Guesses + faults
    BY <2>1, <2>3
  <2>6. Weight(a)' + Weight(b)' <= 2 * Guesses + faults'
    <3>1. \A k \in Users \X Names : k # c => Weight(k)' = Weight(k)
      BY <1>2 DEF LetIn
    <3>2. Weight(c)' <= Guesses \/ (Weight(c)' = Weight(c) + 1 /\ faults' = faults + 1)
      BY <1>2 DEF LetIn
    <3>3. CASE c = a
      <4>1. Weight(b)' = Weight(b)
        BY <3>1, <3>3, <2>3
      <4>2. Weight(a)' <= Guesses \/ (Weight(a)' = Weight(a) + 1 /\ faults' = faults + 1)
        BY <3>2, <3>3
      <4> QED BY <4>1, <4>2, <2>4, <2>5, <1>n
    <3>4. CASE c = b
      <4>1. Weight(a)' = Weight(a)
        BY <3>1, <3>4, <2>3
      <4>2. Weight(b)' <= Guesses \/ (Weight(b)' = Weight(b) + 1 /\ faults' = faults + 1)
        BY <3>2, <3>4
      <4> QED BY <4>1, <4>2, <2>4, <2>5, <1>n
    <3>5. CASE c # a /\ c # b
      <4>1. Weight(a)' = Weight(a) /\ Weight(b)' = Weight(b)
        BY <3>1, <3>5
      <4> QED BY <4>1, <2>4, <2>5, <1>n
    <3> QED BY <3>3, <3>4, <3>5
  <2>7. Weight(<<u, Username>>)' + Weight(<<u, Email>>)' <= 2 * Guesses + faults'
    BY <2>3, <2>6
  <2> QED BY <2>2, <2>7
<1>3. CASE \E h \in Handlers, u \in Users, n \in Names : LoginBegin(h, u, n)
  <2>1. PICK h \in Handlers, u \in Users, n \in Names : LoginBegin(h, u, n)
    BY <1>3
  <2>2. <<u, n>> \in Users \X Names /\ LetIn(<<u, n>>)
    BY <2>1, LoginBeginIsLetIn
  <2> QED BY <1>2, <2>2
<1>4. CASE \E h \in Handlers : LoginFails(h)
  BY <1>1, <1>4, LoginFailsKeepsWeight
<1>5. ASSUME ~\E h \in Handlers, u \in Users, n \in Names : LoginBegin(h, u, n),
             ~\E h \in Handlers : LoginFails(h)
      PROVE  GuessInv'
  <2>1. ASSUME NEW k \in Users \X Names PROVE Weight(k)' <= Weight(k)
    <3>1. Verifying(k)' \subseteq Verifying(k)
      BY <1>5, OtherStepsVerifyNothing DEF Verifying, At
    <3>2. Cardinality(Verifying(k)') <= Cardinality(Verifying(k)) /\ Cardinality(Verifying(k)') \in Nat
      BY <3>1, VerifyingIsFinite, FS_Subset, FS_CardinalityType
    <3>3. fails'[k].count \in Nat /\ fails'[k].count <= fails[k].count
      <4>1. DOMAIN fails = Users \X Names /\ fails[k].count \in Nat
        BY DEF TypeInv, TypeOK, StoreTypeOK
      <4> QED BY <1>5, <4>1, OtherStepsCountNothing DEF NoFails
    <3>4. fails[k].count \in Nat /\ Cardinality(Verifying(k)) \in Nat
      BY WeightIsNat
    <3> QED BY <3>2, <3>3, <3>4 DEF Weight
  <2> QED BY <1>1, <2>1
<1> QED BY <1>3, <1>4, <1>5

\* However many logins are let in at the same time, the failures of one window
\* stay below the threshold plus one for each handler and fault by each name of
\* an account, and for the account, which has two, below twice as many
\* (schema.resolvers.go:27-58, ratelimit/redis.go:45-63).
THEOREM GuessesBounded == Spec => []GuessesAreBounded
<1>2. Init => GuessInv
  <2> SUFFICES ASSUME Init PROVE GuessInv
    OBVIOUS
  <2>1. \A k \in Users \X Names : Weight(k) = 0
    <3> SUFFICES ASSUME NEW k \in Users \X Names PROVE Weight(k) = 0
      OBVIOUS
    <3>1. fails[k].count = 0
      BY DEF Init, StoreInit, NoFails
    <3>2. Verifying(k) = {}
      BY DEF Init, Verifying, At, Idle
    <3> QED BY <3>1, <3>2, FS_EmptySet DEF Weight
  <2>a. faults = 0
    BY DEF Init, StoreInit
  <2>b. Guesses \in Nat
    BY HandlersAssumption, FS_CardinalityType, LimitsAssumption DEF Guesses
  <2>2. faults = 0 /\ Guesses \in Nat
    BY <2>a, <2>b
  <2>3. \A u \in Users : <<u, Username>> \in Users \X Names /\ <<u, Email>> \in Users \X Names
    BY DEF Names
  <2> SUFFICES ASSUME NEW u \in Users
               PROVE  /\ \A n \in Names : Weight(<<u, n>>) <= Guesses + faults
                      /\ Weight(<<u, Username>>) + Weight(<<u, Email>>) <= 2 * Guesses + faults
    BY DEF GuessInv
  <2>4. Weight(<<u, Username>>) = 0 /\ Weight(<<u, Email>>) = 0
    BY <2>1, <2>3
  <2>5. \A n \in Names : Weight(<<u, n>>) = 0
    BY <2>1
  <2> QED BY <2>2, <2>4, <2>5
<1>3. TypeInv /\ GuessInv => GuessesAreBounded
  <2> SUFFICES ASSUME TypeInv, GuessInv, NEW u \in Users
               PROVE  /\ \A n \in Names : fails[<<u, n>>].count <= Guesses + faults
                      /\ fails[<<u, Username>>].count + fails[<<u, Email>>].count <= 2 * Guesses + faults
    BY DEF GuessesAreBounded
  <2>1. \A k \in Users \X Names :
            /\ Weight(k) \in Nat /\ fails[k].count \in Nat /\ fails[k].count <= Weight(k)
            /\ Guesses \in Nat
    <3> SUFFICES ASSUME NEW k \in Users \X Names
                 PROVE  /\ Weight(k) \in Nat /\ fails[k].count \in Nat /\ fails[k].count <= Weight(k)
                        /\ Guesses \in Nat
      OBVIOUS
    <3>1. Weight(k) \in Nat /\ fails[k].count \in Nat /\ Cardinality(Verifying(k)) \in Nat /\ Guesses \in Nat
      BY WeightIsNat
    <3> QED BY <3>1 DEF Weight
  <2>2. faults \in Nat
    BY DEF TypeInv, TypeOK, StoreTypeOK
  <2>3. <<u, Username>> \in Users \X Names /\ <<u, Email>> \in Users \X Names
    BY DEF Names
  <2>4. \A n \in Names : fails[<<u, n>>].count <= Guesses + faults
    <3> SUFFICES ASSUME NEW n \in Names PROVE fails[<<u, n>>].count <= Guesses + faults
      OBVIOUS
    <3>1. Weight(<<u, n>>) <= Guesses + faults
      BY DEF GuessInv
    <3> QED BY <2>1, <2>2, <3>1
  <2>5. Weight(<<u, Username>>) + Weight(<<u, Email>>) <= 2 * Guesses + faults
    BY DEF GuessInv
  <2>6. fails[<<u, Username>>].count + fails[<<u, Email>>].count <= 2 * Guesses + faults
    BY <2>1, <2>2, <2>3, <2>5
  <2> QED BY <2>4, <2>6
<1>4. TypeInv /\ [Next]_vars => TypeInv'
  BY TypeStep
<1> QED BY InitTypeInv, <1>2, <1>3, <1>4, GuessStep, PTL DEF Spec

-----------------------------------------------------------------------------
(***************************************************************************)
(* The permission cache.  Steps that have nothing to do with it: they leave *)
(* the cache and its generation alone, change nobody's permissions but of a *)
(* user that is gone, and move no handler to or from the places where it is *)
(* about to read permissions, to put them or to evict them.                 *)
(***************************************************************************)
Same(y) ==
    /\ handler'[y].pc = handler[y].pc /\ handler'[y].user = handler[y].user
    /\ handler'[y].seen = handler[y].seen /\ handler'[y].perms = handler[y].perms
    /\ handler'[y].users = handler[y].users

Elsewhere(y) ==
    /\ handler[y].pc # "evict"
    /\ handler'[y].pc \notin {"read_perms", "put", "evict"}
    /\ \A u \in Users : (handler'[y].user = u /\ row'[u].state = "new")
           => handler'[y].pc = "verify" \/ (handler[y].user = u /\ handler[y].pc # "verify")

\* What every step does to the accounts: nobody becomes new, and who was not
\* here before was new.
AccountsKept ==
    \A u \in Users : /\ row'[u].state = "new" => row[u].state = "new"
                     /\ Here(u)' => Here(u) \/ row[u].state = "new"

\* A live session was live for the same user or has just been stored for one.
OwnersKept ==
    \A s \in Sessions : Live(s)' =>
        \/ Live(s) /\ session'[s].user = session[s].user
        \/ \E h \in Handlers : At(h, "store") /\ session'[s].user = handler[h].user

CacheAside ==
    /\ AccountsKept /\ OwnersKept
    /\ cache' = cache /\ gen' = gen /\ missed' = missed
    /\ \A u \in Users : Effective(u)' = Effective(u) \/ ~Here(u)'
    /\ \A y \in Handlers : Same(y) \/ Elsewhere(y)

LEMMA GotoAside ==
    ASSUME TypeInv, NEW h \in Handlers, NEW x, Goto(h, x), handler[h].pc # "evict",
           x.pc \notin {"read_perms", "put", "evict"},
           \A u \in Users : (x.user = u /\ row'[u].state = "new")
               => x.pc = "verify" \/ (handler[h].user = u /\ handler[h].pc # "verify")
    PROVE  \A y \in Handlers : Same(y) \/ Elsewhere(y)
<1>1. handler'[h] = x /\ \A y \in Handlers \ {h} : handler'[y] = handler[y]
  BY DEF Goto, TypeInv, HandlersOK
<1> QED BY <1>1 DEF Same, Elsewhere

LEMMA PassOverAside ==
    ASSUME TypeInv, NEW h \in Handlers, NEW x, NEW others, PassOver(h, x, others),
           handler[h].pc # "evict", x.pc \notin {"read_perms", "put", "evict"},
           \A u \in Users : (x.user = u /\ row'[u].state = "new")
               => x.pc = "verify" \/ (handler[h].user = u /\ handler[h].pc # "verify")
    PROVE  \A y \in Handlers : Same(y) \/ Elsewhere(y)
<1> SUFFICES ASSUME NEW y \in Handlers PROVE Same(y) \/ Elsewhere(y)
  OBVIOUS
<1>1. handler'[y] = IF y = h THEN x ELSE IF y \in others THEN [handler[y] EXCEPT !.late = TRUE]
                                    ELSE handler[y]
  BY DEF PassOver
<1>2. handler[y] \in HandlerRecord
  BY DEF TypeInv, HandlersOK, HandlerOK
<1>3. CASE y = h
  BY <1>1, <1>3 DEF Elsewhere
<1>4. CASE y # h
  BY <1>1, <1>2, <1>4 DEF Same, HandlerRecord
<1> QED BY <1>3, <1>4

LEMMA RowsAside ==
    ASSUME UNCHANGED row
    PROVE  AccountsKept
BY DEF AccountsKept, Here

LEMMA TablesAside ==
    ASSUME UNCHANGED permissions
    PROVE  /\ cache' = cache /\ gen' = gen /\ missed' = missed
           /\ \A u \in Users : Effective(u)' = Effective(u)
BY DEF permissions, Effective

LEMMA SaveRowAside ==
    ASSUME TypeInv, NEW h \in Handlers, NEW u \in Users, NEW value, NEW next, SaveRow(h, u, value, next),
           handler[h].pc # "evict", next.pc \notin {"read_perms", "put", "evict"},
           next.user \in {u, NoUser},
           row[u].state # "here" => next = Idle /\ row[u].state = "new",
           value.state # "new"
    PROVE  /\ AccountsKept /\ OwnersKept
           /\ \A y \in Handlers : Same(y) \/ Elsewhere(y)
<1>d. Idle.pc = "idle" /\ Idle.user = NoUser /\ NoUser \notin Users
  BY NoUserAssumption DEF Idle
<1>1. \/ row' = [row EXCEPT ![u] = value] /\ Goto(h, next)
      \/ Goto(h, Idle)
      \/ PassOver(h, Idle, {y \in Handlers : Opening(y, u)})
  BY DEF SaveRow, NoRevocation, Answer
<1>2. \A y \in Handlers : Same(y) \/ Elsewhere(y)
  <2>1. CASE row' = [row EXCEPT ![u] = value] /\ Goto(h, next)
    <3>1. row'[u].state # "new"
      BY <2>1 DEF TypeInv, TypeOK
    <3> QED BY <2>1, <3>1, <1>d, GotoAside
  <2>2. CASE Goto(h, Idle)
    BY <2>2, <1>d, GotoAside
  <2>3. CASE PassOver(h, Idle, {y \in Handlers : Opening(y, u)})
    BY <2>3, <1>d, PassOverAside
  <2> QED BY <1>1, <2>1, <2>2, <2>3
<1>3. AccountsKept
  <2>1. row' = row \/ row' = [row EXCEPT ![u] = value]
    BY DEF SaveRow
  <2>2. row[u].state \in {"new", "here"}
    OBVIOUS
  <2> QED BY <2>1, <2>2 DEF AccountsKept, Here, TypeInv, TypeOK
<1>4. OwnersKept
  BY DEF SaveRow, OwnersKept, Live
<1> QED BY <1>2, <1>3, <1>4

LEMMA DropAside ==
    ASSUME StoreTypeOK, NEW ids, Drop(ids)
    PROVE  OwnersKept
<1>1. Gone.state = "gone"
  BY DEF Gone, Unused
<1>2. \A s \in Sessions : session'[s] = Gone \/ session'[s] = session[s]
  BY DEF Drop
<1> QED BY <1>1, <1>2 DEF OwnersKept, Live

\* The other steps: a mutation of roles, an eviction, a read, a put, a restart
\* or the expiry of an entry.
LEMMA CacheSteps ==
    ASSUME TypeInv, [Next]_vars
    PROVE  \/ CacheAside
           \/ /\ row' = row /\ session' = session
              /\ \/ \E h \in Handlers : \/ \E told \in BOOLEAN : RoleMutation(h, told)
                                        \/ EvictUsers(h)
                                        \/ (ReadPerms(h) /\ Here(handler[h].user))
                                        \/ PutPerms(h)
                                        \/ \E s \in Sessions : RequestBegin(h, s)
                 \/ Restart
                 \/ \E u \in Users : EntryExpires(u) /\ UNCHANGED handler
<1>d. /\ Idle.pc = "idle" /\ Idle.user = NoUser /\ NoUser \notin Users
      /\ \A u : Revocation(u).pc = "list" /\ Revocation(u).user = u
      /\ \A h \in Handlers : handler[h] \in HandlerRecord
  BY NoUserAssumption DEF Idle, Revocation, TypeInv, HandlersOK, HandlerOK
<1>s. session' = session => OwnersKept
  BY DEF OwnersKept, Live
<1>q. ASSUME AccountsKept, OwnersKept, UNCHANGED permissions, \A y \in Handlers : Same(y) \/ Elsewhere(y)
      PROVE  CacheAside
  BY <1>q, TablesAside DEF CacheAside
<1>i. ASSUME NEW h \in Handlers, handler[h].pc # "evict", Goto(h, Idle)
      PROVE  \A y \in Handlers : Same(y) \/ Elsewhere(y)
  BY <1>i, <1>d, GotoAside
<1>a. ASSUME NEW h \in Handlers, NEW u \in Users, NEW value, NEW revoke \in BOOLEAN,
             Here(u), value.state # "new", Administer(h, u, value, revoke)
      PROVE  /\ AccountsKept /\ OwnersKept
             /\ \A y \in Handlers : Same(y) \/ Elsewhere(y)
  <2> DEFINE next == IF revoke THEN Revocation(u) ELSE Idle
  <2>1. SaveRow(h, u, value, next) /\ handler[h].pc = "idle"
    BY <1>a DEF Administer, At
  <2>2. next.pc \notin {"read_perms", "put", "evict"} /\ next.user \in {u, NoUser}
    BY <1>d
  <2> HIDE DEF next
  <2> QED BY <1>a, <2>1, <2>2, SaveRowAside DEF Here
<1>1. ASSUME NEW h \in Handlers, Begin(h),
             ~\E told \in BOOLEAN : RoleMutation(h, told), ~\E s \in Sessions : RequestBegin(h, s)
      PROVE  CacheAside
  <2>1. ASSUME NEW u \in Users, NEW n \in Names, LoginBegin(h, u, n) PROVE CacheAside
    <3> DEFINE x == [Idle EXCEPT !.pc = "verify", !.user = u, !.name = n]
    <3>1. x.pc = "verify"
      BY DEF Idle
    <3>2. Goto(h, x) /\ handler[h].pc = "idle" /\ row' = row /\ session' = session /\ UNCHANGED permissions
      BY <2>1 DEF LoginBegin, At, redis
    <3> HIDE DEF x
    <3>3. \A y \in Handlers : Same(y) \/ Elsewhere(y)
      BY <3>1, <3>2, GotoAside
    <3> QED BY <3>2, <3>3, <1>s, <1>q, RowsAside
  <2>2. ASSUME NEW u \in Users, NEW data \in Data, NEW enabled \in BOOLEAN, CreateUser(h, u, data, enabled)
        PROVE  CacheAside
    <3> DEFINE value == [state |-> "here", active |-> enabled, data |-> data]
    <3>1. SaveRow(h, u, value, Idle) /\ handler[h].pc = "idle" /\ row[u].state = "new"
          /\ value.state = "here" /\ UNCHANGED permissions
      BY <2>2 DEF CreateUser, At
    <3> HIDE DEF value
    <3>2. AccountsKept /\ OwnersKept /\ \A y \in Handlers : Same(y) \/ Elsewhere(y)
      BY <3>1, <1>d, SaveRowAside
    <3> QED BY <3>1, <3>2, <1>q
  <2>3. ASSUME NEW u \in Users, NEW role \in Optional(Roles), NEW enabled \in Optional(BOOLEAN),
               UpdateUser(h, u, role, enabled)
        PROVE  CacheAside
    <3>1. row[u] \in UserRecord
      BY DEF TypeInv, TypeOK
    <3>2. Updated(u, role, enabled).state = row[u].state
      BY <3>1 DEF Updated, UserRecord
    <3>3. (role # {} \/ enabled = {FALSE}) \in BOOLEAN
      OBVIOUS
    <3> QED BY <2>3, <3>2, <3>3, <1>a, <1>q DEF UpdateUser, Here
  <2>4. ASSUME NEW u \in Users, DeleteUser(h, u) PROVE CacheAside
    <3>1. [row[u] EXCEPT !.state = "gone"].state = "gone"
      BY DEF TypeInv, TypeOK, UserRecord
    <3>2. AccountsKept /\ OwnersKept /\ \A y \in Handlers : Same(y) \/ Elsewhere(y)
      BY <2>4, <3>1, <1>a DEF DeleteUser
    <3>3. \A v \in Users : Effective(v)' = Effective(v) \/ ~Here(v)'
      BY <2>4, HoldersAssumption DEF DeleteUser, Effective, Here, TypeInv, TypeOK, PermissionTypeOK
    <3> QED BY <2>4, <3>2, <3>3 DEF DeleteUser, CacheAside
  <2>5. ASSUME NEW u \in Users, NEW password \in Passwords, ResetUserPassword(h, u, password) PROVE CacheAside
    <3>1. [row[u] EXCEPT !.data.password = password].state = row[u].state
      BY DEF TypeInv, TypeOK, UserRecord
    <3> QED BY <2>5, <3>1, <1>a, <1>q DEF ResetUserPassword, Here
  <2>6. ASSUME NEW u \in Users, ToggleRead(h, u) PROVE CacheAside
    <3> DEFINE x == [Idle EXCEPT !.pc = "toggle", !.user = u, !.active = ~row[u].active]
    <3>1. x.pc = "toggle" /\ x.user = u
      BY DEF Idle
    <3>2. Goto(h, x) /\ handler[h].pc = "idle" /\ row' = row /\ session' = session /\ UNCHANGED permissions
          /\ row[u].state = "here"
      BY <2>6 DEF ToggleRead, At, redis, Here
    <3> HIDE DEF x
    <3>3. \A y \in Handlers : Same(y) \/ Elsewhere(y)
      BY <3>1, <3>2, GotoAside
    <3> QED BY <3>2, <3>3, <1>s, <1>q, RowsAside
  <2>7. ASSUME NEW t \in Sessions, ChangePasswordRead(h, t) PROVE CacheAside
    <3> DEFINE u == session[t].user
               x == [Idle EXCEPT !.pc = "save_password", !.user = u, !.opens = TRUE,
                          !.late = t \in slipped \/ (~row[u].active /\ Deleting(u)),
                          !.data = row[u].data]
    <3>1. x.pc = "save_password" /\ x.user = u
      BY DEF Idle
    <3>2. Goto(h, x) /\ handler[h].pc = "idle" /\ row' = row /\ session' = session /\ UNCHANGED permissions
          /\ row[u].state = "here"
      BY <2>7 DEF ChangePasswordRead, At, redis, Here
    <3> HIDE DEF x, u
    <3>3. \A y \in Handlers : Same(y) \/ Elsewhere(y)
      BY <3>1, <3>2, GotoAside
    <3> QED BY <3>2, <3>3, <1>s, <1>q, RowsAside
  <2>8. ASSUME NEW c \in CustomRoles, CreateRole(h, c) PROVE CacheAside
    <3>1. /\ cache' = cache /\ gen' = gen /\ missed' = missed /\ row' = row /\ session' = session
          /\ \A u \in Users : Effective(u)' = Effective(u)
          /\ \A y \in Handlers : Same(y)
      BY <2>8 DEF CreateRole, CreateCustomRole, redis, Effective, Same
    <3> QED BY <3>1, <1>s, RowsAside DEF CacheAside
  <2> QED BY <1>1, <2>1, <2>2, <2>3, <2>4, <2>5, <2>6, <2>7, <2>8 DEF Begin
<1>2. ASSUME NEW h \in Handlers, Continue(h), ~EvictUsers(h), ~PutPerms(h),
             ~(ReadPerms(h) /\ Here(handler[h].user))
      PROVE  CacheAside
  <2>a. ASSUME handler[h].pc \in {"list", "delete"}
        PROVE  After(h).pc \in {"idle", "store"} /\ After(h).user \in {handler[h].user, NoUser}
    BY <1>d DEF After, HandlerRecord
  <2>1. CASE LoginFails(h) \/ LoginDisabled(h) \/ StoreFails(h) \/ Index(h) \/ ReadPerms(h)
    <3>1. Goto(h, Idle) /\ handler[h].pc # "evict" /\ row' = row /\ session' = session /\ UNCHANGED permissions
      BY <1>2, <2>1 DEF LoginFails, LoginDisabled, StoreFails, Index, ReadPerms, Answer, At, redis, Fail,
         IndexSession
    <3> QED BY <3>1, <1>i, <1>s, <1>q, RowsAside
  <2>2. CASE LoginVerified(h)
    <3> DEFINE u == handler[h].user
               x == [handler[h] EXCEPT !.pc = "store", !.opens = TRUE, !.name = NoUser, !.data = row[u].data]
    <3>1. x.pc = "store" /\ x.user = u
      BY <1>d DEF HandlerRecord
    <3>2. Goto(h, x) /\ handler[h].pc = "verify" /\ row' = row /\ session' = session /\ UNCHANGED permissions
          /\ row[u].state = "here"
      BY <2>2 DEF LoginVerified, At, Here, Reset
    <3> HIDE DEF x, u
    <3>3. \A y \in Handlers : Same(y) \/ Elsewhere(y)
      BY <3>1, <3>2, GotoAside
    <3> QED BY <3>2, <3>3, <1>s, <1>q, RowsAside
  <2>3. CASE Store(h)
    <3>1. PICK s \in Sessions : StoreSession(s, handler[h].user, handler[h].data, handler[h].late)
                                /\ Goto(h, [handler[h] EXCEPT !.pc = "index", !.session = s])
      BY <2>3 DEF Store
    <3> DEFINE x == [handler[h] EXCEPT !.pc = "index", !.session = s]
    <3>2. x.pc = "index" /\ x.user = handler[h].user
      BY <1>d DEF HandlerRecord
    <3>3. Goto(h, x) /\ handler[h].pc = "store" /\ row' = row /\ UNCHANGED permissions
      BY <2>3, <3>1 DEF Store, At
    <3> HIDE DEF x
    <3>4. \A y \in Handlers : Same(y) \/ Elsewhere(y)
      BY <3>2, <3>3, GotoAside
    <3>5. OwnersKept
      BY <2>3, <3>1 DEF Store, StoreSession, OwnersKept, Live, TypeInv, TypeOK, StoreTypeOK
    <3> QED BY <3>3, <3>4, <3>5, <1>q, RowsAside
  <2>4. CASE ToggleSave(h)
    <3> DEFINE u == handler[h].user
    <3>1. u \in Users /\ handler[h].pc = "toggle" /\ UNCHANGED permissions
      BY <2>4 DEF ToggleSave, At, TypeInv, HandlersOK, HandlerOK
    <3>2. CASE Here(u) /\ SaveRow(h, u, [row[u] EXCEPT !.active = handler[h].active],
                                  IF handler[h].active THEN Idle ELSE Revocation(u))
      <4> DEFINE value == [row[u] EXCEPT !.active = handler[h].active]
                 next  == IF handler[h].active THEN Idle ELSE Revocation(u)
      <4>1. value.state = "here" /\ next.pc \in {"idle", "list"} /\ next.user \in {u, NoUser}
        BY <3>1, <3>2, <1>d DEF Here, TypeInv, TypeOK, UserRecord
      <4>2. SaveRow(h, u, value, next) /\ row[u].state = "here"
        BY <3>2 DEF Here
      <4> HIDE DEF value, next, u
      <4>3. AccountsKept /\ OwnersKept /\ \A y \in Handlers : Same(y) \/ Elsewhere(y)
        BY <3>1, <4>1, <4>2, SaveRowAside
      <4> QED BY <3>1, <4>3, <1>q
    <3>3. CASE Goto(h, Idle) /\ UNCHANGED <<row, redis>>
      <4>1. row' = row /\ session' = session
        BY <3>3 DEF redis
      <4> QED BY <3>1, <3>3, <4>1, <1>i, <1>s, <1>q, RowsAside
    <3> QED BY <2>4, <3>2, <3>3 DEF ToggleSave, Answer
  <2>5. CASE \E password \in Passwords : ChangePasswordSave(h, password)
    <3>0. PICK password \in Passwords : ChangePasswordSave(h, password)
      BY <2>5
    <3> DEFINE u == handler[h].user
    <3>1. u \in Users /\ handler[h].pc = "save_password" /\ UNCHANGED permissions
      BY <3>0 DEF ChangePasswordSave, At, TypeInv, HandlersOK, HandlerOK
    <3>2. CASE Here(u) /\ SaveRow(h, u, [row[u] EXCEPT !.data.password = password],
                                  [handler[h] EXCEPT !.pc = "list", !.data.password = password])
      <4> DEFINE value == [row[u] EXCEPT !.data.password = password]
                 next  == [handler[h] EXCEPT !.pc = "list", !.data.password = password]
      <4>1. value.state = "here" /\ next.pc = "list" /\ next.user \in {u, NoUser}
        BY <3>1, <3>2, <1>d DEF Here, TypeInv, TypeOK, UserRecord, HandlerRecord
      <4>2. SaveRow(h, u, value, next) /\ row[u].state = "here"
        BY <3>2 DEF Here
      <4> HIDE DEF value, next, u
      <4>3. AccountsKept /\ OwnersKept /\ \A y \in Handlers : Same(y) \/ Elsewhere(y)
        BY <3>1, <4>1, <4>2, SaveRowAside
      <4> QED BY <3>1, <4>3, <1>q
    <3>3. CASE Goto(h, Idle) /\ UNCHANGED <<row, redis>>
      <4>1. row' = row /\ session' = session
        BY <3>3 DEF redis
      <4> QED BY <3>1, <3>3, <4>1, <1>i, <1>s, <1>q, RowsAside
    <3> QED BY <3>0, <3>2, <3>3 DEF ChangePasswordSave, Answer
  <2>6. CASE List(h)
    <3> DEFINE x == [handler[h] EXCEPT !.pc = "delete", !.listed = index[handler[h].user]]
    <3>1. x.pc = "delete" /\ x.user = handler[h].user
      BY <1>d DEF HandlerRecord
    <3>2. PassOver(h, x, Late(h, handler[h].user)) /\ handler[h].pc = "list" /\ row' = row
          /\ session' = session /\ UNCHANGED permissions
      BY <2>6 DEF List, At
    <3> HIDE DEF x
    <3>3. \A y \in Handlers : Same(y) \/ Elsewhere(y)
      BY <3>1, <3>2, PassOverAside
    <3> QED BY <3>2, <3>3, <1>s, <1>q, RowsAside
  <2>7. CASE ListFails(h)
    <3>1. PassOver(h, After(h), {y \in Handlers : Opening(y, handler[h].user)})
          /\ handler[h].pc = "list" /\ row' = row /\ session' = session /\ UNCHANGED permissions
      BY <2>7 DEF ListFails, NoRevocation, At
    <3>2. \A y \in Handlers : Same(y) \/ Elsewhere(y)
      BY <2>a, <3>1, <1>d, PassOverAside
    <3> QED BY <3>1, <3>2, <1>s, <1>q, RowsAside
  <2>8. CASE Delete(h)
    <3>1. Goto(h, After(h)) /\ handler[h].pc = "delete" /\ row' = row /\ UNCHANGED permissions
      BY <2>8 DEF Delete, At
    <3>2. \A y \in Handlers : Same(y) \/ Elsewhere(y)
      BY <2>a, <3>1, <1>d, GotoAside
    <3>3. OwnersKept
      <4>1. Drop(handler[h].listed) \/ session' = session
        BY <2>8 DEF Delete, DeleteListed
      <4> QED BY <4>1, <1>s, DropAside DEF TypeInv, TypeOK
    <3> QED BY <3>1, <3>2, <3>3, <1>q, RowsAside
  <2> QED BY <1>2, <2>1, <2>2, <2>3, <2>4, <2>5, <2>6, <2>7, <2>8 DEF Continue
<1>3. CASE Environment
  <2>1. row' = row /\ handler' = handler /\ \A y \in Handlers : Same(y)
    BY <1>3 DEF Environment, Same
  <2>2. CASE \E s \in Sessions : (Logout(s) \/ SessionExpires(s)) /\ UNCHANGED permissions
    <3>1. OwnersKept
      BY <2>2, DropAside DEF Logout, SessionExpires, DeleteSession, TypeInv, TypeOK
    <3> QED BY <2>1, <2>2, <3>1, <1>q, RowsAside
  <2>3. CASE \E u \in Users : (IndexExpires(u) \/ \E n \in Names : WindowEnds(<<u, n>>)) /\ UNCHANGED permissions
    BY <2>1, <2>3, <1>s, <1>q, RowsAside DEF IndexExpires, WindowEnds
  <2>4. CASE \E u \in Users : EntryExpires(u) /\ UNCHANGED redis
    BY <2>1, <2>4 DEF redis
  <2> QED BY <1>3, <2>1, <2>2, <2>3, <2>4 DEF Environment
<1>4. CASE UNCHANGED vars
  <2>1. row' = row /\ session' = session /\ UNCHANGED permissions /\ \A y \in Handlers : Same(y)
    BY <1>4 DEF vars, redis, Same
  <2> QED BY <2>1, <1>s, <1>q, RowsAside
<1>5. ASSUME NEW h \in Handlers,
             \/ \E told \in BOOLEAN : RoleMutation(h, told)
             \/ EvictUsers(h) \/ ReadPerms(h) \/ PutPerms(h)
             \/ \E s \in Sessions : RequestBegin(h, s)
      PROVE  row' = row /\ session' = session
  <2>1. CASE \E told \in BOOLEAN : RoleMutation(h, told)
    <3>1. \E users, told : EditRoles(h, users, told)
      BY <2>1 DEF RoleMutation
    <3> QED BY <3>1 DEF EditRoles, redis
  <2>2. CASE EvictUsers(h) \/ ReadPerms(h) \/ PutPerms(h)
    BY <2>2 DEF EvictUsers, ReadPerms, PutPerms, redis
  <2>3. CASE \E s \in Sessions : RequestBegin(h, s)
    BY <2>3 DEF RequestBegin, redis
  <2> QED BY <1>5, <2>1, <2>2, <2>3
<1>6. Restart => row' = row /\ session' = session
  BY DEF Restart
<1> QED BY <1>1, <1>2, <1>3, <1>4, <1>5, <1>6 DEF Next

(***************************************************************************)
(* What makes CacheIsCurrent inductive: what a reader is about to put is    *)
(* what the roles grant, if its generation is still the cache's; and        *)
(* nothing is remembered of a user that is still to be created.             *)
(***************************************************************************)
Excused(u) ==
    \/ u \in missed \/ ~Here(u)
    \/ \E h \in Handlers : At(h, "evict") /\ u \in handler[h].users

ReadersAreCurrent ==
    \A h \in Handlers : At(h, "put") /\ handler[h].seen = gen =>
        handler[h].perms = Effective(handler[h].user) \/ Excused(handler[h].user)

ReadersAreBehind ==
    \A h \in Handlers : handler[h].pc \in {"read_perms", "put"} => handler[h].seen <= gen

NewAreUnknown ==
    \A u \in Users : row[u].state = "new" =>
        /\ cache[u] = {}
        /\ \A h \in Handlers : handler[h].user = u => At(h, "verify")
        /\ \A s \in Sessions : Live(s) => session[s].user # u

CacheInv == ReadersAreCurrent /\ ReadersAreBehind /\ NewAreUnknown /\ CacheIsCurrent

LEMMA CacheCurrent == CacheIsCurrent <=> \A u \in Users : cache[u] \subseteq {Effective(u)} \/ Excused(u)
BY DEF CacheIsCurrent, Excused

\* Who a change of the tables does not name keeps its permissions.
LEMMA RolesChange ==
    ASSUME TypeInv, NEW h \in Handlers, NEW told \in BOOLEAN, RoleMutation(h, told)
    PROVE  \E users \in SUBSET Users :
              /\ EditRoles(h, users, told) /\ Tell(users, told)
              /\ cache' = cache /\ gen' = gen
              /\ \A u \in Users \ users : Effective(u)' = Effective(u)
<1> USE HoldersAssumption
<1>0. grants \in [CustomRoles -> SUBSET Permissions] /\ holds \in [Users -> SUBSET CustomRoles]
  BY DEF TypeInv, TypeOK, PermissionTypeOK
<1>1. PICK c \in CustomRoles :
        \/ DeleteCustomRole(c, told) /\ EditRoles(h, Users, told)
        \/ \E perms \in SUBSET Permissions :
              SetRolePermissions(c, perms, told) /\ EditRoles(h, Users, told)
        \/ \E u \in Users :
              /\ Here(u) /\ EditRoles(h, {u}, told)
              /\ AssignUserRole(u, c, told) \/ RemoveUserRole(u, c, told)
  BY DEF RoleMutation
<1>2. CASE DeleteCustomRole(c, told) /\ EditRoles(h, Users, told)
  <2>1. EditRoles(h, Users, told) /\ Tell(Users, told) /\ cache' = cache /\ gen' = gen
    BY <1>2 DEF DeleteCustomRole
  <2> QED BY <2>1
<1>3. CASE \E perms \in SUBSET Permissions : SetRolePermissions(c, perms, told) /\ EditRoles(h, Users, told)
  <2>1. EditRoles(h, Users, told) /\ Tell(Users, told) /\ cache' = cache /\ gen' = gen
    BY <1>3 DEF SetRolePermissions
  <2> QED BY <2>1
<1>4. CASE \E u \in Users : /\ Here(u) /\ EditRoles(h, {u}, told)
                            /\ AssignUserRole(u, c, told) \/ RemoveUserRole(u, c, told)
  <2>0. PICK u \in Users : /\ EditRoles(h, {u}, told)
                           /\ AssignUserRole(u, c, told) \/ RemoveUserRole(u, c, told)
    BY <1>4
  <2>1. Tell({u}, told) /\ cache' = cache /\ gen' = gen /\ grants' = grants
    BY <2>0 DEF AssignUserRole, RemoveUserRole
  <2>2. \A v \in Users \ {u} : holds'[v] = holds[v]
    BY <2>0, <1>0 DEF AssignUserRole, RemoveUserRole
  <2>3. \A v \in Users \ {u} : Effective(v)' = Effective(v)
    BY <2>1, <2>2 DEF Effective
  <2> QED BY <2>0, <2>1, <2>3
<1> QED BY <1>1, <1>2, <1>3, <1>4

\* A step aside keeps who is excused so.
LEMMA ExcusedAside ==
    ASSUME TypeInv, CacheAside, NEW u \in Users, Excused(u), row[u].state # "new"
    PROVE  Excused(u)'
<1>1. CASE u \in missed
  BY <1>1 DEF CacheAside, Excused
<1>2. CASE ~Here(u)
  BY <1>2 DEF CacheAside, AccountsKept, Excused
<1>3. CASE \E h \in Handlers : At(h, "evict") /\ u \in handler[h].users
  <2>1. PICK h \in Handlers : At(h, "evict") /\ u \in handler[h].users
    BY <1>3
  <2>2. Same(h)
    BY <2>1 DEF CacheAside, Elsewhere, At
  <2>3. At(h, "evict")' /\ u \in handler'[h].users
    BY <2>1, <2>2 DEF Same, At
  <2> QED BY <2>3 DEF Excused
<1> QED BY <1>1, <1>2, <1>3 DEF Excused

LEMMA CacheInvAside == TypeInv /\ CacheInv /\ CacheAside => CacheInv'
<1> SUFFICES ASSUME TypeInv, CacheInv, CacheAside PROVE CacheInv'
  OBVIOUS
<1>k. \A u \in Users : row'[u].state = "new" => row[u].state = "new"
  BY DEF CacheAside, AccountsKept
<1>c. cache' = cache /\ gen' = gen
  BY DEF CacheAside
<1>1. NewAreUnknown'
  <2> SUFFICES ASSUME NEW u \in Users, row'[u].state = "new"
               PROVE  /\ cache'[u] = {}
                      /\ \A h \in Handlers : handler'[h].user = u => handler'[h].pc = "verify"
                      /\ \A s \in Sessions : Live(s)' => session'[s].user # u
    BY DEF NewAreUnknown, At
  <2>1. /\ cache[u] = {}
        /\ \A h \in Handlers : handler[h].user = u => handler[h].pc = "verify"
        /\ \A s \in Sessions : Live(s) => session[s].user # u
    BY <1>k DEF CacheInv, NewAreUnknown, At
  <2>2. \A h \in Handlers : handler'[h].user = u => handler'[h].pc = "verify"
    BY <2>1 DEF CacheAside, Same, Elsewhere
  <2>3. \A s \in Sessions : Live(s)' => session'[s].user # u
    BY <2>1 DEF CacheAside, OwnersKept, At
  <2> QED BY <1>c, <2>1, <2>2, <2>3
<1>2. \A h \in Handlers : handler'[h].pc \in {"read_perms", "put"} => Same(h)
  BY DEF CacheAside, Elsewhere
<1>3. ReadersAreBehind'
  BY <1>2, <1>c DEF CacheInv, ReadersAreBehind, Same
<1>4. ReadersAreCurrent'
  <2> SUFFICES ASSUME NEW h \in Handlers, handler'[h].pc = "put", handler'[h].seen = gen',
                      NEW u, u = handler'[h].user
               PROVE  handler'[h].perms = Effective(u)' \/ Excused(u)'
    BY DEF ReadersAreCurrent, At, Effective, Excused, Here
  <2>1. Same(h) /\ At(h, "put") /\ handler[h].seen = gen /\ handler[h].user = u
    BY <1>2, <1>c DEF Same, At
  <2>2. u \in Users /\ row[u].state # "new"
    BY <2>1 DEF TypeInv, HandlersOK, HandlerOK, CacheInv, NewAreUnknown, At
  <2>3. handler[h].perms = Effective(u) \/ Excused(u)
    BY <2>1 DEF CacheInv, ReadersAreCurrent
  <2>4. Effective(u)' = Effective(u) \/ Excused(u)'
    BY <2>2 DEF CacheAside, Excused
  <2> QED BY <2>1, <2>2, <2>3, <2>4, ExcusedAside DEF Same
<1>5. CacheIsCurrent'
  <2> SUFFICES ASSUME NEW u \in Users PROVE cache'[u] \subseteq {Effective(u)'} \/ Excused(u)'
    BY CacheCurrent DEF CacheIsCurrent, Excused
  <2>1. cache[u] \subseteq {Effective(u)} \/ Excused(u)
    BY CacheCurrent DEF CacheInv
  <2>2. row[u].state = "new" => cache'[u] = {}
    BY <1>c DEF CacheInv, NewAreUnknown
  <2>3. Effective(u)' = Effective(u) \/ Excused(u)'
    BY DEF CacheAside, Excused
  <2> QED BY <1>c, <2>1, <2>2, <2>3, ExcusedAside
<1> QED BY <1>1, <1>3, <1>4, <1>5 DEF CacheInv

LEMMA GotoIs ==
    ASSUME TypeInv, NEW h \in Handlers, NEW x, Goto(h, x)
    PROVE  handler'[h] = x /\ \A y \in Handlers \ {h} : handler'[y] = handler[y]
BY DEF Goto, TypeInv, HandlersOK

\* Only the handler that evicts can end the excuse of those it evicts.
LEMMA ExcusedKept ==
    ASSUME TypeInv, NEW h \in Handlers, NEW x, Goto(h, x), handler[h].pc # "evict",
           row' = row, missed \subseteq missed', NEW u \in Users, Excused(u)
    PROVE  Excused(u)'
<1>1. \A y \in Handlers : At(y, "evict") => handler'[y] = handler[y]
  BY GotoIs DEF At
<1> QED BY <1>1 DEF Excused, At, Here

\* A handler that goes elsewhere.
LEMMA NewKept ==
    ASSUME TypeInv, CacheInv, NEW h \in Handlers, NEW x, Goto(h, x), row' = row, session' = session,
           \A u \in Users : x.user = u => row[u].state # "new",
           \A u \in Users : row[u].state = "new" => cache'[u] = {}
    PROVE  NewAreUnknown'
<1>1. \A y \in Handlers : \/ y # h /\ handler'[y] = handler[y]
                          \/ y = h /\ handler'[y] = x
  BY GotoIs
<1> QED BY <1>1 DEF CacheInv, NewAreUnknown, At, Live

LEMMA CacheInvRoles ==
    ASSUME TypeInv, CacheInv, NEW h \in Handlers, NEW told \in BOOLEAN, RoleMutation(h, told),
           row' = row, session' = session
    PROVE  CacheInv'
<1>0. PICK users \in SUBSET Users :
        /\ EditRoles(h, users, told) /\ Tell(users, told)
        /\ cache' = cache /\ gen' = gen
        /\ \A u \in Users \ users : Effective(u)' = Effective(u)
  BY RolesChange
<1> DEFINE x == IF told THEN [Idle EXCEPT !.pc = "evict", !.users = users] ELSE Idle
<1>1. Goto(h, x) /\ handler[h].pc = "idle"
  BY <1>0 DEF EditRoles, Answer, At
<1>2. x.pc \in {"evict", "idle"} /\ x.user = NoUser /\ NoUser \notin Users
      /\ (told => x.pc = "evict" /\ x.users = users)
  BY NoUserAssumption DEF Idle
<1> HIDE DEF x
<1>3. handler'[h] = x /\ \A y \in Handlers \ {h} : handler'[y] = handler[y]
  BY <1>1, GotoIs
<1>4. \A u \in users : Excused(u)'
  <2>1. CASE told
    BY <2>1, <1>2, <1>3 DEF Excused, At
  <2>2. CASE ~told
    BY <2>2, <1>0 DEF Tell, Excused
  <2> QED BY <2>1, <2>2
<1>5. missed \subseteq missed'
  BY <1>0 DEF Tell
<1>6. \A u \in Users : Excused(u) => Excused(u)'
  BY <1>1, <1>5, ExcusedKept
<1>7. \A u \in Users : Effective(u)' = Effective(u) \/ Excused(u)'
  BY <1>0, <1>4
<1>8. NewAreUnknown'
  BY <1>0, <1>1, <1>2, NewKept DEF CacheInv, NewAreUnknown
<1>9. ReadersAreBehind'
  BY <1>0, <1>2, <1>3 DEF CacheInv, ReadersAreBehind
<1>10. ReadersAreCurrent'
  <2> SUFFICES ASSUME NEW y \in Handlers, handler'[y].pc = "put", handler'[y].seen = gen',
                      NEW u, u = handler'[y].user
               PROVE  handler'[y].perms = Effective(u)' \/ Excused(u)'
    BY DEF ReadersAreCurrent, At, Effective, Excused, Here
  <2>1. handler'[y] = handler[y] /\ At(y, "put")
    BY <1>2, <1>3 DEF At
  <2>2. u \in Users
    BY <2>1 DEF TypeInv, HandlersOK, HandlerOK, At
  <2>3. handler[y].perms = Effective(u) \/ Excused(u)
    BY <1>0, <2>1 DEF CacheInv, ReadersAreCurrent
  <2> QED BY <2>1, <2>2, <2>3, <1>6, <1>7
<1>11. CacheIsCurrent'
  <2> SUFFICES ASSUME NEW u \in Users PROVE cache'[u] \subseteq {Effective(u)'} \/ Excused(u)'
    BY CacheCurrent DEF CacheIsCurrent, Excused
  <2>1. cache[u] \subseteq {Effective(u)} \/ Excused(u)
    BY CacheCurrent DEF CacheInv
  <2> QED BY <1>0, <1>6, <1>7, <2>1
<1> QED BY <1>8, <1>9, <1>10, <1>11 DEF CacheInv

\* Steps that change no tables and do not evict: the next state of the handler
\* is x, the cache may gain what x's predecessor was about to put.
LEMMA CacheInvReader ==
    ASSUME TypeInv, CacheInv, NEW h \in Handlers, NEW x, Goto(h, x),
           row' = row, session' = session, roleTables' = roleTables, gen' = gen, missed' = missed,
           handler[h].pc # "evict",
           \A u \in Users : x.user = u => row[u].state # "new",
           x.pc \in {"read_perms", "put"} => x.seen <= gen,
           x.pc = "put" => x.user \in Users /\ x.perms = Effective(x.user),
           \A u \in Users : \/ cache'[u] = cache[u]
                            \/ row[u].state # "new" /\ (cache'[u] = {Effective(u)} \/ Excused(u))
    PROVE  CacheInv'
<1>1. handler'[h] = x /\ \A y \in Handlers \ {h} : handler'[y] = handler[y]
  BY GotoIs
<1>2. \A u \in Users : Excused(u) => Excused(u)'
  BY ExcusedKept
<1>3. \A u : Effective(u)' = Effective(u)
  BY DEF roleTables, Effective
<1>4. NewAreUnknown'
  BY NewKept DEF CacheInv, NewAreUnknown
<1>5. ReadersAreBehind'
  BY <1>1 DEF CacheInv, ReadersAreBehind
<1>6. ReadersAreCurrent'
  <2> SUFFICES ASSUME NEW y \in Handlers, handler'[y].pc = "put", handler'[y].seen = gen',
                      NEW u, u = handler'[y].user
               PROVE  handler'[y].perms = Effective(u)' \/ Excused(u)'
    BY DEF ReadersAreCurrent, At, Effective, Excused, Here
  <2>1. CASE y = h
    BY <2>1, <1>1, <1>3
  <2>2. CASE y # h
    <3>1. u \in Users /\ (handler[y].perms = Effective(u) \/ Excused(u))
      BY <2>2, <1>1 DEF TypeInv, HandlersOK, HandlerOK, CacheInv, ReadersAreCurrent, At
    <3> QED BY <2>2, <3>1, <1>1, <1>2, <1>3
  <2> QED BY <2>1, <2>2
<1>7. CacheIsCurrent'
  <2> SUFFICES ASSUME NEW u \in Users PROVE cache'[u] \subseteq {Effective(u)'} \/ Excused(u)'
    BY CacheCurrent DEF CacheIsCurrent, Excused
  <2>1. cache[u] \subseteq {Effective(u)} \/ Excused(u)
    BY CacheCurrent DEF CacheInv
  <2> QED BY <1>2, <1>3, <2>1
<1> QED BY <1>4, <1>5, <1>6, <1>7 DEF CacheInv

LEMMA CacheInvEvict ==
    ASSUME TypeInv, CacheInv, NEW h \in Handlers, EvictUsers(h), row' = row, session' = session
    PROVE  CacheInv'
<1>1. handler'[h] = Idle /\ \A y \in Handlers \ {h} : handler'[y] = handler[y]
  BY GotoIs DEF EvictUsers, Answer
<1>2. /\ gen \in Nat /\ gen' = gen + 1 /\ missed' = missed /\ roleTables' = roleTables
      /\ \A u \in Users : cache'[u] = IF u \in handler[h].users THEN {} ELSE cache[u]
  BY HoldersAssumption DEF EvictUsers, Evict, TypeInv, TypeOK, PermissionTypeOK, NoEntry
<1>3. Idle.pc = "idle" /\ Idle.user = NoUser /\ NoUser \notin Users
  BY NoUserAssumption DEF Idle
<1>4. NewAreUnknown'
  <2>1. Goto(h, Idle)
    BY DEF EvictUsers, Answer
  <2> QED BY <1>2, <1>3, <2>1, NewKept DEF CacheInv, NewAreUnknown
<1>5. \A y \in Handlers : handler'[y].pc \in {"read_perms", "put"} => handler'[y].seen <= gen
                          /\ handler[y].seen \in Nat /\ handler'[y].seen = handler[y].seen
  BY <1>1, <1>3 DEF CacheInv, ReadersAreBehind, TypeInv, HandlersOK, HandlerOK, HandlerRecord
<1>6. ReadersAreBehind' /\ ReadersAreCurrent'
  BY <1>2, <1>5 DEF ReadersAreBehind, ReadersAreCurrent, At
<1>7. CacheIsCurrent'
  <2> SUFFICES ASSUME NEW u \in Users PROVE cache'[u] \subseteq {Effective(u)'} \/ Excused(u)'
    BY CacheCurrent DEF CacheIsCurrent, Excused
  <2>1. cache[u] \subseteq {Effective(u)} \/ Excused(u)
    BY CacheCurrent DEF CacheInv
  <2>2. Effective(u)' = Effective(u)
    BY <1>2 DEF roleTables, Effective
  <2>3. Excused(u) /\ u \notin handler[h].users => Excused(u)'
    BY <1>1, <1>2 DEF Excused, At, Here
  <2> QED BY <1>2, <2>1, <2>2, <2>3
<1> QED BY <1>4, <1>6, <1>7 DEF CacheInv

LEMMA CacheInvStep == TypeInv /\ CacheInv /\ [Next]_vars => CacheInv'
<1> SUFFICES ASSUME TypeInv, CacheInv, [Next]_vars PROVE CacheInv'
  OBVIOUS
<1>t. /\ \A h \in Handlers : handler[h] \in HandlerRecord
      /\ gen \in Nat /\ cache \in [Users -> SUBSET SUBSET Permissions]
  BY HoldersAssumption DEF TypeInv, TypeOK, HandlersOK, HandlerOK, PermissionTypeOK
<1>d. Idle.pc = "idle" /\ Idle.user = NoUser /\ NoUser \notin Users
  BY NoUserAssumption DEF Idle
<1>n. ASSUME NEW u \in Users, row[u].state = "new"
      PROVE  /\ cache[u] = {} /\ \A h \in Handlers : handler[h].user = u => handler[h].pc = "verify"
             /\ \A s \in Sessions : Live(s) => session[s].user # u
  BY <1>n DEF CacheInv, NewAreUnknown, At
<1>1. CASE CacheAside
  BY <1>1, CacheInvAside
<1>2. ASSUME row' = row, session' = session, NEW h \in Handlers, ReadPerms(h), Here(handler[h].user)
      PROVE  CacheInv'
  <2> DEFINE u == handler[h].user
             x == [handler[h] EXCEPT !.pc = "put", !.perms = Effective(u)]
  <2>1. /\ Goto(h, x) /\ handler[h].pc = "read_perms" /\ row[u].state = "here"
        /\ roleTables' = roleTables /\ gen' = gen /\ missed' = missed /\ cache' = cache
    BY <1>2 DEF ReadPerms, At, Here, permissions, roleTables
  <2>2. x.pc = "put" /\ x.user = u /\ x.seen = handler[h].seen /\ x.perms = Effective(u)
    BY <1>t DEF HandlerRecord
  <2>3. u \in Users /\ handler[h].seen <= gen
    BY <2>1 DEF TypeInv, HandlersOK, HandlerOK, CacheInv, ReadersAreBehind
  <2> HIDE DEF x, u
  <2> QED BY <1>2, <2>1, <2>2, <2>3, CacheInvReader
<1>3. ASSUME row' = row, session' = session, NEW h \in Handlers, PutPerms(h)
      PROVE  CacheInv'
  <2> DEFINE u == handler[h].user
  <2>1. /\ Goto(h, Idle) /\ handler[h].pc = "put"
        /\ roleTables' = roleTables /\ gen' = gen /\ missed' = missed
        /\ cache' = IF gen = handler[h].seen THEN [cache EXCEPT ![u] = {handler[h].perms}] ELSE cache
    BY <1>3 DEF PutPerms, Put, Answer, At, roleTables
  <2>2. u \in Users /\ (gen = handler[h].seen => handler[h].perms = Effective(u) \/ Excused(u))
    BY <2>1 DEF TypeInv, HandlersOK, HandlerOK, CacheInv, ReadersAreCurrent, At
  <2>3. row[u].state # "new"
    BY <2>1, <2>2, <1>n
  <2>4. \A v \in Users : \/ cache'[v] = cache[v]
                         \/ row[v].state # "new" /\ (cache'[v] = {Effective(v)} \/ Excused(v))
    BY <2>1, <2>2, <2>3, <1>t
  <2>5. Idle.pc \notin {"read_perms", "put"} /\ \A v \in Users : Idle.user # v
    BY <1>d
  <2> QED BY <1>3, <2>1, <2>4, <2>5, CacheInvReader
<1>4. ASSUME row' = row, session' = session, NEW h \in Handlers, NEW s \in Sessions, RequestBegin(h, s)
      PROVE  CacheInv'
  <2> DEFINE u == session[s].user
             x == [Idle EXCEPT !.pc = "read_perms", !.user = u, !.seen = gen]
  <2>1. /\ Goto(h, x) /\ handler[h].pc = "idle" /\ Live(s)
        /\ roleTables' = roleTables /\ gen' = gen /\ missed' = missed /\ cache' = cache
    BY <1>4 DEF RequestBegin, At, Known, permissions, roleTables
  <2>2. x.pc = "read_perms" /\ x.user = u /\ x.seen = gen
    BY DEF Idle
  <2>3. \A v \in Users : u = v => row[v].state # "new"
    BY <2>1, <1>n
  <2> HIDE DEF x, u
  <2> QED BY <1>t, <1>4, <2>1, <2>2, <2>3, CacheInvReader
<1>5. ASSUME row' = row, session' = session, Restart
      PROVE  CacheInv'
  <2>1. /\ \A h \in Handlers : handler'[h] = Idle
        /\ \A u \in Users : cache'[u] = {}
    BY <1>5, HoldersAssumption DEF Restart, EmptyCache, NoEntry
  <2>2. NewAreUnknown'
    BY <2>1, <1>5, <1>d, <1>n DEF NewAreUnknown, At, Live
  <2> QED BY <2>1, <2>2, <1>d DEF CacheInv, ReadersAreCurrent, ReadersAreBehind, CacheIsCurrent, At
<1>6. ASSUME row' = row, session' = session, NEW u \in Users, EntryExpires(u), UNCHANGED handler
      PROVE  CacheInv'
  <2>1. /\ roleTables' = roleTables /\ gen' = gen /\ missed' = missed
        /\ \A v \in Users : cache'[v] \subseteq cache[v]
    BY <1>6, <1>t DEF EntryExpires, NoEntry, roleTables
  <2>2. \A v : Effective(v)' = Effective(v)
    BY <2>1 DEF roleTables, Effective
  <2>3. \A v : Excused(v)' = Excused(v)
    BY <1>6, <2>1 DEF Excused, At, Here
  <2>4. NewAreUnknown' /\ ReadersAreBehind'
    BY <1>6, <2>1 DEF CacheInv, NewAreUnknown, ReadersAreBehind, At, Live
  <2>5. ReadersAreCurrent'
    BY <1>6, <2>1, <2>2, <2>3 DEF CacheInv, ReadersAreCurrent, At
  <2>6. CacheIsCurrent'
    <3> SUFFICES ASSUME NEW v \in Users PROVE cache'[v] \subseteq {Effective(v)'} \/ Excused(v)'
      BY CacheCurrent DEF CacheIsCurrent, Excused
    <3> QED BY <2>1, <2>2, <2>3, CacheCurrent DEF CacheInv
  <2> QED BY <2>4, <2>5, <2>6 DEF CacheInv
<1> QED BY <1>1, <1>2, <1>3, <1>4, <1>5, <1>6, CacheSteps, CacheInvRoles, CacheInvEvict

\* CacheIsCurrent (permcache.go:22-28): the cache gives nobody permissions that
\* the roles no longer grant, and forgets none they do, outside the time between
\* a mutation's statement and its eviction: a put that read the tables before an
\* eviction comes with a generation that is no longer the cache's.
THEOREM CacheStaysCurrent == Spec => []CacheIsCurrent
<1>1. Init => CacheInv
  <2> SUFFICES ASSUME Init PROVE CacheInv
    OBVIOUS
  <2>1. \A h \in Handlers : handler[h].pc = "idle" /\ handler[h].user = NoUser
    BY DEF Init, Idle
  <2>2. \A u \in Users : cache[u] = {}
    BY HoldersAssumption DEF Init, PermissionInit, NoEntry
  <2>3. \A s \in Sessions : ~Live(s)
    BY DEF Init, StoreInit, Live, Unused
  <2> QED BY <2>1, <2>2, <2>3, NoUserAssumption
       DEF CacheInv, NewAreUnknown, ReadersAreCurrent, ReadersAreBehind, CacheIsCurrent, At
<1>2. CacheInv => CacheIsCurrent
  BY DEF CacheInv
<1> QED BY <1>1, <1>2, InitTypeInv, TypeStep, CacheInvStep, PTL DEF Spec

-----------------------------------------------------------------------------
(***************************************************************************)
(* Sessions and their revocation.  Quiet steps make no session out of date, *)
(* leave Redis's sessions and indexes alone, and move no handler to or from *)
(* the places where it revokes or creates a session.                        *)
(***************************************************************************)
Steady(y) ==
    /\ handler'[y].pc = handler[y].pc /\ handler'[y].user = handler[y].user
    /\ handler'[y].session = handler[y].session /\ handler'[y].listed = handler[y].listed
    /\ handler'[y].opens = handler[y].opens /\ handler'[y].data = handler[y].data
    /\ handler[y].late = TRUE => handler'[y].late = TRUE

Bystander(y) ==
    /\ handler[y].pc \notin {"list", "delete", "index"}
    /\ handler'[y].pc \notin {"list", "delete", "index"}
    /\ handler'[y].opens = FALSE

NoneOlder == \A u \in Users : \A data : Outdated(u, data)' => Outdated(u, data)

Quiet ==
    /\ session' = session /\ index' = index /\ slipped \subseteq slipped' /\ NoneOlder
    /\ \A y \in Handlers : Steady(y) \/ Bystander(y)

\* The statement of a mutation that goes on to revoke.
Revokes(h, u) ==
    \E value, next :
        /\ SaveRow(h, u, value, next)
        /\ handler[h].pc \in {"idle", "toggle", "save_password"}
        /\ next.pc = "list" /\ next.user = u
        /\ \/ next.opens = FALSE
           \/ /\ handler[h].opens = TRUE /\ handler[h].user = u
              /\ next.opens = TRUE /\ next.late = handler[h].late
              /\ value.state = "here" /\ value.active = row[u].active
              /\ handler[h].data = row[u].data => next.data = value.data

\* A session is deleted by its id, or the index of a user expires.
Sweeps ==
    /\ row' = row /\ handler' = handler
    /\ \/ \E s \in Sessions : DeleteSession(s)
       \/ \E u \in Users : IndexExpires(u)

LEMMA PassOverIs ==
    ASSUME TypeInv, NEW h \in Handlers, NEW x, NEW others, PassOver(h, x, others)
    PROVE  /\ handler'[h] = x
           /\ \A y \in Handlers \ {h} : Steady(y)
           /\ \A y \in others \intersect Handlers : y # h => handler'[y].late = TRUE
<1>1. handler'[h] = x
  BY DEF PassOver
<1>2. ASSUME NEW y \in Handlers \ {h}
      PROVE  Steady(y) /\ (y \in others => handler'[y].late = TRUE)
  <2>1. handler'[y] = IF y \in others THEN [handler[y] EXCEPT !.late = TRUE] ELSE handler[y]
    BY DEF PassOver
  <2>2. handler[y] \in HandlerRecord
    BY DEF TypeInv, HandlersOK, HandlerOK
  <2> QED BY <2>1, <2>2 DEF Steady, HandlerRecord
<1> QED BY <1>1, <1>2

LEMMA GotoQuiet ==
    ASSUME TypeInv, NEW h \in Handlers, NEW x, Goto(h, x),
           handler[h].pc \notin {"list", "delete", "index"},
           x.pc \notin {"list", "delete", "index"}, x.opens = FALSE
    PROVE  \A y \in Handlers : Steady(y) \/ Bystander(y)
BY GotoIs DEF Steady, Bystander

LEMMA RowsQuiet == row' = row => NoneOlder
BY DEF NoneOlder, Outdated, Here

\* A statement that is followed by no revocation.
LEMMA SaveRowQuiet ==
    ASSUME TypeInv, NEW h \in Handlers, NEW u \in Users, NEW value, SaveRow(h, u, value, Idle),
           handler[h].pc \notin {"list", "delete", "index"},
           Here(u) => value.state = "here" /\ value.data = row[u].data /\ (row[u].active => value.active)
    PROVE  Quiet
<1>1. Idle.pc = "idle" /\ Idle.opens = FALSE
  BY DEF Idle
<1>2. Goto(h, Idle) /\ slipped' = slipped /\ session' = session /\ index' = index
  BY <1>1 DEF SaveRow, Answer
<1>3. row' = row \/ row' = [row EXCEPT ![u] = value]
  BY DEF SaveRow
<1>4. NoneOlder
  BY <1>3 DEF NoneOlder, Outdated, Here, TypeInv, TypeOK
<1> QED BY <1>1, <1>2, <1>4, GotoQuiet DEF Quiet

LEMMA RedisQuiet == UNCHANGED redis => session' = session /\ index' = index /\ slipped' = slipped
BY DEF redis

\* A mutation by an administrator revokes or is quiet.
LEMMA AdministerSteps ==
    ASSUME TypeInv, NEW h \in Handlers, NEW u \in Users, NEW value, NEW revoke \in BOOLEAN,
           Administer(h, u, value, revoke), Here(u),
           ~revoke => value.state = "here" /\ value.data = row[u].data /\ (row[u].active => value.active)
    PROVE  Quiet \/ Revokes(h, u)
<1>1. handler[h].pc = "idle"
  BY DEF Administer, At
<1>2. CASE revoke
  <2>1. SaveRow(h, u, value, Revocation(u))
    BY <1>2 DEF Administer
  <2>2. Revocation(u).pc = "list" /\ Revocation(u).user = u /\ Revocation(u).opens = FALSE
    BY DEF Revocation, Idle
  <2> QED BY <1>1, <2>1, <2>2 DEF Revokes
<1>3. CASE ~revoke
  <2>1. SaveRow(h, u, value, Idle)
    BY <1>3 DEF Administer
  <2> QED BY <1>1, <1>3, <2>1, SaveRowQuiet
<1> QED BY <1>2, <1>3

LEMMA BeginSteps ==
    ASSUME TypeInv, NEW h \in Handlers, Begin(h)
    PROVE  \/ Quiet \/ \E u \in Users : Revokes(h, u)
           \/ \E s \in Sessions : ChangePasswordRead(h, s)
<1>r. \A u \in Users : row[u] \in UserRecord /\ (row[u].state = "here" => row[u].data \in Data)
  BY DEF TypeInv, TypeOK
<1>d. Idle.pc = "idle" /\ Idle.opens = FALSE
  BY DEF Idle
<1>q. ASSUME NEW x, Goto(h, x), handler[h].pc = "idle", x.pc \notin {"list", "delete", "index"},
             x.opens = FALSE, row' = row, UNCHANGED redis
      PROVE  Quiet
  BY <1>q, GotoQuiet, RowsQuiet, RedisQuiet DEF Quiet
<1>1. ASSUME NEW u \in Users, NEW n \in Names, LoginBegin(h, u, n) PROVE Quiet
  <2> DEFINE x == [Idle EXCEPT !.pc = "verify", !.user = u, !.name = n]
  <2>1. Goto(h, x) /\ handler[h].pc = "idle" /\ row' = row /\ UNCHANGED redis
    BY <1>1 DEF LoginBegin, At
  <2>2. x.pc = "verify" /\ x.opens = FALSE
    BY DEF Idle
  <2> HIDE DEF x
  <2> QED BY <2>1, <2>2, <1>q
<1>2. ASSUME NEW u \in Users, NEW data \in Data, NEW enabled \in BOOLEAN, CreateUser(h, u, data, enabled)
      PROVE  Quiet
  <2> DEFINE value == [state |-> "here", active |-> enabled, data |-> data]
  <2>1. SaveRow(h, u, value, Idle) /\ handler[h].pc = "idle" /\ ~Here(u)
    BY <1>2 DEF CreateUser, At, Here
  <2> HIDE DEF value
  <2> QED BY <2>1, SaveRowQuiet
<1>3. ASSUME NEW u \in Users, NEW role \in Optional(Roles), NEW enabled \in Optional(BOOLEAN),
             UpdateUser(h, u, role, enabled)
      PROVE  Quiet \/ Revokes(h, u)
  <2> DEFINE value == Updated(u, role, enabled)
             revoke == (role # {} \/ enabled = {FALSE})
  <2>1. Here(u) /\ Administer(h, u, value, revoke)
    BY <1>3 DEF UpdateUser
  <2>2. ASSUME ~revoke
        PROVE  value.state = "here" /\ value.data = row[u].data /\ (row[u].active => value.active)
    <3>1. role = {} /\ enabled \in {{}, {TRUE}}
      BY <2>2 DEF Optional
    <3>2. row[u] \in UserRecord /\ row[u].data \in Data /\ row[u].state = "here"
      BY <1>r, <2>1 DEF Here
    <3>3. value = [row[u] EXCEPT !.data.role = @, !.active = Given(enabled, @)]
      BY <3>1 DEF Updated, Given
    <3>4. value.state = "here" /\ value.data = row[u].data /\ value.active = Given(enabled, row[u].active)
      BY <3>2, <3>3 DEF UserRecord, Data
    <3>5. enabled = {TRUE} => Given(enabled, row[u].active) = TRUE
      BY DEF Given
    <3>6. enabled = {} => Given(enabled, row[u].active) = row[u].active
      BY DEF Given
    <3> QED BY <3>1, <3>4, <3>5, <3>6
  <2>3. revoke \in BOOLEAN
    OBVIOUS
  <2> HIDE DEF value, revoke
  <2> QED BY <2>1, <2>2, <2>3, AdministerSteps
<1>4. ASSUME NEW u \in Users, DeleteUser(h, u) PROVE Quiet \/ Revokes(h, u)
  BY <1>4, AdministerSteps DEF DeleteUser
<1>5. ASSUME NEW u \in Users, NEW password \in Passwords, ResetUserPassword(h, u, password)
      PROVE  Quiet \/ Revokes(h, u)
  BY <1>5, AdministerSteps DEF ResetUserPassword
<1>6. ASSUME NEW u \in Users, ToggleRead(h, u) PROVE Quiet
  <2> DEFINE x == [Idle EXCEPT !.pc = "toggle", !.user = u, !.active = ~row[u].active]
  <2>1. Goto(h, x) /\ handler[h].pc = "idle" /\ row' = row /\ UNCHANGED redis
    BY <1>6 DEF ToggleRead, At
  <2>2. x.pc = "toggle" /\ x.opens = FALSE
    BY DEF Idle
  <2> HIDE DEF x
  <2> QED BY <2>1, <2>2, <1>q
<1>7. ASSUME NEW s \in Sessions, RequestBegin(h, s) PROVE Quiet
  <2> DEFINE x == [Idle EXCEPT !.pc = "read_perms", !.user = session[s].user, !.seen = gen]
  <2>1. Goto(h, x) /\ handler[h].pc = "idle" /\ row' = row /\ UNCHANGED redis
    BY <1>7 DEF RequestBegin, At
  <2>2. x.pc = "read_perms" /\ x.opens = FALSE
    BY DEF Idle
  <2> HIDE DEF x
  <2> QED BY <2>1, <2>2, <1>q
<1>8. ASSUME NEW c \in CustomRoles, CreateRole(h, c) PROVE Quiet
  <2>1. handler' = handler /\ row' = row /\ UNCHANGED redis
    BY <1>8 DEF CreateRole
  <2> QED BY <2>1, RowsQuiet, RedisQuiet DEF Quiet, Steady
<1>9. ASSUME NEW told \in BOOLEAN, RoleMutation(h, told) PROVE Quiet
  <2>1. PICK users : EditRoles(h, users, told)
    BY <1>9 DEF RoleMutation
  <2> DEFINE x == IF told THEN [Idle EXCEPT !.pc = "evict", !.users = users] ELSE Idle
  <2>2. Goto(h, x) /\ handler[h].pc = "idle" /\ row' = row /\ UNCHANGED redis
    BY <2>1 DEF EditRoles, Answer, At
  <2>3. x.pc \in {"idle", "evict"} /\ x.opens = FALSE
    BY DEF Idle
  <2> HIDE DEF x
  <2> QED BY <2>2, <2>3, <1>q
<1> QED BY <1>1, <1>2, <1>3, <1>4, <1>5, <1>6, <1>7, <1>8, <1>9 DEF Begin

LEMMA ContinueSteps ==
    ASSUME TypeInv, NEW h \in Handlers, Continue(h)
    PROVE  \/ Quiet \/ \E u \in Users : Revokes(h, u)
           \/ LoginVerified(h) \/ Store(h) \/ Index(h) \/ List(h) \/ ListFails(h) \/ Delete(h)
<1>d. Idle.pc = "idle" /\ Idle.opens = FALSE /\ HandlerOK(handler[h])
  BY DEF Idle, TypeInv, HandlersOK
<1>q. ASSUME NEW x, Goto(h, x), handler[h].pc \notin {"list", "delete", "index"},
             x.pc \notin {"list", "delete", "index"}, x.opens = FALSE,
             row' = row, session' = session, index' = index, slipped' = slipped
      PROVE  Quiet
  BY <1>q, GotoQuiet, RowsQuiet DEF Quiet
<1>1. CASE LoginFails(h) \/ LoginDisabled(h) \/ StoreFails(h) \/ EvictUsers(h) \/ PutPerms(h)
  <2>1. /\ Goto(h, Idle) /\ handler[h].pc \notin {"list", "delete", "index"}
        /\ row' = row /\ session' = session /\ index' = index /\ slipped' = slipped
    BY <1>1 DEF LoginFails, LoginDisabled, StoreFails, EvictUsers, PutPerms, Answer, At, Fail, redis
  <2> QED BY <2>1, <1>d, <1>q
<1>2. CASE ReadPerms(h)
  <2> DEFINE x == IF Here(handler[h].user)
                    THEN [handler[h] EXCEPT !.pc = "put", !.perms = Effective(handler[h].user)] ELSE Idle
  <2>1. Goto(h, x) /\ handler[h].pc = "read_perms" /\ row' = row /\ UNCHANGED redis
    BY <1>2 DEF ReadPerms, Answer, At
  <2>2. x.pc \in {"put", "idle"} /\ x.opens = FALSE
    BY <2>1, <1>d DEF HandlerOK, HandlerRecord
  <2> HIDE DEF x
  <2> QED BY <2>1, <2>2, <1>q, RedisQuiet
<1>3. CASE ToggleSave(h)
  <2> DEFINE u == handler[h].user
             value == [row[u] EXCEPT !.active = handler[h].active]
  <2>1. u \in Users /\ handler[h].pc = "toggle" /\ handler[h].active \in BOOLEAN
    BY <1>3, <1>d DEF ToggleSave, At, HandlerOK, HandlerRecord
  <2>2. ASSUME Here(u) PROVE value.state = "here" /\ value.data = row[u].data /\ value.active = handler[h].active
    BY <2>1, <2>2 DEF Here, TypeInv, TypeOK, UserRecord
  <2>3. \/ Here(u) /\ SaveRow(h, u, value, IF handler[h].active THEN Idle ELSE Revocation(u))
        \/ Goto(h, Idle) /\ UNCHANGED <<row, redis>>
    BY <1>3 DEF ToggleSave, Answer
  <2>4. Revocation(u).pc = "list" /\ Revocation(u).user = u /\ Revocation(u).opens = FALSE
    BY DEF Revocation, Idle
  <2>5. CASE Goto(h, Idle) /\ UNCHANGED <<row, redis>>
    <3>1. row' = row /\ UNCHANGED redis
      BY <2>5
    <3> QED BY <2>1, <2>5, <3>1, <1>d, <1>q, RedisQuiet
  <2> HIDE DEF u, value
  <2>6. CASE Here(u) /\ SaveRow(h, u, value, IF handler[h].active THEN Idle ELSE Revocation(u))
    <3>1. CASE handler[h].active
      <4>1. SaveRow(h, u, value, Idle)
        BY <2>6, <3>1
      <4> QED BY <4>1, <2>1, <2>2, <2>6, <3>1, SaveRowQuiet
    <3>2. CASE ~handler[h].active
      <4>1. SaveRow(h, u, value, Revocation(u))
        BY <2>6, <3>2
      <4>2. Revokes(h, u)
        BY <4>1, <2>1, <2>4 DEF Revokes
      <4> QED BY <4>2, <2>1
    <3> QED BY <3>1, <3>2
  <2> QED BY <2>3, <2>5, <2>6
<1>4. ASSUME NEW password \in Passwords, ChangePasswordSave(h, password)
      PROVE  Quiet \/ \E u \in Users : Revokes(h, u)
  <2> DEFINE u == handler[h].user
             value == [row[u] EXCEPT !.data.password = password]
             next == [handler[h] EXCEPT !.pc = "list", !.data.password = password]
  <2>1. u \in Users /\ handler[h].pc = "save_password" /\ handler[h].opens = TRUE
        /\ handler[h] \in HandlerRecord /\ handler[h].data \in Data
    BY <1>4, <1>d DEF ChangePasswordSave, At, HandlerOK, HandlerRecord
  <2>2. \/ Here(u) /\ SaveRow(h, u, value, next)
        \/ Goto(h, Idle) /\ UNCHANGED <<row, redis>>
    BY <1>4 DEF ChangePasswordSave, Answer
  <2>3. ASSUME Here(u)
        PROVE  /\ value.state = "here" /\ value.active = row[u].active
               /\ handler[h].data = row[u].data => next.data = value.data
    <3>1. row[u] \in UserRecord /\ row[u].data \in Data /\ row[u].state = "here"
      BY <2>1, <2>3 DEF TypeInv, TypeOK, Here
    <3>2. value.data = [row[u].data EXCEPT !.password = password]
      BY <3>1 DEF UserRecord
    <3>3. next.data = [handler[h].data EXCEPT !.password = password]
      BY <2>1 DEF HandlerRecord
    <3> QED BY <3>1, <3>2, <3>3 DEF UserRecord
  <2>4. /\ next.pc = "list" /\ next.user = u /\ next.opens = TRUE /\ next.late = handler[h].late
    BY <2>1 DEF HandlerRecord
  <2>5. CASE Goto(h, Idle) /\ UNCHANGED <<row, redis>>
    <3>1. row' = row /\ UNCHANGED redis
      BY <2>5
    <3> QED BY <2>1, <2>5, <3>1, <1>d, <1>q, RedisQuiet
  <2>6. u = handler[h].user
    OBVIOUS
  <2> HIDE DEF u, value, next
  <2>7. CASE Here(u) /\ SaveRow(h, u, value, next)
    BY <2>1, <2>3, <2>4, <2>6, <2>7 DEF Revokes
  <2> QED BY <2>2, <2>5, <2>7
<1> QED BY <1>1, <1>2, <1>3, <1>4 DEF Continue

LEMMA SessionSteps ==
    ASSUME TypeInv, [Next]_vars
    PROVE  \/ Quiet \/ Sweeps \/ Restart
           \/ \E h \in Handlers :
                 \/ \E u \in Users : Revokes(h, u)
                 \/ \E s \in Sessions : ChangePasswordRead(h, s)
                 \/ LoginVerified(h) \/ Store(h) \/ Index(h) \/ List(h) \/ ListFails(h) \/ Delete(h)
<1>1. CASE UNCHANGED vars
  BY <1>1, RowsQuiet, RedisQuiet DEF vars, Quiet, Steady
<1>2. CASE Environment
  <2>1. row' = row /\ handler' = handler
    BY <1>2 DEF Environment
  <2>2. CASE \E s \in Sessions : Logout(s) \/ SessionExpires(s)
    BY <2>1, <2>2 DEF Sweeps, Logout, SessionExpires
  <2>3. CASE \E u \in Users : IndexExpires(u)
    BY <2>1, <2>3 DEF Sweeps
  <2>4. CASE (\E k \in Users \X Names : WindowEnds(k)) \/ UNCHANGED redis
    <3>1. session' = session /\ index' = index /\ slipped' = slipped
      BY <2>4, RedisQuiet DEF WindowEnds
    <3> QED BY <2>1, <3>1, RowsQuiet DEF Quiet, Steady
  <2> QED BY <1>2, <2>2, <2>3, <2>4 DEF Environment
<1> QED BY <1>1, <1>2, BeginSteps, ContinueSteps DEF Next

(***************************************************************************)
(* What makes SessionsAreFound inductive: the ids in the indexes were used, *)
(* a handler that will enter a session knows it, and a revocation that has  *)
(* listed a user's sessions has listed all that the index still names.      *)
(***************************************************************************)
EnteredAreKnown ==
    \A h \in Handlers : At(h, "index") =>
        LET s == handler[h].session
        IN  /\ session[s].state # "unused"
            /\ Live(s) => session[s].user = handler[h].user /\ session[s].data = handler[h].data

IndexedAreUsed == \A u \in Users : \A s \in index[u] : session[s].state # "unused"

ListedAreAll ==
    \A h \in Handlers : At(h, "delete") =>
        \A s \in index[handler[h].user] :
            Live(s) /\ session[s].user = handler[h].user /\ s \notin slipped => s \in handler[h].listed

FoundInv == EnteredAreKnown /\ IndexedAreUsed /\ ListedAreAll /\ SessionsAreFound

\* A handler that is at index and stays, or is not and does not go there; the
\* same for delete.
Settled(y) ==
    \/ Steady(y)
    \/ handler[y].pc # "index" /\ handler'[y].pc \notin {"index", "delete"}

\* Sessions come to an end, and indexes with the sessions they name.
LEMMA FoundKept ==
    ASSUME TypeInv, FoundInv,
           \A s \in Sessions : Live(s)' => Live(s) /\ session'[s] = session[s] /\ (s \in slipped => s \in slipped'),
           \A s \in Sessions : session[s].state # "unused" => session'[s].state # "unused",
           \A y \in Handlers : Settled(y),
           \A u \in Users : \/ index'[u] = index[u]
                            \/ /\ index'[u] = {}
                               /\ \A s \in index[u] : Live(s)' /\ session[s].user = u => s \in slipped'
    PROVE  FoundInv'
<1>1. \A y \in Handlers : handler'[y].pc \in {"index", "delete"} => Steady(y)
  BY DEF Settled
<1>2. /\ \A s \in Sessions : Live(s)' => Live(s) /\ session'[s] = session[s]
      /\ \A s \in Sessions : Live(s)' /\ s \notin slipped' => s \notin slipped
      /\ \A s \in Sessions : session[s].state # "unused" => session'[s].state # "unused"
  OBVIOUS
<1>t. /\ index \in [Users -> SUBSET Sessions]
      /\ \A h \in Handlers : /\ handler[h].pc \notin {"idle", "evict"} => handler[h].user \in Users
                             /\ handler[h].pc = "index" => handler[h].session \in Sessions
      /\ \A s \in Sessions : Live(s) => session[s].user \in Users
  BY DEF TypeInv, TypeOK, StoreTypeOK, Live
<1>u. \A u \in Users : index'[u] \subseteq index[u]
  OBVIOUS
<1>3. EnteredAreKnown'
  BY <1>1, <1>2, <1>t DEF FoundInv, EnteredAreKnown, At, Steady
<1>4. IndexedAreUsed'
  BY <1>2, <1>t, <1>u DEF FoundInv, IndexedAreUsed
<1>5. ListedAreAll'
  <2> SUFFICES ASSUME NEW h \in Handlers, handler'[h].pc = "delete", NEW u, u = handler'[h].user,
                      NEW s \in index'[u], Live(s)', session'[s].user = u, s \notin slipped'
               PROVE  s \in handler'[h].listed
    BY DEF ListedAreAll, At
  <2>1. At(h, "delete") /\ handler[h].user = u /\ handler'[h].listed = handler[h].listed /\ u \in Users
    BY <1>1, <1>t DEF Steady, At
  <2>2. s \in Sessions /\ s \in index[u]
    BY <2>1, <1>t, <1>u
  <2>3. Live(s) /\ session[s].user = u /\ s \notin slipped
    BY <2>2, <1>2
  <2> QED BY <2>1, <2>2, <2>3 DEF FoundInv, ListedAreAll
<1>6. SessionsAreFound'
  <2> SUFFICES ASSUME NEW s \in Sessions, Live(s)', s \notin slipped'
               PROVE  \/ s \in index'[session'[s].user]
                      \/ \E h \in Handlers : handler'[h].pc = "index" /\ handler'[h].session = s
    BY DEF SessionsAreFound, At
  <2>1. Live(s) /\ session'[s] = session[s] /\ s \notin slipped /\ session[s].user \in Users
    BY <1>2, <1>t
  <2>2. CASE s \in index[session[s].user]
    BY <2>1, <2>2
  <2>3. CASE \E h \in Handlers : At(h, "index") /\ handler[h].session = s
    <3>1. \A h \in Handlers : At(h, "index") => Steady(h)
      BY DEF Settled, At
    <3> QED BY <2>3, <3>1 DEF Steady, At
  <2> QED BY <2>1, <2>2, <2>3 DEF FoundInv, SessionsAreFound
<1> QED BY <1>3, <1>4, <1>5, <1>6 DEF FoundInv

LEMMA FoundAside ==
    ASSUME TypeInv, FoundInv, session' = session, index' = index, slipped \subseteq slipped',
           \A y \in Handlers : Settled(y)
    PROVE  FoundInv'
BY FoundKept DEF Live

LEMMA DropIs ==
    ASSUME NEW ids, Drop(ids)
    PROVE  /\ \A s \in Sessions : Live(s)' => /\ Live(s) /\ session'[s] = session[s] /\ s \notin ids
                                              /\ s \in slipped => s \in slipped'
           /\ \A s \in Sessions : session[s].state # "unused" => session'[s].state # "unused"
           /\ \A s \in Sessions : s \notin ids /\ s \notin slipped' => s \notin slipped
<1>0. Gone.state = "gone"
  BY DEF Gone, Unused
<1> QED BY <1>0 DEF Drop, Live

LEMMA AfterIs ==
    ASSUME TypeInv, NEW h \in Handlers
    PROVE  \/ handler[h].opens = FALSE /\ After(h) = Idle
           \/ /\ handler[h].opens = TRUE
              /\ After(h).pc = "store" /\ After(h).opens = TRUE /\ After(h).user = handler[h].user
              /\ After(h).data = handler[h].data /\ After(h).late = handler[h].late
BY DEF After, TypeInv, HandlersOK, HandlerOK, HandlerRecord

LEMMA FoundStore ==
    ASSUME TypeInv, FoundInv, NEW h \in Handlers, Store(h)
    PROVE  FoundInv'
<1>0. PICK s \in Sessions : StoreSession(s, handler[h].user, handler[h].data, handler[h].late)
                            /\ Goto(h, [handler[h] EXCEPT !.pc = "index", !.session = s])
  BY DEF Store
<1> DEFINE x == [handler[h] EXCEPT !.pc = "index", !.session = s]
<1>1. handler[h].pc = "store" /\ handler[h] \in HandlerRecord /\ handler[h].user \in Users
  BY DEF Store, At, TypeInv, HandlersOK, HandlerOK
<1>2. x.pc = "index" /\ x.session = s /\ x.user = handler[h].user /\ x.data = handler[h].data
  BY <1>1 DEF HandlerRecord
<1>3. handler'[h] = x /\ \A y \in Handlers \ {h} : handler'[y] = handler[y]
  BY <1>0, GotoIs
<1> HIDE DEF x
<1>4. /\ session[s].state = "unused" /\ index' = index /\ slipped \subseteq slipped'
      /\ session'[s].state = "live" /\ session'[s].user = handler[h].user /\ session'[s].data = handler[h].data
      /\ \A t \in Sessions \ {s} : session'[t] = session[t]
  BY <1>0 DEF StoreSession, TypeInv, TypeOK, StoreTypeOK
<1>t. /\ index \in [Users -> SUBSET Sessions]
      /\ \A y \in Handlers : /\ handler[y].pc \notin {"idle", "evict"} => handler[y].user \in Users
                             /\ handler[y].pc = "index" => handler[y].session \in Sessions
  BY DEF TypeInv, TypeOK, StoreTypeOK
<1>5. EnteredAreKnown'
  <2> SUFFICES ASSUME NEW y \in Handlers, handler'[y].pc = "index", NEW t, t = handler'[y].session
               PROVE  /\ session'[t].state # "unused"
                      /\ Live(t)' => session'[t].user = handler'[y].user /\ session'[t].data = handler'[y].data
    BY DEF EnteredAreKnown, At, Live
  <2>1. CASE y = h
    BY <2>1, <1>2, <1>3, <1>4
  <2>2. CASE y # h
    <3>1. At(y, "index") /\ handler[y].session = t /\ t \in Sessions /\ handler'[y] = handler[y]
      BY <2>2, <1>3, <1>t DEF At
    <3>2. session[t].state # "unused" /\ t # s
      BY <3>1, <1>4 DEF FoundInv, EnteredAreKnown
    <3> QED BY <3>1, <3>2, <1>4 DEF FoundInv, EnteredAreKnown, Live
  <2> QED BY <2>1, <2>2
<1>6. IndexedAreUsed'
  BY <1>4, <1>t DEF FoundInv, IndexedAreUsed
<1>7. ListedAreAll'
  <2> SUFFICES ASSUME NEW y \in Handlers, handler'[y].pc = "delete", NEW u, u = handler'[y].user,
                      NEW t \in index[u], Live(t)', session'[t].user = u, t \notin slipped'
               PROVE  t \in handler'[y].listed
    BY <1>4 DEF ListedAreAll, At
  <2>1. y # h /\ handler'[y] = handler[y] /\ u \in Users
    BY <1>2, <1>3, <1>t
  <2>2. t \in Sessions /\ t # s
    BY <2>1, <1>t, <1>4 DEF FoundInv, IndexedAreUsed
  <2> QED BY <2>1, <2>2, <1>4 DEF FoundInv, ListedAreAll, At, Live
<1>8. SessionsAreFound'
  <2> SUFFICES ASSUME NEW t \in Sessions, Live(t)', t \notin slipped'
               PROVE  \/ t \in index[session'[t].user]
                      \/ \E y \in Handlers : handler'[y].pc = "index" /\ handler'[y].session = t
    BY <1>4 DEF SessionsAreFound, At
  <2>1. CASE t = s
    BY <2>1, <1>2, <1>3
  <2>2. CASE t # s
    <3>1. Live(t) /\ session'[t] = session[t] /\ t \notin slipped
      BY <2>2, <1>4 DEF Live
    <3>2. \A y \in Handlers : At(y, "index") => handler'[y] = handler[y]
      BY <1>1, <1>3 DEF At
    <3> QED BY <3>1, <3>2 DEF FoundInv, SessionsAreFound, At
  <2> QED BY <2>1, <2>2
<1> QED BY <1>5, <1>6, <1>7, <1>8 DEF FoundInv

LEMMA FoundIndex ==
    ASSUME TypeInv, FoundInv, NEW h \in Handlers, Index(h)
    PROVE  FoundInv'
<1> DEFINE s == handler[h].session
           u == handler[h].user
<1>1. handler[h].pc = "index" /\ s \in Sessions /\ u \in Users
  BY DEF Index, At, TypeInv, HandlersOK, HandlerOK
<1>2. handler'[h] = Idle /\ \A y \in Handlers \ {h} : handler'[y] = handler[y]
  BY GotoIs DEF Index, Answer
<1>3. /\ Idle.pc = "idle"
      /\ session[s].state # "unused" /\ (Live(s) => session[s].user = u)
  BY <1>1 DEF Idle, FoundInv, EnteredAreKnown, At
<1>t. /\ index \in [Users -> SUBSET Sessions]
      /\ \A y \in Handlers : /\ handler[y].pc \notin {"idle", "evict"} => handler[y].user \in Users
                             /\ handler[y].pc = "index" => handler[y].session \in Sessions
      /\ \A t \in Sessions : Live(t) => session[t].user \in Users
  BY DEF TypeInv, TypeOK, StoreTypeOK, Live
<1>4. /\ session' = session /\ slipped \subseteq slipped'
      /\ Deleting(u) \/ s \notin index'[u] => s \in slipped'
      /\ index' = index \/ index' = [index EXCEPT ![u] = @ \union {s}]
  BY DEF Index, IndexSession
<1>5. /\ \A v \in Users : index[v] \subseteq index'[v] /\ index'[v] \subseteq index[v] \union {s}
      /\ \A v \in Users \ {u} : index'[v] = index[v]
  BY <1>1, <1>4, <1>t
<1> HIDE DEF s, u
<1>6. EnteredAreKnown'
  BY <1>2, <1>3, <1>4 DEF FoundInv, EnteredAreKnown, At, Live
<1>7. IndexedAreUsed'
  BY <1>3, <1>4, <1>5 DEF FoundInv, IndexedAreUsed
<1>8. ListedAreAll'
  <2> SUFFICES ASSUME NEW y \in Handlers, handler'[y].pc = "delete", NEW v, v = handler'[y].user,
                      NEW t \in index'[v], Live(t), session[t].user = v, t \notin slipped'
               PROVE  t \in handler'[y].listed
    BY <1>4 DEF ListedAreAll, At, Live
  <2>1. handler'[y] = handler[y] /\ At(y, "delete") /\ v \in Users
    BY <1>2, <1>3, <1>t DEF At
  <2>2. t \in index[v]
    <3>1. t = s /\ v = u => s \in slipped'
      BY <2>1, <1>4 DEF Deleting
    <3> QED BY <2>1, <1>5, <3>1
  <2> QED BY <2>1, <2>2, <1>4 DEF FoundInv, ListedAreAll
<1>9. SessionsAreFound'
  <2> SUFFICES ASSUME NEW t \in Sessions, Live(t), t \notin slipped'
               PROVE  \/ t \in index'[session[t].user]
                      \/ \E y \in Handlers : handler'[y].pc = "index" /\ handler'[y].session = t
    BY <1>4 DEF SessionsAreFound, At, Live
  <2>1. CASE t = s
    BY <2>1, <1>3, <1>4
  <2>2. CASE t # s
    <3>1. \A y \in Handlers : At(y, "index") /\ handler[y].session = t => handler'[y] = handler[y]
      BY <2>2, <1>2 DEF s
    <3>2. \/ t \in index[session[t].user]
          \/ \E y \in Handlers : At(y, "index") /\ handler[y].session = t
      BY <1>4 DEF FoundInv, SessionsAreFound
    <3>3. session[t].user \in Users
      BY <1>t
    <3> QED BY <3>1, <3>2, <3>3, <1>5 DEF At
  <2> QED BY <2>1, <2>2
<1> QED BY <1>6, <1>7, <1>8, <1>9 DEF FoundInv

LEMMA FoundList ==
    ASSUME TypeInv, FoundInv, NEW h \in Handlers, List(h)
    PROVE  FoundInv'
<1> DEFINE x == [handler[h] EXCEPT !.pc = "delete", !.listed = index[handler[h].user]]
<1>1. handler[h].pc = "list" /\ handler[h] \in HandlerRecord
  BY DEF List, At, TypeInv, HandlersOK, HandlerOK
<1>2. x.pc = "delete" /\ x.listed = index[handler[h].user] /\ x.user = handler[h].user
  BY <1>1 DEF HandlerRecord
<1>3. session' = session /\ index' = index /\ slipped \subseteq slipped'
  BY DEF List
<1>4. handler'[h] = x /\ \A y \in Handlers \ {h} : Steady(y)
  BY PassOverIs DEF List
<1> HIDE DEF x
<1>5. EnteredAreKnown'
  BY <1>2, <1>3, <1>4 DEF FoundInv, EnteredAreKnown, At, Live, Steady
<1>6. IndexedAreUsed'
  BY <1>3 DEF FoundInv, IndexedAreUsed
<1>7. ListedAreAll'
  <2> SUFFICES ASSUME NEW y \in Handlers, handler'[y].pc = "delete", NEW u, u = handler'[y].user,
                      NEW s \in index[u], Live(s), session[s].user = u, s \notin slipped
               PROVE  s \in handler'[y].listed
    BY <1>3 DEF ListedAreAll, At, Live
  <2>1. CASE y = h
    BY <2>1, <1>2, <1>4
  <2>2. CASE y # h
    BY <2>2, <1>4 DEF FoundInv, ListedAreAll, Steady, At
  <2> QED BY <2>1, <2>2
<1>8. SessionsAreFound'
  <2> SUFFICES ASSUME NEW s \in Sessions, Live(s), s \notin slipped
               PROVE  \/ s \in index[session[s].user]
                      \/ \E y \in Handlers : handler'[y].pc = "index" /\ handler'[y].session = s
    BY <1>3 DEF SessionsAreFound, At, Live
  <2>1. \A y \in Handlers : At(y, "index") => Steady(y)
    BY <1>1, <1>4 DEF At
  <2> QED BY <2>1 DEF FoundInv, SessionsAreFound, Steady, At
<1> QED BY <1>5, <1>6, <1>7, <1>8 DEF FoundInv

LEMMA FoundDelete ==
    ASSUME TypeInv, FoundInv, NEW h \in Handlers, Delete(h)
    PROVE  FoundInv'
<1>0. Idle.pc = "idle"
  BY DEF Idle
<1> DEFINE u == handler[h].user
<1>1. handler[h].pc = "delete" /\ u \in Users /\ index \in [Users -> SUBSET Sessions]
  BY DEF Delete, At, TypeInv, TypeOK, StoreTypeOK, HandlersOK, HandlerOK
<1>2. \A y \in Handlers : Settled(y)
  <2>1. After(h).pc \in {"idle", "store"}
    BY AfterIs, <1>0
  <2> QED BY <1>1, <2>1, GotoIs DEF Delete, Settled, Steady
<1>3. CASE UNCHANGED <<session, index>> /\ slipped' = slipped \union LiveOf(u)
  BY <1>2, <1>3, FoundAside
<1>4. CASE Drop(handler[h].listed) /\ index' = [index EXCEPT ![u] = {}]
  <2>1. \A s \in index[u] : Live(s)' /\ session[s].user = u => s \in slipped'
    BY <1>1, <1>4, DropIs DEF FoundInv, ListedAreAll, At
  <2>2. \A v \in Users : \/ index'[v] = index[v]
                         \/ index'[v] = {} /\ v = u
    BY <1>1, <1>4
  <2> HIDE DEF u
  <2> QED BY <1>2, <1>4, <2>1, <2>2, DropIs, FoundKept
<1> QED BY <1>3, <1>4 DEF Delete, DeleteListed

LEMMA FoundSweep ==
    ASSUME TypeInv, FoundInv, Sweeps
    PROVE  FoundInv'
<1>1. \A y \in Handlers : Settled(y)
  BY DEF Sweeps, Settled, Steady
<1>2. ASSUME NEW s \in Sessions, DeleteSession(s) PROVE FoundInv'
  BY <1>1, <1>2, DropIs, FoundKept DEF DeleteSession
<1>3. ASSUME NEW u \in Users, IndexExpires(u) PROVE FoundInv'
  <2>1. /\ session' = session /\ slipped' = slipped \union (index[u] \intersect LiveOf(u))
        /\ index' = [index EXCEPT ![u] = {}] /\ index \in [Users -> SUBSET Sessions]
    BY <1>3 DEF IndexExpires, TypeInv, TypeOK, StoreTypeOK
  <2>2. \A v \in Users : \/ index'[v] = index[v]
                         \/ index'[v] = {} /\ v = u
    BY <2>1
  <2>3. \A s \in index[u] : Live(s)' /\ session[s].user = u => s \in slipped'
    BY <2>1 DEF LiveOf, Live
  <2> QED BY <1>1, <2>1, <2>2, <2>3, FoundKept DEF Live
<1> QED BY <1>2, <1>3 DEF Sweeps

LEMMA FoundRestart ==
    ASSUME TypeInv, FoundInv, Restart
    PROVE  FoundInv'
<1>1. /\ \A h \in Handlers : handler'[h] = Idle
      /\ session' = session /\ index' = index /\ slipped \subseteq slipped'
      /\ \A h \in Handlers : At(h, "index") => handler[h].session \in slipped'
  BY DEF Restart
<1>2. Idle.pc = "idle"
  BY DEF Idle
<1>3. SessionsAreFound'
  BY <1>1 DEF FoundInv, SessionsAreFound, Live
<1> QED BY <1>1, <1>2, <1>3 DEF FoundInv, EnteredAreKnown, IndexedAreUsed, ListedAreAll, At

\* A handler that goes to another place than index or delete.
LEMMA FoundGoto ==
    ASSUME TypeInv, FoundInv, NEW h \in Handlers, NEW x, NEW others,
           Goto(h, x) \/ PassOver(h, x, others),
           session' = session, index' = index, slipped \subseteq slipped',
           handler[h].pc # "index", x.pc \notin {"index", "delete"}
    PROVE  FoundInv'
<1>1. handler'[h] = x /\ \A y \in Handlers \ {h} : Steady(y)
  <2>1. CASE Goto(h, x)
    BY <2>1, GotoIs DEF Steady
  <2>2. CASE PassOver(h, x, others)
    BY <2>2, PassOverIs
  <2> QED BY <2>1, <2>2
<1>2. \A y \in Handlers : Settled(y)
  BY <1>1 DEF Settled
<1> QED BY <1>2, FoundAside

LEMMA FoundStep == TypeInv /\ FoundInv /\ [Next]_vars => FoundInv'
<1> SUFFICES ASSUME TypeInv, FoundInv, [Next]_vars PROVE FoundInv'
  OBVIOUS
<1>0. Idle.pc = "idle"
  BY DEF Idle
<1>1. CASE Quiet
  BY <1>1, FoundAside DEF Quiet, Settled, Bystander
<1>2. ASSUME NEW h \in Handlers, NEW u \in Users, Revokes(h, u) PROVE FoundInv'
  <2>1. PICK value, next : /\ SaveRow(h, u, value, next) /\ next.pc = "list"
                           /\ handler[h].pc \in {"idle", "toggle", "save_password"}
    BY <1>2 DEF Revokes
  <2>2. /\ session' = session /\ index' = index /\ slipped \subseteq slipped'
        /\ \/ Goto(h, next) \/ Goto(h, Idle) \/ PassOver(h, Idle, {y \in Handlers : Opening(y, u)})
    BY <2>1 DEF SaveRow, NoRevocation, Answer
  <2>3. Idle.pc = "idle"
    BY DEF Idle
  <2> QED BY <2>1, <2>2, <2>3, FoundGoto
<1>3. ASSUME NEW h \in Handlers, NEW s \in Sessions, ChangePasswordRead(h, s) PROVE FoundInv'
  <2> DEFINE u == session[s].user
             x == [Idle EXCEPT !.pc = "save_password", !.user = u, !.opens = TRUE,
                       !.late = s \in slipped \/ (~row[u].active /\ Deleting(u)),
                       !.data = row[u].data]
  <2>1. Goto(h, x) /\ handler[h].pc = "idle" /\ UNCHANGED redis
    BY <1>3 DEF ChangePasswordRead, At
  <2>2. x.pc = "save_password"
    BY DEF Idle
  <2> HIDE DEF x, u
  <2> QED BY <2>1, <2>2, FoundGoto, RedisQuiet
<1>4. ASSUME NEW h \in Handlers, LoginVerified(h) PROVE FoundInv'
  <2> DEFINE x == [handler[h] EXCEPT !.pc = "store", !.opens = TRUE, !.name = NoUser, !.data = row[handler[h].user].data]
  <2>1. Goto(h, x) /\ handler[h].pc = "verify" /\ session' = session /\ index' = index /\ slipped' = slipped
    BY <1>4 DEF LoginVerified, At, Reset
  <2>2. x.pc = "store"
    BY DEF TypeInv, HandlersOK, HandlerOK, HandlerRecord
  <2> HIDE DEF x
  <2> QED BY <2>1, <2>2, FoundGoto
<1>5. ASSUME NEW h \in Handlers, ListFails(h) PROVE FoundInv'
  <2>1. /\ PassOver(h, After(h), {y \in Handlers : Opening(y, handler[h].user)})
        /\ handler[h].pc = "list" /\ session' = session /\ index' = index /\ slipped \subseteq slipped'
    BY <1>5 DEF ListFails, NoRevocation, At
  <2>2. After(h).pc \in {"idle", "store"}
    BY AfterIs, <1>0
  <2> QED BY <2>1, <2>2, FoundGoto
<1> QED BY <1>1, <1>2, <1>3, <1>4, <1>5, SessionSteps, FoundSweep, FoundRestart, FoundStore, FoundIndex,
           FoundList, FoundDelete

\* SessionsAreFound (session/redis.go:42-51): whatever logins, revocations,
\* logouts, expiries and faults did before, the next revocation of a user finds
\* every session of the user that is not known to have slipped.
THEOREM SessionsStayFound == Spec => []SessionsAreFound
<1>1. Init => FoundInv
  <2> SUFFICES ASSUME Init PROVE FoundInv
    OBVIOUS
  <2>1. /\ \A h \in Handlers : handler[h].pc = "idle"
        /\ \A s \in Sessions : ~Live(s)
        /\ \A u \in Users : index[u] = {}
    BY DEF Init, Idle, StoreInit, Live, Unused
  <2> QED BY <2>1 DEF FoundInv, EnteredAreKnown, IndexedAreUsed, ListedAreAll, SessionsAreFound, At
<1>2. FoundInv => SessionsAreFound
  BY DEF FoundInv
<1> QED BY <1>1, <1>2, InitTypeInv, TypeStep, FoundStep, PTL DEF Spec

(***************************************************************************)
(* What makes OldSessionsDie inductive: a handler that creates a session    *)
(* from what is out of date has been passed over, or another is about to    *)
(* list the user's sessions.                                                *)
(***************************************************************************)
ListerBut(h, u) == \E x \in Handlers \ {h} : At(x, "list") /\ handler[x].user = u

IsLate(h) == handler[h].late = TRUE
Opens(h)  == handler[h].opens = TRUE

CreatorsAreMarked ==
    \A h \in Handlers :
        Opens(h) /\ ~At(h, "index") /\ Outdated(handler[h].user, handler[h].data)
            => IsLate(h) \/ ListerBut(h, handler[h].user)

EnteredAreMarked ==
    \A h \in Handlers :
        At(h, "index") /\ Live(handler[h].session) /\ Outdated(handler[h].user, handler[h].data)
            => handler[h].session \in slipped \/ ListerBut(h, handler[h].user)

OldInv == CreatorsAreMarked /\ EnteredAreMarked /\ OldSessionsDie

LEMMA HandlerTypes ==
    ASSUME TypeInv
    PROVE  /\ \A h \in Handlers : /\ handler[h].opens = TRUE => handler[h].user \in Users
                                  /\ handler[h].pc \in {"index", "list", "delete"} => handler[h].user \in Users
                                  /\ handler[h].pc = "index" => handler[h].session \in Sessions
                                  /\ handler[h].pc = "index" => handler[h].opens = TRUE
                                  /\ handler[h].opens \in BOOLEAN /\ handler[h].late \in BOOLEAN
           /\ \A s \in Sessions : Live(s) => session[s].user \in Users
BY DEF TypeInv, TypeOK, StoreTypeOK, HandlersOK, HandlerOK, HandlerRecord, Live

\* No session is created and no revocation starts or ends.
LEMMA OldKept ==
    ASSUME TypeInv, OldInv, NoneOlder,
           \A s \in Sessions : Live(s)' => Live(s) /\ session'[s] = session[s] /\ (s \in slipped => s \in slipped'),
           \A y \in Handlers :
              \/ Steady(y)
              \/ /\ handler[y].pc \notin {"list", "delete"}
                 /\ handler'[y].opens = FALSE /\ handler'[y].pc # "index"
    PROVE  OldInv'
<1>1. \A y \in Handlers : At(y, "list") \/ At(y, "delete") => Steady(y)
  BY DEF At
<1>2. \A y \in Handlers : handler'[y].opens = TRUE \/ handler'[y].pc = "index" => Steady(y)
  OBVIOUS
<1>3. \A u : \A h \in Handlers : ListerBut(h, u) => ListerBut(h, u)'
  BY <1>1 DEF ListerBut, At, Steady
<1>4. CreatorsAreMarked'
  <2> SUFFICES ASSUME NEW h \in Handlers, Opens(h)', handler'[h].pc # "index",
                      NEW u, NEW d, u = handler'[h].user, d = handler'[h].data, Outdated(u, d)'
               PROVE  IsLate(h)' \/ ListerBut(h, u)'
    BY DEF CreatorsAreMarked, At
  <2>1. Steady(h) /\ handler[h].user = u /\ handler[h].data = d /\ Opens(h) /\ ~At(h, "index")
    BY <1>2 DEF Steady, At, Opens
  <2>2. Outdated(u, d)
    BY <2>1, HandlerTypes DEF NoneOlder, Opens
  <2>3. IsLate(h) => IsLate(h)'
    BY <2>1 DEF IsLate, Steady
  <2> QED BY <2>1, <2>2, <2>3, <1>3 DEF OldInv, CreatorsAreMarked
<1>5. EnteredAreMarked'
  <2> SUFFICES ASSUME NEW h \in Handlers, handler'[h].pc = "index", NEW s, s = handler'[h].session, Live(s)',
                      NEW u, NEW d, u = handler'[h].user, d = handler'[h].data, Outdated(u, d)'
               PROVE  s \in slipped' \/ ListerBut(h, u)'
    BY DEF EnteredAreMarked, At, Outdated, ListerBut, Here, Live
  <2>1. At(h, "index") /\ handler[h].user = u /\ handler[h].data = d /\ handler[h].session = s
    BY <1>2 DEF Steady, At
  <2>2. u \in Users /\ s \in Sessions
    BY <2>1, HandlerTypes DEF At
  <2>3. Outdated(u, d) /\ Live(s)
    BY <2>2 DEF NoneOlder
  <2> QED BY <2>1, <2>2, <2>3, <1>3 DEF OldInv, EnteredAreMarked
<1>6. OldSessionsDie'
  <2> SUFFICES ASSUME NEW s \in Sessions, Live(s)', NEW u, NEW d, u = session'[s].user, d = session'[s].data,
                      Outdated(u, d)'
               PROVE  \/ s \in slipped'
                      \/ \E h \in Handlers : handler'[h].pc \in {"list", "delete"} /\ handler'[h].user = u
    BY DEF OldSessionsDie, Outdated, Here, Live
  <2>1. Live(s) /\ session[s].user = u /\ session[s].data = d /\ u \in Users
    BY HandlerTypes
  <2>2. Outdated(u, d)
    BY <2>1 DEF NoneOlder
  <2>3. \/ s \in slipped
        \/ \E h \in Handlers : handler[h].pc \in {"list", "delete"} /\ handler[h].user = u
    BY <2>1, <2>2 DEF OldInv, OldSessionsDie
  <2> QED BY <2>3, <1>1 DEF At, Steady
<1> QED BY <1>4, <1>5, <1>6 DEF OldInv

\* A handler starts to create a session.
LEMMA OldStart ==
    ASSUME TypeInv, OldInv, NEW h \in Handlers, NEW x, Goto(h, x), row' = row, session' = session,
           slipped' = slipped, handler[h].pc \notin {"list", "delete", "index"},
           x.pc \notin {"list", "delete", "index"},
           Outdated(x.user, x.data) => x.late = TRUE \/ ListerBut(h, x.user)
    PROVE  OldInv'
<1>1. handler'[h] = x /\ \A y \in Handlers \ {h} : handler'[y] = handler[y]
  BY GotoIs
<1>2. \A u : \A y \in Handlers : ListerBut(y, u) => ListerBut(y, u)'
  BY <1>1 DEF ListerBut, At
<1>3. \A u, d : Outdated(u, d)' = Outdated(u, d)
  BY DEF Outdated, Here
<1>4. CreatorsAreMarked'
  <2> SUFFICES ASSUME NEW y \in Handlers, Opens(y)', handler'[y].pc # "index",
                      NEW u, NEW d, u = handler'[y].user, d = handler'[y].data, Outdated(u, d)'
               PROVE  IsLate(y)' \/ ListerBut(y, u)'
    BY DEF CreatorsAreMarked, At
  <2>1. CASE y = h
    BY <2>1, <1>1, <1>2, <1>3 DEF IsLate
  <2>2. CASE y # h
    <3>1. handler'[y] = handler[y]
      BY <2>2, <1>1
    <3>2. Opens(y) /\ ~At(y, "index") /\ (IsLate(y) => IsLate(y)')
      BY <3>1 DEF Opens, At, IsLate
    <3> QED BY <3>1, <3>2, <1>2, <1>3 DEF OldInv, CreatorsAreMarked
  <2> QED BY <2>1, <2>2
<1>5. EnteredAreMarked'
  <2> SUFFICES ASSUME NEW y \in Handlers, handler'[y].pc = "index", NEW s, s = handler'[y].session, Live(s)',
                      NEW u, NEW d, u = handler'[y].user, d = handler'[y].data, Outdated(u, d)'
               PROVE  s \in slipped' \/ ListerBut(y, u)'
    BY DEF EnteredAreMarked, At, Outdated, ListerBut, Here, Live
  <2>1. y # h /\ handler'[y] = handler[y] /\ Live(s)
    BY <1>1 DEF Live
  <2> QED BY <2>1, <1>2, <1>3 DEF OldInv, EnteredAreMarked, At
<1>6. OldSessionsDie'
  <2> SUFFICES ASSUME NEW s \in Sessions, Live(s), NEW u, NEW d, u = session[s].user, d = session[s].data,
                      Outdated(u, d)
               PROVE  \/ s \in slipped
                      \/ \E y \in Handlers : handler'[y].pc \in {"list", "delete"} /\ handler'[y].user = u
    BY <1>3 DEF OldSessionsDie, Live
  <2>1. \A y \in Handlers : handler[y].pc \in {"list", "delete"} => handler'[y] = handler[y]
    BY <1>1
  <2> QED BY <2>1 DEF OldInv, OldSessionsDie
<1> QED BY <1>4, <1>5, <1>6 DEF OldInv

\* A revocation of u that is not carried out leaves what it should have revoked
\* slipped, and what is being created for u late.
LEMMA OldPassed ==
    ASSUME TypeInv, FoundInv, OldInv, NEW h \in Handlers, NEW x, NEW u \in Users, NoRevocation(h, x, u),
           session' = session, handler[h].pc \notin {"delete", "index"},
           handler[h].pc = "list" => handler[h].user = u,
           \A v \in Users \ {u} : \A d : Outdated(v, d)' => Outdated(v, d),
           x.pc \notin {"index", "list", "delete"},
           x.opens = TRUE => x.user = u /\ (Outdated(u, x.data)' => x.late = TRUE \/ ListerBut(h, u))
    PROVE  OldInv'
<1>1. /\ handler'[h] = x
      /\ \A y \in Handlers \ {h} : Steady(y)
      /\ \A y \in Handlers : y # h /\ Opening(y, u) => handler'[y].late = TRUE
      /\ slipped' = slipped \union LiveOf(u)
  BY PassOverIs DEF NoRevocation
<1>2. \A y \in Handlers : \A v : v # u \/ y = h => (ListerBut(y, v) => ListerBut(y, v)')
  BY <1>1 DEF ListerBut, At, Steady
<1>4. CreatorsAreMarked'
  <2> SUFFICES ASSUME NEW y \in Handlers, Opens(y)', handler'[y].pc # "index",
                      NEW v, NEW d, v = handler'[y].user, d = handler'[y].data, Outdated(v, d)'
               PROVE  IsLate(y)' \/ ListerBut(y, v)'
    BY DEF CreatorsAreMarked, At
  <2>1. CASE y = h
    BY <2>1, <1>1, <1>2 DEF IsLate, Opens
  <2>2. CASE y # h
    <3>1. /\ Steady(y) /\ handler[y].user = v /\ handler[y].data = d /\ Opens(y)
          /\ ~At(y, "index") /\ v \in Users
      BY <2>2, <1>1, HandlerTypes DEF Steady, At, Opens
    <3>2. CASE v = u
      BY <3>1, <3>2, <2>2, <1>1 DEF Opening, Opens, IsLate
    <3>3. CASE v # u
      <4>1. IsLate(y) \/ ListerBut(y, v)
        BY <3>1, <3>3 DEF OldInv, CreatorsAreMarked
      <4>2. IsLate(y) => IsLate(y)'
        BY <3>1 DEF IsLate, Steady
      <4> QED BY <4>1, <4>2, <3>1, <3>3, <1>2
    <3> QED BY <3>2, <3>3
  <2> QED BY <2>1, <2>2
<1>5. EnteredAreMarked'
  <2> SUFFICES ASSUME NEW y \in Handlers, handler'[y].pc = "index", NEW s, s = handler'[y].session, Live(s)',
                      NEW v, NEW d, v = handler'[y].user, d = handler'[y].data, Outdated(v, d)'
               PROVE  s \in slipped' \/ ListerBut(y, v)'
    BY DEF EnteredAreMarked, At, Outdated, ListerBut, Here, Live
  <2>1. /\ y # h /\ At(y, "index") /\ handler[y].user = v /\ handler[y].data = d /\ handler[y].session = s
        /\ Live(s)
    BY <1>1 DEF Steady, At, Live
  <2>2. v \in Users /\ s \in Sessions /\ session[s].user = v
    BY <2>1, HandlerTypes DEF At, FoundInv, EnteredAreKnown
  <2>3. CASE v = u
    BY <2>1, <2>2, <2>3, <1>1 DEF LiveOf
  <2>4. CASE v # u
    BY <2>1, <2>2, <2>4, <1>1, <1>2 DEF OldInv, EnteredAreMarked
  <2> QED BY <2>3, <2>4
<1>6. OldSessionsDie'
  <2> SUFFICES ASSUME NEW s \in Sessions, Live(s), NEW v, NEW d, v = session[s].user, d = session[s].data,
                      Outdated(v, d)'
               PROVE  \/ s \in slipped'
                      \/ \E y \in Handlers : handler'[y].pc \in {"list", "delete"} /\ handler'[y].user = v
    BY DEF OldSessionsDie, Live, Outdated, Here
  <2>1. CASE v = u
    BY <2>1, <1>1 DEF LiveOf
  <2>2. CASE v # u
    <3>1. Outdated(v, d)
      BY <2>2, HandlerTypes
    <3>2. \A y \in Handlers : handler[y].pc \in {"list", "delete"} /\ handler[y].user = v => Steady(y)
      BY <2>2, <1>1
    <3> QED BY <3>1, <3>2, <1>1 DEF OldInv, OldSessionsDie, Steady
  <2> QED BY <2>1, <2>2
<1> QED BY <1>4, <1>5, <1>6 DEF OldInv

LEMMA OldStore ==
    ASSUME TypeInv, FoundInv, OldInv, NEW h \in Handlers, Store(h)
    PROVE  OldInv'
<1>0. PICK t \in Sessions : StoreSession(t, handler[h].user, handler[h].data, handler[h].late)
                            /\ Goto(h, [handler[h] EXCEPT !.pc = "index", !.session = t])
  BY DEF Store
<1> DEFINE x == [handler[h] EXCEPT !.pc = "index", !.session = t]
<1>1. handler[h].pc = "store" /\ handler[h] \in HandlerRecord /\ Opens(h) /\ row' = row
  BY DEF Store, At, Opens, TypeInv, HandlersOK, HandlerOK, HandlerRecord
<1>2. x.pc = "index" /\ x.session = t /\ x.user = handler[h].user /\ x.data = handler[h].data
  BY <1>1 DEF HandlerRecord
<1>3. handler'[h] = x /\ \A y \in Handlers \ {h} : handler'[y] = handler[y]
  BY <1>0, GotoIs
<1> HIDE DEF x
<1>4. /\ session[t].state = "unused" /\ slipped \subseteq slipped' /\ (IsLate(h) => t \in slipped')
      /\ session'[t].user = handler[h].user /\ session'[t].data = handler[h].data
      /\ \A s \in Sessions \ {t} : session'[s] = session[s]
  BY <1>0 DEF StoreSession, IsLate, TypeInv, TypeOK, StoreTypeOK
<1>5. \A u : \A y \in Handlers : ListerBut(y, u) => ListerBut(y, u)'
  BY <1>1, <1>3 DEF ListerBut, At
<1>6. \A u, d : Outdated(u, d)' = Outdated(u, d)
  BY <1>1 DEF Outdated, Here
<1>7. Outdated(handler[h].user, handler[h].data) => t \in slipped' \/ ListerBut(h, handler[h].user)
  BY <1>1, <1>4 DEF OldInv, CreatorsAreMarked, At
<1>8. CreatorsAreMarked'
  <2> SUFFICES ASSUME NEW y \in Handlers, Opens(y)', handler'[y].pc # "index",
                      NEW u, NEW d, u = handler'[y].user, d = handler'[y].data, Outdated(u, d)'
               PROVE  IsLate(y)' \/ ListerBut(y, u)'
    BY DEF CreatorsAreMarked, At
  <2>1. y # h /\ handler'[y] = handler[y]
    BY <1>2, <1>3
  <2>2. Opens(y) /\ ~At(y, "index") /\ (IsLate(y) => IsLate(y)')
    BY <2>1 DEF Opens, At, IsLate
  <2> QED BY <2>1, <2>2, <1>5, <1>6 DEF OldInv, CreatorsAreMarked
<1>9. EnteredAreMarked'
  <2> SUFFICES ASSUME NEW y \in Handlers, handler'[y].pc = "index", NEW s, s = handler'[y].session, Live(s)',
                      NEW u, NEW d, u = handler'[y].user, d = handler'[y].data, Outdated(u, d)'
               PROVE  s \in slipped' \/ ListerBut(y, u)'
    BY DEF EnteredAreMarked, At, Outdated, ListerBut, Here, Live
  <2>1. CASE y = h
    BY <2>1, <1>2, <1>3, <1>5, <1>6, <1>7
  <2>2. CASE y # h
    <3>1. handler'[y] = handler[y] /\ At(y, "index") /\ s \in Sessions
      BY <2>2, <1>3, HandlerTypes DEF At
    <3>2. s # t
      BY <3>1, <1>4 DEF FoundInv, EnteredAreKnown
    <3>3. Live(s)
      BY <3>1, <3>2, <1>4 DEF Live
    <3> QED BY <3>1, <3>3, <1>4, <1>5, <1>6 DEF OldInv, EnteredAreMarked
  <2> QED BY <2>1, <2>2
<1>10. OldSessionsDie'
  <2> SUFFICES ASSUME NEW s \in Sessions, Live(s)', NEW u, NEW d, u = session'[s].user, d = session'[s].data,
                      Outdated(u, d)'
               PROVE  \/ s \in slipped'
                      \/ \E y \in Handlers : handler'[y].pc \in {"list", "delete"} /\ handler'[y].user = u
    BY DEF OldSessionsDie, Outdated, Here, Live
  <2>0. \A y \in Handlers : handler[y].pc \in {"list", "delete"} => handler'[y] = handler[y]
    BY <1>1, <1>3
  <2>1. CASE s = t
    <3>1. s \in slipped' \/ ListerBut(h, u)
      BY <2>1, <1>4, <1>6, <1>7
    <3> QED BY <3>1, <2>0 DEF ListerBut, At
  <2>2. CASE s # t
    <3>1. Live(s) /\ session'[s] = session[s]
      BY <2>2, <1>4 DEF Live
    <3> QED BY <3>1, <2>0, <1>4, <1>6 DEF OldInv, OldSessionsDie
  <2> QED BY <2>1, <2>2
<1> QED BY <1>8, <1>9, <1>10 DEF OldInv

\* The statement and the start of the revocation that follows it.
LEMMA OldRevokes ==
    ASSUME TypeInv, FoundInv, OldInv, NEW h \in Handlers, NEW u \in Users, Revokes(h, u)
    PROVE  OldInv'
<1>0. PICK value, next :
        /\ SaveRow(h, u, value, next)
        /\ handler[h].pc \in {"idle", "toggle", "save_password"}
        /\ next.pc = "list" /\ next.user = u
        /\ \/ next.opens = FALSE
           \/ /\ handler[h].opens = TRUE /\ handler[h].user = u
              /\ next.opens = TRUE /\ next.late = handler[h].late
              /\ value.state = "here" /\ value.active = row[u].active
              /\ handler[h].data = row[u].data => next.data = value.data
  BY DEF Revokes
<1>d. Idle.pc = "idle" /\ Idle.opens = FALSE
  BY DEF Idle
<1>r. row' = [row EXCEPT ![u] = value] =>
        row'[u] = value /\ \A v \in Users \ {u} : row'[v] = row[v]
  BY DEF TypeInv, TypeOK
<1>1. session' = session
  BY <1>0 DEF SaveRow
<1>2. CASE row' = [row EXCEPT ![u] = value] /\ NoRevocation(h, Idle, u)
  <2>1. \A v \in Users \ {u} : \A d : Outdated(v, d)' => Outdated(v, d)
    BY <1>2, <1>r DEF Outdated, Here
  <2> QED BY <2>1, <1>0, <1>1, <1>2, <1>d, OldPassed
<1>3. CASE Goto(h, Idle) /\ row' = row /\ slipped' = slipped
  <2>1. \A y \in Handlers : Steady(y) \/ Bystander(y)
    BY <1>0, <1>3, <1>d, GotoQuiet
  <2> QED BY <2>1, <1>1, <1>3, RowsQuiet, OldKept DEF Bystander, Live
<1>4. CASE row' = [row EXCEPT ![u] = value] /\ Goto(h, next) /\ slipped' = slipped
  <2>1. handler'[h] = next /\ \A y \in Handlers \ {h} : handler'[y] = handler[y]
    BY <1>4, GotoIs
  <2>2. \A v : \A y \in Handlers : ListerBut(y, v) => ListerBut(y, v)'
    BY <2>1, <1>0 DEF ListerBut, At
  <2>3. \A y \in Handlers \ {h} : ListerBut(y, u)'
    BY <2>1, <1>0 DEF ListerBut, At
  <2>4. \A v \in Users \ {u} : \A d : Outdated(v, d)' = Outdated(v, d)
    BY <1>4, <1>r DEF Outdated, Here
  <2>5. Opens(h)' /\ Outdated(u, next.data)' => IsLate(h)' \/ ListerBut(h, u)'
    <3> SUFFICES ASSUME Opens(h)', Outdated(u, next.data)' PROVE IsLate(h)' \/ ListerBut(h, u)'
      OBVIOUS
    <3>1. /\ handler[h].opens = TRUE /\ handler[h].user = u /\ next.late = handler[h].late
          /\ value.state = "here" /\ value.active = row[u].active
          /\ handler[h].data = row[u].data => next.data = value.data
      BY <1>0, <2>1 DEF Opens
    <3>2. Outdated(u, handler[h].data)
      BY <3>1, <1>4, <1>r DEF Outdated, Here
    <3>3. IsLate(h) \/ ListerBut(h, u)
      BY <3>1, <3>2, <1>0 DEF OldInv, CreatorsAreMarked, At, Opens
    <3> QED BY <3>1, <3>3, <2>1, <2>2 DEF IsLate
  <2>6. CreatorsAreMarked'
    <3> SUFFICES ASSUME NEW y \in Handlers, Opens(y)', handler'[y].pc # "index",
                        NEW v, NEW d, v = handler'[y].user, d = handler'[y].data, Outdated(v, d)'
                 PROVE  IsLate(y)' \/ ListerBut(y, v)'
      BY DEF CreatorsAreMarked, At
    <3>1. CASE y = h
      BY <3>1, <2>1, <2>5, <1>0
    <3>2. CASE y # h
      <4>1. handler'[y] = handler[y] /\ Opens(y) /\ ~At(y, "index") /\ (IsLate(y) => IsLate(y)') /\ v \in Users
        BY <3>2, <2>1, HandlerTypes DEF Opens, At, IsLate
      <4> QED BY <3>2, <4>1, <2>2, <2>3, <2>4 DEF OldInv, CreatorsAreMarked
    <3> QED BY <3>1, <3>2
  <2>7. EnteredAreMarked'
    <3> SUFFICES ASSUME NEW y \in Handlers, handler'[y].pc = "index", NEW s, s = handler'[y].session, Live(s)',
                        NEW v, NEW d, v = handler'[y].user, d = handler'[y].data, Outdated(v, d)'
                 PROVE  s \in slipped' \/ ListerBut(y, v)'
      BY DEF EnteredAreMarked, At, Outdated, ListerBut, Here, Live
    <3>1. y # h /\ handler'[y] = handler[y] /\ At(y, "index") /\ Live(s) /\ v \in Users
      BY <2>1, <1>0, <1>1, HandlerTypes DEF At, Live
    <3> QED BY <3>1, <1>4, <2>2, <2>3, <2>4 DEF OldInv, EnteredAreMarked
  <2>8. OldSessionsDie'
    <3> SUFFICES ASSUME NEW s \in Sessions, Live(s)', NEW v, NEW d, v = session'[s].user, d = session'[s].data,
                        Outdated(v, d)'
                 PROVE  \/ s \in slipped'
                        \/ \E y \in Handlers : handler'[y].pc \in {"list", "delete"} /\ handler'[y].user = v
      BY DEF OldSessionsDie, Outdated, Here, Live
    <3>1. CASE v = u
      BY <3>1, <2>1, <1>0
    <3>2. CASE v # u
      <4>1. Live(s) /\ session[s].user = v /\ session[s].data = d /\ v \in Users
        BY <1>1, HandlerTypes DEF Live
      <4>2. \A y \in Handlers : handler[y].pc \in {"list", "delete"} => handler'[y] = handler[y]
        BY <2>1, <1>0
      <4> QED BY <3>2, <4>1, <4>2, <1>4, <2>4 DEF OldInv, OldSessionsDie
    <3> QED BY <3>1, <3>2
  <2> QED BY <2>6, <2>7, <2>8 DEF OldInv
<1> QED BY <1>0, <1>2, <1>3, <1>4 DEF SaveRow, Answer

LEMMA OldList ==
    ASSUME TypeInv, FoundInv, OldInv, NEW h \in Handlers, List(h)
    PROVE  OldInv'
<1> DEFINE u == handler[h].user
           x == [handler[h] EXCEPT !.pc = "delete", !.listed = index[u]]
<1>1. handler[h].pc = "list" /\ handler[h] \in HandlerRecord /\ u \in Users
  BY HandlerTypes DEF List, At, TypeInv, HandlersOK, HandlerOK
<1>2. /\ x.pc = "delete" /\ x.user = u /\ x.data = handler[h].data
      /\ x.opens = handler[h].opens /\ x.late = handler[h].late
  BY <1>1 DEF HandlerRecord
<1>3. /\ handler'[h] = x /\ \A y \in Handlers \ {h} : Steady(y)
      /\ \A y \in Late(h, u) : y # h => handler'[y].late = TRUE
  <2>1. PassOver(h, x, Late(h, u)) /\ Late(h, u) \subseteq Handlers
    BY DEF List, Late
  <2> QED BY <2>1, PassOverIs
<1>4. /\ session' = session /\ row' = row
      /\ slipped' = slipped \union {handler[y].session : y \in {z \in Late(h, u) : At(z, "index")}}
  BY DEF List
<1> HIDE DEF x, u
<1>5. \A y \in Handlers : \A v : y = h \/ v # u => (ListerBut(y, v) => ListerBut(y, v)')
  BY <1>3 DEF ListerBut, At, Steady, u
<1>6. \A v, d : Outdated(v, d)' = Outdated(v, d)
  BY <1>4 DEF Outdated, Here
<1>7. \A y \in Handlers \ {h} : Opens(y) /\ handler[y].user = u /\ Outdated(u, handler[y].data) => y \in Late(h, u)
  BY DEF Late, Opening, Opens
<1>8. CreatorsAreMarked'
  <2> SUFFICES ASSUME NEW y \in Handlers, Opens(y)', handler'[y].pc # "index",
                      NEW v, NEW d, v = handler'[y].user, d = handler'[y].data, Outdated(v, d)'
               PROVE  IsLate(y)' \/ ListerBut(y, v)'
    BY DEF CreatorsAreMarked, At
  <2>1. CASE y = h
    <3>1. Opens(h) /\ ~At(h, "index") /\ (IsLate(h) => IsLate(h)') /\ handler[h].user = v /\ handler[h].data = d
      BY <2>1, <1>1, <1>2, <1>3 DEF Opens, IsLate, At, u
    <3> QED BY <2>1, <3>1, <1>5, <1>6 DEF OldInv, CreatorsAreMarked
  <2>2. CASE y # h
    <3>1. /\ Opens(y) /\ ~At(y, "index") /\ (IsLate(y) => IsLate(y)')
          /\ handler[y].user = v /\ handler[y].data = d
      BY <2>2, <1>3 DEF Steady, Opens, IsLate, At
    <3>2. CASE v = u
      BY <2>2, <3>1, <3>2, <1>3, <1>6, <1>7 DEF IsLate
    <3>3. CASE v # u
      BY <2>2, <3>1, <3>3, <1>5, <1>6 DEF OldInv, CreatorsAreMarked
    <3> QED BY <3>2, <3>3
  <2> QED BY <2>1, <2>2
<1>9. EnteredAreMarked'
  <2> SUFFICES ASSUME NEW y \in Handlers, handler'[y].pc = "index", NEW s, s = handler'[y].session, Live(s)',
                      NEW v, NEW d, v = handler'[y].user, d = handler'[y].data, Outdated(v, d)'
               PROVE  s \in slipped' \/ ListerBut(y, v)'
    BY DEF EnteredAreMarked, At, Outdated, ListerBut, Here, Live
  <2>1. /\ y # h /\ At(y, "index") /\ handler[y].user = v /\ handler[y].data = d /\ handler[y].session = s
        /\ Live(s) /\ Opens(y)
    BY <1>2, <1>3, <1>4, HandlerTypes DEF Steady, At, Live, Opens
  <2>2. CASE v = u
    BY <2>1, <2>2, <1>4, <1>6, <1>7
  <2>3. CASE v # u
    BY <2>1, <2>3, <1>4, <1>5, <1>6 DEF OldInv, EnteredAreMarked
  <2> QED BY <2>2, <2>3
<1>10. OldSessionsDie'
  <2> SUFFICES ASSUME NEW s \in Sessions, Live(s)', NEW v, NEW d, v = session'[s].user, d = session'[s].data,
                      Outdated(v, d)'
               PROVE  \/ s \in slipped'
                      \/ \E y \in Handlers : handler'[y].pc \in {"list", "delete"} /\ handler'[y].user = v
    BY DEF OldSessionsDie, Outdated, Here, Live
  <2>1. \/ s \in slipped
        \/ \E y \in Handlers : handler[y].pc \in {"list", "delete"} /\ handler[y].user = v
    BY <1>4, <1>6 DEF OldInv, OldSessionsDie, Live
  <2>2. \A y \in Handlers : handler[y].pc \in {"list", "delete"} =>
            handler'[y].pc \in {"list", "delete"} /\ handler'[y].user = handler[y].user
    BY <1>1, <1>2, <1>3 DEF Steady, u
  <2> QED BY <2>1, <2>2, <1>4
<1> QED BY <1>8, <1>9, <1>10 DEF OldInv

\* What a revocation deletes is all that is out of date: what it did not list
\* has slipped or is left to another revocation.
LEMMA OldDelete ==
    ASSUME TypeInv, FoundInv, OldInv, NEW h \in Handlers, Delete(h)
    PROVE  OldInv'
<1> DEFINE u == handler[h].user
<1>0. Idle.opens = FALSE /\ Idle.pc = "idle"
  BY DEF Idle
<1>1. handler[h].pc = "delete" /\ u \in Users /\ row' = row
  BY HandlerTypes DEF Delete, At
<1>2. handler'[h] = After(h) /\ \A y \in Handlers \ {h} : handler'[y] = handler[y]
  BY GotoIs DEF Delete
<1>3. After(h).pc \in {"idle", "store"}
  BY AfterIs, <1>0
<1>4. \/ UNCHANGED <<session, index>> /\ slipped' = slipped \union LiveOf(u)
      \/ Drop(handler[h].listed)
  BY DEF Delete, DeleteListed
<1>5. \A s \in Sessions : Live(s)' =>
        /\ Live(s) /\ session'[s] = session[s] /\ (s \in slipped => s \in slipped')
        /\ session[s].user = u => s \in slipped' \/ s \notin handler[h].listed
  <2>1. CASE UNCHANGED <<session, index>> /\ slipped' = slipped \union LiveOf(u)
    BY <2>1 DEF LiveOf, Live
  <2>2. CASE Drop(handler[h].listed)
    BY <2>2, DropIs
  <2> QED BY <1>4, <2>1, <2>2
<1> HIDE DEF u
<1>6. \A y \in Handlers : \A v : ListerBut(y, v) => ListerBut(y, v)'
  BY <1>1, <1>2 DEF ListerBut, At
<1>7. \A v, d : Outdated(v, d)' = Outdated(v, d)
  BY <1>1 DEF Outdated, Here
<1>8. CreatorsAreMarked'
  <2> SUFFICES ASSUME NEW y \in Handlers, Opens(y)', handler'[y].pc # "index",
                      NEW v, NEW d, v = handler'[y].user, d = handler'[y].data, Outdated(v, d)'
               PROVE  IsLate(y)' \/ ListerBut(y, v)'
    BY DEF CreatorsAreMarked, At
  <2>1. CASE y = h
    <3>1. Opens(h) /\ ~At(h, "index") /\ (IsLate(h) => IsLate(h)') /\ handler[h].user = v /\ handler[h].data = d
      BY <2>1, <1>0, <1>1, <1>2, AfterIs DEF Opens, IsLate, At
    <3> QED BY <2>1, <3>1, <1>6, <1>7 DEF OldInv, CreatorsAreMarked
  <2>2. CASE y # h
    <3>1. handler'[y] = handler[y] /\ Opens(y) /\ ~At(y, "index") /\ (IsLate(y) => IsLate(y)')
      BY <2>2, <1>2 DEF Opens, IsLate, At
    <3> QED BY <3>1, <1>6, <1>7 DEF OldInv, CreatorsAreMarked
  <2> QED BY <2>1, <2>2
<1>9. EnteredAreMarked'
  <2> SUFFICES ASSUME NEW y \in Handlers, handler'[y].pc = "index", NEW s, s = handler'[y].session, Live(s)',
                      NEW v, NEW d, v = handler'[y].user, d = handler'[y].data, Outdated(v, d)'
               PROVE  s \in slipped' \/ ListerBut(y, v)'
    BY DEF EnteredAreMarked, At, Outdated, ListerBut, Here, Live
  <2>1. y # h /\ handler'[y] = handler[y] /\ At(y, "index") /\ s \in Sessions
    BY <1>2, <1>3, HandlerTypes DEF At
  <2> QED BY <2>1, <1>5, <1>6, <1>7 DEF OldInv, EnteredAreMarked
<1>10. OldSessionsDie'
  <2> SUFFICES ASSUME NEW s \in Sessions, Live(s)', NEW v, NEW d, v = session'[s].user, d = session'[s].data,
                      Outdated(v, d)'
               PROVE  \/ s \in slipped'
                      \/ \E y \in Handlers : handler'[y].pc \in {"list", "delete"} /\ handler'[y].user = v
    BY DEF OldSessionsDie, Outdated, Here, Live
  <2>1. Live(s) /\ session[s].user = v /\ session[s].data = d /\ Outdated(v, d) /\ (s \in slipped => s \in slipped')
    BY <1>5, <1>7
  <2>2. \/ s \in slipped
        \/ \E y \in Handlers : handler[y].pc \in {"list", "delete"} /\ handler[y].user = v
    BY <2>1 DEF OldInv, OldSessionsDie
  <2>3. CASE v # u
    BY <2>1, <2>2, <2>3, <1>2 DEF u
  <2>4. CASE v = u
    <3>1. CASE s \in slipped
      BY <2>1, <3>1
    <3>2. CASE s \in index[u] /\ s \notin slipped
      BY <2>1, <2>4, <3>2, <1>1, <1>5 DEF FoundInv, ListedAreAll, At, u
    <3>3. CASE \E y \in Handlers : At(y, "index") /\ handler[y].session = s
      <4>1. PICK y \in Handlers : At(y, "index") /\ handler[y].session = s
        BY <3>3
      <4>2. handler[y].user = v /\ handler[y].data = d
        BY <2>1, <4>1 DEF FoundInv, EnteredAreKnown
      <4>3. s \in slipped \/ ListerBut(y, v)
        BY <2>1, <4>1, <4>2 DEF OldInv, EnteredAreMarked
      <4>4. ListerBut(y, v) => ListerBut(y, v)'
        BY <1>6
      <4> QED BY <2>1, <4>3, <4>4 DEF ListerBut, At
    <3> QED BY <2>1, <2>4, <3>1, <3>2, <3>3 DEF FoundInv, SessionsAreFound
  <2> QED BY <2>3, <2>4
<1> QED BY <1>8, <1>9, <1>10 DEF OldInv

LEMMA OldRestart ==
    ASSUME TypeInv, OldInv, Restart
    PROVE  OldInv'
<1>0. Idle.opens = FALSE /\ Idle.pc = "idle"
  BY DEF Idle
<1>1. /\ \A h \in Handlers : handler'[h] = Idle
      /\ row' = row /\ session' = session /\ slipped \subseteq slipped'
      /\ \A h \in Handlers : handler[h].pc \in {"list", "delete"} => LiveOf(handler[h].user) \subseteq slipped'
  BY DEF Restart
<1>2. CreatorsAreMarked' /\ EnteredAreMarked'
  BY <1>0, <1>1 DEF CreatorsAreMarked, EnteredAreMarked, Opens, At
<1>3. OldSessionsDie'
  <2> SUFFICES ASSUME NEW s \in Sessions, Live(s), Outdated(session[s].user, session[s].data)
               PROVE  s \in slipped'
    BY <1>1 DEF OldSessionsDie, Live, Outdated, Here
  <2> QED BY <1>1 DEF OldInv, OldSessionsDie, LiveOf
<1> QED BY <1>2, <1>3 DEF OldInv

\* ChangePassword starts from a session that may have outlived a disable.
LEMMA OldChange ==
    ASSUME TypeInv, OldInv, NEW h \in Handlers, NEW s \in Sessions, ChangePasswordRead(h, s)
    PROVE  OldInv'
<1> DEFINE u == session[s].user
           x == [Idle EXCEPT !.pc = "save_password", !.user = u, !.opens = TRUE,
                     !.late = s \in slipped \/ (~row[u].active /\ Deleting(u)),
                     !.data = row[u].data]
<1>1. Goto(h, x) /\ handler[h].pc = "idle" /\ Live(s) /\ Here(u) /\ row' = row /\ UNCHANGED redis
  BY DEF ChangePasswordRead, At, Known
<1>2. /\ x.pc = "save_password" /\ x.user = u /\ x.data = row[u].data
      /\ x.late = (s \in slipped \/ (~row[u].active /\ Deleting(u)))
  BY DEF Idle
<1> HIDE DEF x
<1>3. ASSUME Outdated(u, row[u].data)
      PROVE  (s \in slipped \/ (~row[u].active /\ Deleting(u))) \/ ListerBut(h, u)
  <2>1. ~row[u].active /\ Outdated(u, session[s].data)
    BY <1>1, <1>3 DEF Outdated
  <2>2. \/ s \in slipped
        \/ \E y \in Handlers : handler[y].pc \in {"list", "delete"} /\ handler[y].user = u
    BY <1>1, <2>1 DEF OldInv, OldSessionsDie
  <2> QED BY <1>1, <2>1, <2>2 DEF Deleting, ListerBut, At
<1>4. Outdated(x.user, x.data) => x.late = TRUE \/ ListerBut(h, x.user)
  BY <1>2, <1>3
<1> HIDE DEF u
<1> QED BY <1>1, <1>2, <1>4, RedisQuiet, OldStart

LEMMA OldStep == TypeInv /\ FoundInv /\ OldInv /\ [Next]_vars => OldInv'
<1> SUFFICES ASSUME TypeInv, FoundInv, OldInv, [Next]_vars PROVE OldInv'
  OBVIOUS
<1>1. CASE Quiet
  BY <1>1, OldKept DEF Quiet, Bystander, Live
<1>2. CASE Sweeps
  <2>1. NoneOlder /\ \A y \in Handlers : Steady(y)
    BY <1>2, RowsQuiet DEF Sweeps, Steady
  <2>2. \A s \in Sessions : Live(s)' => Live(s) /\ session'[s] = session[s] /\ (s \in slipped => s \in slipped')
    BY <1>2, DropIs DEF Sweeps, DeleteSession, IndexExpires, Live
  <2> QED BY <2>1, <2>2, OldKept
<1>3. ASSUME NEW h \in Handlers, Index(h) PROVE OldInv'
  <2>1. Idle.opens = FALSE /\ Idle.pc = "idle"
    BY DEF Idle
  <2>2. /\ handler'[h] = Idle /\ handler[h].pc = "index"
        /\ \A y \in Handlers \ {h} : handler'[y] = handler[y]
        /\ row' = row /\ session' = session /\ slipped \subseteq slipped'
    BY <1>3, GotoIs DEF Index, Answer, At, IndexSession
  <2>3. \A y \in Handlers :
          \/ Steady(y)
          \/ /\ handler[y].pc \notin {"list", "delete"}
             /\ handler'[y].opens = FALSE /\ handler'[y].pc # "index"
    BY <2>1, <2>2 DEF Steady
  <2> QED BY <2>2, <2>3, RowsQuiet, OldKept DEF Live
<1>4. ASSUME NEW h \in Handlers, LoginVerified(h) PROVE OldInv'
  <2> DEFINE u == handler[h].user
             x == [handler[h] EXCEPT !.pc = "store", !.opens = TRUE, !.name = NoUser, !.data = row[u].data]
  <2>1. /\ Goto(h, x) /\ handler[h].pc = "verify" /\ Here(u) /\ row[u].active
        /\ row' = row /\ session' = session /\ slipped' = slipped
    BY <1>4 DEF LoginVerified, At, Reset
  <2>2. x.pc = "store" /\ x.user = u /\ x.data = row[u].data
    BY DEF TypeInv, HandlersOK, HandlerOK, HandlerRecord
  <2>3. ~Outdated(x.user, x.data)
    BY <2>1, <2>2 DEF Outdated
  <2> HIDE DEF x, u
  <2> QED BY <2>1, <2>2, <2>3, OldStart
<1>5. ASSUME NEW h \in Handlers, ListFails(h) PROVE OldInv'
  <2>1. Idle.opens = FALSE /\ Idle.pc = "idle"
    BY DEF Idle
  <2>0. PICK x, u : x = After(h) /\ u = handler[h].user
    OBVIOUS
  <2>2. /\ NoRevocation(h, x, u) /\ handler[h].pc = "list" /\ u \in Users
        /\ row' = row /\ session' = session
    BY <2>0, <1>5, HandlerTypes DEF ListFails, At
  <2>3. x.pc \in {"idle", "store"}
    BY <2>0, <2>1, AfterIs
  <2>4. x.opens = TRUE => /\ x.user = u /\ Opens(h) /\ x.data = handler[h].data /\ x.late = handler[h].late
    BY <2>0, <2>1, AfterIs DEF Opens
  <2>5. \A v, d : Outdated(v, d)' = Outdated(v, d)
    BY <2>2 DEF Outdated, Here
  <2>6. Opens(h) /\ Outdated(u, handler[h].data) => handler[h].late = TRUE \/ ListerBut(h, u)
    BY <2>0, <2>2 DEF OldInv, CreatorsAreMarked, At, IsLate
  <2>7. x.opens = TRUE => x.user = u /\ (Outdated(u, x.data)' => x.late = TRUE \/ ListerBut(h, u))
    BY <2>4, <2>5, <2>6
  <2> QED BY <2>0, <2>2, <2>3, <2>5, <2>7, OldPassed
<1> QED BY <1>1, <1>2, <1>3, <1>4, <1>5, SessionSteps, OldRestart, OldChange, OldStore, OldRevokes, OldList, OldDelete

\* OldSessionsDie (account.resolvers.go, session/redis.go:79-91): once the
\* revocation that follows a disable, a deletion or a change of role or password
\* is over, no session from before it is alive, unless Redis, a lost answer or a
\* restart kept it from being deleted, or its creation was under way.
THEOREM OldSessionsAreRevoked == Spec => []OldSessionsDie
<1>1. Init => FoundInv /\ OldInv
  <2> SUFFICES ASSUME Init PROVE FoundInv /\ OldInv
    OBVIOUS
  <2>1. /\ \A h \in Handlers : handler[h].pc = "idle" /\ handler[h].opens = FALSE
        /\ \A s \in Sessions : ~Live(s)
        /\ \A u \in Users : index[u] = {}
    BY DEF Init, Idle, StoreInit, Live, Unused
  <2>2. FoundInv
    BY <2>1 DEF FoundInv, EnteredAreKnown, IndexedAreUsed, ListedAreAll, SessionsAreFound, At
  <2>3. OldInv
    BY <2>1 DEF OldInv, CreatorsAreMarked, EnteredAreMarked, OldSessionsDie, Opens, At
  <2> QED BY <2>2, <2>3
<1>2. OldInv => OldSessionsDie
  BY DEF OldInv
<1> QED BY <1>1, <1>2, InitTypeInv, TypeStep, FoundStep, OldStep, PTL DEF Spec

=============================================================================
