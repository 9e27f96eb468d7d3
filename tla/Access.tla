-------------------------------- MODULE Access ---------------------------------
(***************************************************************************)
(* Who may call: logins, sessions and permissions (internal/graph:          *)
(* Login, ChangePassword and Logout of schema.resolvers.go, the account     *)
(* mutations, the mutations on custom roles, effectivePerms), over Redis    *)
(* and the permission cache.                                                *)
(*                                                                          *)
(* A session carries the role that its login read; a request is served by   *)
(* what the session says.  So every mutation that takes something from a    *)
(* user ends by deleting the user's sessions.                               *)
(***************************************************************************)
EXTENDS SessionStore, PermissionCache, FiniteSets

CONSTANTS
    Handlers,
    MaxChanges \* bound on mutations of existing users and roles

ASSUME MaxChangesAssumption == MaxChanges \in Nat
ASSUME HoldersAssumption == Holders = Users
ASSUME HandlersAssumption == IsFiniteSet(Handlers) /\ IsFiniteSet(Sessions)

VARIABLES
    row,     \* the table users
    handler, \* the requests being served
    changes

vars == <<row, handler, changes, redis, permissions, faults>>

UserRecord ==
    [state : {"new", "here", "gone"}, active : BOOLEAN, data : Data \union {NoData}]

(***************************************************************************)
(* What a handler holds: data, what it read of its user, which becomes the  *)
(* session's; opens tells that it will create a session; session is the one *)
(* it has stored; listed what SMEMBERS returned; users whom to evict; seen  *)
(* and perms what it will put into the cache.  late is history, see         *)
(* StoreSession and ChangePasswordRead.                                     *)
(***************************************************************************)
HandlerRecord ==
    [pc : {"idle", "verify", "toggle", "save_password", "list", "delete", "store", "index",
           "evict", "read_perms", "put"},
     user : Users \union {NoUser}, name : Names \union {NoUser}, data : Data \union {NoData},
     opens : BOOLEAN, late : BOOLEAN, active : BOOLEAN, session : Sessions \union {NoUser},
     listed : SUBSET Sessions, users : SUBSET Users, seen : Nat, perms : SUBSET Permissions]

Idle ==
    [pc |-> "idle", user |-> NoUser, name |-> NoUser, data |-> NoData, opens |-> FALSE,
     late |-> FALSE, active |-> FALSE, session |-> NoUser, listed |-> {}, users |-> {},
     seen |-> 0, perms |-> {}]

TypeOK ==
    /\ row \in [Users -> UserRecord]
    /\ handler \in [Handlers -> HandlerRecord]
    /\ \A h \in Handlers :
          /\ handler[h].pc \notin {"idle", "evict"} => handler[h].user \in Users
          /\ handler[h].pc = "verify" => handler[h].name \in Names
          /\ handler[h].pc = "index" => handler[h].session \in Sessions
          /\ handler[h].opens => handler[h].data \in Data
    /\ \A u \in Users : row[u].state = "here" => row[u].data \in Data
    /\ changes \in 0..MaxChanges
    /\ StoreTypeOK /\ PermissionTypeOK

NewUser == [state |-> "new", active |-> FALSE, data |-> NoData]

\* The server starts on a database that may have been in use.
Init ==
    /\ row \in [Users -> {NewUser} \union [state : {"here"}, active : BOOLEAN, data : Data]]
    /\ handler = [h \in Handlers |-> Idle]
    /\ changes = 0
    /\ StoreInit /\ PermissionInit
    /\ \A u \in Users : row[u] = NewUser => holds[u] = {}

At(h, pc)   == handler[h].pc = pc
Goto(h, x)  == handler' = [handler EXCEPT ![h] = x]
Answer(h)   == Goto(h, Idle)
Change      == changes < MaxChanges /\ changes' = changes + 1

Here(u)       == row[u].state = "here"
Opening(h, u) == handler[h].opens /\ handler[h].user = u

\* A revocation of the user has listed sessions and not yet deleted them.
Deleting(u) == \E x \in Handlers : At(x, "delete") /\ handler[x].user = u

\* Sessions whose id a client has been told.
Known(s) == Live(s) /\ ~\E h \in Handlers : At(h, "index") /\ handler[h].session = s

\* There is an id left for every session that will be created.
IdLeft == Cardinality({h \in Handlers : handler[h].opens /\ ~At(h, "index")})
            < Cardinality({s \in Sessions : session[s].state = "unused"})

\* A session whose login knew another role or password than the user's, or a
\* user that has been disabled or deleted.
Outdated(u, data) ==
    ~Here(u) \/ ~row[u].active \/ data # row[u].data

(***************************************************************************)
(* Login, by the username or by the email.  The user is read, the password  *)
(* verified and the counter of the name reset or advanced.                  *)
(***************************************************************************)
Counter(h) == <<handler[h].user, handler[h].name>>

LoginBegin(h, u, n) ==
    /\ At(h, "idle") /\ NotBlocked(<<u, n>>)
    /\ Goto(h, [Idle EXCEPT !.pc = "verify", !.user = u, !.name = n])
    /\ UNCHANGED <<row, changes, redis, permissions>>

LoginFails(h) ==
    /\ At(h, "verify") /\ Fail(Counter(h)) /\ Answer(h)
    /\ UNCHANGED <<row, changes, permissions>>

LoginDisabled(h) ==
    LET u == handler[h].user
    IN  /\ At(h, "verify") /\ Here(u) /\ ~row[u].active /\ Answer(h) /\ NoFault
        /\ UNCHANGED <<row, changes, redis, permissions>>

LoginVerified(h) ==
    LET u == handler[h].user
    IN  /\ At(h, "verify") /\ Here(u) /\ row[u].active /\ IdLeft
        /\ Reset(Counter(h))
        /\ Goto(h, [handler[h] EXCEPT !.pc = "store", !.opens = TRUE, !.name = NoUser,
                       !.data = row[u].data])
        /\ UNCHANGED <<row, changes, permissions>>

\* The session is stored, unless Redis fails; then the client has no session.
Store(h) ==
    /\ At(h, "store")
    /\ \E s \in Sessions :
          /\ StoreSession(s, handler[h].user, handler[h].data, handler[h].late)
          /\ Goto(h, [handler[h] EXCEPT !.pc = "index", !.session = s])
    /\ NoFault /\ UNCHANGED <<row, changes, permissions>>

StoreFails(h) ==
    /\ At(h, "store") /\ Fault /\ Answer(h)
    /\ UNCHANGED <<row, changes, redis, permissions>>

Index(h) ==
    LET u == handler[h].user
    IN  /\ At(h, "index")
        /\ IndexSession(handler[h].session, u, Deleting(u))
        /\ Answer(h)
        /\ UNCHANGED <<row, changes, permissions>>

(***************************************************************************)
(* Mutations of users.  Each writes the row in one statement and goes on to *)
(* delete the user's sessions, if it does, only when it is told that the    *)
(* statement succeeded.                                                     *)
(***************************************************************************)
\* h goes to x, and the others named have been passed over.
PassOver(h, x, others) ==
    handler' = [y \in Handlers |-> IF y = h THEN x
                                   ELSE IF y \in others THEN [handler[y] EXCEPT !.late = TRUE]
                                   ELSE handler[y]]

\* A revocation of u that h does not carry out.
NoRevocation(h, x, u) ==
    /\ PassOver(h, x, {y \in Handlers : Opening(y, u)})
    /\ slipped' = slipped \union LiveOf(u)

SaveRow(h, u, value, next) ==
    /\ \/ /\ NoFault /\ row' = [row EXCEPT ![u] = value]
          /\ Goto(h, next) /\ UNCHANGED slipped
       \/ /\ Fault /\ row' = [row EXCEPT ![u] = value]
          /\ IF next.pc = "list" THEN NoRevocation(h, Idle, u) ELSE Answer(h) /\ UNCHANGED slipped
       \/ Fault /\ Answer(h) /\ UNCHANGED <<row, slipped>>
    /\ UNCHANGED <<session, index, ttl, fails>>

Revocation(u) == [Idle EXCEPT !.pc = "list", !.user = u]

Administer(h, u, value, revoke) ==
    /\ At(h, "idle") /\ Change
    /\ SaveRow(h, u, value, IF revoke THEN Revocation(u) ELSE Idle)

CreateUser(h, u, data, enabled) ==
    /\ At(h, "idle") /\ row[u].state = "new"
    /\ SaveRow(h, u, [state |-> "here", active |-> enabled, data |-> data], Idle)
    /\ UNCHANGED <<changes, permissions>>

\* An argument that the client may leave out is the empty set or a singleton.
Optional(S) == {{}} \union {{x} : x \in S}

Given(argument, otherwise) ==
    IF argument = {} THEN otherwise ELSE CHOOSE x \in argument : TRUE

Updated(u, role, enabled) ==
    [row[u] EXCEPT !.data.role = Given(role, @), !.active = Given(enabled, @)]

\* Mutant: only a disable revokes.
UpdateUserKeepingSessions(h, u, role, enabled) ==
    /\ Here(u) /\ Administer(h, u, Updated(u, role, enabled), enabled = {FALSE})
    /\ UNCHANGED permissions

\* AssignUsersToRole does the same with a role for one user after another.
UpdateUser(h, u, role, enabled) ==
    /\ Here(u) /\ Administer(h, u, Updated(u, role, enabled), role # {} \/ enabled = {FALSE})
    /\ UNCHANGED permissions

DeleteUser(h, u) ==
    /\ Here(u)
    /\ Administer(h, u, [row[u] EXCEPT !.state = "gone"], TRUE)
    /\ holds' = [holds EXCEPT ![u] = IF row'[u].state = "gone" THEN {} ELSE @]
    /\ UNCHANGED <<exists, grants, cache, gen, missed>>

ResetUserPassword(h, u, password) ==
    /\ Here(u)
    /\ Administer(h, u, [row[u] EXCEPT !.data.password = password], TRUE)
    /\ UNCHANGED permissions

\* ToggleUserEnabled reads the flag and writes its negation.
ToggleRead(h, u) ==
    /\ At(h, "idle") /\ Here(u) /\ Change
    /\ Goto(h, [Idle EXCEPT !.pc = "toggle", !.user = u, !.active = ~row[u].active])
    /\ NoFault /\ UNCHANGED <<row, redis, permissions>>

ToggleSave(h) ==
    LET u == handler[h].user
    IN  /\ At(h, "toggle")
        /\ \/ /\ Here(u)
              /\ SaveRow(h, u, [row[u] EXCEPT !.active = handler[h].active],
                         IF handler[h].active THEN Idle ELSE Revocation(u))
           \/ /\ ~Here(u) /\ Answer(h) /\ NoFault /\ UNCHANGED <<row, redis>>
        /\ UNCHANGED <<changes, permissions>>

(***************************************************************************)
(* ChangePassword.  The session that authenticates the call and the user    *)
(* are read; the new session will carry that role and the new password.     *)
(* is_active is not looked at: a session that outlives a disable, or is     *)
(* used before it is deleted, can renew itself.                             *)
(***************************************************************************)
ChangePasswordRead(h, s) ==
    LET u == session[s].user
    IN  /\ At(h, "idle") /\ Known(s) /\ Here(u) /\ IdLeft /\ Change
        /\ Goto(h, [Idle EXCEPT !.pc = "save_password", !.user = u, !.opens = TRUE,
                       !.late = s \in slipped \/ (~row[u].active /\ Deleting(u)),
                       !.data = row[u].data])
        /\ NoFault /\ UNCHANGED <<row, redis, permissions>>

ChangePasswordSave(h, password) ==
    LET u == handler[h].user
    IN  /\ At(h, "save_password")
        /\ \/ /\ Here(u)
              /\ SaveRow(h, u, [row[u] EXCEPT !.data.password = password],
                         [handler[h] EXCEPT !.pc = "list", !.data.password = password])
           \/ /\ ~Here(u) /\ Answer(h) /\ NoFault /\ UNCHANGED <<row, redis>>
        /\ UNCHANGED <<changes, permissions>>

(***************************************************************************)
(* DeleteByUser: SMEMBERS, and then the DEL.  Its error is ignored.         *)
(***************************************************************************)
After(h) == IF handler[h].opens THEN [handler[h] EXCEPT !.pc = "store", !.listed = {}] ELSE Idle

\* The others that are creating a session for the user from older data.
Late(h, u) == {x \in Handlers \ {h} : Opening(x, u) /\ Outdated(u, handler[x].data)}

List(h) ==
    LET u == handler[h].user
    IN  /\ At(h, "list")
        /\ PassOver(h, [handler[h] EXCEPT !.pc = "delete", !.listed = index[u]], Late(h, u))
        /\ slipped' = slipped \union {handler[x].session : x \in {y \in Late(h, u) : At(y, "index")}}
        /\ NoFault /\ UNCHANGED <<row, changes, permissions, session, index, ttl, fails>>

ListFails(h) ==
    /\ At(h, "list") /\ Fault
    /\ NoRevocation(h, After(h), handler[h].user)
    /\ UNCHANGED <<row, changes, permissions, session, index, ttl, fails>>

Delete(h) ==
    /\ At(h, "delete")
    /\ DeleteListed(handler[h].user, handler[h].listed)
    /\ Goto(h, After(h))
    /\ UNCHANGED <<row, changes, permissions>>

(***************************************************************************)
(* Mutations of custom roles: a statement, and then the eviction.           *)
(***************************************************************************)
Told(told) == IF told THEN NoFault ELSE Fault

EditRoles(h, users, told) ==
    /\ At(h, "idle") /\ Change /\ Told(told)
    /\ IF told THEN Goto(h, [Idle EXCEPT !.pc = "evict", !.users = users]) ELSE Answer(h)
    /\ UNCHANGED <<row, redis>>

RoleMutation(h, told) ==
    \E c \in CustomRoles :
        \/ DeleteCustomRole(c, told) /\ EditRoles(h, Users, told)
        \/ \E perms \in SUBSET Permissions :
              SetRolePermissions(c, perms, told) /\ EditRoles(h, Users, told)
        \/ \E u \in Users :
              /\ Here(u) /\ EditRoles(h, {u}, told)
              /\ AssignUserRole(u, c, told) \/ RemoveUserRole(u, c, told)

CreateRole(h, c) ==
    /\ CreateCustomRole(c) /\ At(h, "idle") /\ NoFault
    /\ UNCHANGED <<row, handler, changes, redis>>

EvictUsers(h) ==
    /\ At(h, "evict") /\ Evict(handler[h].users) /\ Answer(h)
    /\ NoFault /\ UNCHANGED <<row, changes, redis>>

(***************************************************************************)
(* HasPermission of a request whose session's role does not suffice: when   *)
(* the cache has no entry, effectivePerms reads the generation, the tables, *)
(* and puts.                                                                *)
(***************************************************************************)
RequestBegin(h, s) ==
    LET u == session[s].user
    IN  /\ At(h, "idle") /\ Known(s) /\ cache[u] = NoEntry
        /\ Goto(h, [Idle EXCEPT !.pc = "read_perms", !.user = u, !.seen = gen])
        /\ NoFault /\ UNCHANGED <<row, changes, redis, permissions>>

ReadPerms(h) ==
    LET u == handler[h].user
    IN  /\ At(h, "read_perms")
        /\ IF Here(u) THEN Goto(h, [handler[h] EXCEPT !.pc = "put", !.perms = Effective(u)])
                      ELSE Answer(h)
        /\ NoFault /\ UNCHANGED <<row, changes, redis, permissions>>

PutPerms(h) ==
    /\ At(h, "put") /\ Put(handler[h].user, handler[h].perms, handler[h].seen) /\ Answer(h)
    /\ NoFault /\ UNCHANGED <<row, changes, redis>>

\* The server restarts: Redis and the database stay.
Restart ==
    LET cut == {h \in Handlers : handler[h].pc \in {"list", "delete"}}
    IN  /\ \E h \in Handlers : ~At(h, "idle")
        /\ Fault
        /\ slipped' = slipped \union {handler[h].session : h \in {x \in Handlers : At(x, "index")}}
                              \union UNION {LiveOf(handler[h].user) : h \in cut}
        /\ handler' = [h \in Handlers |-> Idle]
        /\ EmptyCache /\ gen' = 0
        /\ UNCHANGED <<row, changes, session, index, ttl, fails, exists, grants, holds, missed>>

(***************************************************************************)
(* The specification.                                                       *)
(***************************************************************************)
Begin(h) ==
    \/ \E u \in Users :
          \/ \E n \in Names : LoginBegin(h, u, n)
          \/ DeleteUser(h, u) \/ ToggleRead(h, u)
          \/ \E data \in Data, enabled \in BOOLEAN : CreateUser(h, u, data, enabled)
          \/ \E role \in Optional(Roles), enabled \in Optional(BOOLEAN) : UpdateUser(h, u, role, enabled)
          \/ \E password \in Passwords : ResetUserPassword(h, u, password)
    \/ \E s \in Sessions : ChangePasswordRead(h, s) \/ RequestBegin(h, s)
    \/ \E c \in CustomRoles : CreateRole(h, c)
    \/ \E told \in BOOLEAN : RoleMutation(h, told)

Continue(h) ==
    \/ LoginFails(h) \/ LoginDisabled(h) \/ LoginVerified(h)
    \/ Store(h) \/ StoreFails(h) \/ Index(h)
    \/ ToggleSave(h) \/ \E password \in Passwords : ChangePasswordSave(h, password)
    \/ List(h) \/ ListFails(h) \/ Delete(h)
    \/ EvictUsers(h) \/ ReadPerms(h) \/ PutPerms(h)

Logout(s) == DeleteSession(s)

Environment ==
    /\ \/ \E s \in Sessions : Known(s) /\ (Logout(s) \/ SessionExpires(s)) /\ UNCHANGED permissions
       \/ \E u \in Users :
             \/ (IndexExpires(u) \/ \E n \in Names : WindowEnds(<<u, n>>)) /\ UNCHANGED permissions
             \/ EntryExpires(u) /\ UNCHANGED redis
    /\ NoFault /\ UNCHANGED <<row, handler, changes>>

Next == Restart \/ Environment \/ \E h \in Handlers : Begin(h) \/ Continue(h)

Spec == Init /\ [][Next]_vars

(***************************************************************************)
(* Properties                                                               *)
(***************************************************************************)
\* After a user was disabled, deleted, or given another role or password, no
\* session from before stays alive, except one that Redis, a lost answer or a
\* restart kept from the revocation, and one being created while it ran
\* (account.resolvers.go, schema.resolvers.go:152-157, session/redis.go:79-91).
OldSessionsDie ==
    \A s \in Sessions :
        Live(s) /\ Outdated(session[s].user, session[s].data)
          => \/ s \in slipped
             \/ \E h \in Handlers :
                   handler[h].pc \in {"list", "delete"} /\ handler[h].user = session[s].user

\* The next revocation of a user will find the user's sessions: those that have
\* not slipped are in the index, or about to be entered (session/redis.go:42-51).
SessionsAreFound ==
    \A s \in Sessions :
        Live(s) /\ s \notin slipped
          => \/ s \in index[session[s].user]
             \/ \E h \in Handlers : At(h, "index") /\ handler[h].session = s

\* The cache does not remember permissions that the roles no longer grant, nor
\* forget those they do: between a mutation's statement and its eviction it may,
\* and after a mutation whose answer was lost (permcache.go:22-28).
CacheIsCurrent ==
    \A u \in Users :
        ~(cache[u] \subseteq {Effective(u)})
          => \/ u \in missed \/ ~Here(u)
             \/ \E h \in Handlers : At(h, "evict") /\ u \in handler[h].users

\* The failures that one counter can take in one window, unless Redis fails: the
\* logins that run at the same time get past the limiter together.
Guesses == Threshold - 1 + Cardinality(Handlers)

\* From one address no more passwords fail in one window than Guesses by the name,
\* and for the account, which goes by two names, than twice as many: "one IP
\* can't grind an account" (schema.resolvers.go:27-37, ratelimit/redis.go:45-63).
GuessesAreBounded ==
    \A u \in Users :
        /\ \A n \in Names : fails[<<u, n>>].count <= Guesses + faults
        /\ fails[<<u, Username>>].count + fails[<<u, Email>>].count <= 2 * Guesses + faults

=============================================================================
