# Verification of the agent platform backend

TLA+ modules about the control plane in `src/`, the TLC configurations that check
them on small instances, and TLAPS proofs about them for every value of their
constants. The platform is a Go server (GraphQL, REST for daemons in VMs, several
background loops) in front of PostgreSQL, one or more LiteLLM model gateways,
vCenters and Redis. Several replicas may run; nothing but the database, a leader
lease and Redis is shared between them.

1. [Inventory](#1-inventory)
2. [Plan](#2-plan)
3. [The modules](#3-the-modules)
4. [The runs](#4-the-runs)
5. [The proofs](#5-the-proofs)
6. [Disagreements between code and documentation](#6-disagreements-between-code-and-documentation)
7. [What is not modelled](#7-what-is-not-modelled)

## 1. Inventory

Paths are below `src/`. "Correct" is what the component has to get right.

| Component | State it keeps | Operations | Talks to |
|---|---|---|---|
| Virtual key governance `internal/graph/virtualkey.resolvers.go` | rows `virtual_keys` (status, key, name, agent), keys at the gateway | issue, revoke, regenerate, set enabled, associate, purge | database, gateway client |
| Reconciler `internal/reconcile` | nothing persistent: a snapshot per cycle | keys phase (drifts A, B, C), provider models, spend | database snapshot, gateway client, leader lease |
| Gateway client `internal/gateway` | a circuit breaker per gateway | key, team, model, spend calls with retries | LiteLLM over HTTP |
| Agent commands `internal/agentmgr/heartbeat.go`, `service.go` | rows `rotation_commands`, heartbeats | heartbeat (acks, sweep, max-age, dispatch), request rotation or upgrade | daemons, secret store |
| Enrollment `internal/agentmgr/service.go`, `token.go` | rows `agent_enrollments` (token hashes) | create, enroll, authenticate, renew, revoke | daemons |
| Secret store `internal/secrets` | rows `platform_secrets`, configured keys | put, resolve, delete, reencrypt, rotation worker | database, configuration |
| Resource pools `internal/graph/pool_*.go`, `resourcepool.resolvers.go` | rows `resource_pools`; per process: a lock per pool, a breaker per endpoint | create, update, delete, manual sync, ticker | vCenter, leader lease |
| Agent deployment `internal/graph/deploy*.go`, `internal/deploy` | rows `agents`, VMs, keys | deploy (sync and async), recycle, hard delete, rollback | vCenter, gateway, daemons |
| Router settings `internal/graph/router_sync.go` | hash of what was pushed last | save and push routes, drift check | gateway |
| Leader lease `internal/leader` | a PostgreSQL advisory lock on one connection | is leader, release | reconciler, pool ticker |
| Gateway registry, provider models, routes `internal/graph/gateway_facade.go`, `provider*` | rows of each kind | CRUD with referential checks | gateway |
| Sessions, RBAC, permission cache, CSRF `internal/session`, `internal/auth`, `internal/httpx`, `internal/graph/permcache.go`, `directives.go` | Redis: a key per session, an index per user; a cache per process | log in and out, change password, check, invalidate | Redis, database |
| Users and custom roles `internal/graph/account.resolvers.go`, `rbac.resolvers.go` | rows `users`, `roles`, grants | create, update, disable, delete, assign; each revokes sessions or evicts the cache | database, sessions, permission cache |
| Rate limiting `internal/ratelimit` | counters in Redis | blocked, fail, reset | Redis |
| Console proxy `internal/terminal` | two sockets | pump bytes | VMs |
| vCenter client `internal/vcenter` | a session | inventory, snapshots, library | vSphere |
| Tenants, departments, agents queries; dashboards and metering; catalog, OVA, skills; configuration and start-up | single rows | CRUD, aggregation, parsing | database |

What is hard here, and where:

* **No transaction spans the database and another system.** Every mutation of a
  virtual key is a gateway call and a row update, with other handlers, other
  replicas and the reconciler in between. The only help is a pair of partial unique
  indexes and careful ordering ("gateway first"). *Correct:* no live key outside
  the table, no key in two rows, one active key per agent and name, revocation
  final, leftovers deleted in the end, no stale snapshot deleting a key in use.
* **A heartbeat is a retry.** The daemon repeats heartbeats and acks until it is
  answered, so handlers for one agent overlap, acks come late and twice, and
  answers that carried commands get lost. *Correct:* one command in flight per
  kind, handed out once per dispatch, a one-way state machine, the password stored
  before its command completes, every command ended.
* **Key rotation rewrites secrets in place** while they are read, replaced and
  deleted, by a worker on every replica, across restarts with other keys.
  *Correct:* nothing stored becomes unreadable, nothing deleted returns, every row
  leaves the retired key.
* **A sync of a pool is long** (vCenter login and inventory), works on a row that
  was loaded before it, and runs under a lock and a breaker that each process has
  for itself. *Correct:* status and inventory agree, breakers open for their
  endpoint's failures only, a deletion is final, pools converge.
* **A deployment writes four systems** (agents, virtual keys, gateway, vCenter) and
  undoes its steps by hand; its second half runs in a goroutine that outlives the
  request and dies with the process, while operators recycle, delete and power
  agents. *Correct:* what a failed deployment or a removal leaves behind is in the
  log, success means a running VM with a working key, nobody's key is revoked for
  somebody else.
* **Enrollment** rows are read, then saved, by requests that a daemon repeats.
  *Correct:* a revoked credential stays revoked, a daemon is not locked out.
* **Router settings** are pushed by passes that overlap, skip what they believe was
  pushed, and run on the replica that holds the **leader lease**. *Correct:* a cycle
  runs under the lease, a push is skipped only when it is not needed, gateways
  converge to the table.

* **Access** rests on copies: a session carries the role its login read, the permission
  cache what a query returned. A mutation that takes something from a user must find
  and delete every copy, in Redis calls that are separate and whose errors are ignored,
  while logins make new ones. *Correct:* sessions from before a revocation die, the
  index finds the others, the cache follows the roles, guesses stay bounded.

The hazards behind these, each at its line with the property that covers it or
the reason why none does, are listed in `PROJECT.json`.

## 2. Plan

| Step | Module | State |
|---|---|---|
| 1 | `VirtualKeys`: governance of keys, gateway and reconciler composed | done, runs and proofs |
| 2 | `AgentCommands`: command lifecycle between heartbeats and daemon | done, runs and proofs |
| 3 | `SecretStore`: store, rotation workers, restarts | done, runs and proofs |
| 4 | `PoolSync`: pools, ticker, breaker, several replicas | done, runs and proofs |
| 5 | `Enrollment`: one-time token, sliding renewal, revocation | done, run and proofs with `AgentDeployment` |
| 6 | `AgentDeployment`: deployment, goroutine, rollbacks, recycle, hard delete; extends `Enrollment`, whose rows it issues, revokes and deletes and whose daemons live in its VMs | done, two runs and proofs |
| 7 | `LeaderLease`: the advisory lock and each replica's connection | done, run and proofs with `RouterSync` |
| 8 | `RouterSync`: route mutations, pushes, hash baseline; extends `LeaderLease`, under which the periodic pass runs | done, run and proofs |
| 9 | `CommandBoard`: what a command promises; `AgentCommands` implements it | done, runs and proof |
| 10 | `SessionStore`, `PermissionCache` and `Access`, which extends both: logins, revocations, permission checks | done, run and proofs |
| 11 | A theorem for every safety property of a passing run | done |
| 12 | `KeyLifecycle`: abstract life of one key (absent, live, blocked, dead) that `VirtualKeys` implements | next |
| 13 | One lease with two users on one replica | candidate |

`KeyLifecycle` would say of one key what `CommandBoard` says of one command; its
refinement mapping can use the custody that the proofs of `VirtualKeys` rest on.

## 3. The modules

Each protocol module has one action per call that can be interleaved: a database
statement, a gateway or vCenter call, an answer. What the code computes between two
calls belongs to the action of the later call. A handler is a record: where it is
(`pc`) and what it read. `At`, `Goto`, `Answer`, `Fault` are the vocabulary of
these steps. `MC*` modules give the instances for TLC, `*_proofs` hold theorems.
Operators marked "Mutant" are plausible bugs; they are used by no specification,
but each shows, put in place of the operator it varies, that some property would
notice.

### `VirtualKeys`

| Model | Code |
|---|---|
| `row` | table `virtual_keys`; `Unrevoked`, `NameFree`, `AgentFree`, `Admissible`: the partial unique indexes of `ent/schema/virtualkey.go` |
| `gate` | the keys of one gateway: live, blocked, or gone (deleted or rotated away) |
| `handler[h]` | a running mutation: the row it loaded, the key, its argument |
| `rec` | the keys phase of the reconciler: snapshot, then what it will delete |
| `Issue`, `IssueGenerate`, `IssueCreate`, `IssueCompensate` | `IssueVirtualKey`; `GenerateKey` with its read-back; the compensating delete whose failure is logged |
| `Revoke`, `RevokeAtGateway`, `RevokeStore` | `RevokeVirtualKey`: gateway first; stops on a gateway error |
| `Regenerate`, ... `SetEnabled`, ... `Associate`, ... `Purge` | the mutations of those names |
| `ReconcileTargets`, `ReconcileList`, `ReconcileDelete`, `ReconcileDone` | snapshot of targets, `diffKeys`, mass-delete guard, Drift C, end of cycle |
| `Crash` | a process dies: a handler or the reconciler forgets all it held |

Abstractions. A key stands for its raw value and its hashed token: the rows store
both and the reconciler compares with both, so the model uses one name (a gateway
that returns no token leaves rows that only match by raw key; that case is not
modelled). One gateway: nothing relates two. Budgets, limits, audit rows and
permission checks have no influence on control. Row ids and keys are used once. A
lost gateway call may have been applied or not. Deleting an unknown key is
answered with success or an error, the gateway's choice.

### `AgentCommands`

| Model | Code |
|---|---|
| `cmd` | the rows `rotation_commands` of one agent; `late`: `dispatched_at` is past `dispatchTimeout` |
| `vault` | the new passwords in the secret store, named by the command they belong to |
| `overdue` | what `lastRotation` and the max-age policy say |
| `handler[h]` | a heartbeat or an admin mutation |
| `Heartbeat`, `ReadAck`, `ApplyAcked`, `ApplyFailed`, `Publish`, `Complete` | `ProcessHeartbeat` and `applyAck`, `completeCommand` |
| `Sweep`, `MaxAge*`, `QueryPending`, `Dispatch`, `Respond` | the sweep, `applyMaxAge`, `dispatchAndAssemble`, the answer |
| `Request`, `RequestCreate` | `RequestRotation`, `RequestUpgrade` with `createCommand` |
| `Says`, `Report`, `DaemonActs`, `Lost`, `Timeout`, `Age` | external: daemon, network, clock |

The daemon is not in this repository. It acts once per command id (the schema calls
the id the "idempotence key the daemon dedups on"), acks what it has, and repeats
the outcome. A completion of a UI rotation carries the new password or, in the
"quiet" case that the code accepts, does not; the command then completes without a
secret. `PublishedBeforeCompleted` therefore speaks of daemons that do report it.
`handed` and `spurious` are bookkeeping: how often a command was handed out since it
was last pending, and how many timeouts hit a command that had arrived.
Commands in one request are applied in any order, which contains the code's.

### `SecretStore`

| Model | Code |
|---|---|
| `config` | what `main` gives every replica: one key (id `default`) or a map of keys with an active id |
| `secret` | table `platform_secrets` |
| `truth` | history: what each ref was put with |
| `worker[w]` | a rotation worker between `Reencrypt`'s read and its write |
| `Seal`, `Opens`, `TextOf`, `IdOf` | `encryptWith`, `decryptWith` for both envelope versions |
| `LegacyEnvelopes`, `LegacyRows`, `RowsFor`, `Lost` | what the older release stored, and what of it is misread |
| `RowOpens`, `Resolve` | `Resolve` with its checks that both fields carry the row's key id |
| `Put`, `Delete`, `Scan`, `ReencryptLoad`, `ReencryptSave`, `ScanDone` | the store's methods and `runRotationCycle` |
| `Accepts`, `Restart` | `NewDBStoreWithKeys` and the operator who restarts the fleet |

An envelope is its key id, passphrase and text; it opens under that passphrase and
under no other. The initial rows are of the old format, under a single key. An envelope
of that format has no key id and starts with its random nonce, while `decryptWith` tells
the formats apart by the first byte: one old envelope in 256 is taken for a new one
(`crypto.go:99-118`). Such an envelope has the id `Misread` and opens under no key, and
a row with one is `Lost`; `LegacyRows` lets any field of any initial row be one. The
operator does what the code needs (`KeepsKeysInUse`): keys that rows are sealed under
stay configured under their id. The repository's own procedure does not (section 6).
The fleet restarts as one, because `README.md:186` of the repository demands the same
keys on all replicas.

### `PoolSync`

| Model | Code |
|---|---|
| `pool` | table `resource_pools`: status, endpoint, and the endpoint the inventory was read from |
| `sync[s]` | a ticker, a manual sync or a first sync, with the rows its caller loaded |
| `breaker` | per replica and endpoint; with the syncs admitted in its current generation |
| `charges` | history: endpoints of failed attempts, each with the cause: the vCenter, something local, the context |
| `CreateResourcePool`, `UpdateResourcePool`, `DeleteResourcePool`, `SyncResourcePool`, `SyncAllPools` | the entry points |
| `LockPool`, `Admit`, `Connect`, `Persist`, `Report`, `MarkError` | `syncOnePool`: lock, breaker, attempt, write, breaker's count, `status=error` |
| `RetryOr`, `GiveUp`, `CanBeCut` | `retrySync`, `isRetryable`, and where a context may end |
| `Charge` | the error of an attempt is one of its endpoint, whatever caused it |
| `AfterOutcome`, `OpenExpires`, `Admits`, `Trips` | `sony/gobreaker` as `pool_breaker.go` configures it |

Contexts are modelled by where they end: a client may go away during its own manual
sync, and the timeout may pass while what failed here, a write or the reading of the
credentials, waits to be repeated. `connectPool` resolves the credentials from the local
database and key before it dials (`vcenter_connect.go:78`), and a write may panic
(`pool_sync_one.go:54-57`): both are failures with the cause `local`, which the breaker
counts, while the error of a write has the cause `persist`, which it does not. Deletion
checks of dependants belong to agents; `AgentDeployment` leaves pools out.

### `CommandBoard`

The abstract specification of `AgentCommands`: the commands with their kinds, where
the platform has each (`status`) and what became of it in the VM (`work`). No requests,
acks, lateness or failures: a sweep takes commands back, an answer brings commands to
the VM, which works on each once, and a command is settled as it went. The refinement
mapping (`Board` in `AgentCommands`) reads `status` off the table and `work` off the
daemon; a success reported without a password is a success. Everything that handlers
do between two writes is a stutter of the board.

### `Enrollment` and `AgentDeployment`

| Model | Code |
|---|---|
| `enrollment`, `held`, `answer`, `request` | table `agent_enrollments`; the token the daemon uses; tokens on the way; requests between their read and their save |
| `IssueEnrollment`, `Revoke`, `DeleteEnrollment`, `Authenticate` | the methods of `agentmgr.Service` |
| `EnrollRead`, `EnrollSave`, `RenewRead`, `RenewSave` (`Read`, `Issue`) | `Enroll` and `maybeRenew`, each a read and a later save by id |
| `row`, `keyrow` | tables `agents` (status, VM reference, key) and `virtual_keys` (status, agent) |
| `gkey`, `vm` | keys at the gateway, VMs at the vCenter |
| `deploy[a]` | the `DeployAgent` call that makes agent `a`, and then its goroutine |
| `op` | one operation on an existing agent, with the key it loaded |
| `DeployAgent` ... `RecordAgent` | `DeployAgent`: row, existing key, enrollment, minted key, key row or binding, agent row |
| `ConnectVCenter`, `CloneFromTemplate`, `SetGuestinfo`, `PowerOn`, `Finalize` | `startFullDeployAsync` and `deploy.Service.Provision` |
| `DestroyVM`, `UndoKey`, `RevokeDeployKey`, `MarkFailed`, `DropRow`, `DropEnrollment` | `Service.rollback`, `failAsyncFullDeploy`, `revokeDeployKey`, `deleteAgentRow`, in the order in which call and goroutine run them |
| `StartInstant`, `SavePhase`, `InstantClone`, `InstantWork`, `CancelKey` | `deployAgentInstant` |
| `Start`, `Op*` | `RecycleAgent`, `HardDeleteAgent`, `SetAgentStatus`, `RestartAgent`, `RevokeAgentEnrollment` |
| `Daemon` | the daemon of a VM, while the VM is on |

`Enrollment` has no `Init` or `Next` of its own: `AgentDeployment` extends it, composes its
operations into the resolvers' steps and interleaves its daemons. An agent names its VM
(whose name derives from the agent's id) and the key minted for it; `Spare` is a stored
unbound key that deployments may reuse, so a plan is an agent, a mode and one of these two
keys (`PlansAssumption`). Statuses from `cloning` to `service_starting` are one, `building`.
A step that fails may have had its effect at the gateway or the vCenter (`unheard`). A
revocation may find no client for the key's gateway: a recycle logs the key and goes on, a
hard delete logs nothing, marks the row revoked and leaves the key live (`OpRevokeKey`,
`PassedOver`). `logged` is what a rollback or a removal names in the log, since that is all
the code offers an operator; `overtaken` and `interrupted` mark agents whose deployment was
interfered with and handlers that crashed. The mint of the instant path happens although the
call reuses a key, and a failed save there leaves `ag` nil, so that `deleteAgentRow` panics:
both are in the code. Expiry of tokens is a choice of the environment.

### `LeaderLease` and `RouterSync`

| Model | Code |
|---|---|
| `lock`, `conn` | the advisory lock; `PGLease.conn` with the health of the session behind it |
| `IsLeader(r, yes)`, `Release`, `SessionEnds` | `PGLease.IsLeader` and its answer; `Release` or the death of the process; PostgreSQL |
| `route`, `served` | table `model_routes`; the settings each gateway has |
| `baseline` | `lastRouterSettingsHash` of each replica |
| `pass[p]` | a `SyncRouterSettingsShortCircuit` in progress: a hook of a mutation or the phase of a replica's cycle |
| `CreateModelRoute`, `UpdateModelRoute`, `DeleteModelRoute` | the mutations, each with the hook it starts |
| `LoadBuckets`, `Compare`, `Push`, `RecordBaseline`, `Finish` | one pass: the query, the hash, the call, the record, the pruning |
| `RunCycle`, `LoseSession`, `Restart`, `LoseMasterKey`, `RestoreMasterKey` | the reconciler's tick under the lease; the environment |

The settings of a gateway are the set of its routes with their contents and stand for
their hash. An empty baseline is no entry; a gateway without routes is never pushed to
and keeps the last settings, in the model as in the code. `crossed`, `repeated` and
`skipped` name the three situations in which the code's short-circuit goes wrong
(section 6); the properties say that there are no others.

### `SessionStore`, `PermissionCache` and `Access`

| Model | Code |
|---|---|
| `session`, `index`, `fails` | Redis: `session:<id>`, `user_sessions:<user>`, `ratelimit:login:...`, one per name (`Names`) of an account |
| `ttl` | the lifetime of the index: the session whose EXPIRE gave it, and whether it may end before its sessions |
| `StoreSession`, `IndexSession`, `DeleteSession`, `DeleteListed` | `RedisStore.Create` (SET; SADD and EXPIRE), `Delete`, the DEL of `DeleteByUser` |
| `NotBlocked`, `Fail`, `Reset`, `WindowEnds` | `ratelimit.Redis` |
| `exists`, `grants`, `holds` | custom roles, their permissions, table `user_roles` |
| `cache`, `gen`, `Put`, `Evict`, `EntryExpires` | `permCache` with its generation |
| `row` | table `users` |
| `handler[h]` | a request: a login, a mutation, a permission check |
| `LoginBegin`, `LoginFails`, `LoginDisabled`, `LoginVerified` | `Login`, up to the session |
| `Store`, `StoreFails`, `Index` | `Sessions.Create` as `Login` and `ChangePassword` call it |
| `ChangePasswordRead`, `ChangePasswordSave`, `List`, `ListFails`, `Delete`, `After` | `ChangePassword`; `DeleteByUser` of every mutation |
| `CreateUser`, `UpdateUser`, `DeleteUser`, `ResetUserPassword`, `ToggleRead`, `ToggleSave` | the account mutations; `AssignUsersToRole` is `UpdateUser` with a role, user by user |
| `CreateRole`, `RoleMutation`, `EvictUsers` | the mutations of custom roles: a statement, then the eviction |
| `RequestBegin`, `ReadPerms`, `PutPerms` | `HasPermission` and `effectivePerms` when the cache has no entry |
| `Restart`, `Environment` | the process dies; logouts, expiry |

One process, because the permission cache is for one (`permcache.go:14-18`); requests of
other replicas would interleave as other handlers do. The limiter's key is what the login
was given, a username or an email, and the client address (`schema.resolvers.go:29-30`): an
account has two counters, and the model has one client address, since counters of others are
separate. A password is what a login verified; a session does not carry it, the model
remembers it to say which sessions are old. An id is drawn once. The index outlives the
sessions in it, because every login extends it, unless an EXPIRE is lost when the session
that last extended it has ended (`Lapsed`, `brief`). A SET that fails but has its effect
leaves a session whose id nobody was told, which is the same as none. `slipped` names the
sessions that a revocation could not find or failed to delete, `missed` the users whose role
change was committed without an answer; `late` marks a handler that is creating a session
over which a revocation has passed.

## 4. The runs

| Run | Question | Bounds |
|---|---|---|
| `vk_concurrent` | all mutations, two at a time: unique, governed and unshared keys | 2 rows, 3 keys, 2 names, 1 agent, 2 handlers, 1 fault, 1 purge |
| `vk_no_toggle` | with the reconciler and without `setVirtualKeyEnabled`: revocation final, active keys work, no stale deletion, leftovers die (liveness) | 1 row, 2 keys, 2 handlers, 1 fault, 1 purge |
| `vk_terminal` | violation: a revoked row is put back in service | as above, no fault |
| `agent_commands` | one in flight, one hand-out, publish then commit, one way; implements `CommandBoard` (refinement); no deadlock | 2 commands of 2 kinds, 2 requests, 1 ack each, 1 spurious timeout, 1 fault |
| `agent_commands_live` | every command ends, and the board's fairness is implemented (liveness, refinement) | 1 command |
| `secret_rotation` | secrets survive, deletions last, rows migrate (liveness) | 2 ids, 2 passphrases, 3 refs, any field misread or not, 2 workers, batch of 2, 1 fault, 1 restart |
| `secret_unset` | violation: a credential with an unset field does not resolve | 2 ids, 2 passphrases, 2 refs, 2 workers, batch of 1, 1 fault, 2 restarts |
| `pool_sync` | truthful status, breakers open for their endpoint, deletion final, pools converge (liveness) | 1 pool, 2 endpoints, 2 replicas, 3 syncs, 1 retry, threshold 1, 2 faults, 1 update |
| `agent_deploy` | rollbacks and removals leave only what is in the log, success is complete; revoked credentials stay revoked, daemons are not locked out | 2 agents (one with full and instant, minted and reused key; one that competes for the spare key), 1 operation, 1 daemon, 2 tokens, 1 fault |
| `deploy_reused_key` | violation: removing one agent revokes the key bound to another | 2 full deployments with the spare key, no daemon |
| `router_sync` | cycles hold the lease, the short-circuit is safe, settings converge (liveness) | 2 replicas, 1 route, 2 contents, 1 gateway, 1 hook, 3 edits, 1 fault |
| `access` | old sessions die, the others are found, the permission cache is current, guesses are bounded; no deadlock | 1 user with 2 names, 2 sessions, 2 roles, 2 passwords, 1 custom role, 1 permission, 2 requests, threshold 1, 2 mutations, 1 fault |

Why they are enough. The conflicts are between two actors over one row, key, command or
secret; two handlers (or workers, or replicas) and two such objects make each of them
happen, and a third object only repeats them: keys come in threes where one may be in a row,
one in flight and one dead. One fault (a call lost before or after its effect, a failed
write, a crash) suffices because the properties that mention failures are about the first
one; pools take two, a failure at a vCenter and one of the database. A restart of
`secret_rotation` makes another key active, or drops one that no row is under, over rows of
which some may be lost: with a batch of two, one lost row leaves a place in each batch and
two fill it. The credentials of this run have both fields set; those with an unset one are
in `secret_unset`. For any number of restarts, such as a second one that drops the key a
first one retired, the safety properties are proved. One operation on an agent suffices
because operations meet deployments, crashes and daemons, not each other's leftovers, except
through the shared key, which `deploy_reused_key` shows. One gateway is enough for
`router_sync` because baselines, settings and pushes are per gateway, though a route that
moves between gateways is then not exercised; three edits let contents change, go back and
be deleted. `access` starts from any contents of the database, so two mutations are the two
that overlap, or a change and its reversal. While a counter of the limiter is above zero its
instance (`MCSpec`) serves logins only, because no other request reads a counter: without
that every state of sessions, roles and cache would be multiplied by every count. The proofs
are about `Spec`, which has no such restriction. There is one user, because sessions,
counters and cache entries are each one user's (evicting all is evicting that one). Two VM
tokens are one exchange and one renewal. Every other bound is a constant named for it. For
the safety properties the proofs then remove the bounds.

Symmetry is used in large safety runs only, over constants that no
definition tells apart. `CHECK_DEADLOCK FALSE` is set where the instance runs out of
keys, ids, pools, agents or edits, and the system then rests; `agent_commands` and
`agent_commands_live`, `vk_no_toggle` and `access` check for deadlock.

**Fairness.** `VirtualKeys`: handlers run to their end (their calls have timeouts),
and the reconciler's loop starts cycle after cycle; no client has to call.
`AgentCommands`: handlers run on, time passes, the daemon works on what it got and
repeats the outcome in its heartbeats (strong fairness, because a heartbeat needs a
free handler and the outcome must be among its acks infinitely often). Heartbeats
without an outcome need no fairness of their own. `SecretStore`: the ticker of a
worker ticks on. `PoolSync`: some ticker ticks on (the lease is
always with somebody), syncs run on, an open breaker expires. `RouterSync`: passes run
on (their calls have timeouts), the ticker of every replica keeps starting cycles;
nothing is assumed of the clients, the operator or the lease. `CommandBoard`: what
waits is handed out, what is out again and again is settled; this is a consequence
for `AgentCommands`, checked by `SettlesLikeBoard`, not an assumption. Failures are bounded,
so the liveness properties say what holds once they cease.

What the passing properties say, in one line each, stands above each definition in the
modules. Two are restricted on purpose: `LiveKeysGoverned` and `ActiveKeysWork` exclude runs
with failures, because after a failed call the code only logs, and the code documents so.
`SecretsSurvive` lets `Resolve` fail, though never answer with another text, for credentials
with an unset field under a named key, which is finding `secret_unset`, and for rows with a
misread envelope (`Lost`); `RowsMigrate` speaks of rows that are not lost, while lost ones
do not fill a batch (`Crowded`). `GuessesAreBounded` states the bound that the code gives,
which for an account is twice that of a counter. `OpensForItsEndpoint` says which causes
open a breaker, some of them no fault of the endpoint. Others name their exceptions in
history variables, each a situation in which the code does go wrong: `RevocationHolds`
(`raced`), `NotLockedOut` (`disturbed`), `RemovalComplete` (`overtaken`, `interrupted`,
`unheard`, `PassedOver`), `ShortCircuitIsSafe` and `SettingsConverge` (`crossed`,
`repeated`, `skipped`), `OldSessionsDie` and `SessionsAreFound` (`slipped`),
`CacheIsCurrent` (`missed`). They claim that nothing else goes wrong.

## 5. The proofs

All theorems hold for every number of rows, handlers, commands, workers, replicas
and so on, under the named assumptions of the modules, which only say that null
values are not members, the names of an account differ, bounds are natural numbers, and a
map has its domain.

* `VirtualKeys_proofs`. `TypeCorrect`. `ActiveKeysAreUnique` is inductive with the
  types, through a lemma (`RowSteps`) that says a step changes one row, by an
  admissible write, or purges revoked ones. `KeysAreNotShared` needs *custody*
  (`KeyCustody`): each minted key is in at most one place, a row or a handler that
  is about to store it, so that a store never duplicates; the invariant alone is not
  inductive because a handler carries the key between two calls.
  `RevocationIsTerminal` and `DoomedKeysStayRevoked` assume that
  `setVirtualKeyEnabled` is not among the mutations, and show that it alone is to
  blame for `vk_terminal`; the second needs that the reconciler's chosen keys
  (`ChosenAreDead`) were in revoked rows of the snapshot and that a revoked row
  stays so (`RowFate`). `MassDeleteGuardIsIdle`: whenever the guard of the keys phase
  holds back deletions, there are none to hold back, so the guard as written
  protects nothing in this phase.
  `LiveKeysAreGoverned` needs, while nothing failed and nothing was purged (`InOrder`),
  that a regeneration under way holds its row's key or a dead one, that a row whose new
  key is about to be stored has a dead one, and that one handler at most is about to
  store to a row: otherwise a store would overwrite the only row of a live key.
  `ActiveKeysDoWork` assumes, as its property is stated for, that nothing fails, and that
  `setVirtualKeyEnabled` is not among the mutations: with it, a key can be blocked for
  an active row. `Served` says that rows and handlers which name a key agree on its row,
  that what is about to be stored is live, and that an active row has a live key unless
  a handler is about to change it; it rests on custody and on `ChosenAreDead`.
* `AgentCommands_proofs`. `TypeCorrect`; a lemma (`CommandSteps`) classifies what a step
  does to one command, and `OneWay`, `HandedOutOnce` and `OneCommandInFlight` follow
  from it. `PublishThenCommit` needs three invariants: handlers and daemon speak
  of commands that exist, so that kinds are settled (`Known`); completions
  come from reports of success that always or never carry the password (`Reported`);
  and a handler about to complete a UI rotation with a password holds the secret it
  has put (`ReadyToComplete`). `CommandsImplementBoard` proves the step part of the
  refinement: every initial state maps to one of `CommandBoard`, every step to a step
  of it or a stutter. It needs `Truthful`: what acks under way and handlers say of a
  command agrees with what the daemon did with it, so that a command is settled as it
  went. The fairness part (`SettlesLikeBoard`) stays with TLC.
* `SecretStore_proofs`. `TypeCorrect`; `SecretsOutliveRotations` from `Sealed`: every
  stored row, and every row a worker is about to write, opens under the configured
  keys or is lost, holds what `truth` says and tags its fields with its own key id; a
  worker writes no lost row, since it cannot open one; a restart keeps all this because
  `KeepsKeysInUse` is required of the operator.
  `DeletionIsFinal`.
* `PoolSync_proofs`. `TypeCorrect`; `StatusIsTruthful` and
  `DeletionAndInventoryAreKept` from a classification of row changes (`RowSteps`)
  and `Emptied`; `BreakersOpenForCause` from `BlameIsEarned`: a sync that will report a
  failure, and a breaker that counts one, are about an endpoint that was charged with one
  of the causes that count.
* `RouterSync_proofs`. `TypeCorrect` from `Sound`, the types with what each `pc` of a pass
  implies. `CyclesRunUnderLease` needs two facts besides: the lock's holder has the
  connection that holds it (`LockIsConnection`), and a cycle is run by the replica it
  belongs to (`OwnCycle`); the property alone is not inductive because `IsLeader` says
  yes from its connection, not from the lock.
  `SkippedGatewaysAreServed` speaks of steps in which a pass compares and goes on;
  `ShortCircuitInv` says why the comparison may be trusted at a gateway that is not
  excused: one pass at a time works on it (`Alone`), a baseline with what the table
  says, or with what that pass has loaded, is what the gateway serves
  (`BaselinesAreServed`), nobody has recorded newer settings than the pass's
  (`PassesAreNewest`), and what is about to be recorded is served. `Remembered` ties
  baselines and passes to the settings the gateway ever had, so that an edit to new
  contents is told from one that goes back and makes the gateway an exception.
* `Access_proofs`. `TypeCorrect` from the types and what each `pc` implies for a handler.
  `GuessesBounded` from `GuessInv`: failures counted and logins being verified by one name
  together stay below the threshold plus one per handler and fault, since each login is
  admitted once and counted once, and those by both names of an account below twice as many,
  where a fault is spent on one of them; this one needs cardinalities. `CacheStaysCurrent`
  from `CacheInv`: a reader that is about to put under the cache's own generation has read
  what the tables say, or a mutation has yet to evict its user (`ReadersAreCurrent`), and
  nobody holds a generation of the future. `SessionsStayFound` from `FoundInv`: a handler
  about to enter a session in the index knows it, and a revocation has listed all live
  sessions the index still names. `OldSessionsAreRevoked` adds `OldInv`: a handler that will
  create a session from an outdated login is marked late, or a revocation of its user has
  yet to list, so an outdated session is in its grasp.
* `Enrollment_proofs`. Lemmas, since `Enrollment` has no specification of its own: what its
  steps keep of the agent they are about and of the others. `Revocable`: a revoked row
  is never pending again and the exchanges which could activate it are in `raced`.
  `Undisturbed`: an undisturbed daemon has at most one request or one answer under way, and
  holds the stored token or is being sent it.
* `AgentDeployment_proofs`. `TypeCorrect`, `RevocationsHold`, `NobodyIsLockedOut`,
  `RollbacksAreComplete`, `RemovalsAreComplete` and the action property
  `SuccessesAreComplete` follow from one invariant, `DeployInv`. It says for each agent
  by `pc` what its deployment has made and who will undo it (`KeyTracked`, `RowTracked`,
  `BindingTracked`, `AsyncTracked`, `AgentTracked`), what a deployment left alone has achieved
  so far (`Succeeding`), how far a removal has come (`Removing`), which names it may use
  (`Named`), and which steps an operation of each kind takes (`OpShape`). The properties
  speak of the end of a call and so are far from inductive: nothing in them says that
  a deployment with a live key is still on a path to `undo_key`. The proof goes through a
  table of what a step of a deployment may do (`Effect`: prepare, handle its key, its
  row, or its VM), with one lemma per action that the action is in the table, and a
  frame (`Beside`) for the other agents, which share only the spare key with it.

Two things in `AgentDeployment` were corrected because the proofs would not go through.
The assumption about `Plans` admitted a plan in which an agent reuses the key minted for
another, which no client can ask for. `AfterVM` and `Start` had `CASE` arms whose
guards overlapped; TLC takes the first, TLA+ does not say which, and the arms are now
disjoint. Neither changes what TLC explores.

Every safety property of a passing run is now a theorem. Checked by TLC only: liveness
(`RevokedKeysDie`, `CommandsEnd`, `RowsMigrate`, `PoolsConverge`, `SettingsConverge`,
`SettlesLikeBoard`), which with `ENABLED` is out of the prover's reach. The properties
of the runs that expect a violation, `RevokedIsTerminal`, `UnsetFieldsReadEmpty` and
`RevokesOwnKey`, are false of the code; `RevocationIsTerminal` proves the first where
`setVirtualKeyEnabled` is absent. Recursive operators and induction over data, which the
provers cannot do either, do not occur.

## 6. Disagreements between code and documentation

Shown by runs that TLC must find violated:

* `vk_terminal`: "status=revoked (terminal)". `setVirtualKeyEnabled` checks the row it
  loaded, calls the gateway and then writes the status by id: a revocation committed
  in between is overwritten.
* `secret_unset`: "Empty plaintext stays empty". `Resolve` wants both fields to report
  the row's key id and an empty field reports `default`; under a named active key a
  credential with one unset field fails with "corruption".
* `deploy_reused_key`: a reused key "must be unbound (not attached to any agent)" and
  bound to one agent only. Two deployments that look the key up before either binds it
  share it, and removing the first agent deletes the key of the second.

Noted while modelling, without a run of their own:

* `internal/graph/pool_sync_one.go:176-180`: "Only genuine vCenter dial/API failures should
  feed the vCenter breaker". The breaker counts errors of contexts too: that of a
  manual sync whose client went away, and that of a deadline which passed while a
  failed write of the database was to be repeated (`Report`, `CountsAsFailure`, `CanBeCut`);
  and failures of this side: credentials that cannot be read or decrypted
  (`vcenter_connect.go:78`, which is no `poolPersistError`) and a panic in the write.
* `internal/graph/pool_sync_one.go:152-155` calls failed writes non-retryable;
  `isRetryable` retries them (`Persist` with `RetryOr`).
* `internal/RESOURCE_POOL.md:159` says that a sync that was turned away or cancelled leaves
  the status alone; a cancelled one is marked `error` (`MarkError`).
* The mass-delete guard's comment says it prevents mass deletion of keys; theorem
  `MassDeleteGuardIsIdle` says that in this phase it has nothing to prevent.
* A UI rotation that is reported completed without a password completes without a
  secret (`internal/agentmgr/heartbeat.go:207`).
* `secrets/crypto.go:82-83`: old envelopes are opened, "preserving pre-rotation rows
  transparently". One field in 256 is not: its nonce starts with 0x01, the tag of the new
  format, and `decryptWith` reads a key id out of it or fails, so that the row neither
  resolves nor migrates (`Lost`). `crypto.go:29-31` has such an envelope start with 0x00,
  which `encrypt` never writes. The batch of the rotation worker has no order
  (`rotation.go:72-75`): as many such rows as a batch may come up each time and keep the
  others out (`Crowded`).
* `README.md:171-183` of the repository describes key rotation as
  `k1:new,k0:old` and a return to the single key. Existing rows carry the id `default`,
  which the first step does not configure, and the migrated rows carry `k1`, which the
  last one does not: in both cases they stop resolving though the passphrase is there.
  `KeepsKeysInUse` states what the code needs instead.
* `deploy.resolvers.go:24-28` promises that after any failure VM, key and agent row are
  rolled back. The goroutine keeps the VM when its last save fails (`Finalize`) and
  the row, as failed; a clone that fails after the VM was made keeps it
  (`CloneFromTemplate`); the instant path keeps the VM on purpose, keeps everything when
  a call has no guest password (`InstantClone`), row and enrollment when it has no
  models (`StartInstant`), and panics half-way when the save of a phase fails
  (`SavePhase`, `CancelKey`).
* A recycle while the goroutine provisions is overwritten: the row says `running` again,
  with a VM that is gone and a key that is revoked (`Finalize` looks at nothing but the
  row's id); `SuccessIsComplete` excludes such agents.
* `deploy.resolvers.go:300-302` says that a failure to revoke must not be silent; a key
  whose row cannot be read is passed over silently (`OpRevokeKey`), and so is a failure
  to mark it revoked (`OpMarkKey`). A hard delete (`agent.resolvers.go:342`) has no else for a
  key whose gateway has no client: the row says revoked, the key stays live and nothing
  is logged, where a recycle logs "no gateway to revoke key". The reconciler deletes such
  a key once the gateway answers (`RevokedKeysDie`), unless the gateway is no longer
  registered.
* An `Enroll` that has read its row makes a revocation in between undone (`EnrollSave`),
  though `agentmgr/service.go:173` says that the next heartbeat is refused.
* A renewal replaces the hash before its answer has arrived: a lost answer, or two
  renewals answered out of order, lock a daemon out for good (`RenewSave`).
* `router_sync.go:38-39` and `:190` call the periodic pass the safety net for pushes that
  fail or get lost. It is not when two passes over one gateway overlap (the older
  settings stay, under the newer hash), when settings return to what another replica's
  baseline remembers, or when a master key was missing for a moment and the skipped
  push was recorded; nor is a gateway that lost its last route ever told.
* `leader.go:18-19`: "call from a single goroutine"; `main.go:225` and `:241` give one lease to
  two loops.
* `schema.resolvers.go:152-156`: "no stale session survives either way";
  `session/store.go:34-35`: "old credentials can't keep live sessions". A login that read
  the user before a revocation and stores its session after the revocation's SMEMBERS
  keeps it; a session entered in the index between SMEMBERS and DEL loses its entry, so
  that later revocations do not find it either; an error of Redis is ignored (`slipped`).
* `schema.resolvers.go:27-28`: "one IP can't grind an account". The counter is one of the
  identifier as the client sent it, and the account goes by its username and by its email:
  one address has two counters, and twice the guesses (`GuessesAreBounded`).
* `ChangePassword` gives its new session the role read at its start, over a demotion in
  between, and does not look at `is_active`: a disabled user whose session has not been
  deleted yet renews it (`ChangePasswordRead`).
* `session/store.go:37-39` says that the online badge may "briefly" count expired
  sessions. `Delete` leaves the id in the index (`DeleteSession`), so a user who logged out
  counts as online until the index expires, up to two lifetimes of a session.

## 7. What is not modelled

`PROJECT.json` lists every component with its status. Left out: reads, projections and
aggregation (dashboards, metering, agents queries), CRUD on single rows whose correctness is
the database's (tenants, departments, gateway registry, provider models), parsing and
seeding (catalog, OVA, skills, configuration), byte pumping (console), vSphere I/O (modelled
by its outcomes in `PoolSync` and `AgentDeployment`), password hashing and token formats.
Generated code, `ent` and `gqlgen` output, is most of the repository's lines; it has no
logic of its own, so the modelled share of all lines stays small however much of the written
code is covered.

Within the modelled components: collisions of VM and key names; rows made by
`CreateAgent` without a deployment; reconfiguration and snapshots of VMs, which change
none of the modelled state; the data race on `PGLease.conn` between two goroutines;
gateways that are deleted while a pass runs; the gateway client's circuit breaker; a
rolling restart with differing keys, which the documentation forbids. Of sessions:
the in-memory stores for development, whose calls are the same steps made atomic; the
online badge; CSRF; the permission cache on several replicas, against which its
documentation advises.
