---------------------------- MODULE PermissionCache ----------------------------
(***************************************************************************)
(* Custom roles, the permissions they grant to users                        *)
(* (internal/graph/rbac.resolvers.go), and the process's memory of a user's *)
(* permissions (internal/graph/permcache.go).  The cache is for a server    *)
(* that runs as one process; with several it is switched off.               *)
(***************************************************************************)
EXTENDS Naturals

CONSTANTS
    CustomRoles, Permissions,
    Holders \* who may hold roles: the ids of users

VARIABLES
    exists, \* the custom roles in the database
    grants, \* their permissions
    holds,  \* the table user_roles
    cache,  \* permCache.m; the entry of a user is a singleton
    gen,    \* permCache.gen
    missed  \* history: users whose permissions changed and the server was not told

roleTables  == <<exists, grants, holds>>
permissions == <<exists, grants, holds, cache, gen, missed>>

PermissionTypeOK ==
    /\ exists \subseteq CustomRoles
    /\ grants \in [CustomRoles -> SUBSET Permissions]
    /\ holds \in [Holders -> SUBSET exists]
    /\ cache \in [Holders -> SUBSET SUBSET Permissions]
    /\ gen \in Nat
    /\ missed \subseteq Holders

NoEntry    == {}
EmptyCache == cache' = [u \in Holders |-> NoEntry]

\* Any tables in which roles that do not exist have and give nothing.
PermissionInit ==
    /\ exists \in SUBSET CustomRoles
    /\ grants \in [CustomRoles -> SUBSET Permissions]
    /\ \A c \in CustomRoles \ exists : grants[c] = {}
    /\ holds \in [Holders -> SUBSET exists]
    /\ cache = [u \in Holders |-> NoEntry]
    /\ gen = 0 /\ missed = {}

\* The union of the permissions of the user's roles, as effectivePerms reads it.
Effective(u) == UNION {grants[c] : c \in holds[u]}

(***************************************************************************)
(* The cache.  A reader passes to Put the generation it saw before it read  *)
(* the tables.                                                              *)
(***************************************************************************)
\* Mutant: Put stores what it is given.
PutAlways(u, set, seen) ==
    cache' = [cache EXCEPT ![u] = {set}] /\ UNCHANGED <<roleTables, gen, missed>>

Put(u, set, seen) ==
    /\ cache' = IF gen = seen THEN [cache EXCEPT ![u] = {set}] ELSE cache
    /\ UNCHANGED <<roleTables, gen, missed>>

\* Invalidate of one user, clear of all.
Evict(users) ==
    /\ cache' = [u \in Holders |-> IF u \in users THEN NoEntry ELSE cache[u]]
    /\ gen' = gen + 1
    /\ UNCHANGED <<roleTables, missed>>

EntryExpires(u) ==
    /\ cache[u] # NoEntry
    /\ cache' = [cache EXCEPT ![u] = NoEntry]
    /\ UNCHANGED <<roleTables, gen, missed>>

(***************************************************************************)
(* The tables.  users are those whose entries the mutation evicts once its  *)
(* statement is answered; told is FALSE when the answer is lost.            *)
(***************************************************************************)
Tell(users, told) == missed' = IF told THEN missed ELSE missed \union users

CreateCustomRole(c) ==
    /\ c \notin exists /\ exists' = exists \union {c}
    /\ UNCHANGED <<grants, holds, cache, gen, missed>>

\* Mutant: user_roles keeps the deleted role.
DeleteRoleOnly(c, told) ==
    /\ c \in exists /\ exists' = exists \ {c}
    /\ grants' = [grants EXCEPT ![c] = {}]
    /\ Tell(Holders, told) /\ UNCHANGED <<holds, cache, gen>>

DeleteCustomRole(c, told) ==
    /\ c \in exists /\ exists' = exists \ {c}
    /\ grants' = [grants EXCEPT ![c] = {}]
    /\ holds' = [u \in Holders |-> holds[u] \ {c}]
    /\ Tell(Holders, told) /\ UNCHANGED <<cache, gen>>

SetRolePermissions(c, perms, told) ==
    /\ c \in exists /\ grants' = [grants EXCEPT ![c] = perms]
    /\ Tell(Holders, told) /\ UNCHANGED <<exists, holds, cache, gen>>

AssignUserRole(u, c, told) ==
    /\ c \in exists /\ holds' = [holds EXCEPT ![u] = @ \union {c}]
    /\ Tell({u}, told) /\ UNCHANGED <<exists, grants, cache, gen>>

RemoveUserRole(u, c, told) ==
    /\ c \in exists /\ holds' = [holds EXCEPT ![u] = @ \ {c}]
    /\ Tell({u}, told) /\ UNCHANGED <<exists, grants, cache, gen>>
=============================================================================
