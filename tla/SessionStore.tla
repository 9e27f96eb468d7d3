----------------------------- MODULE SessionStore ------------------------------
(***************************************************************************)
(* What the server keeps in Redis: the sessions of users                    *)
(* (internal/session/redis.go), with the index through which all sessions   *)
(* of a user are found, and the counters of failed logins                   *)
(* (internal/ratelimit/redis.go), one for each name a user can log in by,   *)
(* for one client address.                                                  *)
(*                                                                          *)
(* One action or operator per call of Redis.  A session's key and its       *)
(* payload expire together.  The index is given the lifetime of two         *)
(* sessions with each session that is entered, unless the EXPIRE that       *)
(* follows the SADD is lost: then it has what an earlier session gave it,   *)
(* too little for the new one when the earlier one has ended.               *)
(***************************************************************************)
EXTENDS Naturals

CONSTANTS
    Users, NoUser,
    Username, Email,  \* what a login may name a user by
    Sessions,         \* ids of sessions, each used once
    Roles, Passwords, NoData,
    Threshold,        \* failed logins that block a name
    MaxFaults         \* bound on failures, lost answers and crashes

ASSUME NoUserAssumption == NoUser \notin Users /\ NoUser \notin Sessions
ASSUME NamesAssumption == Username # Email
ASSUME LimitsAssumption == Threshold \in Nat \ {0} /\ MaxFaults \in Nat

VARIABLES
    session, \* session:<id>; user is whose it is, data what the login read of the user
    index,   \* user_sessions:<user>: ids
    ttl,     \* the index's: the session it comes from; brief, it may end before its sessions
    fails,   \* ratelimit:login:<name>: the count, and whether the key will expire
    slipped, \* history: sessions that a revocation could not find or did not delete
    faults

redis == <<session, index, ttl, fails, slipped>>

Names == {Username, Email}

NoFault == faults' = faults
Fault   == faults < MaxFaults /\ faults' = faults + 1

\* password is history: the password by which the session was obtained.
Data == [role : Roles, password : Passwords]

SessionRecord ==
    [state : {"unused", "live", "gone"}, user : Users \union {NoUser}, data : Data \union {NoData}]

StoreTypeOK ==
    /\ session \in [Sessions -> SessionRecord]
    /\ \A s \in Sessions :
          session[s].state = "live" => session[s].user \in Users /\ session[s].data \in Data
    /\ index \in [Users -> SUBSET Sessions]
    /\ ttl \in [Users -> [keeper : Sessions \union {NoUser}, brief : BOOLEAN]]
    /\ fails \in [Users \X Names -> [count : Nat, expires : BOOLEAN]]
    /\ slipped \subseteq Sessions
    /\ faults \in 0..MaxFaults

Unused  == [state |-> "unused", user |-> NoUser, data |-> NoData]
Gone    == [Unused EXCEPT !.state = "gone"]
NoTtl   == [keeper |-> NoUser, brief |-> FALSE]
NoFails == [count |-> 0, expires |-> FALSE]

StoreInit ==
    /\ session = [s \in Sessions |-> Unused]
    /\ index = [u \in Users |-> {}]
    /\ ttl = [u \in Users |-> NoTtl] /\ slipped = {}
    /\ fails = [k \in Users \X Names |-> NoFails]
    /\ faults = 0

Live(s)     == session[s].state = "live"
LiveOf(u)   == {s \in Sessions : Live(s) /\ session[s].user = u}

\* A deleted session leaves nothing but its id in the index.
Drop(ids) ==
    /\ session' = [s \in Sessions |-> IF s \in ids /\ Live(s) THEN Gone ELSE session[s]]
    /\ slipped' = slipped \ ids

(***************************************************************************)
(* Create: SET, and then SADD and EXPIRE, whose errors are ignored.  late   *)
(* tells that a revocation has already passed over the new session.         *)
(***************************************************************************)
StoreSession(s, u, data, late) ==
    /\ session[s].state = "unused"
    /\ session' = [session EXCEPT ![s] = [state |-> "live", user |-> u, data |-> data]]
    /\ slipped' = IF late THEN slipped \union {s} ELSE slipped
    /\ UNCHANGED <<index, ttl, fails>>

\* The session that gave the index its lifetime has ended.
Lapsed(u) == ttl[u].keeper \in Sessions /\ ~Live(ttl[u].keeper)

\* orphan tells that a revocation is about to delete the index it has read.
IndexSession(s, u, orphan) ==
    /\ \/ /\ NoFault
          /\ index' = [index EXCEPT ![u] = @ \union {s}]
          /\ ttl' = [ttl EXCEPT ![u] = [keeper |-> s, brief |-> FALSE]]
       \/ /\ Fault
          /\ index' = [index EXCEPT ![u] = @ \union {s}]
          /\ ttl' = [ttl EXCEPT ![u].brief = @ \/ Lapsed(u)]
       \/ Fault /\ UNCHANGED <<index, ttl>>
       \/ /\ Fault /\ index[u] # {} /\ UNCHANGED index
          /\ ttl' = [ttl EXCEPT ![u] = [keeper |-> s, brief |-> FALSE]]
    /\ slipped' = IF orphan \/ s \notin index'[u] THEN slipped \union {s} ELSE slipped
    /\ UNCHANGED <<session, fails>>

\* Mutant: a logout gives up the user's index.
DeleteSessionAndIndex(s) ==
    /\ Live(s) /\ Drop({s})
    /\ index' = [index EXCEPT ![session[s].user] = {}]
    /\ ttl' = [ttl EXCEPT ![session[s].user] = NoTtl]
    /\ UNCHANGED fails

\* Delete, by a logout; the index keeps the id.
DeleteSession(s) ==
    /\ Live(s) /\ Drop({s})
    /\ UNCHANGED <<index, ttl, fails>>

SessionExpires(s) == DeleteSession(s)

IndexExpires(u) ==
    /\ ttl[u].brief
    /\ slipped' = slipped \union (index[u] \intersect LiveOf(u))
    /\ index' = [index EXCEPT ![u] = {}]
    /\ ttl' = [ttl EXCEPT ![u] = NoTtl]
    /\ UNCHANGED <<session, fails>>

\* The DEL of DeleteByUser: the sessions that SMEMBERS named, and the index.
\* Its callers ignore the error.
DeleteListed(u, ids) ==
    /\ \/ /\ NoFault
          /\ Drop(ids)
          /\ index' = [index EXCEPT ![u] = {}] /\ ttl' = [ttl EXCEPT ![u] = NoTtl]
       \/ /\ Fault
          /\ slipped' = slipped \union LiveOf(u)
          /\ UNCHANGED <<session, index, ttl>>
    /\ UNCHANGED fails

(***************************************************************************)
(* The limiter.  Blocked fails open when Redis does; Fail counts and starts *)
(* the window in one script.  k is a user and the name the login gave.      *)
(***************************************************************************)
\* Mutant: the limiter does not block.
NeverBlocked(k) == NoFault

NotBlocked(k) == IF fails[k].count < Threshold THEN NoFault ELSE Fault

Fail(k) ==
    /\ \/ /\ NoFault
          /\ fails' = [fails EXCEPT ![k] = [count |-> @.count + 1,
                                            expires |-> @.expires \/ @.count = 0]]
       \/ Fault /\ UNCHANGED fails
    /\ UNCHANGED <<session, index, ttl, slipped>>

Reset(k) ==
    /\ \/ NoFault /\ fails' = [fails EXCEPT ![k] = NoFails]
       \/ Fault /\ UNCHANGED fails
    /\ UNCHANGED <<session, index, ttl, slipped>>

WindowEnds(k) ==
    /\ fails[k].expires
    /\ fails' = [fails EXCEPT ![k] = NoFails]
    /\ UNCHANGED <<session, index, ttl, slipped>>
=============================================================================
