----------------------------- MODULE LeaderLease -------------------------------
(***************************************************************************)
(* The lease that singles out the replica whose background jobs run         *)
(* (internal/leader/leader.go): an advisory lock of the database, held by   *)
(* the session that took it until the session ends.  The lock itself is     *)
(* PostgreSQL's.                                                            *)
(***************************************************************************)
EXTENDS Naturals

CONSTANTS
    Replicas, NoReplica,
    MaxFaults \* bound on failures, lost answers and crashes

ASSUME NoReplicaAssumption == NoReplica \notin Replicas
ASSUME MaxFaultsAssumption == MaxFaults \in Nat

VARIABLES
    lock, \* the replica whose session holds the advisory lock
    conn, \* the connection that each lease keeps: PGLease.conn and its health
    faults

lease == <<lock, conn>>

NoFault == faults' = faults
Fault   == faults < MaxFaults /\ faults' = faults + 1

LeaseTypeOK ==
    /\ lock \in Replicas \union {NoReplica}
    /\ conn \in [Replicas -> {"nil", "live", "dead"}]
    /\ faults \in 0..MaxFaults

LeaseInit ==
    /\ lock = NoReplica
    /\ conn = [r \in Replicas |-> "nil"]

\* Mutant: a connection once obtained is not pinged again.
IsLeaderWithoutPing(r, yes) ==
    \/ /\ yes /\ conn[r] # "nil" /\ NoFault /\ UNCHANGED lease
    \/ /\ yes /\ conn[r] = "nil" /\ lock = NoReplica /\ NoFault
       /\ lock' = r /\ conn' = [conn EXCEPT ![r] = "live"]
    \/ /\ ~yes /\ conn[r] = "nil" /\ lock # NoReplica /\ NoFault
       /\ conn' = [conn EXCEPT ![r] = "nil"] /\ UNCHANGED lock

\* The answer yes of IsLeader: the connection is alive, or was dropped and the
\* lock is free; and no: another session holds it, or the database fails.
IsLeader(r, yes) ==
    \/ /\ yes /\ conn[r] = "live" /\ NoFault /\ UNCHANGED lease
    \/ /\ yes /\ conn[r] # "live" /\ lock = NoReplica /\ NoFault
       /\ lock' = r /\ conn' = [conn EXCEPT ![r] = "live"]
    \/ /\ ~yes /\ conn[r] # "live"
       /\ IF lock = NoReplica THEN Fault ELSE NoFault
       /\ conn' = [conn EXCEPT ![r] = "nil"] /\ UNCHANGED lock

\* The session ends, and with it the lock, without the replica noticing.
SessionEnds(r) ==
    /\ conn[r] = "live" /\ Fault
    /\ conn' = [conn EXCEPT ![r] = "dead"]
    /\ lock' = NoReplica

\* Release, and the death of the process.
Release(r) ==
    /\ lock' = IF conn[r] = "live" THEN NoReplica ELSE lock
    /\ conn' = [conn EXCEPT ![r] = "nil"]
=============================================================================
