----------------------------- MODULE MCPoolSync -----------------------------
(* Instances of PoolSync for TLC. *)
EXTENDS PoolSync, TLC

CONSTANTS ra, rb, ticker, manual, first

\* The ticker and the first sync in one process, the manual sync in another.
MCReplicaOf == (ticker :> ra) @@ (first :> ra) @@ (manual :> rb)
=============================================================================
