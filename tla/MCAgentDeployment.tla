-------------------------- MODULE MCAgentDeployment --------------------------
(* Instances of AgentDeployment for TLC. *)
EXTENDS AgentDeployment

CONSTANTS a1, a2

\* Every kind of deployment of a1, and one of a2 that competes for the spare key.
MCAllPlans == {<<a1, mode, key>> : mode \in Modes, key \in {a1, Spare}} \union {<<a2, "full", Spare>>}

\* Two full deployments that reuse the spare key.
MCReusePlans == {a1, a2} \X {"full"} \X {Spare}
=============================================================================
