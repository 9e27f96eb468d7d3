-------------------------- MODULE MCAgentCommands --------------------------
(* Instances of AgentCommands for TLC. *)
EXTENDS AgentCommands, TLC

\* Sound for the safety run only.
Symmetry == Permutations(Commands) \union Permutations(Handlers)
=============================================================================
