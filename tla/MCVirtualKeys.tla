--------------------------- MODULE MCVirtualKeys ---------------------------
(* Instances of VirtualKeys for TLC. *)
EXTENDS VirtualKeys, TLC

\* Sound for the safety runs only.
Symmetry == Permutations(Rows) \union Permutations(Keys) \union Permutations(Handlers)
                \union Permutations(Names)
=============================================================================
