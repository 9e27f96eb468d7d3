-------------------------------- MODULE MCAccess -------------------------------
(* An instance of Access for TLC. *)
EXTENDS Access, TLC

Symmetry == Permutations(Handlers) \union Permutations(Sessions) \union Permutations(Roles)
                \union Permutations(Passwords) \union Permutations(Names)

\* Only logins read the counters: while one is above zero only logins are served.
Guessing   == \E k \in Users \X Names : fails[k].count > 0
OnlyLogins == \A h \in Handlers : handler[h].pc \in {"idle", "verify", "store", "index"}

MCSpec == Init /\ [][Next /\ (Guessing => OnlyLogins)']_vars
=============================================================================
