--------------------------- MODULE MCSecretStore ---------------------------
(* Instances of SecretStore for TLC. *)
EXTENDS SecretStore

\* A credential with both fields set, and the key of a model gateway.
MCFull        == [password : Texts, apiKey : Texts]
MCCredentials == [password : Texts \union {Unset}, apiKey : Texts]

\* The passphrases are interchangeable: one of them is the first.
MCInit == Init /\ ActivePass(config) = CHOOSE p \in Passphrases : TRUE

MCFairSpec == MCInit /\ [][Next]_vars /\ Fairness
=============================================================================
