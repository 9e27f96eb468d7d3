---------------------------- MODULE SecretStore ----------------------------
(***************************************************************************)
(* The encrypted secret store (internal/secrets): credentials sealed in the *)
(* table platform_secrets under one of several configured keys, and the     *)
(* rotation workers, one per replica, that seal them again under the active *)
(* key.  Every replica runs with the same key configuration; the operator   *)
(* changes it by restarting the fleet.                                      *)
(*                                                                          *)
(* An envelope stands for its bytes: the key id it embeds, the passphrase   *)
(* its key is derived from and the text.  It opens under that passphrase    *)
(* and under no other.  One of an older release embeds no id but starts with *)
(* its random nonce: when the nonce starts with the byte that marks the new *)
(* format, one time in 256, the envelope is taken for a new one, its id is  *)
(* Misread, and it never opens.  User names are in clear and left out.      *)
(***************************************************************************)
EXTENDS Naturals, FiniteSets

CONSTANTS
    Ids,        \* key ids
    Default,    \* the id of single-key mode and of rows older than rotation
    Passphrases,
    Texts,      \* passwords and API keys
    Unset,      \* the empty string
    Credentials,\* the credentials that callers put
    Refs,       \* secret refs; a ref is used once
    Workers,    \* rotation workers
    NoRef, NoEnvelope, NoCredential, Version0, Misread, Failed,
    BatchSize,  \* RotationBatchSize
    MaxFaults,  \* bound on failed database calls of the workers
    MaxRestarts \* bound on restarts of the fleet

ASSUME DefaultAssumption ==
    Default \in Ids /\ {Version0, Misread} \intersect Ids = {} /\ Version0 # Misread
ASSUME NullsAssumption ==
    /\ Unset \notin Texts /\ NoRef \notin Refs
    /\ NoEnvelope \notin [id : Ids \union {Version0, Misread}, pass : Passphrases, text : Texts]
    /\ {Failed, NoCredential} \intersect
          [password : Texts \union {Unset}, apiKey : Texts \union {Unset}] = {}
ASSUME CredentialsAssumption ==
    Credentials \subseteq [password : Texts \union {Unset}, apiKey : Texts \union {Unset}]
ASSUME BoundsAssumption ==
    MaxFaults \in Nat /\ MaxRestarts \in Nat /\ BatchSize \in Nat \ {0}

VARIABLES
    config,     \* the keys all replicas run with, and the active one
    secret,     \* the table platform_secrets
    truth,      \* history: the credential each used ref was put with
    worker,     \* local state of each rotation worker
    faults, restarts

vars == <<config, secret, truth, worker, faults, restarts>>

(***************************************************************************)
(* Configurations: SECRETS_ENCRYPTION_KEY is one passphrase under Default,  *)
(* SECRETS_ENCRYPTION_KEYS any map with an active id.                       *)
(***************************************************************************)
KeyMaps == UNION {[S -> Passphrases] : S \in SUBSET Ids}

Configs == {c \in [keys : KeyMaps, active : Ids] : c.active \in DOMAIN c.keys}

SingleKey == {c \in Configs : DOMAIN c.keys = {Default}}

ActivePass(c) == c.keys[c.active]

(***************************************************************************)
(* Envelopes                                                                *)
(***************************************************************************)
Credential == [password : Texts \union {Unset}, apiKey : Texts \union {Unset}]
Envelope   == [id : Ids \union {Version0, Misread}, pass : Passphrases, text : Texts]
                  \union {NoEnvelope}

\* encryptWith
Seal(text, id, pass) ==
    IF text = Unset THEN NoEnvelope ELSE [id |-> id, pass |-> pass, text |-> text]

\* decryptWith: whether it succeeds, the text, and the key id it reports, which
\* is Default for an envelope without one and for the empty string.
Opens(e, pass) == e # NoEnvelope => e.id # Misread /\ e.pass = pass
TextOf(e)      == IF e = NoEnvelope THEN Unset ELSE e.text
IdOf(e)        == IF e = NoEnvelope \/ e.id = Version0 THEN Default ELSE e.id

NoSecret == [keyId |-> Default, password |-> NoEnvelope, apiKey |-> NoEnvelope, stored |-> FALSE]

SecretRecord == [keyId : Ids, password : Envelope, apiKey : Envelope, stored : BOOLEAN]

SealedRow(cred, id, pass) ==
    [keyId |-> id, password |-> Seal(cred.password, id, pass),
     apiKey |-> Seal(cred.apiKey, id, pass), stored |-> TRUE]

\* Whether both envelopes of a row open, and the credential they hold.
RowOpens(row) ==
    /\ row.keyId \in DOMAIN config.keys
    /\ Opens(row.password, config.keys[row.keyId])
    /\ Opens(row.apiKey, config.keys[row.keyId])

Contents(row) == [password |-> TextOf(row.password), apiKey |-> TextOf(row.apiKey)]

\* No key opens a row with such a field, and no worker seals it again.
Lost(row) == \E e \in {row.password, row.apiKey} : e # NoEnvelope /\ e.id = Misread

\* Resolve of a stored row: both envelopes must report the row's key id.
Resolve(row) ==
    IF RowOpens(row) /\ IdOf(row.password) = row.keyId /\ IdOf(row.apiKey) = row.keyId
    THEN Contents(row) ELSE Failed

(***************************************************************************)
(* States                                                                   *)
(***************************************************************************)
Idle == [pc |-> "idle", todo |-> {}, ref |-> NoRef, new |-> NoSecret]

WorkerRecord ==
    [pc : {"idle", "load", "save"}, todo : SUBSET Refs, ref : Refs \union {NoRef},
     new : SecretRecord]

TypeOK ==
    /\ config \in Configs
    /\ secret \in [Refs -> SecretRecord]
    /\ truth \in [Refs -> Credential \union {NoCredential}]
    /\ worker \in [Workers -> WorkerRecord]
    /\ \A w \in Workers : worker[w].pc = "save" => worker[w].ref \in Refs
    /\ faults \in 0..MaxFaults
    /\ restarts \in 0..MaxRestarts

\* The rows of a release without rotation: envelopes without a key id, whose
\* nonces were drawn when they were sealed.
LegacyEnvelopes(text, pass) ==
    IF text = Unset THEN {NoEnvelope}
    ELSE [id : {Version0, Misread}, pass : {pass}, text : {text}]

LegacyRows(cred, pass) ==
    [keyId : {Default}, password : LegacyEnvelopes(cred.password, pass),
     apiKey : LegacyEnvelopes(cred.apiKey, pass), stored : {TRUE}]

\* What the store may start with.
RowsFor(cred, pass) == IF cred = NoCredential THEN {NoSecret} ELSE LegacyRows(cred, pass)

Init ==
    /\ config \in SingleKey
    /\ truth \in [Refs -> Credentials \union {NoCredential}]
    /\ secret \in [Refs -> UNION {RowsFor(truth[r], ActivePass(config)) : r \in Refs}]
    /\ \A r \in Refs : secret[r] \in RowsFor(truth[r], ActivePass(config))
    /\ worker = [w \in Workers |-> Idle]
    /\ faults = 0
    /\ restarts = 0

At(w, pc) == worker[w].pc = pc
Fault     == faults < MaxFaults /\ faults' = faults + 1
NoFault   == faults' = faults

(***************************************************************************)
(* Put and Delete                                                           *)
(***************************************************************************)
PutRow(cred) == SealedRow(cred, config.active, ActivePass(config))

Put(r, cred) ==
    /\ truth[r] = NoCredential
    /\ secret' = [secret EXCEPT ![r] = PutRow(cred)]
    /\ truth' = [truth EXCEPT ![r] = cred]
    /\ UNCHANGED <<config, worker, faults, restarts>>

Delete(r) ==
    /\ secret[r].stored
    /\ secret' = [secret EXCEPT ![r] = NoSecret]
    /\ UNCHANGED <<config, truth, worker, faults, restarts>>

(***************************************************************************)
(* The rotation worker: a batch of rows that are not under the active key,  *)
(* in the database's order, then Reencrypt, a read and a write, for each.   *)
(***************************************************************************)
OffKey == {r \in Refs : secret[r].stored /\ secret[r].keyId # config.active}

Scan(w) ==
    /\ At(w, "idle")
    /\ OffKey # {}
    /\ \/ \E batch \in SUBSET OffKey :
             /\ \/ Cardinality(batch) = BatchSize
                \/ batch = OffKey /\ Cardinality(batch) < BatchSize
             /\ worker' = [worker EXCEPT ![w] = [Idle EXCEPT !.pc = "load", !.todo = batch]]
             /\ NoFault
       \/ UNCHANGED worker /\ Fault
    /\ UNCHANGED <<config, secret, truth, restarts>>

\* Whether the row that Reencrypt read is sealed again; it is not when it is
\* gone, is under the active key by now, or cannot be decrypted.
Migrates(r) == r \in OffKey /\ RowOpens(secret[r])

\* Mutant: the fields are sealed again but the key id stays.
ResealedKeepingId(r) ==
    [SealedRow(Contents(secret[r]), config.active, ActivePass(config))
        EXCEPT !.keyId = secret[r].keyId]

\* Mutant: the fields are tagged with the active id but keep the old key.
ResealedUnderOldKey(r) ==
    SealedRow(Contents(secret[r]), config.active, config.keys[secret[r].keyId])

Resealed(r) == SealedRow(Contents(secret[r]), config.active, ActivePass(config))

ReencryptLoad(w) ==
    /\ At(w, "load")
    /\ \E r \in worker[w].todo :
          \/ /\ Migrates(r)
             /\ worker' = [worker EXCEPT ![w] = [pc |-> "save", todo |-> worker[w].todo \ {r},
                                                ref |-> r, new |-> Resealed(r)]]
             /\ NoFault
          \/ /\ (~Migrates(r) /\ NoFault) \/ Fault
             /\ worker' = [worker EXCEPT ![w].todo = @ \ {r}]
    /\ UNCHANGED <<config, secret, truth, restarts>>

\* Mutant: the row is inserted when it is not there.
ReencryptUpsert(w) ==
    /\ At(w, "save")
    /\ secret' = [secret EXCEPT ![worker[w].ref] = worker[w].new]
    /\ worker' = [worker EXCEPT ![w] = [Idle EXCEPT !.pc = "load", !.todo = worker[w].todo]]
    /\ UNCHANGED <<config, truth, faults, restarts>>

ReencryptSave(w) ==
    /\ At(w, "save")
    /\ LET r == worker[w].ref
       IN  \/ secret[r].stored /\ secret' = [secret EXCEPT ![r] = worker[w].new] /\ NoFault
           \/ ~secret[r].stored /\ UNCHANGED secret /\ NoFault
           \/ UNCHANGED secret /\ Fault
    /\ worker' = [worker EXCEPT ![w] = [Idle EXCEPT !.pc = "load", !.todo = worker[w].todo]]
    /\ UNCHANGED <<config, truth, restarts>>

ScanDone(w) ==
    /\ At(w, "load") /\ worker[w].todo = {}
    /\ worker' = [worker EXCEPT ![w] = Idle]
    /\ UNCHANGED <<config, secret, truth, faults, restarts>>

(***************************************************************************)
(* The operator stops the fleet and starts it with other keys.  Those that  *)
(* rows are sealed under stay in the list, under their id.                  *)
(***************************************************************************)
KeepsKeysInUse(keys) ==
    \A r \in Refs : secret[r].stored =>
        /\ secret[r].keyId \in DOMAIN keys
        /\ keys[secret[r].keyId] = config.keys[secret[r].keyId]

\* Mutant: the active id is not looked up in the configured keys.
AcceptsAnyActive(keys, active) == keys # <<>> /\ active \in Ids

\* NewDBStoreWithKeys: what the server starts with.
Accepts(keys, active) == active \in DOMAIN keys

Restart ==
    /\ restarts < MaxRestarts /\ restarts' = restarts + 1
    /\ \E keys \in KeyMaps, active \in Ids :
          /\ Accepts(keys, active)
          /\ KeepsKeysInUse(keys)
          /\ config' = [keys |-> keys, active |-> active]
    /\ worker' = [w \in Workers |-> Idle]
    /\ UNCHANGED <<secret, truth, faults>>

WorkerStep(w) == Scan(w) \/ ReencryptLoad(w) \/ ReencryptSave(w) \/ ScanDone(w)

Next ==
    \/ \E r \in Refs : (\E cred \in Credentials : Put(r, cred)) \/ Delete(r)
    \/ \E w \in Workers : WorkerStep(w)
    \/ Restart

\* The ticker of a worker keeps ticking and a cycle runs to its end.
Fairness == \A w \in Workers : WF_vars(WorkerStep(w))

Spec     == Init /\ [][Next]_vars
FairSpec == Spec /\ Fairness
-----------------------------------------------------------------------------
\* Resolve returns, for every stored ref, what was put under it, through every
\* restart and while workers on several replicas seal rows again; but for the
\* credentials with an unset field that are under another key than Default, and
\* for the rows of the older release that are taken for new ones.  Those it
\* answers with an error, never with another text (crypto.go:82-86).
SecretsSurvive ==
    \A r \in Refs :
        secret[r].stored =>
            /\ Resolve(secret[r]) \in {truth[r], Failed}
            /\ (\/ secret[r].keyId = Default
                \/ Unset \notin {truth[r].password, truth[r].apiKey})
                  => (Lost(secret[r]) \/ Resolve(secret[r]) = truth[r])

\* "Empty plaintext stays empty (a field not set reads as empty without needing
\* to decrypt)": the same for every credential.
UnsetFieldsReadEmpty ==
    \A r \in Refs :
        (secret[r].stored /\ ~Lost(secret[r])) => Resolve(secret[r]) = truth[r]

\* A rotation that overlaps a deletion does not bring the secret back.
DeletedStaysDeleted ==
    [][\A r \in Refs : (truth[r] # NoCredential /\ ~secret[r].stored) => ~secret'[r].stored]_vars

\* Every row under a retired key comes to be under the active one, so that the
\* operator can drop the retired key: no row is passed over for ever, whatever
\* the batches and whichever worker got there first.  But for the rows that are
\* lost; and once these fill a batch, which is drawn in no order, they may keep
\* the others out (rotation.go:72-75).
Crowded == Cardinality({r \in OffKey : Lost(secret[r])}) >= BatchSize

RowsMigrate ==
    \A r \in Refs : (r \in OffKey /\ ~Lost(secret[r])) ~> (r \notin OffKey \/ Crowded)
=============================================================================
