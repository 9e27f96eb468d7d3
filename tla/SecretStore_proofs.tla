------------------------- MODULE SecretStore_proofs -------------------------
(* Theorems about SecretStore, for every value of its constants. *)
EXTENDS SecretStore, TLAPS

LEMMA Envelopes ==
    /\ NoEnvelope \in Envelope
    /\ \A t \in Texts \union {Unset}, i \in Ids, p \in Passphrases :
          /\ Seal(t, i, p) \in Envelope
          /\ Opens(Seal(t, i, p), p) /\ TextOf(Seal(t, i, p)) = t
          /\ Seal(t, i, p) = NoEnvelope \/ (IdOf(Seal(t, i, p)) = i /\ Seal(t, i, p).id # Misread)
    /\ \A e \in Envelope : TextOf(e) \in Texts \union {Unset} /\ (e = NoEnvelope <=> TextOf(e) = Unset)
BY NullsAssumption, DefaultAssumption DEF Envelope, Seal, Opens, TextOf, IdOf

LEMMA LegacyOnes ==
    ASSUME NEW t \in Texts \union {Unset}, NEW p \in Passphrases, NEW e \in LegacyEnvelopes(t, p)
    PROVE  /\ e \in Envelope /\ TextOf(e) = t
           /\ \/ e # NoEnvelope /\ e.id = Misread
              \/ Opens(e, p) /\ IdOf(e) = Default
<1>1. CASE t = Unset
  <2>1. e = NoEnvelope
    BY <1>1 DEF LegacyEnvelopes
  <2> QED BY <1>1, <2>1 DEF Envelope, Opens, TextOf, IdOf
<1>2. CASE t # Unset
  <2>1. e \in [id : {Version0, Misread}, pass : {p}, text : {t}] /\ t \in Texts
    BY <1>2 DEF LegacyEnvelopes
  <2>2. e \in [id : Ids \union {Version0, Misread}, pass : Passphrases, text : Texts]
    BY <2>1
  <2>3. e # NoEnvelope /\ e \in Envelope
    BY <2>2, NullsAssumption DEF Envelope
  <2> QED BY <2>1, <2>3 DEF Opens, TextOf, IdOf
<1> QED BY <1>1, <1>2

LEMMA ConfigShape ==
    ASSUME TypeOK
    PROVE  /\ config.active \in Ids /\ config.active \in DOMAIN config.keys
           /\ ActivePass(config) \in Passphrases
           /\ \A i \in DOMAIN config.keys : i \in Ids /\ config.keys[i] \in Passphrases
<1>1. config \in Configs
  BY DEF TypeOK
<1>2. PICK S \in SUBSET Ids : config.keys \in [S -> Passphrases]
  BY <1>1 DEF Configs, KeyMaps
<1> QED BY <1>1, <1>2 DEF Configs, ActivePass

LEMMA RowTypes ==
    ASSUME NEW cred \in Credential, NEW i \in Ids, NEW p \in Passphrases
    PROVE  /\ SealedRow(cred, i, p) \in SecretRecord
           /\ LegacyRows(cred, p) \subseteq SecretRecord
           /\ NoSecret \in SecretRecord
<1>1. LegacyEnvelopes(cred.password, p) \subseteq Envelope /\ LegacyEnvelopes(cred.apiKey, p) \subseteq Envelope
  BY LegacyOnes DEF Credential
<1> QED BY <1>1, Envelopes, DefaultAssumption
        DEF SealedRow, LegacyRows, NoSecret, SecretRecord, Credential

LEMMA ContentsType == \A row \in SecretRecord : Contents(row) \in Credential
BY Envelopes DEF Contents, Credential, SecretRecord

LEMMA NoSecretType == NoSecret \in SecretRecord
BY Envelopes, DefaultAssumption DEF NoSecret, SecretRecord

LEMMA CredentialsTyped == Credentials \subseteq Credential /\ NoCredential \notin Credential
BY CredentialsAssumption, NullsAssumption DEF Credential

LEMMA TypeInit == Init => TypeOK
<1> SUFFICES ASSUME Init PROVE TypeOK
  OBVIOUS
<1>1. config \in Configs /\ ActivePass(config) \in Passphrases
  <2>1. config \in Configs
    BY DEF Init, SingleKey
  <2>2. PICK S \in SUBSET Ids : config.keys \in [S -> Passphrases]
    BY <2>1 DEF Configs, KeyMaps
  <2> QED BY <2>1, <2>2 DEF Configs, ActivePass
<1>2. truth \in [Refs -> Credential \union {NoCredential}]
  BY CredentialsTyped DEF Init
<1>3. secret \in [Refs -> SecretRecord]
  <2>1. \A r \in Refs : RowsFor(truth[r], ActivePass(config)) \subseteq SecretRecord
    BY <1>1, <1>2, RowTypes, NoSecretType, DefaultAssumption DEF RowsFor
  <2>2. \A r \in Refs : secret[r] \in SecretRecord
    BY <2>1 DEF Init
  <2> QED BY <2>2 DEF Init
<1>4. worker \in [Workers -> WorkerRecord]
  BY NoSecretType DEF Init, Idle, WorkerRecord
<1>5. \A w \in Workers : worker[w].pc = "idle"
  BY DEF Init, Idle
<1> QED BY <1>1, <1>2, <1>3, <1>4, <1>5, BoundsAssumption DEF TypeOK, Init

LEMMA FaultType ==
    ASSUME TypeOK, NoFault \/ Fault
    PROVE  faults' \in 0..MaxFaults
BY BoundsAssumption DEF TypeOK, NoFault, Fault

LEMMA TypeStep == TypeOK /\ [Next]_vars => TypeOK'
<1> SUFFICES ASSUME TypeOK, [Next]_vars PROVE TypeOK'
  OBVIOUS
<1> USE DEF At
<1>1. ASSUME NEW r \in Refs, NEW cred \in Credentials, Put(r, cred) PROVE TypeOK'
  <2>1. PutRow(cred) \in SecretRecord
    BY CredentialsTyped, ConfigShape, RowTypes DEF PutRow
  <2> QED BY <1>1, <2>1, CredentialsTyped DEF Put, TypeOK
<1>2. ASSUME NEW r \in Refs, Delete(r) PROVE TypeOK'
  BY <1>2, NoSecretType DEF Delete, TypeOK
<1>3. ASSUME NEW w \in Workers, Scan(w) PROVE TypeOK'
  <2>1. \A batch \in SUBSET Refs : [Idle EXCEPT !.pc = "load", !.todo = batch] \in WorkerRecord
    BY NoSecretType DEF Idle, WorkerRecord
  <2>2. OffKey \subseteq Refs
    BY DEF OffKey
  <2>3. worker' \in [Workers -> WorkerRecord]
    BY <1>3, <2>1, <2>2 DEF Scan, TypeOK
  <2>4. \A v \in Workers : worker'[v].pc = "save" => worker'[v] = worker[v]
    BY <1>3 DEF Scan, TypeOK, Idle
  <2>5. /\ NoFault \/ Fault
        /\ UNCHANGED <<config, secret, truth, restarts>>
    BY <1>3 DEF Scan
  <2> QED BY <2>3, <2>4, <2>5, FaultType DEF TypeOK
<1>4. ASSUME NEW w \in Workers, ReencryptLoad(w) PROVE TypeOK'
  <2>1. worker[w] \in WorkerRecord
    BY DEF TypeOK
  <2>2. \A r \in worker[w].todo : r \in Refs /\ Resealed(r) \in SecretRecord
    BY <2>1, ContentsType, ConfigShape, RowTypes DEF Resealed, TypeOK, WorkerRecord
  <2>3. \A r \in worker[w].todo :
          /\ [pc |-> "save", todo |-> worker[w].todo \ {r}, ref |-> r, new |-> Resealed(r)] \in WorkerRecord
          /\ [worker[w] EXCEPT !.todo = @ \ {r}] \in WorkerRecord
    BY <2>1, <2>2 DEF WorkerRecord
  <2>4. worker' \in [Workers -> WorkerRecord]
    BY <1>4, <2>3 DEF ReencryptLoad, TypeOK
  <2>5. ASSUME NEW v \in Workers, worker'[v].pc = "save" PROVE worker'[v].ref \in Refs
    <3>1. CASE worker'[v] = worker[v]
      BY <2>5, <3>1 DEF TypeOK
    <3>2. CASE worker'[v] # worker[v]
      <4>1. \A r \in worker[w].todo : [worker[w] EXCEPT !.todo = @ \ {r}].pc = "load"
        BY <1>4, <2>1 DEF ReencryptLoad, WorkerRecord
      <4>2. PICK r \in worker[w].todo :
               worker'[v] = [pc |-> "save", todo |-> worker[w].todo \ {r}, ref |-> r, new |-> Resealed(r)]
        BY <1>4, <2>5, <3>2, <4>1 DEF ReencryptLoad, TypeOK
      <4> QED BY <2>2, <4>2
    <3> QED BY <3>1, <3>2
  <2>6. /\ NoFault \/ Fault
        /\ UNCHANGED <<config, secret, truth, restarts>>
    BY <1>4 DEF ReencryptLoad
  <2> QED BY <2>4, <2>5, <2>6, FaultType DEF TypeOK
<1>5. ASSUME NEW w \in Workers, ReencryptSave(w) PROVE TypeOK'
  <2>1. worker[w] \in WorkerRecord /\ worker[w].ref \in Refs
    BY <1>5 DEF ReencryptSave, TypeOK
  <2>2. [Idle EXCEPT !.pc = "load", !.todo = worker[w].todo] \in WorkerRecord
    BY <2>1, NoSecretType DEF Idle, WorkerRecord
  <2>3. worker' \in [Workers -> WorkerRecord]
    BY <1>5, <2>2 DEF ReencryptSave, TypeOK
  <2>4. \A v \in Workers : worker'[v].pc = "save" => worker'[v] = worker[v]
    BY <1>5 DEF ReencryptSave, TypeOK, Idle
  <2>5. secret' \in [Refs -> SecretRecord]
    BY <1>5, <2>1 DEF ReencryptSave, TypeOK, WorkerRecord
  <2> QED BY <1>5, <2>3, <2>4, <2>5, BoundsAssumption DEF ReencryptSave, TypeOK, NoFault, Fault
<1>6. ASSUME NEW w \in Workers, ScanDone(w) PROVE TypeOK'
  BY <1>6, NoSecretType DEF ScanDone, TypeOK, Idle, WorkerRecord
<1>7. ASSUME Restart PROVE TypeOK'
  <2>1. config' \in Configs
    BY <1>7 DEF Restart, Accepts, Configs
  <2>2. worker' \in [Workers -> WorkerRecord] /\ \A w \in Workers : worker'[w].pc = "idle"
    BY <1>7, NoSecretType DEF Restart, Idle, WorkerRecord
  <2> QED BY <1>7, <2>1, <2>2, BoundsAssumption DEF Restart, TypeOK
<1>8. CASE UNCHANGED vars
  BY <1>8 DEF TypeOK, vars
<1> QED BY <1>1, <1>2, <1>3, <1>4, <1>5, <1>6, <1>7, <1>8 DEF Next, WorkerStep

\* Every row, configuration and worker keeps its type.
THEOREM TypeCorrect == Spec => []TypeOK
BY TypeInit, TypeStep, PTL DEF Spec

(***************************************************************************)
(* A row that holds a credential: its key is configured and, unless the row *)
(* is lost, it opens under that key and its envelopes report the key's id,  *)
(* or are absent.                                                           *)
(***************************************************************************)
Holds(row, cred) ==
    /\ row.stored
    /\ Contents(row) = cred
    /\ \/ Lost(row)
       \/ /\ RowOpens(row)
          /\ row.password = NoEnvelope \/ IdOf(row.password) = row.keyId
          /\ row.apiKey = NoEnvelope \/ IdOf(row.apiKey) = row.keyId

Sealed ==
    /\ \A r \in Refs : secret[r].stored => truth[r] # NoCredential /\ Holds(secret[r], truth[r])
    /\ \A w \in Workers : At(w, "save") =>
          truth[worker[w].ref] # NoCredential /\ Holds(worker[w].new, truth[worker[w].ref])

\* What is sealed under the active key holds what was sealed.
LEMMA SealedHolds ==
    ASSUME TypeOK, NEW cred \in Credential
    PROVE  Holds(SealedRow(cred, config.active, ActivePass(config)), cred)
<1> DEFINE row == SealedRow(cred, config.active, ActivePass(config))
<1>1. /\ row.keyId = config.active /\ row.stored
      /\ row.password = Seal(cred.password, config.active, ActivePass(config))
      /\ row.apiKey = Seal(cred.apiKey, config.active, ActivePass(config))
  BY DEF SealedRow
<1>2. cred = [password |-> cred.password, apiKey |-> cred.apiKey]
      /\ cred.password \in Texts \union {Unset} /\ cred.apiKey \in Texts \union {Unset}
  BY DEF Credential
<1> HIDE DEF row
<1>3. RowOpens(row)
  BY <1>1, <1>2, ConfigShape, Envelopes DEF RowOpens, ActivePass
<1>4. Contents(row) = cred
  BY <1>1, <1>2, ConfigShape, Envelopes DEF Contents
<1> QED BY <1>1, <1>2, <1>3, <1>4, ConfigShape, Envelopes DEF Holds, row

LEMMA SealedInit == Init => Sealed
<1> SUFFICES ASSUME Init PROVE Sealed
  OBVIOUS
<1>1. TypeOK
  BY TypeInit
<1>2. \A w \in Workers : ~At(w, "save")
  BY DEF Init, Idle, At
<1>3. ASSUME NEW r \in Refs, secret[r].stored
      PROVE  truth[r] # NoCredential /\ Holds(secret[r], truth[r])
  <2>1. truth[r] # NoCredential /\ secret[r] \in LegacyRows(truth[r], ActivePass(config))
    BY <1>3 DEF Init, NoSecret, RowsFor
  <2>2. truth[r] \in Credential
    BY <1>1, <2>1 DEF TypeOK
  <2> DEFINE cred == truth[r]
  <2>3. cred = [password |-> cred.password, apiKey |-> cred.apiKey]
        /\ cred.password \in Texts \union {Unset} /\ cred.apiKey \in Texts \union {Unset}
    BY <2>2 DEF Credential
  <2>4. /\ secret[r].keyId = Default
        /\ secret[r].password \in LegacyEnvelopes(cred.password, ActivePass(config))
        /\ secret[r].apiKey \in LegacyEnvelopes(cred.apiKey, ActivePass(config))
    BY <2>1 DEF LegacyRows
  <2>5. DOMAIN config.keys = {Default} /\ config.active = Default /\ ActivePass(config) \in Passphrases
    BY ConfigShape, <1>1 DEF Init, SingleKey
  <2>6. ASSUME NEW t \in Texts \union {Unset}, NEW e \in LegacyEnvelopes(t, ActivePass(config))
        PROVE  /\ TextOf(e) = t
               /\ (e # NoEnvelope /\ e.id = Misread) \/ (Opens(e, ActivePass(config)) /\ IdOf(e) = Default)
    BY <2>5, LegacyOnes
  <2>7. CASE Lost(secret[r])
    BY <1>3, <2>1, <2>3, <2>4, <2>6, <2>7 DEF Holds, Contents
  <2>8. CASE ~Lost(secret[r])
    <3>1. /\ Opens(secret[r].password, ActivePass(config)) /\ IdOf(secret[r].password) = Default
          /\ Opens(secret[r].apiKey, ActivePass(config)) /\ IdOf(secret[r].apiKey) = Default
      BY <2>3, <2>4, <2>6, <2>8 DEF Lost
    <3>2. RowOpens(secret[r])
      BY <2>4, <2>5, <3>1 DEF RowOpens, ActivePass
    <3>3. Contents(secret[r]) = cred
      BY <2>3, <2>4, <2>6 DEF Contents
    <3> QED BY <1>3, <2>1, <2>4, <3>1, <3>2, <3>3 DEF Holds
  <2> QED BY <2>7, <2>8
<1> QED BY <1>2, <1>3 DEF Sealed

LEMMA SealedStep == TypeOK /\ Sealed /\ [Next]_vars => Sealed'
<1> SUFFICES ASSUME TypeOK, Sealed, [Next]_vars PROVE Sealed'
  OBVIOUS
<1>1. ASSUME NEW r \in Refs, NEW cred \in Credentials, Put(r, cred) PROVE Sealed'
  <2>1. Holds(PutRow(cred), cred) /\ cred # NoCredential
    BY SealedHolds, CredentialsTyped DEF PutRow
  <2>2. \A w \in Workers : At(w, "save") => worker[w].ref # r /\ worker[w].ref \in Refs
    BY <1>1 DEF Put, Sealed, TypeOK, At
  <2> QED BY <1>1, <2>1, <2>2 DEF Put, Sealed, TypeOK, At, Holds, RowOpens
<1>2. ASSUME NEW r \in Refs, Delete(r) PROVE Sealed'
  BY <1>2 DEF Delete, Sealed, TypeOK, At, Holds, RowOpens, NoSecret
<1>3. ASSUME NEW w \in Workers, Scan(w) \/ ScanDone(w) PROVE Sealed'
  <2>1. UNCHANGED <<config, secret, truth>>
    BY <1>3 DEF Scan, ScanDone
  <2>2. \/ worker' = worker \/ worker' = [worker EXCEPT ![w] = Idle]
        \/ \E batch \in SUBSET OffKey :
              worker' = [worker EXCEPT ![w] = [Idle EXCEPT !.pc = "load", !.todo = batch]]
    BY <1>3 DEF Scan, ScanDone
  <2>3. \A v \in Workers : worker'[v] = worker[v] \/ worker'[v].pc # "save"
    <3>1. \/ worker' = worker
          \/ \E x : worker' = [worker EXCEPT ![w] = x] /\ x.pc \in {"idle", "load"}
      <4>1. Idle.pc = "idle"
        BY DEF Idle
      <4>2. \A batch \in SUBSET OffKey : [Idle EXCEPT !.pc = "load", !.todo = batch].pc = "load"
        BY DEF Idle
      <4> QED BY <2>2, <4>1, <4>2, Zenon
    <3> QED BY <3>1 DEF TypeOK
  <2>4. ASSUME NEW v \in Workers, At(v, "save")' PROVE At(v, "save") /\ worker'[v] = worker[v]
    BY <2>3, <2>4 DEF At
  <2> QED BY <2>1, <2>4 DEF Sealed, Holds, RowOpens
<1>4. ASSUME NEW w \in Workers, ReencryptLoad(w) PROVE Sealed'
  <2>1. ASSUME NEW v \in Workers, At(v, "save")', worker'[v] # worker[v]
        PROVE  /\ truth[worker'[v].ref] # NoCredential
               /\ Holds(worker'[v].new, truth[worker'[v].ref])
    <3>1. PICK r \in worker[w].todo :
             /\ Migrates(r)
             /\ worker'[v] = [pc |-> "save", todo |-> worker[w].todo \ {r}, ref |-> r, new |-> Resealed(r)]
      <4>1. worker[w] \in WorkerRecord
        BY DEF TypeOK
      <4>2. \A r \in worker[w].todo : [worker[w] EXCEPT !.todo = @ \ {r}].pc = "load"
        BY <4>1, <1>4 DEF ReencryptLoad, At, WorkerRecord
      <4> QED BY <1>4, <2>1, <4>2 DEF ReencryptLoad, TypeOK, At
    <3>2. r \in Refs /\ secret[r].stored
      BY <3>1 DEF Migrates, OffKey
    <3>3. truth[r] # NoCredential /\ Contents(secret[r]) = truth[r]
      BY <3>2 DEF Sealed, Holds
    <3>4. truth[r] \in Credential
      BY <3>2, <3>3 DEF TypeOK
    <3>5. Holds(Resealed(r), truth[r])
      BY <3>3, <3>4, SealedHolds DEF Resealed
    <3> QED BY <3>1, <3>3, <3>5
  <2> QED BY <1>4, <2>1 DEF ReencryptLoad, Sealed, At, Holds, RowOpens
<1>5. ASSUME NEW w \in Workers, ReencryptSave(w) PROVE Sealed'
  <2>1. \A v \in Workers : At(v, "save")' => worker'[v] = worker[v]
    BY <1>5 DEF ReencryptSave, TypeOK, At, Idle
  <2>2. At(w, "save") /\ worker[w].ref \in Refs
    BY <1>5 DEF ReencryptSave, TypeOK, At
  <2> QED BY <1>5, <2>1, <2>2 DEF ReencryptSave, Sealed, TypeOK, At, Holds, RowOpens
<1>6. ASSUME Restart PROVE Sealed'
  <2>1. \A w \in Workers : ~At(w, "save")'
    BY <1>6 DEF Restart, At, Idle
  <2>2. \A r \in Refs : secret[r].stored =>
           config'.keys[secret[r].keyId] = config.keys[secret[r].keyId] /\ secret[r].keyId \in DOMAIN config'.keys
    BY <1>6 DEF Restart, KeepsKeysInUse
  <2> QED BY <1>6, <2>1, <2>2 DEF Restart, Sealed, Holds, RowOpens
<1>7. CASE UNCHANGED vars
  BY <1>7 DEF vars, Sealed, At, Holds, RowOpens
<1> QED BY <1>1, <1>2, <1>3, <1>4, <1>5, <1>6, <1>7 DEF Next, WorkerStep

\* While every key that rows are under stays configured, no restart and no
\* rotation loses a credential that has both fields, or is under Default; a row
\* of the older release that is taken for a new one answers with an error.
THEOREM SecretsOutliveRotations == Spec => []SecretsSurvive
<1>1. TypeOK /\ Sealed => SecretsSurvive
  <2> SUFFICES ASSUME TypeOK, Sealed, NEW r \in Refs, secret[r].stored
               PROVE  /\ Resolve(secret[r]) \in {truth[r], Failed}
                      /\ (\/ secret[r].keyId = Default
                          \/ Unset \notin {truth[r].password, truth[r].apiKey})
                            => (Lost(secret[r]) \/ Resolve(secret[r]) = truth[r])
    BY DEF SecretsSurvive
  <2>1. Holds(secret[r], truth[r])
    BY DEF Sealed
  <2>2. secret[r] \in SecretRecord
    BY DEF TypeOK
  <2>3. truth[r].password = TextOf(secret[r].password) /\ truth[r].apiKey = TextOf(secret[r].apiKey)
    BY <2>1 DEF Holds, Contents
  <2>4. Resolve(secret[r]) \in {truth[r], Failed}
    BY <2>1 DEF Holds, Resolve
  <2>5. ASSUME secret[r].keyId = Default \/ Unset \notin {truth[r].password, truth[r].apiKey},
               ~Lost(secret[r])
        PROVE  Resolve(secret[r]) = truth[r]
    <3>1. IdOf(secret[r].password) = secret[r].keyId /\ IdOf(secret[r].apiKey) = secret[r].keyId
      BY <2>1, <2>2, <2>3, <2>5, Envelopes DEF Holds, SecretRecord, IdOf, TextOf
    <3> QED BY <2>1, <2>5, <3>1 DEF Holds, Resolve
  <2> QED BY <2>4, <2>5
<1> QED BY <1>1, TypeCorrect, SealedInit, SealedStep, PTL DEF Spec

\* A deleted secret is never stored again, by a put or by a worker that read
\* the row before the deletion.
THEOREM DeletionIsFinal == Spec => DeletedStaysDeleted
<1>1. TypeOK /\ [Next]_vars =>
         \A r \in Refs : (truth[r] # NoCredential /\ ~secret[r].stored) => ~secret'[r].stored
  <2> SUFFICES ASSUME TypeOK, [Next]_vars, NEW r \in Refs, truth[r] # NoCredential, ~secret[r].stored
               PROVE  ~secret'[r].stored
    OBVIOUS
  <2> QED BY DEF TypeOK, Next, WorkerStep, Put, Delete, Scan, ReencryptLoad, ReencryptSave, ScanDone,
                 Restart, vars, NoSecret
<1>2. (\A r \in Refs : (truth[r] # NoCredential /\ ~secret[r].stored) => ~secret'[r].stored)
         => [\A r \in Refs : (truth[r] # NoCredential /\ ~secret[r].stored) => ~secret'[r].stored]_vars
  OBVIOUS
<1> QED BY <1>1, <1>2, TypeCorrect, PTL DEF Spec, DeletedStaysDeleted
=============================================================================
