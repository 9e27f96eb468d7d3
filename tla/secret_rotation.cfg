CONSTANTS
    Ids = {default, key1}
    Default = default
    Passphrases = {p0, p1}
    Texts = {t1}
    Unset = Unset
    Credentials <- MCFull
    Refs = {s1, s2, s3}
    Workers = {w1, w2}
    NoRef = NoRef
    NoEnvelope = NoEnvelope
    NoCredential = NoCredential
    Version0 = Version0
    Misread = Misread
    Failed = Failed
    BatchSize = 2
    MaxFaults = 1
    MaxRestarts = 1
SPECIFICATION MCFairSpec
INVARIANTS
    TypeOK
    SecretsSurvive
PROPERTIES
    DeletedStaysDeleted
    RowsMigrate
CHECK_DEADLOCK FALSE
