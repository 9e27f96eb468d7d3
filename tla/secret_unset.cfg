CONSTANTS
    Ids = {default, key1}
    Default = default
    Passphrases = {p0, p1}
    Texts = {t1}
    Unset = Unset
    Credentials <- MCCredentials
    Refs = {s1, s2}
    Workers = {w1, w2}
    NoRef = NoRef
    NoEnvelope = NoEnvelope
    NoCredential = NoCredential
    Version0 = Version0
    Misread = Misread
    Failed = Failed
    BatchSize = 1
    MaxFaults = 1
    MaxRestarts = 2
SPECIFICATION Spec
INVARIANTS
    UnsetFieldsReadEmpty
CHECK_DEADLOCK FALSE
