SPECIFICATION Spec
CONSTANTS
    Requests = {r1, r2, r3}
    Scopes = {s1, s2}
    Keys = {k1, k2}
    Imports = {i1, i2}
    Databases = {"aborts", "committed"}
    MaxFaults = 1
    NoJob = NoJob
    NoImport = NoImport
SYMMETRY Interchangeable
INVARIANTS
    AnswerIsOwnImport
    OneJobPerKey
    RaceIsSettled
CHECK_DEADLOCK FALSE
