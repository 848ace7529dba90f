SPECIFICATION Spec
CONSTANTS
    Jobs = {j1}
    Files = {bad, worse}
    GoodFiles = {}
    SizeOf <- MCSizeOf
    MaxBatches = 1
    BatchesOf <- MCBatchesOf
    ConfirmKeys = {key}
    NoFile = NoFile
    NoKey = NoKey
    MaxAttempts = 1
    MaxFaults = 1
    Clients = {c1}
    Workers = {w1}
    Cleaners = {k1}
    CleanupLimit = 1
SYMMETRY Replicas
INVARIANTS
    ReportIsOfSource
PROPERTIES
    ExpiresAfterDeadline
CHECK_DEADLOCK FALSE
