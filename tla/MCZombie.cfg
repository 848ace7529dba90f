SPECIFICATION Spec
CONSTANTS
    Jobs = {j1}
    Files = {good, other}
    GoodFiles = {good, other}
    SizeOf <- MCSizeOf
    MaxBatches = 1
    BatchesOf <- MCBatchesOf
    ConfirmKeys = {key}
    NoFile = NoFile
    NoKey = NoKey
    MaxAttempts = 1
    MaxFaults = 0
    Clients = {c1}
    Workers = {w1, w2}
    Cleaners = {}
    CleanupLimit = 1
SYMMETRY Replicas
INVARIANTS
    OnlyConfirmedIsWritten
CHECK_DEADLOCK FALSE
