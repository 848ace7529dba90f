SPECIFICATION FairSpec
CONSTANTS
    Jobs = {j1}
    Files = {good, bad}
    GoodFiles = {good}
    SizeOf <- MCSizeOf
    MaxBatches = 2
    BatchesOf <- MCBatchesOf
    ConfirmKeys = {key}
    NoFile = NoFile
    NoKey = NoKey
    MaxAttempts = 0
    MaxFaults = 1
    Clients = {c1}
    Workers = {w1, w2}
    Cleaners = {k1}
    CleanupLimit = 1
INVARIANTS
    TypeOK
    RunningHasWorker
    SucceededAppliedSource
    ExpiredResultsGone
PROPERTIES
    WorkSettles
    RetentionEnds
CHECK_DEADLOCK FALSE
