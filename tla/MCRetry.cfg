SPECIFICATION Spec
CONSTANTS
    Jobs = {j1}
    Files = {good, bad}
    GoodFiles = {good}
    SizeOf <- MCSizeOf
    MaxBatches = 1
    BatchesOf <- MCBatchesOf
    ConfirmKeys = {key}
    NoFile = NoFile
    NoKey = NoKey
    MaxAttempts = 1
    MaxFaults = 0
    Clients = {c1}
    Workers = {w1, w2}
    Cleaners = {}
    CleanupLimit = 1
SYMMETRY Replicas
INVARIANTS
    ViewIsCurrent
    QueuedHasMessage
    ReadyAwaitsConfirm
    ReadyIsValidated
    AppliedWasConfirmed
PROPERTIES
    LifecycleSpec
CHECK_DEADLOCK FALSE
