SPECIFICATION Spec
CONSTANTS
    Calls = {c1, c2, c3, c4}
    Transports = {"http", "grpc"}
    Inputs <- CallInputs
    MaxAttempts = 2
    Threshold = 2
    MaxOpenings = 2
SYMMETRY Interchangeable
INVARIANTS
    UnsafeIsSentOnce
    BodiesAreAccounted
    CancelIsNoFailure
CHECK_DEADLOCK FALSE
