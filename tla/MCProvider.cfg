SPECIFICATION FairSpec
CONSTANTS
    s1 = s1
    s2 = s2
    t1 = t1
    t2 = t2
    Sessions = {s1, s2}
    Instances = {i1}
    Targets = {t1, t2}
    NumBatches <- TwoAndNone
    MaxAttempts = 2
    MaxMoves = 2
    NoTarget = NoTarget
    NoInstance = NoInstance
    NoConn = NoConn
INVARIANTS
    PoolIsOpen
PROPERTIES
    ExchangeSpec
    SessionEnds
CHECK_DEADLOCK FALSE
