SPECIFICATION FairSpec
CONSTANTS
    request = request
    rpc = rpc
    job = job
    sweep = sweep
    Work = {request, rpc, job, sweep}
    ServerOf <- Servants
    None = None
    Given <- OneChange
INVARIANTS
    WorkHasResources
    ClearNeedsConsent
    AcceptedRuns
PROPERTIES
    StopEnds
CHECK_DEADLOCK FALSE
