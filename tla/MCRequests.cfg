SPECIFICATION Spec
CONSTANTS
    Requests = {r1, r2, r3}
    Inputs <- SomeInputs
    Users = {u1, m1}
    Machines = {m1}
    Tenants = {t1, t2}
    TenantOf <- MCTenantOf
    Keys = {k1}
    Bodies = {b1, b2}
    Routes = {"confirm", "cancel", "retry", "version"}
    Protected = {"confirm", "cancel", "retry"}
    Mutating = {"confirm", "cancel", "retry"}
    Idempotent = {"confirm", "cancel"}
    SkipRoutes = {"version", "cancel"}
    PskRoutes = {"retry"}
    Enforced = TRUE
    FailOpen = FALSE
    MaxExpiries = 1
    MaxLosses = 1
    NoKey = NoKey
    NoOne = NoOne
    u1 = u1
    m1 = m1
    t1 = t1
    t2 = t2
    k1 = k1
    b1 = b1
    b2 = b2
SYMMETRY Interchangeable
INVARIANTS
    RecordIsOwners
    ReplayIsOwn
    AcquiredOnce
    ChangesAreAuthorized
CHECK_DEADLOCK FALSE
