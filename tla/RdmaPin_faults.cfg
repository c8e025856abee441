SPECIFICATION Spec
CONSTANTS
    b1 = b1
    b2 = b2
    BOs = {b1, b2}
    VramBOs = {b1}
    Size <- MCSize
    c1 = c1
    c2 = c2
    c3 = c3
    Ctxs = {c1, c2}
    NoBO = NoBO
    NoOne = NoOne
    Freer = Freer
    Limit = 2
    MaxRetry = 2
    FreeWait = TRUE
    OrphanTimeout = TRUE
    KillSwitch = TRUE
    AllocFails = TRUE
    CanStop = TRUE
    Signals = {"get", "put", "free", "stop"}
    MaxLost = 1
    MaxReuse = 1
SYMMETRY CtxSymmetry
CHECK_DEADLOCK FALSE
INVARIANTS RefsExact CountersExact
