SPECIFICATION FairSpec
CONSTANTS
    NoOne = NoOne
    w1 = w1
    SigIds = {1}
    HwIds = {9}
    PartialId <- MCPartialId
    Waiters = {w1}
    AgeWaiters = {w1}
    WaitSets <- MCWaitAll
    Times = {"now", "finite", "infinite"}
    CanReset = TRUE
    MaxIrq = 0
    MaxAge = 2
    MaxCreated = 2
INVARIANTS
    TypeOK
    DestroyedFails
PROPERTY EveryWaitEnds
