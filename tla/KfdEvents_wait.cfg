SPECIFICATION Spec
CONSTANTS
    NoOne = NoOne
    w1 = w1
    SigIds = {1, 2}
    HwIds = {}
    PartialId <- MCPartialId
    Waiters = {w1}
    AgeWaiters = {w1}
    WaitSets <- MCWaitFirst
    Times = {"infinite"}
    CanReset = FALSE
    MaxIrq = 2
    MaxAge = 2
    MaxCreated = 2
INVARIANTS
    NoLostWakeup
    NoSignalLost
    SlotWillBeSeen
    AgeWaitsMissNothing
