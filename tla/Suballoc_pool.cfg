SPECIFICATION FairSpec
CONSTANTS
    t1 = t1
    t2 = t2
    NoOne = NoOne
    Threads = {t1, t2}
    Sas = {1, 2, 3}
    Queues = {0, 1}
    Size = 5
    Align = 2
    Want <- MCWant
    Intr = {t2}
INVARIANTS TypeOK ListOrdered FencesListed SleepersHaveNoFence
PROPERTIES PoolSpec RoomWaitEnds
