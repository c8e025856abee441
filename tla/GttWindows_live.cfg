SPECIFICATION FairSpec
CONSTANTS
    NoOne = NoOne
    c1 = c1
    c2 = c2
    f1 = f1
    m1 = m1
    Copiers = {c1}
    Fillers = {f1}
    Migrators = {m1}
    MultiWindow = 0
    MaxSlots = 2
    LockTimeouts = {TRUE, FALSE}
    ReservedPool = FALSE
    NeedSets = {{"src"}, {"dst"}, {"src", "dst"}}
    MaxChunks = 1
    MaxRing = 1
INVARIANT NoLockLeftBehind
PROPERTY EveryOperationEnds
