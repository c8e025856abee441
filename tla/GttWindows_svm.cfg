SPECIFICATION Spec
CONSTANTS
    NoOne = NoOne
    c1 = c1
    c2 = c2
    f1 = f1
    m1 = m1
    Copiers = {c1}
    Fillers = {}
    Migrators = {m1}
    MultiWindow = 1
    MaxSlots = 2
    LockTimeouts = {TRUE, FALSE}
    ReservedPool = FALSE
    NeedSets = {{"src"}, {"dst"}, {"src", "dst"}}
    MaxChunks = 1
    MaxRing = 4
INVARIANT CopiesThroughOwnMapping
