SPECIFICATION Spec
CONSTANTS
    NoOne = NoOne
    c1 = c1
    c2 = c2
    f1 = f1
    m1 = m1
    Copiers = {c1, c2}
    Fillers = {}
    Migrators = {}
    MultiWindow = 3
    MaxSlots = 2
    LockTimeouts = {TRUE, FALSE}
    ReservedPool = TRUE
    NeedSets = {{"src", "dst"}}
    MaxChunks = 1
    MaxRing = 3
SYMMETRY Symmetry
INVARIANTS
    TypeOK
    LocksAgree
    SlotWindowsDisjoint
    CopiesThroughOwnMapping
