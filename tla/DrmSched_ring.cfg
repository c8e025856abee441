SPECIFICATION Spec
CONSTANTS
    e1 = e1
    e2 = e2
    j1 = j1
    j2 = j2
    j3 = j3
    NoJob = NoJob
    Foreign = Foreign
    Entities = {e1, e2}
    Jobs = {j1, j2, j3}
    Plan <- MCPlan
    DepOf <- MCDepOf
    CreditLimit = 2
    MaxUpsets = 1
    Killable = {e1}
    Fifo = FALSE
INVARIANTS NoUseAfterFree CreditsExact DependenciesFirst
PROPERTY EveryJobFinishes
CHECK_DEADLOCK FALSE
