SPECIFICATION FairSpec
CONSTANTS
    f = f
    n = n
    Files = {f, n}
    Versions = {1, 2}
    Removable = {f, n}
    Ids = {1, 2}
    MaxWrites = 1
    Reuse = FALSE
    Budgets <- AnyOne
INVARIANTS StoresKept
PROPERTIES GameReturns
CHECK_DEADLOCK FALSE
