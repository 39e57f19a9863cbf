SPECIFICATION Spec
CONSTANTS
    f = f
    n = n
    Files = {f, n}
    Versions = {1, 2}
    Removable = {}
    Ids = {1, 2}
    MaxWrites = 2
    Reuse = FALSE
    Budgets <- FailedMounts
INVARIANTS ServedIsRecorded RecordedFirst OriginalServes
PROPERTIES KeepsGame DeletesRecorded
CHECK_DEADLOCK FALSE
