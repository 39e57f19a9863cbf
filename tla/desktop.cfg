SPECIFICATION UnitSpec
CONSTANTS
    Games = {g1, g2}
    Budgets <- MCBudgets
    FileCount = 2
    Writes = 3
    Passes = 3
INVARIANTS UnfinishedJournaled NewestKept
PROPERTIES OrdersKept StopsEnd
CHECK_DEADLOCK FALSE
