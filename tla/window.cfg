SPECIFICATION UnitSpec
CONSTANTS
    Games = {g1}
    Builds = 2
    MaxJobs = 4
    History = 4
    WindowBudgets <- MCBudgets
    Old = old
    New = new
    Clients = {old, new}
    VersionOf <- MCVersionOf
    BinaryOf <- MCVersionOf
    Requests <- MCRequests
    Depth = 6
    Exits = 1
PROPERTIES NeverAgain Follows RequestsHonoured
CHECK_DEADLOCK FALSE
