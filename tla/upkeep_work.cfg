SPECIFICATION Spec
CONSTANTS
    g = g
    Games = {g}
    MaxBuild = 1
    Faults <- Pairs
INVARIANTS UpkeepTrue
PROPERTIES UpdateQueued
CHECK_DEADLOCK FALSE
