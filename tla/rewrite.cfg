SPECIFICATION Spec
CONSTANTS
    Ranges <- TwoFiles
    Presets = {"max"}
    Budgets <- Either
INVARIANTS RecordsTrue
PROPERTIES PassEnds
CHECK_DEADLOCK FALSE
