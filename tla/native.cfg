SPECIFICATION UnitSpec
CONSTANTS
    Places = {a, b}
    Settings = {1, 2}
    NativeBudgets <- MCNativeBudgets
    Apps = {1, 2}
    AppLibrary <- MCAppLibrary
    FolderOf <- MCFolderOf
    WatchLimits <- MCWatchLimits
INVARIANTS
    WakesRight
PROPERTIES
    PreferencesKept
    ListFollows
    SettledIsReported
CHECK_DEADLOCK FALSE
