SPECIFICATION UnitSpec
CONSTANTS
    Titles = {"g", "h"}
    FileCount = 2
    ContentCount = 2
    EvidenceBudgets <- MCEvidenceBudgets
    Sector = 2
    Block = 8
    FileBlocks <- MCBlocks
    FileCap = 16
    Window = 6
    Threads = {t1, t2}
    SampleTasks <- MCTasks
    Advised <- MCAdvised
    Dirs = {steamapps, downloading}
    Top = steamapps
    LiveLimits <- MCLiveLimits
    Scanners = {w, c}
    GameDirs = {p}
    LibraryOf <- MCLibraryOf
    MountOf <- MCMountOf
    Drives = {A, B}
    Keys <- MCKeys
    CatalogLimits <- MCCatalogLimits
    Pieces = {p1, p2}
    Lengths = {32, 640}
    Volumes = {A, B}
    SpaceFloor = 64
    SpaceFixed = 16
    EntryBytes = 1
    Spares = {0, 1, 2000}
    Amounts <- MCAmounts
    SpaceLimits <- MCSpaceLimits
INVARIANTS
    EvidenceReal
    EstimateSound
    PropertiesOwned
    RoomKept
PROPERTIES
    CatalogTrue
CHECK_DEADLOCK FALSE
