SPECIFICATION MountSpec
CONSTANTS
    Paths <- Wide
    Stores <- Swapped
    MaxOps = 2
    Aliases = FALSE
    Swaps = TRUE
    Budgets <- NoFault
    Handlers = {handler1, handler2}
    Files = {file1, file2}
    MaxWrites = 2
    MaxCount = 4
    handler1 = handler1
    handler2 = handler2
    file1 = file1
    file2 = file2
    game1 = game1
    game2 = game2
    build1 = build1
    build2 = build2
    target1 = target1
    Nobody = Nobody
    Games = {game1, game2}
    SourceFiles = {file1, file2}
    Chunks = {chunk1, chunk2}
    chunk1 = chunk1
    chunk2 = chunk2
    Builds = {build1, build2}
    Targets = {target1}
    GameOf <- TwoGames
    LayoutsOf <- TwoLayouts
    TargetsOf <- OneTarget
    MaxSourceWrites = 1
    MaxFaults = 1
    MaxPrunes = 1
    MinChunk = 3
    MaxChunk = 5
    GainFloor = 1
    CutByte = 1
    CacheSize = 2
INVARIANTS ViewIsTree
CHECK_DEADLOCK FALSE
