CONSTANTS
    t1 = t1
    t2 = t2
    Thread = {t1, t2}
    Low = {4}
    Mid = {1, 2, 3}
    High = {}
    Reserve = 1
    RegionsPerFrame = 2
    SetupBegin = 1
    SetupEnd = 4
    AllocEnd = 5
    Top = 8
    PagesPerTable = 6
    EarlyTables = {{0}, {0, 1}}
    MaxPages = 2
    NONE = NONE
    EARLY = EARLY
SYMMETRY Threads
SPECIFICATION PagesSpec
INVARIANTS
    RegionsExact
    PagesAccounted
    FramesAccounted
