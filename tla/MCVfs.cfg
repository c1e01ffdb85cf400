CONSTANTS
    t1 = t1
    t2 = t2
    d0 = d0
    d1 = d1
    d2 = d2
    r0 = r0
    a = a
    b = b
    f = f
    r1 = r1
    g = g
    r2 = r2
    NULL = NULL
    Thread = {t1, t2}
    Dev = {d0, d1, d2}
    Initrd = d0
    Inode = {r0, a, b, f, r1, g, r2}
    Dir = {r0, a, r1, r2}
    Entry <- Contents
    Sector <- Sectors
    Depth <- Depths
    RootOf <- Roots
    Slot = {1, 2, 3}
    Query <- Paths
SPECIFICATION FairSpec
INVARIANTS
    RefsExact
    ResolveCorrect
    OneNodeEach
PROPERTIES
    LookupReturns
