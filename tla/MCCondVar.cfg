CONSTANTS
    t1 = t1
    t2 = t2
    t3 = t3
    m1 = m1
    m2 = m2
    c1 = c1
    c2 = c2
    Thread = {t1, t2, t3}
    Mutex = {m1, m2}
    Cond = {c1, c2}
    NULL = NULL
    MayNest <- Ordered
    LockOf <- Locks
SPECIFICATION CondFairSpec
INVARIANTS
    HeldListExact
    WaitersHaveOwner
    OneQueue
    OwnershipAcrossWaits
PROPERTIES
    NoBarging
    AcquireReturns
