CONSTANTS
    t1 = t1
    t2 = t2
    t3 = t3
    t4 = t4
    p1 = p1
    p2 = p2
    Thread = {t1, t2, t3, t4}
    Process = {p1, p2}
    NULL = NULL
    ProcessOf <- MCProcessOf
    Quantum = 2
    MaxSleep = 3
SPECIFICATION FairSpec
INVARIANTS
    QueuesExact
PROPERTIES
    SleepsExactly
    IdleEndsAtTick
    ImplementsDispatch
    ReadyRuns
