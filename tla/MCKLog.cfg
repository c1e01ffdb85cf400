CONSTANTS
    f = f
    t1 = t1
    t2 = t2
    Thread = {f, t1, t2}
    NULL = NULL
    Flusher = f
    InitialValue = 0
    MaxCredit = 4
    MaxMessages = 4
SPECIFICATION KLogFairSpec
INVARIANTS
    CreditsMatch
    ValueCountsWaiters
    InOrderOnce
    SignalsMatchMessages
    CrashLosesOnlyDetached
PROPERTIES
    EveryMessagePrinted
