CONSTANTS
    t1 = t1
    t2 = t2
    tty = tty
    sready = sready
    rready = rready
    NULL = NULL
    Message <- CrashMessage
    Thread = {t1, t2}
    Mutex = {tty}
    Cond = {sready, rready}
    LockOf <- Locks
    MayNest <- Any
    Tty = tty
    SendReady = sready
    RecvReady = rready
    Line <- Chars
    Answer <- Answers
    SendMax = 2
    RecvMax = 1
    MaxArrive = 2
SPECIFICATION SerialFairSpec
INVARIANTS
    SentInOrder
    ReadInOrder
    LinesMixOnlyAtWaits
    RingIsServed
PROPERTIES
    LineSent
