CONSTANTS
    x1 = x1
    x2 = x2
    x3 = x3
    x4 = x4
    run = run
    wait = wait
    sleep = sleep
    Item = {x1, x2, x3, x4}
    Queue = {run, wait, sleep}
    SleepQueue = sleep
    NIL = NIL
    Key = {1, 2}
SYMMETRY Symmetry
SPECIFICATION QueueSpec
INVARIANTS
    BackPointersAgree
PROPERTIES
    ImplementsFifo
