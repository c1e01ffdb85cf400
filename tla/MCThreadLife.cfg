CONSTANTS
    boot = boot
    t1 = t1
    t2 = t2
    s1 = s1
    s2 = s2
    s3 = s3
    Thread = {boot, t1, t2}
    Stack = {s1, s2, s3}
    Boot = boot
    BootStack = BootStack
    NULL = NULL
SPECIFICATION Spec
INVARIANTS
    RunsOnOwnStack
    StacksAccounted
    ListExact
