CONSTANTS
    LowEnd = 3
    HighBegin = 12
    FrameEnd = 13
    StackFrames = 2
    EmergStackSize = 1
    MaxMany = 2
    KernelPage <- MCKernelPage
    BootMaps <- MCBootMaps
SPECIFICATION Spec
INVARIANTS
    EveryFrameOnce
PROPERTIES
    KeepsPromise
