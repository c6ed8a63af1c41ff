CONSTANTS
    c1 = c1
    c2 = c2
    i1 = i1
    i2 = i2
    t1 = t1
    t2 = t2
    AnyCPU = AnyCPU
    NoThread = NoThread
    NoSnapshot = NoSnapshot
    BSP = c1
    CPU <- MCCPU
    Thread <- MCThread
    Idle <- MCIdle
    Priority <- MCPriority
    Affinity <- MCAffinity
    MaxTicks = 3
    MaxSleep = 2

SPECIFICATION Spec
INVARIANT RunqNotSuspended
