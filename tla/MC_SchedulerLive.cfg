CONSTANTS
    c1 = c1
    c2 = c2
    i1 = i1
    i2 = i2
    t1 = t1
    t2 = t2
    AnyCPU = AnyCPU
    NoThread = NoThread
    NoSnapshot = NoSnapshot
    BSP = c1
    CPU <- MCCPU1
    Thread <- MCThread1
    Idle <- MCIdle1
    Priority <- MCPriority1
    Affinity <- MCAffinity1
    MaxTicks = 3
    MaxSleep = 2

SPECIFICATION Spec
PROPERTY TimedSleeperWakes
PROPERTY ImplementsLifecycle
