CONSTANTS
    fExec = fExec
    fExecReg = fExecReg
    fProc = fProc
    fSmp = fSmp
    fHello = fHello
    a1 = a1
    a2 = a2
    InitFn <- MCInitFn
    Registered <- MCRegistered
    Subsystem <- MCSubsystem
    Order <- MCOrder
    SmpLaunch = fSmp
    AP <- MCAP
    SmpOutcomes = {TRUE}
    MemMap <- MCMemMap
    Reserved <- MCReserved
    Dates <- MCDates
    MaxTicks = 101
    SetWindow = 1

SPECIFICATION Spec
\* Boot ends with every CPU in its idle loop and the timer stopped at its
\* bound; nothing is left to do.
CHECK_DEADLOCK FALSE
INVARIANT InitRunsInOrder
INVARIANT ApCodeOutlivesStartup
INVARIANT ZonesAvoidReserved
INVARIANT WallClockTracksTicks
PROPERTY BootCompletes
