CONSTANTS
    fExec = fExec
    fExecReg = fExecReg
    fProc = fProc
    fSmp = fSmp
    fHello = fHello
    a1 = a1
    a2 = a2
    InitFn <- MCInitFn
    Registered <- MCRegistered
    Subsystem <- MCSubsystem
    Order <- MCOrder
    SmpLaunch = fSmp
    AP <- MCAP
    SmpOutcomes = {FALSE}
    MemMap <- MCMemMap
    Reserved <- MCReserved
    Dates <- MCDates
    MaxTicks = 101
    SetWindow = 1

SPECIFICATION Spec
\* smp_init found no usable SMP (acpi_smp_init failed); boot then ends with
\* the boot CPU in its idle loop and the timer stopped at its bound.
CHECK_DEADLOCK FALSE
INVARIANT ApPageFreedOnce
