CONSTANTS
    p0 = p0
    p1 = p1
    p2 = p2
    p3 = p3
    r1 = r1
    None = None
    Proc <- MCProc3
    Root = p0
    Reader <- OneReader

SPECIFICATION Spec
\* Every thread may exit, or hang on a lock its owner took to
\* scheduler_exit_thread; the kernel then stops running these threads.
CHECK_DEADLOCK FALSE
INVARIANT TypeOK
INVARIANT NoLockCycle
