\* LookupVAddrAndLock without a reference: the COW path of a parent and its
\* clone drops two references of the shared page per promotion.
SPECIFICATION Spec
CONSTANTS
    Space <- MCSpace
    Parent = s1
    Slot <- MCSlot
    PageObj <- MCPage
    s1 = s1
    s2 = s2
    q1 = q1
    q2 = q2
    q3 = q3
    q4 = q4
    q5 = q5
    q6 = q6
    q7 = q7
    q8 = q8
    q9 = q9
    q10 = q10
    AreaWriteFlags = {TRUE}
    Dentry = TRUE
    DLength = 3
    LookupTakesRef = FALSE
    MaxFaults = 5
    NoPage = NoPage
    NoSpace = NoSpace
\* The number of faults is bounded, so behaviours end with both threads idle.
CHECK_DEADLOCK FALSE
INVARIANT RefcountCoversHolders
