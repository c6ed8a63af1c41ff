CONSTANTS
    p0 = p0
    p1 = p1
    p2 = p2
    p3 = p3
    r1 = r1
    None = None
    Proc <- MCProc
    Root = p0
    Reader <- NoReader


SPECIFICATION Spec
CHECK_DEADLOCK FALSE
PROPERTY ZombieChildReaped
