SPECIFICATION Spec
CONSTANTS
    t1 = t1
    t2 = t2
    p1 = p1
    p2 = p2
    n1 = n1
    e1 = e1
    NULL = NULL
    GLOCK = GLOCK
    EXIT = EXIT
    Tsk = {t1, t2}
    Prc = {p1, p2}
    Spn = {n1, e1}
    Native = {n1}
    MaxNest = 1
INVARIANTS LockExclusive HolderUninterrupted
PROPERTY ImplementsLocks
SYMMETRY Alike
