\* Three tasks, two at a time, and a server whose connections break.
CONSTANTS
    Callers = {t1, t2, t3}
    MaxConns = 2
    MaxParallel = 2
    MaxUses = 3

SPECIFICATION BatchSpec

INVARIANTS
    SharedPoolKept

PROPERTIES
    BatchEnds

CHECK_DEADLOCK FALSE
