CONSTANTS
    Jobs = {j1, j2}
    MaxLoads = 3
    Watchdog = TRUE

SPECIFICATION JobSpec

INVARIANTS
    FinalMeansOver
    ToldOnce

PROPERTIES
    EndIsTold

CHECK_DEADLOCK FALSE
