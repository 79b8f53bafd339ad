\* The turn, the titler and a cancelled turn save the file; saves fail and the process dies.
SPECIFICATION Spec
CONSTANTS
    LlmTitles = TRUE
    MaxSteps = 3
    MaxFaults = 2
INVARIANTS
    FileLoads
    QuietFileIsSession
PROPERTIES
    NodesKept
\* The steps may be used up.
CHECK_DEADLOCK FALSE
