\* The process dies anywhere, twice; rounds of one call.
SPECIFICATION SessionSpec
CONSTANTS
    Callers = {front}
    MaxIterations = 2
    MaxCalls = 1
    MaxRuns = 2
    MaxTurns = 2
    Faults = {"image"}
    MaxCrashes = 2
    MaxMoves = 1
PROPERTIES
    ResumeIsSendable
\* The turns may be used up.
CHECK_DEADLOCK FALSE
