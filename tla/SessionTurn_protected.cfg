\* The full-screen front end: saves are not cancelled, nothing raises or dies.
SPECIFICATION SessionSpec
CONSTANTS
    Callers = {front}
    MaxIterations = 2
    MaxCalls = 2
    MaxRuns = 3
    MaxTurns = 3
    Faults = {}
    MaxCrashes = 0
    MaxMoves = 1
INVARIANTS
    PairedAtLlm
    StepsAreDurable
    KeptSendable
\* The turns may be used up.
CHECK_DEADLOCK FALSE
