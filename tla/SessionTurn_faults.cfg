\* Everything goes wrong that the code meets, but for a legacy file.
SPECIFICATION FairSession
CONSTANTS
    Callers = {front}
    MaxIterations = 1
    MaxCalls = 2
    MaxRuns = 2
    MaxTurns = 2
    Faults = {"unprotected", "hook", "save", "image", "undo"}
    MaxCrashes = 1
    MaxMoves = 1
INVARIANTS
    SettlesWhole
PROPERTIES
    TurnEnds
\* The turns may be used up.
CHECK_DEADLOCK FALSE
