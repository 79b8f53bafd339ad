\* Two tasks share one engine; one round of tool calls per run.
SPECIFICATION FairSpec
CONSTANTS
    Callers = {c1, c2}
    MaxIterations = 1
    MaxCalls = 2
    MaxRuns = 2
INVARIANTS
    SingleFlight
    CardsClosed
PROPERTIES
    AppendOnly
    SettledPaired
    RunEnds
\* All callers may be idle with the runs used up.
CHECK_DEADLOCK FALSE
