CONSTANTS
    N = 2
    RoleCap <- MCRoleCap
    MaxPerAgent = 1
    MaxTotal = 1
    Usage = {1, 2}
    Topology <- MCTopology
    MaxSwarms = 2
    MaxTasks = 2
    MaxMessages = 1
    MailSwarms = 1
    FromRest = FALSE

SPECIFICATION SwarmSpec

INVARIANTS
    BooksKept
    MailHeard

PROPERTIES
    DissolvedStands
    SwarmSettles

CHECK_DEADLOCK FALSE
