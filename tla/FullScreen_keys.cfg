\* Three messages behind one command or wake; the user may quit, and keys may come at any time.
SPECIFICATION FairSpec
CONSTANTS
    MaxMessages = 3
    MaxOthers = 1
    UserQuits = TRUE
    LateKeys = TRUE
INVARIANTS
    OrderKept
PROPERTIES
    NothingLost
    QueueDrains
    RequiredSavesLand
\* The application may have exited.
CHECK_DEADLOCK FALSE
