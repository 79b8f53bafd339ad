\* Three attempts per stream, responses of up to two visible events.
SPECIFICATION CallSpec
CONSTANTS
    MaxAttempts = 3
    MaxChunks = 2
INVARIANTS
    OneVoice
    NoRetryLoop
    AnswerIsBooked
PROPERTIES
    CallEnds
\* A call is over once it is over.
CHECK_DEADLOCK FALSE
