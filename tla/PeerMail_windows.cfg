CONSTANTS
    w1 = w1
    w2 = w2
    w3 = w3
    a = a
    b = b
    Windows <- MCTwoWindows
    NameOf <- MCTwoNames
    MaxHops = 2
    MaxSends = 2

SPECIFICATION PeerSpec

INVARIANTS
    AnsweredOnce
    PresenceTold

PROPERTIES
    MailKept
    MailServed

CHECK_DEADLOCK FALSE
