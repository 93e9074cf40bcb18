SPECIFICATION Spec
CONSTANTS
    a1 = a1
    b1 = b1
    b2 = b2
    a = a
    b = b
    Clients <- ABB
    Nodes <- TwoNodes
    Home <- MCHome
    Senders <- NoOne
    MaxSent = 0
    SendBuffer = 1
    MaxFailures = 0
    Restless <- OnlyB
    Stoppable = {}
INVARIANTS TypeOK SubscriptionsMatchRooms MembersMissNothing
PROPERTIES SenderOrderIsKept
CHECK_DEADLOCK FALSE
