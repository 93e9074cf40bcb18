SPECIFICATION FairSpec
CONSTANTS
    a1 = a1
    b1 = b1
    b2 = b2
    a = a
    b = b
    Clients <- AB
    Nodes <- TwoNodes
    Home <- MCHome
    Senders <- OnlyA
    MaxSent = 1
    SendBuffer = 1
    MaxFailures = 1
    Restless <- AB
    Stoppable = {a}
PROPERTIES ClosedClientsLeave UnusedSubscriptionsClose
CHECK_DEADLOCK FALSE
