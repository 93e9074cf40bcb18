SPECIFICATION FairSpec
CONSTANTS
    a = a
    b = b
    Clients <- Both
    Initiators <- Both
    Editors <- OneOfThem
    MaxRuntimes = 2
    MaxVisits = 2
    MaxTraffic = 2
    MaxChunk = 1
PROPERTIES ManagedEditsArePersisted InitIsAnswered
CHECK_DEADLOCK FALSE
