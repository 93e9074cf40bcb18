SPECIFICATION Spec
CONSTANTS
    a = a
    b = b
    Clients <- Both
    Initiators <- Both
    Editors <- Nobody
    MaxRuntimes = 2
    MaxVisits = 4
    MaxTraffic = 2
    MaxChunk = 1
SYMMETRY Browsers
INVARIANTS TypeOK RestingSessionIsHealthy
PROPERTY FinalSaveIsSentOnce
CHECK_DEADLOCK FALSE
