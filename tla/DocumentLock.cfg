SPECIFICATION Spec
CONSTANTS
    o = o
    e = e
    v = v
    Nobody = Nobody
    Users <- MCUsers
    Owner = o
    Editors <- MCEditors
    Shared <- MCUsers
    Txns = {t1, t2}
    Mortal <- NoUsers
    Ttl = 1
    MaxVersion = 2
    MaxInFlight = 1
SYMMETRY Slots
INVARIANTS TypeOK ExclusiveRowsHaveAHolder
PROPERTIES OnlyStaleReadersSteal OverlappingSavesNeverBothCommit UndisturbedSaveIsCovered
