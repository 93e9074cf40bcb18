SPECIFICATION FairSpec
CONSTANTS
    o = o
    e = e
    v = v
    Nobody = Nobody
    Users <- TwoUsers
    Owner = o
    Editors <- MCEditors
    Shared <- TwoUsers
    Txns = {t1, t2}
    Mortal <- TwoUsers
    Ttl = 2
    MaxVersion = 0
    MaxInFlight = 0
PROPERTIES DeadHolderLosesLock
