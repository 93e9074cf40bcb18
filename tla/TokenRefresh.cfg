SPECIFICATION Spec
CONSTANTS
    N = 2
    MaxTokens = 3
    MaxSessions = 2
INVARIANTS
    TypeOK
    OneRenewal
    LoggedOutStaysOut
PROPERTIES
    WaitersReleased
    RenewsAsAGroup
CHECK_DEADLOCK FALSE
