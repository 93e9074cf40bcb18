SPECIFICATION Spec
CONSTANTS
    Me = "me"
    Others = {"ana"}
    Present <- MCPresent
    MaxEvents = 4
    MaxLost = 1
    MaxActs = 5
INVARIANTS
    TypeOK
    NothingLost
    JoinedTimelineInOrder
    CountDrift
    
PROPERTIES
    LossIsNoticed
CHECK_DEADLOCK FALSE
