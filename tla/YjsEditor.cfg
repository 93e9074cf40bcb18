SPECIFICATION Spec
CONSTANTS
    Editors = {"ana", "ben"}
    Base = 2
    MaxItems = 4
    MaxEdits = 3
    MaxChanges = 2
INVARIANTS
    TypeOK
    ShownIsText
    Converged
CHECK_DEADLOCK FALSE
