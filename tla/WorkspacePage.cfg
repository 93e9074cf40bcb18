SPECIFICATION Spec
CONSTANTS
    Docs = {"report", "notes"}
    MaxEdits = 2
    MaxVisits = 2
INVARIANTS
    TypeOK
    SavedIsStored
    LockHasPage
    OwnText
PROPERTIES
    NoOverwriteUnseen
    EditsAreSaved
CHECK_DEADLOCK FALSE
