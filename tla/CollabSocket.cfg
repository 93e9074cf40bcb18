SPECIFICATION Spec
CONSTANTS
    Workspaces <- MCWorkspaces
    DocumentOf <- MCDocumentOf
    Joins <- MCJoins
INVARIANTS
    TypeOK
    HeardInOrder
    NoSocketLeftBehind
CHECK_DEADLOCK FALSE
