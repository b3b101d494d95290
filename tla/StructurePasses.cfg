SPECIFICATION Spec
CONSTANTS
    Roots = 2
    MaxRanked = 2
    Headers <- MCHeaders
    MaxWork = 3
    MaxDeclared = 3
INVARIANTS TypeOK KeptWork DirectivesScoped SnapshotOfSelected ForwardReferences
CHECK_DEADLOCK FALSE
