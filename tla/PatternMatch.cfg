SPECIFICATION Spec
CONSTANTS
    Elements <- MCElements
    Patterns <- MCPatterns
    MaxWork = 2
    MaxDecisions = 1
INVARIANT TypeOK
INVARIANT BranchesIsolated
INVARIANT RejectedScopesUndone
INVARIANT SelectedStateKept
CHECK_DEADLOCK FALSE
