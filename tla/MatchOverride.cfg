SPECIFICATION Spec
CONSTANTS
    Elements <- MCElements
    Patterns <- FlatPatterns
    MaxWork = 2
    MaxDecisions = 2
INVARIANT OnlySelectedRemains
CHECK_DEADLOCK FALSE
