SPECIFICATION Spec
CONSTANTS
    Candidates <- MCCandidates
    Claims <- MCClaims
    Forests <- MCForests
    Fragments <- MCFragments
    MaxCalls = 5
    MaxExpansion = 2
    MaxRawDepth = 2
    MaxNodes = 6
INVARIANTS TypeOK WalkComplete NestingBounded EditsKept
CHECK_DEADLOCK FALSE
PROPERTY Terminates
