SPECIFICATION Spec
CONSTANTS
    Candidates <- MCCandidates
    Claims <- MCClaims
    Forests <- MCForests
    Fragments <- MCFragments
    MaxCalls = 2
    MaxExpansion = 2
    MaxRawDepth = 2
    MaxNodes = 6
CHECK_DEADLOCK FALSE
INVARIANT EveryNodeOffered
