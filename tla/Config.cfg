SPECIFICATION Spec
CONSTANTS
    Files <- MCFiles
    Variables <- MCVariables
    Lower <- MCLower
    LongSegments = {"LONG"}
    Hints <- MCHints
    Root = "Config"
    MaxOverrides = 3
    MaxDepth = 3
    MaxSet = 4
CHECK_DEADLOCK FALSE
INVARIANTS
    LayersHold
    OrderDecidesNothing
    LimitCountsNames
