SPECIFICATION Spec
CONSTANTS
    Images <- MCImages
    SectorSize = 4
    CacheSize = 5
    LastCluster = 8
    Names <- MCNames
    MaxNodes = 6
    Requests <- MCRequests
    Diffs <- MCDiffs
    MaxOps = 5
CONSTRAINT Separate
VIEW Visible
CHECK_DEADLOCK FALSE
INVARIANTS  CacheCoherent 
PROPERTIES ReadReturnsBytes OthersUntouched
