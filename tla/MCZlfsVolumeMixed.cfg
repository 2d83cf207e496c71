CONSTANTS
    MaxFiles = 2
    NBlocks = 3
    MaxRun = 2
    Names <- MCNames
    Data <- MCData
    CacheN = 4
    GenMod = 4
    Plans <- MCFlushPlans
SPECIFICATION VSpec
INVARIANT FoundFilesAreWhole
