CONSTANTS
    N = 2
    Lba <- MCLba
    Val <- MCVal
    Word = 16
    MaxClock = 5
SPECIFICATION MainLoopSpec
INVARIANTS Coherent
PROPERTIES FlushOkMeansStored ImplementsWriteBack FullCacheDrains
