CONSTANTS
    Lba <- MCLba
    Val <- MCVal
    None = None
    Depth = 3
    CidMod = 4
    MaxGivenUp = 1
    LateData = FALSE
SPECIFICATION Spec
INVARIANTS InStep ReadyIsWhole
PROPERTIES ImplementsBlockDevice
