SPECIFICATION FlushingSpec
CONSTANTS
    Isr = {i1, i2}
    LaneSize = 2
    MaxIrq = 3
    RamRecords = 4
    RamNormal = 3
    RamSampled = 2
    Slots = 2
    Capacity = 3
    Chunk = 3
    Plans <- MCPlans
CHECK_DEADLOCK FALSE
INVARIANTS LaneExact ForgottenIsKept CheckpointIsTrue BootsInOrder
PROPERTY EvidenceSettles
