SPECIFICATION Spec
CONSTANTS
    NPages = 5
    Owner = {o1, o2}
    Unlimited = 9
    Limits = {1, 2, 9}
    Unmapped = {2}
    PageBytes = 4
    Ranges <- MCMaps
    o1 = o1
    o2 = o2
INVARIANTS AuditClean AccountIsHonest OnlyUsablePages
PROPERTIES OwnershipMoves HandedOutZeroed
