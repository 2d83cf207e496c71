SPECIFICATION Spec
CONSTANTS
    Proc = {p, q}
    p = p
    q = q
    pImage = pImage
    qImage = qImage
    pAnon = pAnon
    qAnon = qAnon
    ImageOwner <- MCImageOwner
    AnonOwner <- MCAnonOwner
    NWindows = 2
    NImage = 1
    NPages = 3
    Faults = {"flush", "inject"}
INVARIANTS NoDangling ChecksPass BuffersMapped FramesAccounted
PROPERTY BrokenStaysHeld
