SPECIFICATION Spec
CONSTANTS
    c1 = c1
    c2 = c2
    l1 = l1
    l2 = l2
    Characters = {c1, c2}
    Lives = {l1, l2}
    MaxEpoch = 2
    Crashes = {"power"}
    NoToken = NoToken
INVARIANTS FloorIsDurable
PROPERTIES OnlyTheImageLands SealedImageIsKept
CHECK_DEADLOCK FALSE
