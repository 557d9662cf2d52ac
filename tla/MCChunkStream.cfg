SPECIFICATION FairSpec
CONSTANTS
    near = near
    far = far
    here = here
    beyond = beyond
    air = air
    stone = stone
    swimmer = swimmer
    Coords = {near, far}
    Blocks = {air, stone}
    Absent = Absent
    MaxBacklog = 1
    Places = {here, beyond}
    Nearest <- MCNearest
    Start = here
    Pristine <- MCPristine
    Editors = {swimmer}
    NoPost = NoPost
    NoPlace = NoPlace
    Line = 2
    MaxChunkResends = 1
    MaxEdits = 2
    MaxMoves = 1
INVARIANTS HeldIsCurrent NothingOutOfView
PROPERTY EventuallyCurrent
CHECK_DEADLOCK FALSE
