SPECIFICATION Spec
CONSTANTS
    c1 = c1
    c2 = c2
    loot = loot
    xp = xp
    dungeon = dungeon
    hut = hut
    boss = boss
    Characters = {c1}
    Parts = {loot}
    RunIds = {dungeon}
    Dungeon = dungeon
    Boss = boss
    MaxPack = 0
    MaxWear = 0
    MaxExperience = 0
    Outcomes = {"done", "unsynced", "failed"}
    Crashes = {}
    LateClaims = TRUE
    ExpiryRaces = FALSE
    NoImage = NoImage
    NoToken = NoToken
    NoLife = NoLife
    NoTask = NoTask
    NoOwner = NoOwner
    Sync = Sync
INVARIANTS LastWordIsAccepted
CHECK_DEADLOCK FALSE
