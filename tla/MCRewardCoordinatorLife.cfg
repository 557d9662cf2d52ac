SPECIFICATION FairSpec
CONSTANTS
    c1 = c1
    c2 = c2
    loot = loot
    xp = xp
    dungeon = dungeon
    hut = hut
    boss = boss
    Characters = {c1}
    Parts = {loot}
    RunIds = {dungeon, hut}
    Dungeon = dungeon
    Boss = boss
    MaxPack = 1
    MaxWear = 1
    MaxExperience = 1
    Outcomes = {"done", "failed"}
    Crashes = {}
    LateClaims = FALSE
    ExpiryRaces = FALSE
    NoImage = NoImage
    NoToken = NoToken
    NoLife = NoLife
    NoTask = NoTask
    NoOwner = NoOwner
    Sync = Sync
INVARIANTS LastWordIsAccepted
PROPERTIES SealedClaimEnds AccountIsReleased LifeLosesNothing
CHECK_DEADLOCK FALSE
