SPECIFICATION Spec
CONSTANTS
    c1 = c1
    c2 = c2
    loot = loot
    xp = xp
    dungeon = dungeon
    hut = hut
    boss = boss
    Characters = {c1}
    Parts = {loot, xp}
    RunIds = {dungeon, hut}
    Dungeon = dungeon
    Boss = boss
    MaxPack = 1
    MaxWear = 0
    MaxExperience = 0
    Outcomes = {"done", "unsynced"}
    Crashes = {"power"}
    LateClaims = FALSE
    ExpiryRaces = FALSE
    NoImage = NoImage
    NoToken = NoToken
    NoLife = NoLife
    NoTask = NoTask
    NoOwner = NoOwner
    Sync = Sync
INVARIANTS DeliveredAtMostOnce FilesAgree SealedClaimStaysOwed GateIsHeldByItsRetry
PROPERTIES KeepsThePromise
CHECK_DEADLOCK FALSE
