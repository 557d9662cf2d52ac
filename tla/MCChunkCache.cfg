SPECIFICATION Spec
CONSTANTS
    low = low
    high = high
    stone = stone
    seeded = seeded
    streamer = streamer
    joiner = joiner
    Voxels = {low, high}
    Blocks = {stone, seeded}
    Generated = seeded
    Getters = {streamer, joiner}
    NoEntry = NoEntry
    NoChunk = NoChunk
    MaxEdits = 2
    MaxStorms = 2
    Outcomes = {"done", "failed", "unsynced"}
    RemoveOutcomes = {"done", "failed"}
    Crashes = {"power"}
    StormRaces = FALSE
INVARIANTS ResidentAgrees NothingBuiltIsLost SavedIsDurable CollisionIsCurrent
SYMMETRY Symmetry
CHECK_DEADLOCK FALSE
