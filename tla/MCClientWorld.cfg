SPECIFICATION FairSpec
CONSTANTS
    Coords <- MCCoords
    Size = 1
    Palette = {"stone", "water", "shallow"}
    Streamed = {"water", "shallow"}
    Absent = Absent
    Arrival <- MCArrival
    Support <- MCSupport
    NoJob = NoJob
    MaxJobs = 1
    MaxApplied = 1
    MaxBatch = 2
    MaxUpdates = 2
    MaxWorlds = 1
INVARIANTS SettledIsDrawn
PROPERTIES LoadingEndsOnTerrain EverythingIsDrawn
CHECK_DEADLOCK FALSE
