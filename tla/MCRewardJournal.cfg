SPECIFICATION Spec
CONSTANTS
    c1 = c1
    c2 = c2
    r1 = r1
    r2 = r2
    Characters = {c1, c2}
    RunIds = {r1, r2}
    Expires <- MCExpires
    Bosses = {boss}
    Parts = {part}
    Postimages = {after}
    MaxGeneration = 2
    MaxRuns = 2
    MaxIntents = 2
    MaxTime = 1
    Crashes = {"power"}
    NoImage = NoImage
SYMMETRY MCSymmetry
INVARIANTS TypeOK OneWriteInDoubt
PROPERTIES IntentLeavesOnlyAsTaken TakenStaysTaken EntitlementsFrozen GenerationNamesOneRun
CHECK_DEADLOCK FALSE
