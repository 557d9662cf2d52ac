SPECIFICATION FairSessionSpec
CONSTANTS
    Launches <- MCLaunches
    NoForm = NoForm
    NoRoute = NoRoute
    MaxArrivals = 1
INVARIANTS LeavingIsAgreed NobodyIsOffended NothingIsOrphaned
PROPERTIES LeaveEnds RejoinEnds
