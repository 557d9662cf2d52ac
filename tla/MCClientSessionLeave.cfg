SPECIFICATION FairSessionSpec
CONSTANTS
    Launches <- MCLaunches
    NoForm = NoForm
    NoRoute = NoRoute
    MaxArrivals = 1
INVARIANT LeavingIsAcknowledged
