SPECIFICATION WarmSpec
CONSTANTS
    MaxBurst = 3
    BurstWindow = 3
    NoBurst = NoBurst
    MaxTime = 7
    MaxFails = 3
    Caller = {c1, c2}
    Conn = {k1, k2, k3, k4}
    None = None
    ConnectTimeout = 2
    DescribeTimeout = 1
    RetryWait = 1
    PostWait = 1
    MaxAttempts = 2
INVARIANTS WarmTypeOK FreshBurstTrips NoSocketLeft CallsAreBounded
PROPERTIES TripIsJustified QuietWhenReady
SYMMETRY Symmetry
CHECK_DEADLOCK FALSE
