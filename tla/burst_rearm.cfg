SPECIFICATION WarmSpec
CONSTANTS
    MaxBurst = 3
    BurstWindow = 5
    NoBurst = NoBurst
    MaxTime = 12
    MaxFails = 6
    Caller = {c1}
    Conn = {k1, k2}
    None = None
    ConnectTimeout = 3
    DescribeTimeout = 2
    RetryWait = 1
    PostWait = 1
    MaxAttempts = 3
INVARIANTS EveryBurstTrips
CHECK_DEADLOCK FALSE
