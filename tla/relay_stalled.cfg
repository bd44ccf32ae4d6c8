SPECIFICATION FairSpec
CONSTANTS
    MaxSetup = 2
    HighWater = 2
    MaxPieces = 11
    MaxQueue = 1
    LastNumber = 3
PROPERTIES SilentClientIsCleanedUp
CHECK_DEADLOCK FALSE
