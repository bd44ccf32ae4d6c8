SPECIFICATION ReadingSpec
CONSTANTS
    MaxSetup = 2
    HighWater = 2
    MaxPieces = 11
    MaxQueue = 1
    LastNumber = 3
INVARIANTS TypeOK ChannelsDistinct TailIsDelivered
PROPERTIES SilentClientIsCleanedUp EndReachesBothSides
CHECK_DEADLOCK FALSE
