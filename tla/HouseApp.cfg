CONSTANTS
    None = None
    missedHeartbeats = 1
    outstandingCalls = 1
    MaxEpoch = 2
    MaxRevision = 2
    MaxCalls = 2
    MaxQueue = 1
SPECIFICATION Spec
INVARIANTS
    TypeOK
    HouseFollowsHome
PROPERTIES
    SilentHouseIsRemoved
    CallsAreAnswered
CHECK_DEADLOCK FALSE
