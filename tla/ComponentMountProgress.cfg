SPECIFICATION FairSpec
CONSTANTS
    Nodes = {"n1"}
    Handlers = {"n1"}
    HandlerOf <- AuthoredHandlers
    Mishaps = {"hang", "throw", "loss"}
    MissLimit = 2
    Challenges = 1
    MaxRevision = 1
    MaxRender = 1
    MaxQueue = 1
CHECK_DEADLOCK FALSE
PROPERTIES HungGuestIsStopped MountDecides LostFrameIsNoticed
