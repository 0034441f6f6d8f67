SPECIFICATION Spec
CONSTANTS
    Nodes = {"n1"}
    Handlers = {"press"}
    HandlerOf <- FreeHandlers
    Mishaps = {}
    MissLimit = 2
    Challenges = 2
    MaxRevision = 2
    MaxRender = 2
    MaxQueue = 2
CHECK_DEADLOCK FALSE
INVARIANT LoneTreeTakesClicks
