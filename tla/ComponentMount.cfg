SPECIFICATION Spec
CONSTANTS
    Nodes = {"n1"}
    Handlers = {"n1"}
    HandlerOf <- AuthoredHandlers
    Mishaps = {}
    MissLimit = 1
    Challenges = 2
    MaxRevision = 2
    MaxRender = 2
    MaxQueue = 1
CHECK_DEADLOCK FALSE
INVARIANTS TypeOK PeersKeepProtocol GuestFollowsShell ClicksReachLiveControls
           EffectsFollowActivation
