SPECIFICATION FairSpec
CONSTANTS
    Channels = {c1, c2}
    Peers = {p1}
    NoEndpoint = NoEndpoint
    Groups <- MCGroups
    Classes = {"plain", "tasks", "async"}
    MaxQueue = 1
    MaxTasks = 2
PROPERTIES
    LifecycleSpec
    BridgeEnds
CHECK_DEADLOCK FALSE
