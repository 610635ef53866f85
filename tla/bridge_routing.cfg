SPECIFICATION Spec
CONSTANTS
    Channels = {c1, c2}
    Peers = {p1}
    NoEndpoint = NoEndpoint
    Groups <- MCGroups
    Classes = {"plain", "tasks", "async", "socket"}
    MaxQueue = 2
    MaxTasks = 2
SYMMETRY MCSymmetry
INVARIANTS
    RouterAgrees
    EventAgrees
    ShutDownOnce
CHECK_DEADLOCK FALSE
