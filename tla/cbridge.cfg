SPECIFICATION CBridge
CONSTANTS
    Scenarios = {"routes", "fences", "superusers", "pipes", "sockets", "freezes", "frames", "piping", "flowing", "packets", "courteous"}
INVARIANTS
    RoutingSafe
    PipeSafe
    TransportSafe
    ChannelSafe
PROPERTY
    FenceHolds
CHECK_DEADLOCK FALSE
