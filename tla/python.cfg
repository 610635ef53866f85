SPECIFICATION Python
CONSTANTS
    Frames = {0, 1, 3}
    PipeSize = 2
    IOV_MAX = 2
    TotalIn = 5
    TotalOut = 2
    MaxGo = 2
    MaxAsks = 2
    MaxAnswers = 2
    MaxStops = 2
    AtStartup = FALSE
    Polkit = TRUE
    Chans = {"c1", "c2"}
    Chunks = 1
    Others = 0
    Cancels = TRUE
    Shorts = FALSE
    Scenarios = {"spawn", "dbus", "at_init", "contended", "cancelled", "owner", "leaving", "staying"}
INVARIANTS
    ChannelsSafe
    SuperuserSafe
    ReplaceSafe
    DBusChannelSafe
CHECK_DEADLOCK FALSE
