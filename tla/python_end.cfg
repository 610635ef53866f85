SPECIFICATION FairPython
CONSTANTS
    Frames = {1, 3}
    PipeSize = 2
    IOV_MAX = 2
    TotalIn = 4
    TotalOut = 1
    MaxGo = 2
    MaxAsks = 2
    MaxAnswers = 2
    MaxStops = 2
    AtStartup = FALSE
    Polkit = TRUE
    Chans = {"c1", "c2"}
    Chunks = 1
    Others = 0
    Cancels = TRUE
    Shorts = FALSE
    Scenarios = {"reader", "at_init", "cancelled", "owner", "locking"}
PROPERTY
    PythonEnds
CHECK_DEADLOCK FALSE
