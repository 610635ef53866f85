SPECIFICATION FairServices
CONSTANTS
    Hosts = {localhost, a, b}
    localhost = localhost
    NoEntry = NoEntry
    Checksums = {c1, c2}
    Upgrades = TRUE
    MaxPrompts = 3
    Allow = FALSE
    Whitelist = FALSE
    Localhost = FALSE
    Methods = {"basic", "negotiate", "tls-cert", "other"}
    MaxMsgs = 3
    MaxRounds = 2
    Faults = TRUE
    Signals = TRUE
    Users = {"u1", "u2"}
    Procs = {1, 2, 3}
    MaxTime = 3
    Errors = FALSE
    Scenarios = {"closes", "answers", "slow", "liar", "socket", "quits", "waits", "calm", "idle", "torn", "killed", "no_files", "keys"}
PROPERTIES
    WebEnds
    LoginEnds
CHECK_DEADLOCK FALSE
