SPECIFICATION Services
CONSTANTS
    Hosts = {localhost, a, b}
    localhost = localhost
    NoEntry = NoEntry
    Checksums = {c1, c2}
    Upgrades = TRUE
    MaxPrompts = 3
    Allow = FALSE
    Whitelist = FALSE
    Localhost = FALSE
    Methods = {"basic", "negotiate", "tls-cert", "other"}
    MaxMsgs = 3
    MaxRounds = 2
    Faults = TRUE
    Signals = TRUE
    Users = {"u1", "u2"}
    Procs = {1, 2, 3}
    MaxTime = 3
    Errors = FALSE
    Scenarios = {"plain_tcp", "records", "calm", "proxy", "idle", "login", "records_kept", "records_fail", "relay", "known", "unknown", "keys"}
INVARIANTS
    TlsSafe
    SessionSafe
    RecordsSafe
    SshLoginSafe
    SshSafe
PROPERTY
    SshSteps
CHECK_DEADLOCK FALSE
