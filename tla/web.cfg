SPECIFICATION Services
CONSTANTS
    Hosts = {localhost, a, b}
    localhost = localhost
    NoEntry = NoEntry
    Checksums = {c1, c2}
    Upgrades = TRUE
    MaxPrompts = 3
    Allow = FALSE
    Whitelist = FALSE
    Localhost = FALSE
    Methods = {"basic", "negotiate", "tls-cert", "other"}
    MaxMsgs = 3
    MaxRounds = 2
    Faults = TRUE
    Signals = TRUE
    Users = {"u1", "u2"}
    Procs = {1, 2, 3}
    MaxTime = 3
    Errors = FALSE
    Scenarios = {"frames", "handshakes", "server", "response", "socket", "relays", "creds", "rude", "logins", "kerberos", "checksums", "fixed"}
INVARIANTS
    WebSocketSafe
    WebServerSafe
    ResponseSafe
    ServiceSafe
    AuthSafe
    ServedByOwner
    SessionStays
CHECK_DEADLOCK FALSE
