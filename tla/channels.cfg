SPECIFICATION CBridge
CONSTANTS
    Scenarios = {"requests", "hanging", "answering", "websockets", "websocket_ends", "connects", "writes", "reads", "lists", "list_faults", "sampling", "archives", "sums", "listings", "variants", "roots", "paths", "policy", "caches", "managed", "alone", "calls", "publishing", "competing", "rules", "conversions"}
INVARIANTS
    HttpSafe
    FsSafe
    MetricsSafe
    PackagesSafe
    CacheSafe
    DBusSafe
CHECK_DEADLOCK FALSE
