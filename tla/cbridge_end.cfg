SPECIFICATION FairCBridge
CONSTANTS
    Scenarios = {"fences", "one_rule", "pipe_closes", "socket_closes", "delivers", "ending", "courteous", "answering", "websocket_ends", "list_faults", "batches", "calls_end"}
PROPERTY
    CBridgeEnds
CHECK_DEADLOCK FALSE
