SPECIFICATION Spec
CONSTANTS
    BLOCK_SIZE = 2
    SEND_WINDOW = 3
    MaxFrame = 3
    Total = 14
INVARIANTS
    ErrorsBecomeClose
CHECK_DEADLOCK FALSE
