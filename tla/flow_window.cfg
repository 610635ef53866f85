SPECIFICATION FairSpec
CONSTANTS
    BLOCK_SIZE = 2
    SEND_WINDOW = 3
    MaxFrame = 3
    Total = 14
INVARIANTS
    NoStall
    Backpressure
PROPERTY
    WriterResumes
CHECK_DEADLOCK FALSE
