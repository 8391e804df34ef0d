SPECIFICATION FairSpec
CONSTANTS
    Threads = {main, sweeper}
    HdrSize = 2
    MaxLen = 4
    Lens = {3, 4, 5}
    Cap = 5
    DumpSize = 1
    MaxMsgs = 4
INVARIANTS
    TypeOK
    FramesWhole
    ClosedForReason
PROPERTY ImplementsChannel
CHECK_DEADLOCK FALSE
