SPECIFICATION FairSpec
CONSTANTS
    MaxBytes = 3
    PipeSize = 2
    ReadSize = 2
    RingSize = 2
    StreamChunk = 1
    PollChunk = 2
    MaxFeed = 1
    MaxJobs = 2
    MaxBreaks = 1
INVARIANTS
    RingExact
PROPERTIES
    
    AllLogged
    ViewEnds
CHECK_DEADLOCK FALSE
