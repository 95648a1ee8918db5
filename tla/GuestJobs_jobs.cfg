SPECIFICATION FairSpec
CONSTANTS
    Servers = {sockets, stdio}
    Ids = {i1, i2}
    Jobs = {j1, j2}
    sockets = sockets
    stdio = stdio
    i1 = i1
    i2 = i2
    j1 = j1
    j2 = j2
    NoId = NoId
    NoJob = NoJob
    Exits = {"zero", "other"}
    MaxActive = 1
    MaxRetained = 1
INVARIANTS
    StatusConsistent
    RunningKnown
PROPERTIES
    ImplementsModel
    CancelPrevails
    DeadlineEnds
CHECK_DEADLOCK FALSE
SYMMETRY Symmetry
