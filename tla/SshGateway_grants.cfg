SPECIFICATION FairSpec
CONSTANTS
    Ids = {i1, i2}
    Modes = {"shell"}
    Leases = {l1, l2}
    Tunnels = {t1, t2}
    NoId = NoId
    NoLease = NoLease
    Ttls = {2, 3}
    Margin = 1
    VmLease = 3
    MaxConnections = 1
    MaxTime = 4
INVARIANTS OneGrantPerScope StreamsAuthorized NoStreamAfterStop ConnectionLimit
PROPERTIES NoStreamAfterLease ConnectionsEnd GrantsEnd
CHECK_DEADLOCK FALSE
