SPECIFICATION Spec
CONSTANTS
    Ids = {a, b, c}
    Uids = {u1, u2, u3}
    Volumes = {v}
    NoUid = NoUid
    NoVolume = NoVolume
    NoId = NoId
    MaxDirect = 2
    MaxFaults = 1
SYMMETRY Symmetry
CHECK_DEADLOCK FALSE
INVARIANTS UidsExclusive LeaksExplained DisksWhole
PROPERTIES DiskKept
