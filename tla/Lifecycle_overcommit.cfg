SPECIFICATION Spec
CONSTANTS
    i1 = i1
    i2 = i2
    i3 = i3
    Ids = {i1, i2}
    w1 = w1
    w2 = w2
    Wallets = {w1}
    v1 = v1
    v2 = v2
    Volumes = {}
    p1 = p1
    Ips = {p1}
    NoWallet = NoWallet
    NoIp = NoIp
    NoVolume = NoVolume
    NoId = NoId
    Lease = 1
    MaxTime = 1
    MaxFaults = 1
    MaxRunning = 1
    MaxQueue = 2
    MaxActivePerWallet = 2
    MaxActivePerIp = 2
    DailyPerWallet = 2
    DailyPerIp = 2
    Day = 1
    SshEnabled = FALSE
INVARIANT VmsWithinCapacity
