SPECIFICATION FairSpec
CONSTANTS
    Conns = {c1, c2, c3}
    Hosts = {h1, h2}
    AllowedHosts = {h1}
    Addresses = {a1, a2}
    PublicAddresses = {a1}
    NoHost = NoHost
    NoAddress = NoAddress
    MaxConcurrent = 2
    MaxBytes = 2
    MaxHello = 3
    MaxChunk = 2
    MaxAnswers = 2
INVARIANTS SlotsExact OnlyApproved BytesBounded
PROPERTIES HandlersEnd UpstreamsEnd
CHECK_DEADLOCK FALSE
