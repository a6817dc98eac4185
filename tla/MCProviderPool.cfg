SPECIFICATION FairSpec
CONSTANTS
    Providers = {p1}
    Clients = {c1, c2}
    ChanCap = 2
    RateCap = 1
    MinRequests = 1
    ErrNum = 1
    ErrDen = 10
    RetryAfters <- BothHeaders
    DefaultWait = 1
    BufferWait = 0
    MaxCount = 1
INVARIANTS
    TypeOK
    NoLostProvider
    OneRestorePerLimit
PROPERTIES
    PoolRecovers
    RequestsServed
