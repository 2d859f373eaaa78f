CONSTANTS
    Requests = {r1, r2, r3}
    AppleRequests = {r1}
    Conns = {c1, c2}
    NoConn = NoConn
SPECIFICATION FairPoolSpec
INVARIANT PoolTypeOK
INVARIANT NoConnIsLost
INVARIANT NeverJammed
PROPERTY RequestsEnd
