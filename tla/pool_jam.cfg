CONSTANTS
    Requests = {r1, r2}
    AppleRequests = {r1, r2}
    Conns = {c1, c2}
    NoConn = NoConn
SPECIFICATION FairPoolSpec
PROPERTY AppleSignInsAreAnswered
