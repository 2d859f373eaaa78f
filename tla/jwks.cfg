CONSTANTS
    Kids = {k1}
    NoKid = NoKid
    Verifiers = {v1, v2}
    TTL = 2
    Timeout = 1
SPECIFICATION FairJwksSpec
INVARIANT JwksTypeOK
PROPERTY StaleKeysExpire
PROPERTY VerificationsEnd
