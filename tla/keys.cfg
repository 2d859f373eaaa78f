CONSTANTS
    Apps = {a1, a2}
    AppKeys = {k1, k2}
    AdminKeys = {b, d}
    AppNames = {n1}
    Bootstrap = b
    Servers = {i1, i2}
    Requests = {r1, r2}
    NoApp = NoApp
    NoName = NoName
    NoKey = NoKey
    NoServer = NoServer
SPECIFICATION KeysSpec
SYMMETRY Symmetry
INVARIANT KeysTypeOK
INVARIANT StartupEnsuresTheKey
PROPERTY DeletedAppsFallSilent
PROPERTY RevocationIsFinal
PROPERTY KeysAreManagedByTheirApp
