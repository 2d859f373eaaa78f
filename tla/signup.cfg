CONSTANTS
    Apps = {a1}
    Users = {u1, u2}
    UserIdentities = {i1, i2}
    Emails = {e1, e2}
    Subjects = {s1}
    Requests = {r1,r2}
    NoApp = NoApp
    NoName = NoName
    NoUser = NoUser
    NoIdentity = NoIdentity
SPECIFICATION FairIdentitiesSpec
INVARIANT IdentitiesTypeOK
INVARIANT NoTwinAccounts
INVARIANT TokensAreDue
INVARIANT OnlyDeletedUsersFail
INVARIANT RowWaitsEnd
PROPERTY KeepsAccounts
PROPERTY SignInsEnd
