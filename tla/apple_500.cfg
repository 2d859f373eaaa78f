CONSTANTS
    Apps = {a1}
    Users = {u1,u2}
    UserIdentities = {i1,i2}
    Emails = {e1}
    Subjects = {s1}
    Requests = {r1}
    NoApp = NoApp
    NoName = NoName
    NoUser = NoUser
    NoIdentity = NoIdentity
SPECIFICATION IdentitiesSpec
INVARIANT KnownSubjectsSignIn
