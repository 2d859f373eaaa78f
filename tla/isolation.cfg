CONSTANTS
    Apps = {a1, a2}
    Users = {u1}
    Tenants = {t1}
    Roles = {ro1, ro2}
    Resources = {s1}
    Actions = {c1}
    Emails = {n1}
    RoleNames = {}
    ResourceNames = {n1}
    ActionNames = {n1}
    Requests = {r1, r2}
    AssignIds = {x1}
    PermIds = {p1}
    PatchFields = {{"role"}}
    NoApp = NoApp
    NoName = NoName
    NoEdge = NoEdge
    NoGrant = NoGrant
SPECIFICATION Spec
SYMMETRY Symmetry
VIEW StatusesHidden
INVARIANT TypeOK
INVARIANT EdgesInOneApp
INVARIANT CheckIsPolicy
PROPERTY OtherAppsUnaffected
PROPERTY NoSilentGrant
PROPERTY AppsHaveTheirOwnGraph
