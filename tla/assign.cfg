CONSTANTS
    Apps = {a1}
    Users = {u1, u2}
    Tenants = {t1, t2}
    Roles = {ro1}
    Resources = {}
    Actions = {}
    Emails = {e1, e2}
    RoleNames = {}
    ResourceNames = {}
    ActionNames = {}
    Requests = {r1, r2}
    AssignIds = {x1, x2}
    PermIds = {}
    PatchFields = {{"tenant"}}
    NoApp = NoApp
    NoName = NoName
    NoEdge = NoEdge
    NoGrant = NoGrant
SPECIFICATION Spec
SYMMETRY Symmetry
INVARIANT NoTwinEdges
INVARIANT NamesDenoteOneRow
PROPERTY DeletedIsFinal
