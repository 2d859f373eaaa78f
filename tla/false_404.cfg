CONSTANTS
    Apps = {a1}
    Users = {u1}
    Tenants = {t1, t2}
    Roles = {ro1, ro2}
    Resources = {}
    Actions = {}
    Emails = {e1}
    RoleNames = {}
    ResourceNames = {}
    ActionNames = {}
    Requests = {r1, r2}
    AssignIds = {x1, x2}
    PermIds = {}
    PatchFields = {{"role"}, {"tenant"}}
    NoApp = NoApp
    NoName = NoName
    NoEdge = NoEdge
    NoGrant = NoGrant
SPECIFICATION Spec
SYMMETRY Symmetry
PROPERTY NotFoundIsGone
