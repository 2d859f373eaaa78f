CONSTANTS
    Apps = {a1, a2}
    Users = {u1}
    Tenants = {t1}
    Roles = {ro1}
    Resources = {}
    Actions = {}
    Emails = {e1}
    RoleNames = {}
    ResourceNames = {}
    ActionNames = {}
    Requests = {r1, r2}
    AssignIds = {x1}
    PermIds = {}
    PatchFields = {}
    AppKeys = {k1, k2}
    AdminKeys = {b}
    AppNames = {n1}
    Bootstrap = b
    Servers = {i1}
    NoApp = NoApp
    NoName = NoName
    NoEdge = NoEdge
    NoGrant = NoGrant
    NoKey = NoKey
    NoServer = NoServer
SPECIFICATION ServiceSpec
SYMMETRY Symmetry
VIEW DeadDataHidden
INVARIANT HandlersServeTheirSession
PROPERTY ChangesNeedAKeyOfTheApp
PROPERTY DeletedAppsAreFrozen
CONSTRAINT FewTombstones
