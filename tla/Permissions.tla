---------------------------- MODULE Permissions ----------------------------
(***************************************************************************)
(* The permissions table and its handlers, nested under a role: an active  *)
(* row lets the holders of a role perform an action on a resource.  There  *)
(* is no PATCH: a permission is created and, later, soft-deleted.          *)
(***************************************************************************)
EXTENDS Entities

CONSTANTS
    PermIds,  \* ids of permissions
    NoGrant

VARIABLES
    perm,     \* perm[p]: the columns of row p, NoGrant when p does not exist
    livePerm  \* the permissions whose deleted_at IS NULL

permVars == <<perm, livePerm>>

PermEdge == [role : Roles, resource : Resources, action : Actions]

ASSUME PermissionAssumption == NoGrant \notin PermEdge

PermissionInit ==
    /\ perm = [p \in PermIds |-> NoGrant]
    /\ livePerm = {}

-----------------------------------------------------------------------------
\* requireEntitiesInApp: a missing, deleted or foreign id is answered with a 400.
PermissionEntitiesInApp(a, e) == InApp(a, e.role) /\ InApp(a, e.resource) /\ InApp(a, e.action)

\* The trigger check_permission_app_consistency and the foreign keys.
PermissionSameApp(e) ==
    /\ appOf[e.role] # NoApp
    /\ appOf[e.role] = appOf[e.resource]
    /\ appOf[e.role] = appOf[e.action]

\* The unique index permissions_active_uq.
PermissionTaken(e) == \E q \in livePerm : perm[q] = e

PermissionWriteStatus(e) ==
    CASE ~PermissionSameApp(e) -> 400
      [] PermissionTaken(e)    -> 409
      [] OTHER                 -> 201

\* A faulty variant: no comparison of apps.
VisiblePermissionOfAnyApp(a, ro, p) == p \in livePerm /\ perm[p].role = ro /\ ro \in live

\* The row that GetByID and DELETE find under /roles/{ro}: its role must be active.
VisiblePermission(a, ro, p) ==
    /\ p \in livePerm
    /\ perm[p].role = ro
    /\ InApp(a, ro)

-----------------------------------------------------------------------------
Granting(a, e) == [op |-> "grant", app |-> a, edge |-> e]

CreatePermissionCheck(r, a, e) ==
    /\ Free(r)
    /\ \/ /\ ~PermissionEntitiesInApp(a, e)
          /\ Answer(r, 400)
       \/ /\ PermissionEntitiesInApp(a, e)
          /\ Remember(r, Granting(a, e))
    /\ UNCHANGED <<rows, permVars>>

CreatePermissionInsert(r, p) ==
    /\ req[r].op = "grant"
    /\ perm[p] = NoGrant
    /\ LET status == PermissionWriteStatus(req[r].edge) IN
       /\ Answer(r, status)
       /\ \/ /\ status # 201
             /\ UNCHANGED permVars
          \/ /\ status = 201
             /\ perm' = [perm EXCEPT ![p] = req[r].edge]
             /\ livePerm' = livePerm \cup {p}
    /\ UNCHANGED rows

DeletePermission(r, a, ro, p) ==
    /\ Free(r)
    /\ \/ /\ ~VisiblePermission(a, ro, p)
          /\ Answer(r, 404)
          /\ UNCHANGED livePerm
       \/ /\ VisiblePermission(a, ro, p)
          /\ livePerm' = livePerm \ {p}
          /\ Answer(r, 204)
    /\ UNCHANGED <<rows, perm>>

-----------------------------------------------------------------------------
PermissionRequest(r, a) ==
    \/ \E e \in PermEdge : CreatePermissionCheck(r, a, e)
    \/ \E ro \in Roles, p \in PermIds : DeletePermission(r, a, ro, p)

ContinuePermissionOp(r) == \E p \in PermIds : CreatePermissionInsert(r, p)

-----------------------------------------------------------------------------
GrantSlot == [op : {"grant"}, app : Apps, edge : PermEdge]

PermissionTypeOK ==
    /\ perm \in [PermIds -> PermEdge \cup {NoGrant}]
    /\ livePerm \subseteq {p \in PermIds : perm[p] # NoGrant}

=============================================================================
