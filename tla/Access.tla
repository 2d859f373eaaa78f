------------------------------- MODULE Access -------------------------------
(***************************************************************************)
(* The RBAC graph as a whole: the entity tables, the edges between them,   *)
(* every handler that changes them running concurrently, and the question  *)
(* POST /access/check asks of them.                                        *)
(***************************************************************************)
EXTENDS RoleAssignments, Permissions

vars == <<appOf, live, name, req, assign, liveAssign, perm, livePerm>>

Init == EntityInit /\ AssignmentInit /\ PermissionInit

\* A handler serves a request authenticated as app a.
Start(r, a) ==
    \/ StartEntityOp(r, a)     /\ UNCHANGED <<assignVars, permVars>>
    \/ AssignmentRequest(r, a) /\ UNCHANGED permVars
    \/ PermissionRequest(r, a) /\ UNCHANGED assignVars

\* A handler issues its next statement.
Continue(r) ==
    \/ ContinueEntityOp(r)     /\ UNCHANGED <<assignVars, permVars>>
    \/ ContinueAssignmentOp(r) /\ UNCHANGED permVars
    \/ ContinuePermissionOp(r) /\ UNCHANGED assignVars

Next == \E r \in Requests : (\E a \in Apps : Start(r, a)) \/ Continue(r)

Spec == Init /\ [][Next]_vars

\* The step is one of a handler that serves app a.
StepOf(a) == \E r \in Requests :
    \/ Start(r, a)
    \/ ~Free(r) /\ req[r].app = a /\ Continue(r)

-----------------------------------------------------------------------------
\* A faulty variant: deleted tenants are not filtered out.
CheckInAnyTenant(a, u, t, resource, action) ==
    \E x \in liveAssign, p \in livePerm :
        /\ perm[p].role = assign[x].role
        /\ \A y \in {u, assign[x].role, perm[p].resource, perm[p].action} : InApp(a, y)
        /\ assign[x].user = u
        /\ assign[x].tenant = t
        /\ name[perm[p].resource] = resource
        /\ name[perm[p].action] = action

\* The join of repository.Check: is the user allowed the action on the resource
\* within the tenant, as far as app a is concerned?
Check(a, u, t, resource, action) ==
    \E x \in liveAssign, p \in livePerm :
        /\ perm[p].role = assign[x].role
        /\ InApp(a, assign[x].role)
        /\ InApp(a, assign[x].user)
        /\ InApp(a, assign[x].tenant)
        /\ InApp(a, perm[p].resource)
        /\ InApp(a, perm[p].action)
        /\ assign[x].user = u
        /\ assign[x].tenant = t
        /\ name[perm[p].resource] = resource
        /\ name[perm[p].action] = action

Questions == [user : Users, tenant : Tenants, resource : ResourceNames, action : ActionNames]
Allowed(a) == {q \in Questions : Check(a, q.user, q.tenant, q.resource, q.action)}

-----------------------------------------------------------------------------
(* Properties *)

\* Every column of the five tables, every edge and everything a handler
\* remembers between two statements has the shape the schema gives it.
TypeOK ==
    /\ EntityTypeOK
    /\ AssignmentTypeOK
    /\ PermissionTypeOK
    /\ req \in [Requests -> AnsweredSlot \cup RenameSlot \cup AssignSlot
                              \cup RepointSlot \cup UnassignSlot \cup GrantSlot]

\* No edge, active or deleted, joins rows of two apps, however requests of the
\* apps interleave ("Cross-app graphs cannot be constructed through the API").
AssignmentsInOneApp == \A x \in AssignIds :
    assign[x] # NoEdge => AssignmentSameApp(assign[x])
PermissionsInOneApp == \A p \in PermIds :
    perm[p] # NoGrant => PermissionSameApp(perm[p])
EdgesInOneApp == AssignmentsInOneApp /\ PermissionsInOneApp

\* Because edges stay in one app, the app of the user alone decides whose question
\* it is: the decision rule of the documentation needs no other comparison of apps.
CheckIsPolicy == \A a \in Apps, q \in Questions :
    q \in Allowed(a) <=>
        /\ InApp(a, q.user)
        /\ q.tenant \in live
        /\ \E x \in liveAssign, p \in livePerm :
            /\ assign[x].user = q.user
            /\ assign[x].tenant = q.tenant
            /\ perm[p].role = assign[x].role
            /\ {perm[p].role, perm[p].resource, perm[p].action} \subseteq live
            /\ name[perm[p].resource] = q.resource
            /\ name[perm[p].action] = q.action

\* Two active rows of a table never carry the same edge, whatever mix of POSTs and
\* PATCHes wrote them, so deleting one really takes the right away: no twin keeps
\* granting it.
NoTwinAssignments == \A x, y \in liveAssign : assign[x] = assign[y] => x = y
NoTwinPermissions == \A p, q \in livePerm : perm[p] = perm[q] => p = q
NoTwinEdges == NoTwinAssignments /\ NoTwinPermissions

\* A name denotes at most one active row of its table in an app, also when a stale
\* PATCH restores an old name: Check by name is never about two resources.
NamesDenoteOneRow == \A table \in {Users, Roles, Resources, Actions} :
    \A x, y \in table \cap live :
        /\ name[x] # NoName
        /\ appOf[x] = appOf[y]
        /\ name[x] = name[y]
        => x = y

\* What apps see is in the tables, not in the slots.
graphTables   == <<rows, assignVars, permVars>>
TablesWritten == graphTables' # graphTables

\* What belongs to an app and what is decided for it.
AppView(a) == [
    rows  |-> {<<x, name[x], x \in live>> : x \in {y \in Entity : appOf[y] = a}},
    edges |-> {<<x, assign[x], x \in liveAssign>> :
                  x \in {y \in AssignIds : assign[y] # NoEdge /\ appOf[assign[y].tenant] = a}},
    perms |-> {<<p, perm[p], p \in livePerm>> :
                  p \in {q \in PermIds : perm[q] # NoGrant /\ appOf[perm[q].role] = a}},
    allowed |-> Allowed(a)]

\* What an app sees never changes in a step that serves another app, although ids of
\* other apps may be sent in any request.
OtherAppsUnaffected ==
    [][TablesWritten =>
        \A a \in Apps : (\E b \in Apps \ {a} : AppView(b)' # AppView(b)) => ~StepOf(a)]_vars

\* A soft-deleted row stays deleted and keeps its columns, in spite of PATCHes that
\* read it while it was active.
DeletedRowsFrozen ==
    /\ \A x \in Entity : appOf[x] # NoApp /\ x \notin live =>
        x \notin live' /\ appOf'[x] = appOf[x] /\ name'[x] = name[x]
    /\ \A x \in AssignIds : assign[x] # NoEdge /\ x \notin liveAssign =>
        x \notin liveAssign' /\ assign'[x] = assign[x]
    /\ \A p \in PermIds : perm[p] # NoGrant /\ p \notin livePerm =>
        p \notin livePerm' /\ perm'[p] = perm[p]
DeletedIsFinal == [][DeletedRowsFrozen]_vars

\* A denial becomes an approval only when an edge of that very question is written,
\* or a row the question names gets its name: creating, deleting, giving up, and
\* writing edges of other users or tenants never do it.
SomethingGranted(q) ==
    \/ \E x \in liveAssign' :
        /\ assign'[x].user = q.user
        /\ assign'[x].tenant = q.tenant
        /\ x \notin liveAssign \/ assign'[x] # assign[x]
    \/ \E p \in livePerm' \ livePerm :
        /\ name[perm'[p].resource] = q.resource
        /\ name[perm'[p].action] = q.action
    \/ \E x \in Resources \cap live : name[x] # q.resource /\ name'[x] = q.resource
    \/ \E x \in Actions \cap live : name[x] # q.action /\ name'[x] = q.action
NoSilentGrant ==
    [][TablesWritten =>
        \A a \in Apps : \A q \in Allowed(a)' \ Allowed(a) : SomethingGranted(q)]_vars

\* The part of the tables that belongs to app a, and what is decided for it.
Graph(a) == INSTANCE AppGraph WITH
    row <- [x \in {y \in Entity : appOf[y] = a} |-> [name |-> name[x], live |-> x \in live]],
    assignment <- [x \in {y \in AssignIds : assign[y] # NoEdge /\ appOf[assign[y].tenant] = a} |->
                      [edge |-> assign[x], live |-> x \in liveAssign]],
    permission <- [p \in {q \in PermIds : perm[q] # NoGrant /\ appOf[perm[q].role] = a} |->
                      [edge |-> perm[p], live |-> p \in livePerm]],
    allowed <- Allowed(a)

\* Every app has an access graph of its own: whatever handlers of all the apps do in
\* turns, each app sees whole operations on a graph of its rows, and gets the
\* decisions of that graph.
AppsHaveTheirOwnGraph ==
    /\ \A a \in Apps : Graph(a)!GraphInit
    /\ [][TablesWritten => \A a \in Apps : Graph(a)!GraphStep]_vars

-----------------------------------------------------------------------------
(* What the documentation says and concurrent requests break *)

\* A PATCH changes the "Fields to update" its body names, no other: one of an assignment
\* leaves the other columns, one that carries only metadata leaves names.
PatchWritesItsFields ==
    [][\A r \in Requests : req'[r] = Answered(200) =>
        /\ req[r].op = "repoint" =>
            \A f \in {"user", "role", "tenant"} \ req[r].fields :
                assign'[req[r].id][f] = assign[req[r].id][f]
        /\ req[r].op = "rename" /\ ~req[r].named => name' = name]_vars

\* A 404 tells the caller that the assignment is unknown or soft-deleted.
NotFoundIsGone ==
    [][\A r \in Requests :
        req[r].op \in {"repoint", "unassign"} /\ req'[r] = Answered(404) =>
            ~VisibleAssignment(req[r].app, req[r].id)]_vars

=============================================================================
