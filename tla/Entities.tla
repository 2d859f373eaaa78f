------------------------------ MODULE Entities ------------------------------
(***************************************************************************)
(* The five entity tables of the RBAC graph -- users, tenants, roles,      *)
(* resources and actions -- and the handlers that create, update and       *)
(* soft-delete their rows.  Every handler runs in its own goroutine and    *)
(* issues its SQL statements one by one on a shared connection pool, so a  *)
(* request is a slot that holds what the handler remembers between two     *)
(* statements; one action is one SQL statement, together with the code     *)
(* around it that touches nothing shared.                                  *)
(*                                                                         *)
(* A row id is a fresh UUID: it is never used twice and rows are never     *)
(* removed, so a table is a function on ids in which NoApp marks the ids   *)
(* not issued yet.                                                         *)
(***************************************************************************)
EXTENDS Naturals, Tenancy

CONSTANTS
    Users, Tenants, Roles, Resources, Actions,     \* row ids
    Emails, RoleNames, ResourceNames, ActionNames  \* normalized names

Entity == Users \cup Tenants \cup Roles \cup Resources \cup Actions
Names  == Emails \cup RoleNames \cup ResourceNames \cup ActionNames

ASSUME EntityAssumption ==
    /\ NoApp \notin Apps
    /\ NoName \notin Names
    /\ Users \cap (Tenants \cup Roles \cup Resources \cup Actions) = {}
    /\ Tenants \cap (Roles \cup Resources \cup Actions) = {}
    /\ Roles \cap (Resources \cup Actions) = {}
    /\ Resources \cap Actions = {}

VARIABLES
    appOf,  \* appOf[x]: the app_id column of row x, NoApp when x does not exist
    live,   \* the rows whose deleted_at IS NULL
    name,   \* name[x]: users.email, resources.name, actions.name, metadata->>'name' of a role
    req     \* req[r]: what the handler in slot r remembers

rows == <<appOf, live, name>>
entityVars == <<appOf, live, name, req>>

Statuses == {0, 200, 201, 204, 400, 404, 409, 500}

\* A slot between two requests keeps the status it answered last (0: none yet).
Answered(status) == [op |-> "answered", status |-> status]
Free(r) == req[r].op = "answered"
Answer(r, status) == req' = [req EXCEPT ![r] = Answered(status)]
Remember(r, locals) == req' = [req EXCEPT ![r] = locals]

EntityInit ==
    /\ appOf = [x \in Entity |-> NoApp]
    /\ live = {}
    /\ name = [x \in Entity |-> NoName]
    /\ req = [r \in Requests |-> Answered(0)]

-----------------------------------------------------------------------------
\* A faulty variant: rows are found without looking at deleted_at.
InAppDeletedToo(a, x) == appOf[x] = a /\ x \in Entity

\* WHERE id = x AND app_id = a AND deleted_at IS NULL
InApp(a, x) == appOf[x] = a /\ x \in live

\* The partial unique index (app_id, name) WHERE deleted_at IS NULL of a table.
Taken(table, a, x, n) ==
    /\ n # NoName
    /\ \E y \in (table \cap live) \ {x} : appOf[y] = a /\ name[y] = n

\* A faulty variant: INSERT ... ON CONFLICT (id) DO UPDATE, with an id that may be in use.
InsertOverwriting(table, r, a, x, n) ==
    /\ Free(r)
    /\ ~Taken(table, a, x, n)
    /\ appOf' = [appOf EXCEPT ![x] = a]
    /\ live' = live \cup {x}
    /\ name' = [name EXCEPT ![x] = n]
    /\ Answer(r, 201)

\* INSERT one row under an id nobody has seen.
Insert(table, r, a, x, n) ==
    /\ Free(r)
    /\ appOf[x] = NoApp
    /\ \/ /\ Taken(table, a, x, n)
          /\ Answer(r, 409)
          /\ UNCHANGED rows
       \/ /\ ~Taken(table, a, x, n)
          /\ appOf' = [appOf EXCEPT ![x] = a]
          /\ live' = live \cup {x}
          /\ name' = [name EXCEPT ![x] = n]
          /\ Answer(r, 201)

CreateUser(r, a, u, e)     == Insert(Users, r, a, u, e)
CreateTenant(r, a, t)      == Insert(Tenants, r, a, t, NoName)
CreateRole(r, a, ro, n)    == Insert(Roles, r, a, ro, n)
CreateResource(r, a, s, n) == Insert(Resources, r, a, s, n)
CreateAction(r, a, c, n)   == Insert(Actions, r, a, c, n)

\* UPDATE ... SET deleted_at; no rows affected is a 404.
SoftDelete(r, a, x) ==
    /\ Free(r)
    /\ \/ /\ InApp(a, x)
          /\ live' = live \ {x}
          /\ Answer(r, 204)
          /\ UNCHANGED <<appOf, name>>
       \/ /\ ~InApp(a, x)
          /\ Answer(r, 404)
          /\ UNCHANGED rows

DeleteUser(r, a, u)     == SoftDelete(r, a, u)
DeleteTenant(r, a, t)   == SoftDelete(r, a, t)
DeleteRole(r, a, ro)    == SoftDelete(r, a, ro)
DeleteResource(r, a, s) == SoftDelete(r, a, s)
DeleteAction(r, a, c)   == SoftDelete(r, a, c)

\* A faulty variant: no unique index holds for updates.
WriteNameUnindexed(table, r, a, x, n) ==
    /\ x \in table
    /\ InApp(a, x)
    /\ name' = [name EXCEPT ![x] = n]
    /\ Answer(r, 200)
    /\ UNCHANGED <<appOf, live>>

\* UPDATE ... SET name = n WHERE id = x AND app_id = a AND deleted_at IS NULL
WriteName(table, r, a, x, n) ==
    \/ /\ ~InApp(a, x)
       /\ Answer(r, 404)
       /\ UNCHANGED rows
    \/ /\ InApp(a, x)
       /\ Taken(table, a, x, n)
       /\ Answer(r, 409)
       /\ UNCHANGED rows
    \/ /\ InApp(a, x)
       /\ ~Taken(table, a, x, n)
       /\ name' = [name EXCEPT ![x] = n]
       /\ Answer(r, 200)
       /\ UNCHANGED <<appOf, live>>

\* PATCH of a role or a tenant replaces metadata in one statement; the name of
\* a role lives there and may be absent, a tenant has none.
UpdateRole(r, a, ro, n) == Free(r) /\ WriteName(Roles, r, a, ro, n)
UpdateTenant(r, a, t)   == Free(r) /\ WriteName(Tenants, r, a, t, NoName)

\* PATCH of a user, a resource or an action reads the row, fills the columns the
\* body does not name from what it read, and writes all of them back.
Renaming(a, x, named, n) ==
    [op |-> "rename", app |-> a, row |-> x, named |-> named, name |-> n]

ReadForUpdate(r, a, x, named, n) ==
    /\ Free(r)
    /\ \/ /\ ~InApp(a, x)
          /\ Answer(r, 404)
       \/ /\ InApp(a, x)
          /\ Remember(r, Renaming(a, x, named, IF named THEN n ELSE name[x]))
    /\ UNCHANGED rows

UpdateUserRead(r, a, u, named, e)     == ReadForUpdate(r, a, u, named, e)
UpdateResourceRead(r, a, s, named, n) == ReadForUpdate(r, a, s, named, n)
UpdateActionRead(r, a, c, named, n)   == ReadForUpdate(r, a, c, named, n)

UpdateWrite(table, r) ==
    /\ req[r].op = "rename"
    /\ req[r].row \in table
    /\ WriteName(table, r, req[r].app, req[r].row, req[r].name)

UpdateUserWrite(r)     == UpdateWrite(Users, r)
UpdateResourceWrite(r) == UpdateWrite(Resources, r)
UpdateActionWrite(r)   == UpdateWrite(Actions, r)

\* A body that does not decode, a nil id, an empty name: refused before anything is written.
BadRequest(r) ==
    /\ Free(r)
    /\ Answer(r, 400)
    /\ UNCHANGED rows

\* The client hangs up, the connection drops or the server stops between two
\* statements: whatever the handler remembered is gone.
Abort(r) ==
    /\ ~Free(r)
    /\ Answer(r, 500)
    /\ UNCHANGED rows

-----------------------------------------------------------------------------
\* One request of each handler: its operations over the inputs a client may send.
UserRequest(r, a) ==
    \E u \in Users :
        \/ DeleteUser(r, a, u)
        \/ \E e \in Emails :
            \/ CreateUser(r, a, u, e)
            \/ \E named \in BOOLEAN : UpdateUserRead(r, a, u, named, e)

TenantRequest(r, a) ==
    \E t \in Tenants :
        CreateTenant(r, a, t) \/ UpdateTenant(r, a, t) \/ DeleteTenant(r, a, t)

RoleRequest(r, a) ==
    \E ro \in Roles :
        \/ DeleteRole(r, a, ro)
        \/ \E n \in RoleNames \cup {NoName} :
            CreateRole(r, a, ro, n) \/ UpdateRole(r, a, ro, n)

ResourceRequest(r, a) ==
    \E s \in Resources :
        \/ DeleteResource(r, a, s)
        \/ \E n \in ResourceNames :
            \/ CreateResource(r, a, s, n)
            \/ \E named \in BOOLEAN : UpdateResourceRead(r, a, s, named, n)

ActionRequest(r, a) ==
    \E c \in Actions :
        \/ DeleteAction(r, a, c)
        \/ \E n \in ActionNames :
            \/ CreateAction(r, a, c, n)
            \/ \E named \in BOOLEAN : UpdateActionRead(r, a, c, named, n)

StartEntityOp(r, a) ==
    \/ UserRequest(r, a)
    \/ TenantRequest(r, a)
    \/ RoleRequest(r, a)
    \/ ResourceRequest(r, a)
    \/ ActionRequest(r, a)
    \/ BadRequest(r)

ContinueEntityOp(r) ==
    \/ UpdateUserWrite(r)
    \/ UpdateResourceWrite(r)
    \/ UpdateActionWrite(r)
    \/ Abort(r)

-----------------------------------------------------------------------------
AnsweredSlot == [op : {"answered"}, status : Statuses]
RenameSlot   == [op : {"rename"}, app : Apps, row : Users \cup Resources \cup Actions,
                 named : BOOLEAN, name : Names \cup {NoName}]

EntityTypeOK ==
    /\ appOf \in [Entity -> Apps \cup {NoApp}]
    /\ live \subseteq {x \in Entity : appOf[x] # NoApp}
    /\ name \in [Entity -> Names \cup {NoName}]

=============================================================================
