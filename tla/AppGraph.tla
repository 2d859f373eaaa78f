------------------------------ MODULE AppGraph ------------------------------
(***************************************************************************)
(* What one app gets: an access graph of its own, as if there were no      *)
(* other app, no requests in progress and no statements.  Rows are added,  *)
(* renamed and deleted, edges join rows the app has, every operation is    *)
(* one step, and what a user is allowed is read off the graph.             *)
(***************************************************************************)
CONSTANTS
    Users, Tenants, Roles, Resources, Actions,      \* row ids
    Emails, RoleNames, ResourceNames, ActionNames,  \* normalized names
    AssignIds, PermIds,
    NoName

VARIABLES
    row,         \* the rows the app has had: row[x] is the name of x and whether it is active
    assignment,  \* its role assignments: who has which role in which tenant, and whether still
    permission,  \* its permissions: which role may do what, and whether still
    allowed      \* the questions that are answered with yes

graphVars == <<row, assignment, permission, allowed>>

Tables   == {Users, Tenants, Roles, Resources, Actions}
AnyName  == Emails \cup RoleNames \cup ResourceNames \cup ActionNames \cup {NoName}
UserEdge == [user : Users, role : Roles, tenant : Tenants]
RoleEdge == [role : Roles, resource : Resources, action : Actions]

Nothing == [x \in {} |-> NoName]
Put(f, x, v) == [y \in DOMAIN f \cup {x} |-> IF y = x THEN v ELSE f[y]]

Active(f, x) == x \in DOMAIN f /\ f[x].live

-----------------------------------------------------------------------------
\* A name denotes one active row of its table, an edge is active once.
NameFree(table, x, n) ==
    n # NoName => \A y \in table \ {x} : Active(row, y) => row[y].name # n

EdgeFree(f, x, e) == \A y \in DOMAIN f \ {x} : Active(f, y) => f[y].edge # e

AddRow(table, x, n) ==
    /\ x \notin DOMAIN row
    /\ NameFree(table, x, n)
    /\ row' = Put(row, x, [name |-> n, live |-> TRUE])
    /\ UNCHANGED <<assignment, permission>>

RenameRow(table, x, n) ==
    /\ Active(row, x)
    /\ NameFree(table, x, n)
    /\ row' = Put(row, x, [name |-> n, live |-> TRUE])
    /\ UNCHANGED <<assignment, permission>>

DeleteRow(x) ==
    /\ Active(row, x)
    /\ row' = Put(row, x, [name |-> row[x].name, live |-> FALSE])
    /\ UNCHANGED <<assignment, permission>>

\* A new assignment, or an active one that a PATCH points elsewhere.
Assign(x, e) ==
    /\ x \notin DOMAIN assignment \/ Active(assignment, x)
    /\ {e.user, e.role, e.tenant} \subseteq DOMAIN row
    /\ EdgeFree(assignment, x, e)
    /\ assignment' = Put(assignment, x, [edge |-> e, live |-> TRUE])
    /\ UNCHANGED <<row, permission>>

Unassign(x) ==
    /\ Active(assignment, x)
    /\ assignment' = Put(assignment, x, [edge |-> assignment[x].edge, live |-> FALSE])
    /\ UNCHANGED <<row, permission>>

Grant(p, e) ==
    /\ p \notin DOMAIN permission
    /\ {e.role, e.resource, e.action} \subseteq DOMAIN row
    /\ EdgeFree(permission, p, e)
    /\ permission' = Put(permission, p, [edge |-> e, live |-> TRUE])
    /\ UNCHANGED <<row, assignment>>

Revoke(p) ==
    /\ Active(permission, p)
    /\ permission' = Put(permission, p, [edge |-> permission[p].edge, live |-> FALSE])
    /\ UNCHANGED <<row, assignment>>

-----------------------------------------------------------------------------
\* A user may do in a tenant what a role that it has there permits, as long as every
\* row and edge on the way is active.
Decisions ==
    {q \in [user : Users, tenant : Tenants, resource : ResourceNames, action : ActionNames] :
        \E x \in DOMAIN assignment, p \in DOMAIN permission :
            LET u == assignment[x].edge
                r == permission[p].edge
            IN  /\ Active(assignment, x) /\ Active(permission, p)
                /\ u.role = r.role
                /\ \A y \in {u.user, u.role, u.tenant, r.resource, r.action} : Active(row, y)
                /\ <<u.user, u.tenant>> = <<q.user, q.tenant>>
                /\ <<row[r.resource].name, row[r.action].name>> = <<q.resource, q.action>>}

GraphInit ==
    /\ row = Nothing
    /\ assignment = Nothing
    /\ permission = Nothing
    /\ allowed = {}

Operation ==
    \/ \E table \in Tables, n \in AnyName : \E x \in table :
         AddRow(table, x, n) \/ RenameRow(table, x, n)
    \/ \E table \in Tables : \E x \in table : DeleteRow(x)
    \/ \E x \in AssignIds : Unassign(x) \/ \E e \in UserEdge : Assign(x, e)
    \/ \E p \in PermIds : Revoke(p) \/ \E e \in RoleEdge : Grant(p, e)

GraphNext == Operation /\ allowed' = Decisions'

\* [GraphNext]_graphVars, for steps of several graphs at once.
GraphStep == UNCHANGED graphVars \/ GraphNext

=============================================================================
