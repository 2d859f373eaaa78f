-------------------------- MODULE RoleAssignments --------------------------
(***************************************************************************)
(* The roleassignments table and its handlers: an active row gives a user  *)
(* a role within a tenant.                                                 *)
(*                                                                         *)
(* Every statement is a transaction of its own at READ COMMITTED, the      *)
(* default isolation level.  The UPDATEs of this table also join tenants:  *)
(* PostgreSQL finds the row and its tenant in the statement's snapshot,    *)
(* then locks the row, and if the row has changed meanwhile it tests the   *)
(* WHERE clause again on the row's newest version joined to the SAME       *)
(* tenant.  Such a statement is therefore two steps, ...Match and ...Write. *)
(***************************************************************************)
EXTENDS Entities

CONSTANTS
    AssignIds,    \* ids of role assignments
    PatchFields,  \* bound: the sets of columns that a PATCH body names
    NoEdge

VARIABLES
    assign,     \* assign[x]: the columns of row x, NoEdge when x does not exist
    liveAssign  \* the role assignments whose deleted_at IS NULL

assignVars == <<assign, liveAssign>>

AssignEdge == [user : Users, role : Roles, tenant : Tenants]

ASSUME AssignmentAssumption ==
    /\ NoEdge \notin AssignEdge
    /\ PatchFields \subseteq SUBSET {"user", "role", "tenant"}

AssignmentInit ==
    /\ assign = [x \in AssignIds |-> NoEdge]
    /\ liveAssign = {}

-----------------------------------------------------------------------------
\* requireEntitiesInApp: a missing, deleted or foreign id is answered with a 400.
AssignmentEntitiesInApp(a, e) == InApp(a, e.user) /\ InApp(a, e.role) /\ InApp(a, e.tenant)

\* The trigger check_roleassignment_app_consistency and the foreign keys: the
\* three rows exist and share an app.  Neither looks at deleted_at.
AssignmentSameApp(e) ==
    /\ appOf[e.user] # NoApp
    /\ appOf[e.user] = appOf[e.role]
    /\ appOf[e.user] = appOf[e.tenant]

\* The unique index roleassignments_active_uq.
AssignmentTaken(x, e) == \E y \in liveAssign \ {x} : assign[y] = e

\* A faulty variant: the unique index guards INSERT only.
AssignmentWriteStatusOnInsert(x, e, ok) ==
    CASE ~AssignmentSameApp(e)              -> 400
      [] ok = 201 /\ AssignmentTaken(x, e)  -> 409
      [] OTHER                              -> ok

\* What the database makes of writing edge e to row x, as an HTTP status.
AssignmentWriteStatus(x, e, ok) ==
    CASE ~AssignmentSameApp(e)  -> 400
      [] AssignmentTaken(x, e)  -> 409
      [] OTHER                  -> ok

\* The row that GetByID, UPDATE and DELETE find: active, and its tenant, deleted
\* or not, belongs to the app.
VisibleAssignment(a, x) ==
    /\ x \in liveAssign
    /\ appOf[assign[x].tenant] = a

-----------------------------------------------------------------------------
Assigning(a, e) == [op |-> "assign", app |-> a, edge |-> e]

CreateAssignmentCheck(r, a, e) ==
    /\ Free(r)
    /\ \/ /\ ~AssignmentEntitiesInApp(a, e)
          /\ Answer(r, 400)
       \/ /\ AssignmentEntitiesInApp(a, e)
          /\ Remember(r, Assigning(a, e))
    /\ UNCHANGED <<rows, assignVars>>

CreateAssignmentInsert(r, x) ==
    /\ req[r].op = "assign"
    /\ assign[x] = NoEdge
    /\ LET status == AssignmentWriteStatus(x, req[r].edge, 201) IN
       /\ Answer(r, status)
       /\ \/ /\ status # 201
             /\ UNCHANGED assignVars
          \/ /\ status = 201
             /\ assign' = [assign EXCEPT ![x] = req[r].edge]
             /\ liveAssign' = liveAssign \cup {x}
    /\ UNCHANGED rows

\* A PATCH remembers the columns it will write: those the body names and, for the
\* others, what it has just read.
Repointing(a, x, e, fields) ==
    [op |-> "repoint", at |-> "read", app |-> a, id |-> x, edge |-> e,
     fields |-> fields, tenant |-> e.tenant]

\* A faulty variant: columns that the body does not name are blanked.
PatchedBlank(old, fields, e) == [f \in {"user", "role", "tenant"} |->
                                    IF f \in fields THEN e[f] ELSE NoName]

Patched(old, fields, e) == [f \in {"user", "role", "tenant"} |->
                               IF f \in fields THEN e[f] ELSE old[f]]

UpdateAssignmentRead(r, a, x, fields, e) ==
    /\ Free(r)
    /\ \/ /\ ~VisibleAssignment(a, x)
          /\ Answer(r, 404)
       \/ /\ VisibleAssignment(a, x)
          /\ Remember(r, Repointing(a, x, Patched(assign[x], fields, e), fields))
    /\ UNCHANGED <<rows, assignVars>>

RepointAt(r, at) == req[r].op = "repoint" /\ req[r].at = at

UpdateAssignmentCheck(r) ==
    /\ RepointAt(r, "read")
    /\ \/ /\ ~AssignmentEntitiesInApp(req[r].app, req[r].edge)
          /\ Answer(r, 400)
       \/ /\ AssignmentEntitiesInApp(req[r].app, req[r].edge)
          /\ req' = [req EXCEPT ![r].at = "checked"]
    /\ UNCHANGED <<rows, assignVars>>

UpdateAssignmentMatch(r) ==
    /\ RepointAt(r, "checked")
    /\ \/ /\ ~VisibleAssignment(req[r].app, req[r].id)
          /\ Answer(r, 404)
       \/ /\ VisibleAssignment(req[r].app, req[r].id)
          /\ req' = [req EXCEPT ![r].at = "matched",
                                ![r].tenant = assign[req[r].id].tenant]
    /\ UNCHANGED <<rows, assignVars>>

\* A faulty variant: the UPDATE does not test deleted_at.
StillMatchesDeleted(r) == assign[req[r].id].tenant = req[r].tenant

\* The WHERE clause again, on the newest version of the row and the matched tenant.
StillMatches(r) ==
    /\ req[r].id \in liveAssign
    /\ assign[req[r].id].tenant = req[r].tenant

UpdateAssignmentWrite(r) ==
    /\ RepointAt(r, "matched")
    /\ \/ /\ ~StillMatches(r)
          /\ Answer(r, 404)
          /\ UNCHANGED assign
       \/ /\ StillMatches(r)
          /\ LET status == AssignmentWriteStatus(req[r].id, req[r].edge, 200) IN
             /\ Answer(r, status)
             /\ \/ status # 200 /\ UNCHANGED assign
                \/ status = 200 /\ assign' = [assign EXCEPT ![req[r].id] = req[r].edge]
    /\ UNCHANGED <<rows, liveAssign>>

Unassigning(a, x, t) == [op |-> "unassign", app |-> a, id |-> x, tenant |-> t]

DeleteAssignmentMatch(r, a, x) ==
    /\ Free(r)
    /\ \/ /\ ~VisibleAssignment(a, x)
          /\ Answer(r, 404)
       \/ /\ VisibleAssignment(a, x)
          /\ Remember(r, Unassigning(a, x, assign[x].tenant))
    /\ UNCHANGED <<rows, assignVars>>

DeleteAssignmentWrite(r) ==
    /\ req[r].op = "unassign"
    /\ \/ /\ ~StillMatches(r)
          /\ Answer(r, 404)
          /\ UNCHANGED liveAssign
       \/ /\ StillMatches(r)
          /\ liveAssign' = liveAssign \ {req[r].id}
          /\ Answer(r, 204)
    /\ UNCHANGED <<rows, assign>>

-----------------------------------------------------------------------------
AssignmentRequest(r, a) ==
    \/ \E e \in AssignEdge : CreateAssignmentCheck(r, a, e)
    \/ \E x \in AssignIds :
        \/ DeleteAssignmentMatch(r, a, x)
        \/ \E fields \in PatchFields, e \in AssignEdge : UpdateAssignmentRead(r, a, x, fields, e)

ContinueAssignmentOp(r) ==
    \/ \E x \in AssignIds : CreateAssignmentInsert(r, x)
    \/ UpdateAssignmentCheck(r)
    \/ UpdateAssignmentMatch(r)
    \/ UpdateAssignmentWrite(r)
    \/ DeleteAssignmentWrite(r)

-----------------------------------------------------------------------------
AssignSlot   == [op : {"assign"}, app : Apps, edge : AssignEdge]
RepointSlot  == [op : {"repoint"}, at : {"read", "checked", "matched"}, app : Apps,
                 id : AssignIds, edge : AssignEdge,
                 fields : SUBSET {"user", "role", "tenant"}, tenant : Tenants]
UnassignSlot == [op : {"unassign"}, app : Apps, id : AssignIds, tenant : Tenants]

AssignmentTypeOK ==
    /\ assign \in [AssignIds -> AssignEdge \cup {NoEdge}]
    /\ liveAssign \subseteq {x \in AssignIds : assign[x] # NoEdge}

=============================================================================
