---------------------------- MODULE AccessProofs ----------------------------
(***************************************************************************)
(* Proofs about Access for every set of apps, rows, names and requests.    *)
(*                                                                         *)
(* What a step may write is worked out once, in the lemma StepOfWrites: a  *)
(* step that serves an app inserts, changes or soft-deletes at most one row*)
(* of one table, of that app, under the constraints of the schema.  For the*)
(* second and later statements of a request this needs IInv: what a handler*)
(* remembers belongs to the app it serves.  The invariants and the action  *)
(* properties are then consequences of those few kinds of write.           *)
(***************************************************************************)
EXTENDS Access, TLAPS

Tables == {Users, Tenants, Roles, Resources, Actions}

(* The kinds of write that serve app a *)

RowAdded(a) == a \in Apps /\ \E table \in Tables, n \in Names \cup {NoName} : \E x \in table :
    /\ appOf[x] = NoApp
    /\ ~Taken(table, a, x, n)
    /\ appOf' = [appOf EXCEPT ![x] = a]
    /\ live' = live \cup {x}
    /\ name' = [name EXCEPT ![x] = n]

RowDeleted(a) == \E x \in live :
    /\ appOf[x] = a
    /\ live' = live \ {x}
    /\ UNCHANGED <<appOf, name>>

RowRenamed(a) == \E table \in Tables, n \in Names \cup {NoName} : \E x \in table :
    /\ InApp(a, x)
    /\ ~Taken(table, a, x, n)
    /\ name' = [name EXCEPT ![x] = n]
    /\ UNCHANGED <<appOf, live>>

RowsWritten(a) == UNCHANGED rows \/ RowAdded(a) \/ RowDeleted(a) \/ RowRenamed(a)

AssignmentAdded(a) == \E x \in AssignIds, e \in AssignEdge :
    /\ assign[x] = NoEdge
    /\ AssignmentSameApp(e)
    /\ appOf[e.tenant] = a
    /\ ~AssignmentTaken(x, e)
    /\ assign' = [assign EXCEPT ![x] = e]
    /\ liveAssign' = liveAssign \cup {x}

AssignmentMoved(a) == \E x \in liveAssign, e \in AssignEdge :
    /\ appOf[assign[x].tenant] = a
    /\ AssignmentSameApp(e)
    /\ appOf[e.tenant] = a
    /\ ~AssignmentTaken(x, e)
    /\ assign' = [assign EXCEPT ![x] = e]
    /\ UNCHANGED liveAssign

AssignmentDeleted(a) == \E x \in liveAssign :
    /\ appOf[assign[x].tenant] = a
    /\ liveAssign' = liveAssign \ {x}
    /\ UNCHANGED assign

AssignmentsWritten(a) ==
    UNCHANGED assignVars \/ AssignmentAdded(a) \/ AssignmentMoved(a) \/ AssignmentDeleted(a)

PermissionAdded(a) == \E p \in PermIds, e \in PermEdge :
    /\ perm[p] = NoGrant
    /\ PermissionSameApp(e)
    /\ appOf[e.role] = a
    /\ ~PermissionTaken(e)
    /\ perm' = [perm EXCEPT ![p] = e]
    /\ livePerm' = livePerm \cup {p}

PermissionDeleted(a) == \E p \in livePerm :
    /\ appOf[perm[p].role] = a
    /\ livePerm' = livePerm \ {p}
    /\ UNCHANGED perm

PermissionsWritten(a) == UNCHANGED permVars \/ PermissionAdded(a) \/ PermissionDeleted(a)

OneTableWritten(a) ==
    \/ RowsWritten(a)        /\ UNCHANGED <<assignVars, permVars>>
    \/ AssignmentsWritten(a) /\ UNCHANGED <<rows, permVars>>
    \/ PermissionsWritten(a) /\ UNCHANGED <<rows, assignVars>>

\* What a request remembers after its checks belongs to its app.  Rows may have
\* been deleted since, but a row never changes its app.
SlotInApp(s) ==
    /\ s.op = "assign" => appOf[s.edge.tenant] = s.app
    /\ s.op = "repoint" /\ s.at \in {"checked", "matched"} => appOf[s.edge.tenant] = s.app
    /\ s.op = "repoint" /\ s.at = "matched" => appOf[s.tenant] = s.app
    /\ s.op = "unassign" => appOf[s.tenant] = s.app
    /\ s.op = "grant" => appOf[s.edge.role] = s.app
SlotsInApp == \A r \in Requests : SlotInApp(req[r])

\* The inductive invariant every theorem rests on.
IInv == TypeOK /\ SlotsInApp

Slots == AnsweredSlot \cup RenameSlot \cup AssignSlot
            \cup RepointSlot \cup UnassignSlot \cup GrantSlot

-----------------------------------------------------------------------------
\* A slot has the fields of the operation it names.
LEMMA SlotFields ==
    ASSUME TypeOK, NEW r \in Requests
    PROVE  /\ req[r].op = "rename"   => req[r] \in RenameSlot
           /\ req[r].op = "assign"   => req[r] \in AssignSlot
           /\ req[r].op = "repoint"  => req[r] \in RepointSlot
           /\ req[r].op = "unassign" => req[r] \in UnassignSlot
           /\ req[r].op = "grant"    => req[r] \in GrantSlot
<1>1. req[r] \in Slots
  BY DEF TypeOK, Slots
<1> QED
  BY <1>1 DEF Slots, AnsweredSlot, RenameSlot, AssignSlot, RepointSlot, UnassignSlot, GrantSlot

\* The step writes one slot, with a legal value that belongs to its app.
SlotKept(r) == \E v \in Slots : SlotInApp(v) /\ req' = [req EXCEPT ![r] = v]

LEMMA SlotAnswered ==
    ASSUME NEW r \in Requests, NEW status \in Statuses, Answer(r, status)
    PROVE  SlotKept(r)
<1>1. Answered(status) \in Slots /\ SlotInApp(Answered(status))
  BY DEF Answered, AnsweredSlot, Slots, SlotInApp
<1> QED
  BY <1>1 DEF Answer, SlotKept

-----------------------------------------------------------------------------
(* What the handlers of the entity tables write *)

LEMMA TablesAreEntities == ASSUME NEW table \in Tables PROVE table \subseteq Entity
  BY DEF Tables, Entity

LEMMA InsertWrites ==
    ASSUME TypeOK, NEW table \in Tables, NEW x \in table, NEW a \in Apps,
           NEW n \in Names \cup {NoName}, NEW r \in Requests, Insert(table, r, a, x, n)
    PROVE  RowsWritten(a) /\ SlotKept(r)
<1>1. CASE Taken(table, a, x, n) /\ Answer(r, 409) /\ UNCHANGED rows
  BY <1>1, SlotAnswered DEF RowsWritten, Statuses
<1>2. CASE ~Taken(table, a, x, n) /\ Answer(r, 201)
  BY <1>2, SlotAnswered DEF Insert, RowsWritten, RowAdded, Statuses
<1> QED
  BY <1>1, <1>2 DEF Insert

LEMMA SoftDeleteWrites ==
    ASSUME TypeOK, NEW x \in Entity, NEW a \in Apps, NEW r \in Requests, SoftDelete(r, a, x)
    PROVE  RowsWritten(a) /\ SlotKept(r)
<1>1. CASE InApp(a, x) /\ Answer(r, 204)
  BY <1>1, SlotAnswered DEF SoftDelete, RowsWritten, RowDeleted, InApp, Statuses
<1>2. CASE ~InApp(a, x)
  BY <1>2, SlotAnswered DEF SoftDelete, RowsWritten, Statuses
<1> QED
  BY <1>1, <1>2 DEF SoftDelete

LEMMA WriteNameWrites ==
    ASSUME TypeOK, NEW table \in Tables, NEW x \in table, NEW a \in Apps,
           NEW n \in Names \cup {NoName}, NEW r \in Requests, WriteName(table, r, a, x, n)
    PROVE  RowsWritten(a) /\ SlotKept(r)
<1>1. CASE ~InApp(a, x) \/ Taken(table, a, x, n)
  BY <1>1, SlotAnswered DEF WriteName, RowsWritten, Statuses
<1>2. CASE InApp(a, x) /\ ~Taken(table, a, x, n)
  BY <1>2, SlotAnswered DEF WriteName, RowsWritten, RowRenamed, Statuses
<1> QED
  BY <1>1, <1>2

LEMMA ReadForUpdateWrites ==
    ASSUME TypeOK, NEW x \in Users \cup Resources \cup Actions, NEW a \in Apps,
           NEW named \in BOOLEAN, NEW n \in Names, NEW r \in Requests,
           ReadForUpdate(r, a, x, named, n)
    PROVE  RowsWritten(a) /\ SlotKept(r)
<1>1. RowsWritten(a)
  BY DEF ReadForUpdate, RowsWritten
<1>2. CASE Answer(r, 404)
  BY <1>1, <1>2, SlotAnswered DEF Statuses
<1>3. CASE Remember(r, Renaming(a, x, named, IF named THEN n ELSE name[x]))
  <2>1. name[x] \in Names \cup {NoName}
    BY DEF TypeOK, EntityTypeOK, Entity
  <2> DEFINE v == Renaming(a, x, named, IF named THEN n ELSE name[x])
  <2>2. v \in Slots /\ SlotInApp(v)
    BY <2>1 DEF Renaming, RenameSlot, Slots, SlotInApp
  <2> QED
    BY <1>1, <1>3, <2>2 DEF Remember, SlotKept
<1> QED
  BY <1>2, <1>3 DEF ReadForUpdate

LEMMA EntityRequestWrites ==
    ASSUME TypeOK, NEW a \in Apps, NEW r \in Requests, StartEntityOp(r, a)
    PROVE  RowsWritten(a) /\ SlotKept(r)
<1> USE DEF Tables, Names
<1>1. CASE UserRequest(r, a)
  <2>1. PICK u \in Users :
            \/ DeleteUser(r, a, u)
            \/ \E e \in Emails : CreateUser(r, a, u, e)
            \/ \E e \in Emails, named \in BOOLEAN : UpdateUserRead(r, a, u, named, e)
    BY <1>1 DEF UserRequest
  <2> QED
    BY <2>1, InsertWrites, SoftDeleteWrites, ReadForUpdateWrites
    DEF DeleteUser, CreateUser, UpdateUserRead, Entity
<1>2. CASE TenantRequest(r, a)
  BY <1>2, InsertWrites, SoftDeleteWrites, WriteNameWrites
  DEF TenantRequest, CreateTenant, UpdateTenant, DeleteTenant, Entity
<1>3. CASE RoleRequest(r, a)
  <2>1. PICK ro \in Roles :
            \/ DeleteRole(r, a, ro)
            \/ \E n \in RoleNames \cup {NoName} : CreateRole(r, a, ro, n) \/ UpdateRole(r, a, ro, n)
    BY <1>3 DEF RoleRequest
  <2> QED
    BY <2>1, InsertWrites, SoftDeleteWrites, WriteNameWrites
    DEF CreateRole, UpdateRole, DeleteRole, Entity
<1>4. CASE ResourceRequest(r, a)
  <2>1. PICK s \in Resources :
            \/ DeleteResource(r, a, s)
            \/ \E n \in ResourceNames : CreateResource(r, a, s, n)
            \/ \E n \in ResourceNames, named \in BOOLEAN : UpdateResourceRead(r, a, s, named, n)
    BY <1>4 DEF ResourceRequest
  <2> QED
    BY <2>1, InsertWrites, SoftDeleteWrites, ReadForUpdateWrites
    DEF DeleteResource, CreateResource, UpdateResourceRead, Entity
<1>5. CASE ActionRequest(r, a)
  <2>1. PICK c \in Actions :
            \/ DeleteAction(r, a, c)
            \/ \E n \in ActionNames : CreateAction(r, a, c, n)
            \/ \E n \in ActionNames, named \in BOOLEAN : UpdateActionRead(r, a, c, named, n)
    BY <1>5 DEF ActionRequest
  <2> QED
    BY <2>1, InsertWrites, SoftDeleteWrites, ReadForUpdateWrites
    DEF DeleteAction, CreateAction, UpdateActionRead, Entity
<1>6. CASE BadRequest(r)
  BY <1>6, SlotAnswered DEF BadRequest, RowsWritten, Statuses
<1> QED
  BY <1>1, <1>2, <1>3, <1>4, <1>5, <1>6 DEF StartEntityOp

LEMMA EntityContinueWrites ==
    ASSUME TypeOK, SlotsInApp, NEW r \in Requests, ContinueEntityOp(r)
    PROVE  RowsWritten(req[r].app) /\ SlotKept(r)
<1>1. ASSUME NEW table \in Tables, UpdateWrite(table, r)
      PROVE  RowsWritten(req[r].app) /\ SlotKept(r)
  <2>1. req[r] \in RenameSlot
    BY <1>1, SlotFields DEF UpdateWrite
  <2>2. /\ req[r].app \in Apps
        /\ req[r].name \in Names \cup {NoName}
    BY <2>1 DEF RenameSlot
  <2> QED
    BY <1>1, <2>2, WriteNameWrites DEF UpdateWrite
<1>2. CASE Abort(r)
  BY <1>2, SlotAnswered DEF Abort, RowsWritten, Statuses
<1> QED
  BY <1>1, <1>2 DEF ContinueEntityOp, UpdateUserWrite, UpdateResourceWrite, UpdateActionWrite, Tables

-----------------------------------------------------------------------------
(* What the handlers of the role assignments write *)

LEMMA AssignmentRequestWrites ==
    ASSUME TypeOK, NEW a \in Apps, NEW r \in Requests, AssignmentRequest(r, a)
    PROVE  /\ AssignmentsWritten(a)
           /\ UNCHANGED rows
           /\ SlotKept(r)
<1>1. ASSUME NEW e \in AssignEdge, CreateAssignmentCheck(r, a, e)
      PROVE  SlotKept(r)
  <2>1. CASE Answer(r, 400)
    BY <2>1, SlotAnswered DEF Statuses
  <2>2. CASE AssignmentEntitiesInApp(a, e) /\ Remember(r, Assigning(a, e))
    <3>1. Assigning(a, e) \in Slots /\ SlotInApp(Assigning(a, e))
      BY <2>2 DEF Assigning, AssignSlot, Slots, SlotInApp, AssignmentEntitiesInApp, InApp
    <3> QED
      BY <2>2, <3>1 DEF Remember, SlotKept
  <2> QED
    BY <1>1, <2>1, <2>2 DEF CreateAssignmentCheck
<1>2. ASSUME NEW x \in AssignIds, DeleteAssignmentMatch(r, a, x)
      PROVE  SlotKept(r)
  <2>1. CASE VisibleAssignment(a, x) /\ Remember(r, Unassigning(a, x, assign[x].tenant))
    <3>1. assign[x] \in AssignEdge
      BY <2>1 DEF VisibleAssignment, TypeOK, AssignmentTypeOK
    <3> DEFINE v == Unassigning(a, x, assign[x].tenant)
    <3>2. v \in Slots /\ SlotInApp(v)
      BY <2>1, <3>1 DEF AssignEdge, Unassigning, UnassignSlot, Slots, SlotInApp, VisibleAssignment
    <3> QED
      BY <2>1, <3>2 DEF Remember, SlotKept
  <2> QED
    BY <1>2, <2>1, SlotAnswered DEF DeleteAssignmentMatch, Statuses
<1>3. ASSUME NEW x \in AssignIds, NEW fields \in PatchFields, NEW e \in AssignEdge,
             UpdateAssignmentRead(r, a, x, fields, e)
      PROVE  SlotKept(r)
  <2> DEFINE new == Patched(assign[x], fields, e)
  <2>1. CASE VisibleAssignment(a, x) /\ Remember(r, Repointing(a, x, new, fields))
    <3>1. assign[x] \in AssignEdge
      BY <2>1 DEF VisibleAssignment, TypeOK, AssignmentTypeOK
    <3>2. new \in AssignEdge
      BY <3>1 DEF Patched, AssignEdge
    <3> DEFINE v == Repointing(a, x, new, fields)
    <3>3. v \in Slots /\ SlotInApp(v)
      BY <3>2, AssignmentAssumption DEF AssignEdge, Repointing, RepointSlot, Slots, SlotInApp
    <3> QED
      BY <2>1, <3>3 DEF Remember, SlotKept
  <2> QED
    BY <1>3, <2>1, SlotAnswered DEF UpdateAssignmentRead, Statuses
<1> QED
  BY <1>1, <1>2, <1>3 DEF AssignmentRequest, AssignmentsWritten, CreateAssignmentCheck,
     DeleteAssignmentMatch, UpdateAssignmentRead

LEMMA CreateAssignmentInsertWrites ==
    ASSUME TypeOK, SlotsInApp, NEW r \in Requests, NEW x \in AssignIds, CreateAssignmentInsert(r, x)
    PROVE  AssignmentsWritten(req[r].app) /\ SlotKept(r)
<1> DEFINE e == req[r].edge
           status == AssignmentWriteStatus(x, e, 201)
<1>1. e \in AssignEdge
  BY SlotFields DEF CreateAssignmentInsert, AssignSlot
<1>2. /\ status \in {201, 400, 409}
      /\ status = 201 => AssignmentSameApp(e) /\ ~AssignmentTaken(x, e)
  BY DEF AssignmentWriteStatus
<1>5. appOf[e.tenant] = req[r].app
  BY DEF CreateAssignmentInsert, SlotsInApp, SlotInApp
<1>3. SlotKept(r)
  BY <1>2, SlotAnswered DEF CreateAssignmentInsert, Statuses
<1>4. AssignmentsWritten(req[r].app)
  BY <1>1, <1>2, <1>5 DEF CreateAssignmentInsert, AssignmentsWritten, AssignmentAdded
<1> QED
  BY <1>3, <1>4

LEMMA UpdateAssignmentWrites ==
    ASSUME TypeOK, SlotsInApp, NEW r \in Requests,
           UpdateAssignmentCheck(r) \/ UpdateAssignmentMatch(r) \/ UpdateAssignmentWrite(r)
    PROVE  AssignmentsWritten(req[r].app) /\ SlotKept(r)
<1> DEFINE x == req[r].id
           e == req[r].edge
           status == AssignmentWriteStatus(x, e, 200)
<1>1. req[r] \in RepointSlot
  BY SlotFields DEF UpdateAssignmentCheck, UpdateAssignmentMatch, UpdateAssignmentWrite, RepointAt
<1>2. CASE UpdateAssignmentCheck(r)
  <2> DEFINE v == [req[r] EXCEPT !.at = "checked"]
  <2>1. v \in Slots
    BY <1>1 DEF RepointSlot, Slots
  <2>3. AssignmentEntitiesInApp(req[r].app, e) => SlotInApp(v)
    BY <1>1 DEF AssignmentEntitiesInApp, InApp, RepointSlot, SlotInApp
  <2>2. ASSUME AssignmentEntitiesInApp(req[r].app, e), req' = [req EXCEPT ![r].at = "checked"]
        PROVE  SlotKept(r)
    <3>1. req' = [req EXCEPT ![r] = v]
      BY <2>2 DEF TypeOK
    <3> QED
      BY <2>1, <2>2, <2>3, <3>1 DEF SlotKept
  <2> QED
    BY <1>2, <2>2, SlotAnswered DEF UpdateAssignmentCheck, AssignmentsWritten, Statuses
<1>3. CASE UpdateAssignmentMatch(r)
  <2>1. CASE ~VisibleAssignment(req[r].app, x)
    BY <1>3, <2>1, SlotAnswered DEF UpdateAssignmentMatch, AssignmentsWritten, Statuses
  <2>2. CASE VisibleAssignment(req[r].app, x)
    <3>1. assign[x].tenant \in Tenants
      BY <2>2 DEF VisibleAssignment, TypeOK, AssignmentTypeOK, AssignEdge
    <3> DEFINE v == [req[r] EXCEPT !.at = "matched", !.tenant = assign[x].tenant]
    <3>2. v \in Slots
      BY <1>1, <3>1 DEF RepointSlot, Slots
    <3>4. SlotInApp(v)
      BY <1>1, <1>3, <2>2
      DEF UpdateAssignmentMatch, RepointAt, VisibleAssignment, RepointSlot, SlotsInApp, SlotInApp
    <3>3. req' = [req EXCEPT ![r] = v]
      BY <1>3, <2>2 DEF UpdateAssignmentMatch, TypeOK
    <3> QED
      BY <1>3, <3>2, <3>3, <3>4 DEF UpdateAssignmentMatch, AssignmentsWritten, SlotKept
  <2> QED
    BY <2>1, <2>2
<1>4. CASE UpdateAssignmentWrite(r)
  <2>1. e \in AssignEdge
    BY <1>1 DEF RepointSlot
  <2>2. /\ status \in {200, 400, 409}
        /\ status = 200 => AssignmentSameApp(e) /\ ~AssignmentTaken(x, e)
    BY DEF AssignmentWriteStatus
  <2>3. SlotKept(r)
    BY <1>4, <2>2, SlotAnswered DEF UpdateAssignmentWrite, Statuses
  <2>5. appOf[e.tenant] = req[r].app /\ appOf[req[r].tenant] = req[r].app
    BY <1>4 DEF UpdateAssignmentWrite, RepointAt, SlotsInApp, SlotInApp
  <2>4. AssignmentsWritten(req[r].app)
    BY <1>4, <2>1, <2>2, <2>5
    DEF UpdateAssignmentWrite, StillMatches, AssignmentsWritten, AssignmentMoved, assignVars
  <2> QED
    BY <2>3, <2>4
<1> QED
  BY <1>2, <1>3, <1>4

LEMMA DeleteAssignmentWrites ==
    ASSUME TypeOK, SlotsInApp, NEW r \in Requests, DeleteAssignmentWrite(r)
    PROVE  AssignmentsWritten(req[r].app) /\ SlotKept(r)
<1>3. appOf[req[r].tenant] = req[r].app
  BY DEF DeleteAssignmentWrite, SlotsInApp, SlotInApp
<1>1. CASE StillMatches(r)
  BY <1>1, <1>3, SlotAnswered
  DEF DeleteAssignmentWrite, StillMatches, AssignmentsWritten, AssignmentDeleted, Statuses
<1>2. CASE ~StillMatches(r)
  BY <1>2, SlotAnswered DEF DeleteAssignmentWrite, AssignmentsWritten, assignVars, Statuses
<1> QED
  BY <1>1, <1>2

-----------------------------------------------------------------------------
(* What the handlers of the permissions write *)

LEMMA PermissionRequestWrites ==
    ASSUME TypeOK, NEW a \in Apps, NEW r \in Requests, PermissionRequest(r, a)
    PROVE  /\ PermissionsWritten(a)
           /\ UNCHANGED rows
           /\ SlotKept(r)
<1>1. ASSUME NEW e \in PermEdge, CreatePermissionCheck(r, a, e)
      PROVE  PermissionsWritten(a) /\ UNCHANGED rows /\ SlotKept(r)
  <2>1. CASE Answer(r, 400)
    BY <1>1, <2>1, SlotAnswered DEF CreatePermissionCheck, PermissionsWritten, Statuses
  <2>2. CASE PermissionEntitiesInApp(a, e) /\ Remember(r, Granting(a, e))
    <3>1. Granting(a, e) \in Slots /\ SlotInApp(Granting(a, e))
      BY <2>2 DEF Granting, GrantSlot, Slots, SlotInApp, PermissionEntitiesInApp, InApp
    <3> QED
      BY <1>1, <2>2, <3>1 DEF CreatePermissionCheck, PermissionsWritten, Remember, SlotKept
  <2> QED
    BY <1>1, <2>1, <2>2 DEF CreatePermissionCheck
<1>2. ASSUME NEW ro \in Roles, NEW p \in PermIds, DeletePermission(r, a, ro, p)
      PROVE  PermissionsWritten(a) /\ UNCHANGED rows /\ SlotKept(r)
  BY <1>2, SlotAnswered
  DEF DeletePermission, VisiblePermission, InApp, PermissionsWritten, PermissionDeleted, permVars,
      Statuses
<1> QED
  BY <1>1, <1>2 DEF PermissionRequest

LEMMA CreatePermissionInsertWrites ==
    ASSUME TypeOK, SlotsInApp, NEW r \in Requests, NEW p \in PermIds, CreatePermissionInsert(r, p)
    PROVE  PermissionsWritten(req[r].app) /\ SlotKept(r)
<1> DEFINE e == req[r].edge
           status == PermissionWriteStatus(e)
<1>1. e \in PermEdge
  BY SlotFields DEF CreatePermissionInsert, GrantSlot
<1>2. /\ status \in {201, 400, 409}
      /\ status = 201 => PermissionSameApp(e) /\ ~PermissionTaken(e)
  BY DEF PermissionWriteStatus
<1>5. appOf[e.role] = req[r].app
  BY DEF CreatePermissionInsert, SlotsInApp, SlotInApp
<1>3. SlotKept(r)
  BY <1>2, SlotAnswered DEF CreatePermissionInsert, Statuses
<1>4. PermissionsWritten(req[r].app)
  BY <1>1, <1>2, <1>5 DEF CreatePermissionInsert, PermissionsWritten, PermissionAdded
<1> QED
  BY <1>3, <1>4

-----------------------------------------------------------------------------
\* Every step but stuttering is one of a handler that serves some app.
LEMMA StepServesApp ==
    ASSUME TypeOK, Next
    PROVE  \E a \in Apps : StepOf(a)
<1>1. PICK r \in Requests : (\E a \in Apps : Start(r, a)) \/ Continue(r)
  BY DEF Next
<1>2. CASE \E a \in Apps : Start(r, a)
  BY <1>2 DEF StepOf
<1>3. CASE Continue(r)
  <2>1. req[r] \in Slots /\ ~Free(r)
    BY <1>3 DEF TypeOK, Slots, Free, Continue, ContinueEntityOp, UpdateUserWrite,
       UpdateResourceWrite, UpdateActionWrite, UpdateWrite, Abort, ContinueAssignmentOp,
       CreateAssignmentInsert, UpdateAssignmentCheck, UpdateAssignmentMatch,
       UpdateAssignmentWrite, RepointAt, DeleteAssignmentWrite, ContinuePermissionOp,
       CreatePermissionInsert
  <2>2. req[r].app \in Apps
    BY <2>1 DEF Slots, Free, AnsweredSlot, RenameSlot, AssignSlot, RepointSlot, UnassignSlot,
       GrantSlot
  <2> QED
    BY <1>3, <2>1, <2>2 DEF StepOf
<1> QED
  BY <1>1, <1>2, <1>3

\* A step for an app writes at most one row, of that app, within the constraints of the schema.
LEMMA StepOfWrites ==
    ASSUME IInv, NEW a \in Apps, StepOf(a)
    PROVE  OneTableWritten(a) /\ \E r \in Requests : SlotKept(r)
<1> USE DEF IInv
<1>1. ASSUME NEW r \in Requests, Start(r, a)
      PROVE  OneTableWritten(a) /\ SlotKept(r)
  BY <1>1, EntityRequestWrites, AssignmentRequestWrites, PermissionRequestWrites
  DEF Start, OneTableWritten
<1>2. ASSUME NEW r \in Requests, req[r].app = a, Continue(r)
      PROVE  OneTableWritten(a) /\ SlotKept(r)
  <2>1. CASE ContinueEntityOp(r) /\ UNCHANGED <<assignVars, permVars>>
    BY <1>2, <2>1, EntityContinueWrites DEF OneTableWritten
  <2>2. CASE ContinueAssignmentOp(r) /\ UNCHANGED permVars
    <3>1. AssignmentsWritten(a) /\ SlotKept(r)
      BY <1>2, <2>2, CreateAssignmentInsertWrites, UpdateAssignmentWrites, DeleteAssignmentWrites
      DEF ContinueAssignmentOp
    <3>2. UNCHANGED rows
      BY <2>2 DEF ContinueAssignmentOp, CreateAssignmentInsert, UpdateAssignmentCheck,
         UpdateAssignmentMatch, UpdateAssignmentWrite, DeleteAssignmentWrite
    <3> QED
      BY <2>2, <3>1, <3>2 DEF OneTableWritten
  <2>3. CASE ContinuePermissionOp(r) /\ UNCHANGED assignVars
    <3>1. PermissionsWritten(a) /\ SlotKept(r) /\ UNCHANGED rows
      BY <1>2, <2>3, CreatePermissionInsertWrites DEF ContinuePermissionOp, CreatePermissionInsert
    <3> QED
      BY <2>3, <3>1 DEF OneTableWritten
  <2> QED
    BY <1>2, <2>1, <2>2, <2>3 DEF Continue
<1> QED
  BY <1>1, <1>2 DEF StepOf

LEMMA StepWrites ==
    ASSUME IInv, [Next]_vars
    PROVE  \E a : OneTableWritten(a)
<1>1. CASE UNCHANGED vars
  BY <1>1 DEF vars, OneTableWritten, RowsWritten, rows, assignVars, permVars
<1>2. CASE Next
  BY <1>2, StepServesApp, StepOfWrites DEF IInv
<1> QED
  BY <1>1, <1>2

-----------------------------------------------------------------------------
(* Type correctness *)

LEMMA TypeInit == Init => TypeOK
  BY DEF Init, EntityInit, AssignmentInit, PermissionInit, TypeOK, EntityTypeOK, AssignmentTypeOK,
     PermissionTypeOK, Answered, AnsweredSlot, Statuses

LEMMA RowsKeepType ==
    ASSUME EntityTypeOK, NEW a, RowsWritten(a)
    PROVE  EntityTypeOK'
<1>1. CASE UNCHANGED rows
  BY <1>1 DEF rows, EntityTypeOK
<1>2. CASE RowAdded(a)
  BY <1>2, TablesAreEntities, EntityAssumption DEF RowAdded, EntityTypeOK
<1>3. CASE RowDeleted(a)
  BY <1>3 DEF RowDeleted, EntityTypeOK
<1>4. CASE RowRenamed(a)
  BY <1>4, TablesAreEntities DEF RowRenamed, EntityTypeOK
<1> QED
  BY <1>1, <1>2, <1>3, <1>4 DEF RowsWritten

LEMMA AssignmentsKeepType ==
    ASSUME AssignmentTypeOK, NEW a, AssignmentsWritten(a)
    PROVE  AssignmentTypeOK'
<1>1. CASE UNCHANGED assignVars
  BY <1>1 DEF assignVars, AssignmentTypeOK
<1>2. CASE AssignmentAdded(a)
  BY <1>2, AssignmentAssumption DEF AssignmentAdded, AssignmentTypeOK
<1>3. CASE AssignmentMoved(a)
  BY <1>3, AssignmentAssumption DEF AssignmentMoved, AssignmentTypeOK
<1>4. CASE AssignmentDeleted(a)
  BY <1>4 DEF AssignmentDeleted, AssignmentTypeOK
<1> QED
  BY <1>1, <1>2, <1>3, <1>4 DEF AssignmentsWritten

LEMMA PermissionsKeepType ==
    ASSUME PermissionTypeOK, NEW a, PermissionsWritten(a)
    PROVE  PermissionTypeOK'
<1>1. CASE UNCHANGED permVars
  BY <1>1 DEF permVars, PermissionTypeOK
<1>2. CASE PermissionAdded(a)
  BY <1>2, PermissionAssumption DEF PermissionAdded, PermissionTypeOK
<1>3. CASE PermissionDeleted(a)
  BY <1>3 DEF PermissionDeleted, PermissionTypeOK
<1> QED
  BY <1>1, <1>2, <1>3 DEF PermissionsWritten

\* A row that exists keeps its app for ever.
LEMMA AppIsFixed ==
    ASSUME TypeOK, NEW a, RowsWritten(a), NEW y \in Entity, appOf[y] # NoApp
    PROVE  appOf'[y] = appOf[y]
  BY DEF RowsWritten, RowAdded, RowDeleted, RowRenamed, rows, TypeOK, EntityTypeOK

\* What a slot remembers still belongs to its app after any step.
LEMMA SlotStaysInApp ==
    ASSUME TypeOK, NEW a, OneTableWritten(a), NEW s \in Slots, SlotInApp(s)
    PROVE  SlotInApp(s)'
<1>1. ASSUME NEW y \in Entity, NEW b \in Apps, appOf[y] = b
      PROVE  appOf'[y] = b
  BY <1>1, AppIsFixed, EntityAssumption DEF OneTableWritten, rows
<1>2. CASE s.op = "assign" \/ s.op = "repoint"
  BY <1>1, <1>2 DEF SlotInApp, Slots, AnsweredSlot, RenameSlot, AssignSlot, RepointSlot,
     UnassignSlot, GrantSlot, AssignEdge, Entity
<1>3. CASE s.op = "unassign" \/ s.op = "grant"
  BY <1>1, <1>3 DEF SlotInApp, Slots, AnsweredSlot, RenameSlot, AssignSlot, RepointSlot,
     UnassignSlot, GrantSlot, PermEdge, Entity
<1> QED
  BY <1>2, <1>3 DEF SlotInApp

LEMMA IInvStep == IInv /\ [Next]_vars => IInv'
<1> SUFFICES ASSUME IInv, [Next]_vars PROVE IInv'
  OBVIOUS
<1>1. TypeOK
  BY DEF IInv
<1>2. CASE UNCHANGED vars
  BY <1>2 DEF vars, IInv, TypeOK, SlotsInApp, SlotInApp, EntityTypeOK, AssignmentTypeOK,
     PermissionTypeOK
<1>3. CASE Next
  <2>1. PICK a \in Apps : StepOf(a)
    BY <1>1, <1>3, StepServesApp
  <2>2. OneTableWritten(a)
    BY <2>1, StepOfWrites
  <2>3. PICK r \in Requests, v \in Slots : SlotInApp(v) /\ req' = [req EXCEPT ![r] = v]
    BY <2>1, StepOfWrites DEF SlotKept
  <2>4. req \in [Requests -> Slots]
    BY <1>1 DEF TypeOK, Slots
  <2>5. req' \in [Requests -> Slots]
    BY <2>3, <2>4
  <2>6. EntityTypeOK'
    BY <1>1, <2>2, RowsKeepType DEF OneTableWritten, RowsWritten, TypeOK
  <2>7. AssignmentTypeOK'
    BY <1>1, <2>2, AssignmentsKeepType DEF OneTableWritten, AssignmentsWritten, TypeOK
  <2>8. PermissionTypeOK'
    BY <1>1, <2>2, PermissionsKeepType DEF OneTableWritten, PermissionsWritten, TypeOK
  <2>9. ASSUME NEW s \in Requests
        PROVE  SlotInApp(req[s])'
    <3>1. SlotInApp(req'[s]) /\ req'[s] \in Slots
      BY <2>3, <2>4, <2>5 DEF IInv, SlotsInApp
    <3>2. \A w \in Slots : SlotInApp(w) => SlotInApp(w)'
      BY <1>1, <2>2, SlotStaysInApp
    <3> QED
      BY <3>1, <3>2 DEF SlotInApp
  <2> QED
    BY <2>5, <2>6, <2>7, <2>8, <2>9 DEF IInv, TypeOK, SlotsInApp, Slots
<1> QED
  BY <1>2, <1>3

\* The inductive invariant holds throughout: what a handler remembers is of its app.
LEMMA Invariance == Spec => []IInv
<1>1. Init => IInv
  BY TypeInit DEF Init, EntityInit, Answered, IInv, SlotsInApp, SlotInApp
<1> QED
  BY <1>1, IInvStep, PTL DEF Spec

\* Every reachable state has the shape of the schema, whatever the handlers interleave.
THEOREM TypeCorrect == Spec => []TypeOK
<1>1. IInv => TypeOK
  BY DEF IInv
<1> QED
  BY <1>1, Invariance, PTL

-----------------------------------------------------------------------------
(* Edges stay in one app *)

LEMMA EdgesStep == IInv /\ EdgesInOneApp /\ [Next]_vars => EdgesInOneApp'
<1> SUFFICES ASSUME IInv, EdgesInOneApp, [Next]_vars PROVE EdgesInOneApp'
  OBVIOUS
<1> USE DEF IInv
<1>1. PICK a : OneTableWritten(a)
  BY StepWrites
<1>2. CASE RowsWritten(a) /\ UNCHANGED <<assignVars, permVars>>
  <2>1. ASSUME NEW x \in AssignIds, assign[x] # NoEdge
        PROVE  AssignmentSameApp(assign[x])'
    BY <1>2, <2>1, AppIsFixed DEF EdgesInOneApp, AssignmentsInOneApp, AssignmentSameApp,
       AssignEdge, Entity, TypeOK, AssignmentTypeOK, assignVars
  <2>2. ASSUME NEW p \in PermIds, perm[p] # NoGrant
        PROVE  PermissionSameApp(perm[p])'
    BY <1>2, <2>2, AppIsFixed DEF EdgesInOneApp, PermissionsInOneApp, PermissionSameApp,
       PermEdge, Entity, TypeOK, PermissionTypeOK, permVars
  <2> QED
    BY <1>2, <2>1, <2>2
    DEF EdgesInOneApp, AssignmentsInOneApp, PermissionsInOneApp, assignVars, permVars
<1>3. CASE AssignmentsWritten(a) /\ UNCHANGED <<rows, permVars>>
  <2>1. PermissionsInOneApp'
    BY <1>3 DEF EdgesInOneApp, PermissionsInOneApp, PermissionSameApp, rows, permVars
  <2>2. AssignmentsInOneApp'
    BY <1>3 DEF AssignmentsWritten, AssignmentAdded, AssignmentMoved, AssignmentDeleted, TypeOK,
       AssignmentTypeOK, EdgesInOneApp, AssignmentsInOneApp, AssignmentSameApp, rows, assignVars
  <2> QED
    BY <2>1, <2>2 DEF EdgesInOneApp
<1>4. CASE PermissionsWritten(a) /\ UNCHANGED <<rows, assignVars>>
  <2>1. AssignmentsInOneApp'
    BY <1>4 DEF EdgesInOneApp, AssignmentsInOneApp, AssignmentSameApp, rows, assignVars
  <2>2. PermissionsInOneApp'
    BY <1>4 DEF PermissionsWritten, PermissionAdded, PermissionDeleted, TypeOK,
       PermissionTypeOK, EdgesInOneApp, PermissionsInOneApp, PermissionSameApp, rows, permVars
  <2> QED
    BY <2>1, <2>2 DEF EdgesInOneApp
<1> QED
  BY <1>1, <1>2, <1>3, <1>4 DEF OneTableWritten

\* No edge ever joins rows of two apps: the promise of the "Consistency guarantees",
\* for any number of apps, rows and concurrent requests.
THEOREM EdgesStayInOneApp == Spec => []EdgesInOneApp
<1>1. Init => EdgesInOneApp
  BY DEF Init, AssignmentInit, PermissionInit, EdgesInOneApp, AssignmentsInOneApp,
     PermissionsInOneApp
<1> QED
  BY <1>1, EdgesStep, Invariance, PTL DEF Spec

\* The comparisons of apps in the join of Check, but for the user's, are redundant.
LEMMA PolicyFromEdges == TypeOK /\ EdgesInOneApp => CheckIsPolicy
<1> SUFFICES ASSUME TypeOK, EdgesInOneApp, NEW a \in Apps, NEW q \in Questions
             PROVE  CheckIsPolicy!(a, q)
  BY DEF CheckIsPolicy
<1>1. ASSUME NEW x \in liveAssign PROVE x \in AssignIds /\ AssignmentSameApp(assign[x])
  BY <1>1 DEF TypeOK, AssignmentTypeOK, EdgesInOneApp, AssignmentsInOneApp
<1>2. ASSUME NEW p \in livePerm PROVE p \in PermIds /\ PermissionSameApp(perm[p])
  BY <1>2 DEF TypeOK, PermissionTypeOK, EdgesInOneApp, PermissionsInOneApp
<1> QED
  BY <1>1, <1>2 DEF Allowed, Check, InApp, AssignmentSameApp, PermissionSameApp

\* Check decides by the documented rule, with the app of the user standing for all.
THEOREM CheckDecidesPolicy == Spec => []CheckIsPolicy
  BY TypeCorrect, EdgesStayInOneApp, PolicyFromEdges, PTL

-----------------------------------------------------------------------------
(* No twins *)

LEMMA TwinsStep == IInv /\ NoTwinEdges /\ [Next]_vars => NoTwinEdges'
<1> SUFFICES ASSUME IInv, NoTwinEdges, [Next]_vars PROVE NoTwinEdges'
  OBVIOUS
<1> USE DEF IInv
<1>1. PICK a : OneTableWritten(a)
  BY StepWrites
<1>2. NoTwinAssignments'
  <2>1. CASE UNCHANGED assignVars
    BY <2>1 DEF NoTwinEdges, NoTwinAssignments, assignVars
  <2>2. CASE AssignmentAdded(a)
    BY <2>2 DEF AssignmentAdded, AssignmentTaken, NoTwinEdges, NoTwinAssignments, TypeOK, AssignmentTypeOK
  <2>3. CASE AssignmentMoved(a)
    BY <2>3 DEF AssignmentMoved, AssignmentTaken, NoTwinEdges, NoTwinAssignments, TypeOK, AssignmentTypeOK
  <2>4. CASE AssignmentDeleted(a)
    BY <2>4 DEF AssignmentDeleted, NoTwinEdges, NoTwinAssignments
  <2> QED
    BY <1>1, <2>1, <2>2, <2>3, <2>4 DEF OneTableWritten, AssignmentsWritten
<1>3. NoTwinPermissions'
  <2>1. CASE UNCHANGED permVars
    BY <2>1 DEF NoTwinEdges, NoTwinPermissions, permVars
  <2>2. CASE PermissionAdded(a)
    BY <2>2 DEF PermissionAdded, PermissionTaken, NoTwinEdges, NoTwinPermissions, TypeOK, PermissionTypeOK
  <2>3. CASE PermissionDeleted(a)
    BY <2>3 DEF PermissionDeleted, NoTwinEdges, NoTwinPermissions
  <2> QED
    BY <1>1, <2>1, <2>2, <2>3 DEF OneTableWritten, PermissionsWritten
<1> QED
  BY <1>2, <1>3 DEF NoTwinEdges

\* One active row per edge, so one DELETE takes the right away.
THEOREM EdgesHaveNoTwin == Spec => []NoTwinEdges
<1>1. Init => NoTwinEdges
  BY DEF Init, AssignmentInit, PermissionInit, NoTwinEdges, NoTwinAssignments, NoTwinPermissions
<1> QED
  BY <1>1, TwinsStep, Invariance, PTL DEF Spec

-----------------------------------------------------------------------------
(* Deleted rows *)

LEMMA FrozenStep == IInv /\ [Next]_vars => DeletedRowsFrozen
<1> SUFFICES ASSUME IInv, [Next]_vars PROVE DeletedRowsFrozen
  OBVIOUS
<1> USE DEF IInv
<1>1. PICK a : OneTableWritten(a)
  BY StepWrites
<1>2. ASSUME NEW x \in Entity, appOf[x] # NoApp, x \notin live
      PROVE  x \notin live' /\ appOf'[x] = appOf[x] /\ name'[x] = name[x]
  BY <1>1, <1>2, TablesAreEntities DEF OneTableWritten, RowsWritten, RowAdded, RowDeleted, RowRenamed,
     InApp, rows, TypeOK, EntityTypeOK
<1>3. ASSUME NEW x \in AssignIds, assign[x] # NoEdge, x \notin liveAssign
      PROVE  x \notin liveAssign' /\ assign'[x] = assign[x]
  BY <1>1, <1>3 DEF OneTableWritten, AssignmentsWritten, AssignmentAdded, AssignmentMoved,
     AssignmentDeleted, assignVars, TypeOK, AssignmentTypeOK
<1>4. ASSUME NEW p \in PermIds, perm[p] # NoGrant, p \notin livePerm
      PROVE  p \notin livePerm' /\ perm'[p] = perm[p]
  BY <1>1, <1>4 DEF OneTableWritten, PermissionsWritten, PermissionAdded, PermissionDeleted,
     permVars, TypeOK, PermissionTypeOK
<1> QED
  BY <1>2, <1>3, <1>4 DEF DeletedRowsFrozen

\* Soft deletion is final, in spite of the handlers that had read the row before it.
THEOREM DeletionIsFinal == Spec => DeletedIsFinal
<1>1. IInv /\ [Next]_vars => [DeletedRowsFrozen]_vars
  BY FrozenStep
<1> QED
  BY <1>1, Invariance, PTL DEF Spec, DeletedIsFinal

-----------------------------------------------------------------------------
(* Names *)

LEMMA NamesStep == IInv /\ NamesDenoteOneRow /\ [Next]_vars => NamesDenoteOneRow'
<1> SUFFICES ASSUME IInv, NamesDenoteOneRow, [Next]_vars,
                    NEW t \in {Users, Roles, Resources, Actions},
                    NEW x \in t \cap live', NEW y \in t \cap live',
                    name'[x] # NoName, appOf'[x] = appOf'[y], name'[x] = name'[y]
             PROVE  x = y
  BY DEF NamesDenoteOneRow
<1> USE DEF IInv
<1>1. PICK a : OneTableWritten(a)
  BY StepWrites
<1>2. x \in Entity /\ y \in Entity
  BY DEF Entity
<1>3. CASE UNCHANGED rows
  BY <1>3 DEF NamesDenoteOneRow, rows
<1>4. CASE RowAdded(a)
  <2>1. PICK table \in Tables, n \in Names \cup {NoName} : \E z \in table :
            /\ appOf[z] = NoApp
            /\ ~Taken(table, a, z, n)
            /\ appOf' = [appOf EXCEPT ![z] = a]
            /\ live' = live \cup {z}
            /\ name' = [name EXCEPT ![z] = n]
    BY <1>4 DEF RowAdded
  <2>2. PICK z \in table :
            /\ appOf[z] = NoApp
            /\ ~Taken(table, a, z, n)
            /\ appOf' = [appOf EXCEPT ![z] = a]
            /\ live' = live \cup {z}
            /\ name' = [name EXCEPT ![z] = n]
    BY <2>1
  <2>3. z \in t => table = t
    BY <2>2, EntityAssumption DEF Tables
  <2> QED
    BY <1>2, <2>2, <2>3 DEF NamesDenoteOneRow, Taken, TypeOK, EntityTypeOK
<1>5. CASE RowDeleted(a)
  BY <1>5 DEF RowDeleted, NamesDenoteOneRow
<1>6. CASE RowRenamed(a)
  <2>1. PICK table \in Tables, n \in Names \cup {NoName} : \E z \in table :
            /\ InApp(a, z)
            /\ ~Taken(table, a, z, n)
            /\ name' = [name EXCEPT ![z] = n]
            /\ UNCHANGED <<appOf, live>>
    BY <1>6 DEF RowRenamed
  <2>2. PICK z \in table :
            /\ InApp(a, z)
            /\ ~Taken(table, a, z, n)
            /\ name' = [name EXCEPT ![z] = n]
            /\ UNCHANGED <<appOf, live>>
    BY <2>1
  <2>3. z \in t => table = t
    BY <2>2, EntityAssumption DEF Tables
  <2> QED
    BY <1>2, <2>2, <2>3 DEF NamesDenoteOneRow, Taken, InApp, TypeOK, EntityTypeOK
<1> QED
  BY <1>1, <1>3, <1>4, <1>5, <1>6 DEF OneTableWritten, RowsWritten

\* A name never denotes two active rows of a table in one app, whatever stale PATCHes restore.
THEOREM NamesAreUnambiguous == Spec => []NamesDenoteOneRow
<1>1. Init => NamesDenoteOneRow
  BY DEF Init, EntityInit, NamesDenoteOneRow
<1> QED
  BY <1>1, NamesStep, Invariance, PTL DEF Spec

-----------------------------------------------------------------------------
(* Isolation of the apps *)

\* The rows, assignments and permissions of an app survive what is written for another.
LEMMA RowsOfOthersKept ==
    ASSUME TypeOK, NEW a, NEW b \in Apps, a # b, OneTableWritten(a), NEW x \in Entity
    PROVE  /\ appOf'[x] = b <=> appOf[x] = b
           /\ appOf[x] = b => name'[x] = name[x] /\ (x \in live' <=> x \in live)
  BY TablesAreEntities, EntityAssumption
  DEF OneTableWritten, RowsWritten, RowAdded, RowDeleted, RowRenamed, InApp, rows, TypeOK, EntityTypeOK

AssignmentOf(b, x) == assign[x] # NoEdge /\ appOf[assign[x].tenant] = b
PermissionOf(b, p) == perm[p] # NoGrant /\ appOf[perm[p].role] = b

LEMMA AssignmentsOfOthersKept ==
    ASSUME TypeOK, NEW a, NEW b \in Apps, a # b, OneTableWritten(a), NEW x \in AssignIds
    PROVE  /\ AssignmentOf(b, x)' <=> AssignmentOf(b, x)
           /\ AssignmentOf(b, x) =>
                assign'[x] = assign[x] /\ (x \in liveAssign' <=> x \in liveAssign)
<1>1. assign[x] # NoEdge => assign[x] \in AssignEdge /\ assign[x].tenant \in Entity
  BY DEF TypeOK, AssignmentTypeOK, AssignEdge, Entity
<1>2. CASE UNCHANGED assignVars
  BY <1>1, <1>2, RowsOfOthersKept DEF AssignmentOf, assignVars
<1>3. CASE AssignmentsWritten(a) /\ UNCHANGED rows
  BY <1>1, <1>3, AssignmentAssumption
  DEF AssignmentsWritten, AssignmentAdded, AssignmentMoved, AssignmentDeleted, AssignmentOf,
      assignVars, rows, TypeOK, AssignmentTypeOK
<1> QED
  BY <1>2, <1>3 DEF OneTableWritten, assignVars, rows

LEMMA PermissionsOfOthersKept ==
    ASSUME TypeOK, NEW a, NEW b \in Apps, a # b, OneTableWritten(a), NEW p \in PermIds
    PROVE  /\ PermissionOf(b, p)' <=> PermissionOf(b, p)
           /\ PermissionOf(b, p) =>
                perm'[p] = perm[p] /\ (p \in livePerm' <=> p \in livePerm)
<1>1. perm[p] # NoGrant => perm[p] \in PermEdge /\ perm[p].role \in Entity
  BY DEF TypeOK, PermissionTypeOK, PermEdge, Entity
<1>2. CASE UNCHANGED permVars
  BY <1>1, <1>2, RowsOfOthersKept DEF PermissionOf, permVars
<1>3. CASE PermissionsWritten(a) /\ UNCHANGED rows
  BY <1>1, <1>3, PermissionAssumption
  DEF PermissionsWritten, PermissionAdded, PermissionDeleted, PermissionOf,
      permVars, rows, TypeOK, PermissionTypeOK
<1> QED
  BY <1>2, <1>3 DEF OneTableWritten, permVars, rows

\* So the join of Check finds for app b what it found before.
LEMMA DecisionsOfOthersKept ==
    ASSUME TypeOK, TypeOK', NEW a, NEW b \in Apps, a # b, OneTableWritten(a)
    PROVE  Allowed(b)' = Allowed(b)
<1>1. \A x \in Entity : /\ InApp(b, x)' <=> InApp(b, x)
                        /\ InApp(b, x) => name'[x] = name[x]
  BY RowsOfOthersKept DEF InApp
<1>2. ASSUME NEW x \in liveAssign
      PROVE  /\ x \in AssignIds
             /\ {assign[x].user, assign[x].role, assign[x].tenant} \subseteq Entity
             /\ InApp(b, assign[x].tenant) => AssignmentOf(b, x)
  BY DEF TypeOK, AssignmentTypeOK, AssignEdge, Entity, InApp, AssignmentOf
<1>3. ASSUME NEW x \in liveAssign'
      PROVE  x \in AssignIds /\ (InApp(b, assign[x].tenant)' => AssignmentOf(b, x)')
  BY DEF TypeOK, AssignmentTypeOK, AssignEdge, Entity, InApp, AssignmentOf
<1>4. ASSUME NEW p \in livePerm
      PROVE  /\ p \in PermIds
             /\ {perm[p].role, perm[p].resource, perm[p].action} \subseteq Entity
             /\ InApp(b, perm[p].role) => PermissionOf(b, p)
  BY DEF TypeOK, PermissionTypeOK, PermEdge, Entity, InApp, PermissionOf
<1>5. ASSUME NEW p \in livePerm'
      PROVE  p \in PermIds /\ (InApp(b, perm[p].role)' => PermissionOf(b, p)')
  BY DEF TypeOK, PermissionTypeOK, PermEdge, Entity, InApp, PermissionOf
<1>6. ASSUME NEW q \in Questions
      PROVE  Check(b, q.user, q.tenant, q.resource, q.action)'
                <=> Check(b, q.user, q.tenant, q.resource, q.action)
  <2>1. ASSUME Check(b, q.user, q.tenant, q.resource, q.action)
        PROVE  Check(b, q.user, q.tenant, q.resource, q.action)'
    BY <1>1, <1>2, <1>4, <2>1, AssignmentsOfOthersKept, PermissionsOfOthersKept DEF Check
  <2>2. ASSUME Check(b, q.user, q.tenant, q.resource, q.action)'
        PROVE  Check(b, q.user, q.tenant, q.resource, q.action)
    BY <1>1, <1>2, <1>3, <1>4, <1>5, <2>2, AssignmentsOfOthersKept, PermissionsOfOthersKept
    DEF Check
  <2> QED
    BY <2>1, <2>2
<1> QED
  BY <1>6 DEF Allowed

LEMMA ViewOfOthersKept ==
    ASSUME TypeOK, TypeOK', NEW a, NEW b \in Apps, a # b, OneTableWritten(a)
    PROVE  AppView(b)' = AppView(b)
<1>1. AppView(b).rows' = AppView(b).rows
  <2>1. {y \in Entity : appOf'[y] = b} = {y \in Entity : appOf[y] = b}
    BY RowsOfOthersKept
  <2>2. ASSUME NEW x \in {y \in Entity : appOf[y] = b}
        PROVE  <<x, name'[x], x \in live'>> = <<x, name[x], x \in live>>
    BY RowsOfOthersKept
  <2> QED
    BY <2>1, <2>2 DEF AppView
<1>2. AppView(b).edges' = AppView(b).edges
  <2>1. {y \in AssignIds : AssignmentOf(b, y)'} = {y \in AssignIds : AssignmentOf(b, y)}
    BY AssignmentsOfOthersKept
  <2>2. ASSUME NEW x \in {y \in AssignIds : AssignmentOf(b, y)}
        PROVE  <<x, assign'[x], x \in liveAssign'>> = <<x, assign[x], x \in liveAssign>>
    BY AssignmentsOfOthersKept
  <2> QED
    BY <2>1, <2>2 DEF AppView, AssignmentOf
<1>3. AppView(b).perms' = AppView(b).perms
  <2>1. {q \in PermIds : PermissionOf(b, q)'} = {q \in PermIds : PermissionOf(b, q)}
    BY PermissionsOfOthersKept
  <2>2. ASSUME NEW p \in {q \in PermIds : PermissionOf(b, q)}
        PROVE  <<p, perm'[p], p \in livePerm'>> = <<p, perm[p], p \in livePerm>>
    BY PermissionsOfOthersKept
  <2> QED
    BY <2>1, <2>2 DEF AppView, PermissionOf
<1>4. AppView(b).allowed' = AppView(b).allowed
  BY DecisionsOfOthersKept DEF AppView
<1> QED
  BY <1>1, <1>2, <1>3, <1>4 DEF AppView

\* Whatever ids the requests of an app carry, no other app's rows, edges or decisions change.
THEOREM AppsAreIsolated == Spec => OtherAppsUnaffected
<1>1. ASSUME IInv, IInv', [Next]_vars, NEW a \in Apps, StepOf(a), NEW b \in Apps \ {a}
      PROVE  AppView(b)' = AppView(b)
  BY <1>1, StepOfWrites, ViewOfOthersKept DEF IInv
<1>2. IInv /\ IInv' /\ [Next]_vars =>
        [TablesWritten =>
            \A a \in Apps : (\E b \in Apps \ {a} : AppView(b)' # AppView(b)) => ~StepOf(a)]_vars
  BY <1>1
<1> QED
  BY <1>2, Invariance, PTL DEF Spec, OtherAppsUnaffected

-----------------------------------------------------------------------------
(* Grants *)

\* Rows that are inserted, deleted or keep their names approve nothing new: an inserted
\* row is at the end of no edge yet, since the foreign keys made every end exist before.
LEMMA RowsGrantByName ==
    ASSUME IInv, EdgesInOneApp, NEW c, RowsWritten(c), UNCHANGED <<assignVars, permVars>>,
           NEW a \in Apps, NEW q \in Allowed(a)', q \notin Allowed(a)
    PROVE  SomethingGranted(q)
<1> USE DEF IInv
<1>1. PICK x \in liveAssign, p \in livePerm :
            /\ perm[p].role = assign[x].role
            /\ \A y \in {assign[x].user, assign[x].role, assign[x].tenant,
                         perm[p].resource, perm[p].action} : appOf'[y] = a /\ y \in live'
            /\ assign[x].user = q.user
            /\ assign[x].tenant = q.tenant
            /\ name'[perm[p].resource] = q.resource
            /\ name'[perm[p].action] = q.action
  BY DEF Allowed, Check, InApp, assignVars, permVars
<1> DEFINE s == perm[p].resource
           act == perm[p].action
           Ends == {assign[x].user, assign[x].role, assign[x].tenant, s, act}
<1>2. \A y \in Ends : y \in Entity /\ appOf[y] # NoApp
  BY EntityAssumption
  DEF TypeOK, AssignmentTypeOK, PermissionTypeOK, EntityTypeOK, AssignEdge, PermEdge, Entity,
      EdgesInOneApp, AssignmentsInOneApp, PermissionsInOneApp, AssignmentSameApp, PermissionSameApp
<1>3. \A y \in Ends : InApp(a, y)
  BY <1>1, <1>2 DEF InApp, RowsWritten, RowAdded, RowDeleted, RowRenamed, rows, TypeOK, EntityTypeOK
<1>4. s \in Resources \cap live /\ act \in Actions \cap live
  BY <1>3 DEF TypeOK, PermissionTypeOK, PermEdge, InApp
<1>5. name[s] # q.resource \/ name[act] # q.action
  BY <1>1, <1>3 DEF Allowed, Check
<1> QED
  BY <1>1, <1>4, <1>5 DEF SomethingGranted

LEMMA EdgesGrantTheirs ==
    ASSUME IInv, NEW c, OneTableWritten(c), UNCHANGED rows,
           NEW a \in Apps, NEW q \in Allowed(a)', q \notin Allowed(a)
    PROVE  SomethingGranted(q)
<1>1. PICK x \in liveAssign', p \in livePerm' :
            /\ perm'[p].role = assign'[x].role
            /\ InApp(a, assign'[x].role)
            /\ InApp(a, assign'[x].user)
            /\ InApp(a, assign'[x].tenant)
            /\ InApp(a, perm'[p].resource)
            /\ InApp(a, perm'[p].action)
            /\ assign'[x].user = q.user
            /\ assign'[x].tenant = q.tenant
            /\ name[perm'[p].resource] = q.resource
            /\ name[perm'[p].action] = q.action
  BY DEF Allowed, Check, InApp, rows
<1>2. CASE x \notin liveAssign \/ assign'[x] # assign[x]
  BY <1>1, <1>2 DEF SomethingGranted
<1>3. CASE p \notin livePerm
  BY <1>1, <1>3 DEF SomethingGranted
<1>4. CASE x \in liveAssign /\ assign'[x] = assign[x] /\ p \in livePerm
  <2>1. perm'[p] = perm[p]
    BY <1>4 DEF IInv, TypeOK, PermissionTypeOK, OneTableWritten, PermissionsWritten,
       PermissionAdded, PermissionDeleted, permVars
  <2> QED
    BY <1>1, <1>4, <2>1 DEF Allowed, Check
<1> QED
  BY <1>2, <1>3, <1>4

\* A denial becomes an approval only by an edge or a name of that very question.
THEOREM GrantsAreExplicit == Spec => NoSilentGrant
<1> DEFINE Explicit == \A a \in Apps : \A q \in Allowed(a)' \ Allowed(a) : SomethingGranted(q)
<1>1. IInv /\ EdgesInOneApp /\ [Next]_vars => [TablesWritten => Explicit]_vars
  <2> SUFFICES ASSUME IInv, EdgesInOneApp, [Next]_vars,
                      NEW a \in Apps, NEW q \in Allowed(a)' \ Allowed(a)
               PROVE  SomethingGranted(q)
    OBVIOUS
  <2>1. PICK c : OneTableWritten(c)
    BY StepWrites
  <2> QED
    BY <2>1, RowsGrantByName, EdgesGrantTheirs DEF OneTableWritten
<1> QED
  BY <1>1, Invariance, EdgesStayInOneApp, PTL DEF Spec, NoSilentGrant

=============================================================================
