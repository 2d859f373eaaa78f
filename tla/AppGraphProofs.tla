--------------------------- MODULE AppGraphProofs ---------------------------
(***************************************************************************)
(* Every app has the access graph that AppGraph describes: whatever the    *)
(* handlers of all the apps do in turns, a step is an operation on the     *)
(* graph of the app it serves and changes no other app's graph.            *)
(*                                                                         *)
(* The step was worked out for AccessProofs: OneTableWritten lists the     *)
(* kinds of write.  Here each is shown to be an operation of AppGraph.     *)
(***************************************************************************)
EXTENDS AccessProofs

\* The parts of the tables that Graph(a) is made of.
RowsOf(a) == [x \in {y \in Entity : appOf[y] = a} |-> [name |-> name[x], live |-> x \in live]]
AssignmentsOf(a) == [x \in {y \in AssignIds : assign[y] # NoEdge /\ appOf[assign[y].tenant] = a} |->
                        [edge |-> assign[x], live |-> x \in liveAssign]]
PermissionsOf(a) == [p \in {q \in PermIds : perm[q] # NoGrant /\ appOf[perm[q].role] = a} |->
                        [edge |-> perm[p], live |-> p \in livePerm]]

Kept(a) == UNCHANGED <<RowsOf(a), AssignmentsOf(a), PermissionsOf(a)>>

\* How a step is recognised as one that puts one value.
OneValuePut(f, g, x, v) ==
    /\ g = [y \in DOMAIN g |-> g[y]]
    /\ DOMAIN g = DOMAIN f \cup {x}
    /\ g[x] = v
    /\ \A y \in DOMAIN f : y # x => g[y] = f[y]

LEMMA PutOne ==
    ASSUME NEW a, NEW f, NEW g, NEW x, NEW v, OneValuePut(f, g, x, v)
    PROVE  g = Graph(a)!Put(f, x, v)
  BY DEF OneValuePut, Graph!Put

LEMMA GraphStart == ASSUME Init, NEW a \in Apps PROVE Graph(a)!GraphInit
<1>1. {y \in Entity : appOf[y] = a} = {}
  BY EntityAssumption DEF Init, EntityInit
<1>2. /\ {y \in AssignIds : assign[y] # NoEdge /\ appOf[assign[y].tenant] = a} = {}
      /\ {q \in PermIds : perm[q] # NoGrant /\ appOf[perm[q].role] = a} = {}
  BY DEF Init, AssignmentInit, PermissionInit
<1>3. RowsOf(a) = Graph(a)!Nothing /\ AssignmentsOf(a) = Graph(a)!Nothing /\ PermissionsOf(a) = Graph(a)!Nothing
  BY <1>1, <1>2 DEF RowsOf, AssignmentsOf, PermissionsOf, Graph!Nothing
<1>4. Allowed(a) = {}
  BY DEF Init, AssignmentInit, Allowed, Check
<1> QED
  BY <1>3, <1>4 DEF Graph!GraphInit, RowsOf, AssignmentsOf, PermissionsOf

-----------------------------------------------------------------------------
(* Decisions *)

GraphDecides == \A a \in Apps : Allowed(a) = Graph(a)!Decisions

\* The join of Check reads nothing but the graph of the app.
LEMMA DecisionsOfGraph == TypeOK => GraphDecides
<1> SUFFICES ASSUME TypeOK, NEW a \in Apps PROVE Allowed(a) = Graph(a)!Decisions
  BY DEF GraphDecides
<1> DEFINE Rows == RowsOf(a)
           As   == AssignmentsOf(a)
           Ps   == PermissionsOf(a)
<1>1. \A y \in Entity : Graph(a)!Active(Rows, y) <=> InApp(a, y)
  BY DEF Graph!Active, RowsOf, InApp
<1>2. \A y \in Entity : InApp(a, y) => Rows[y].name = name[y]
  BY DEF RowsOf, InApp
<1>3. \A x \in DOMAIN As : As[x].edge = assign[x] /\ (Graph(a)!Active(As, x) <=> x \in liveAssign)
  BY DEF Graph!Active, AssignmentsOf
<1>4. \A p \in DOMAIN Ps : Ps[p].edge = perm[p] /\ (Graph(a)!Active(Ps, p) <=> p \in livePerm)
  BY DEF Graph!Active, PermissionsOf
<1>5. \A x \in liveAssign : /\ assign[x] \in AssignEdge
                            /\ InApp(a, assign[x].tenant) => x \in DOMAIN As
  BY DEF TypeOK, AssignmentTypeOK, AssignmentsOf, InApp
<1>6. \A p \in livePerm : /\ perm[p] \in PermEdge
                          /\ InApp(a, perm[p].role) => p \in DOMAIN Ps
  BY DEF TypeOK, PermissionTypeOK, PermissionsOf, InApp
<1>7. /\ \A e \in AssignEdge : {e.user, e.role, e.tenant} \subseteq Entity
      /\ \A e \in PermEdge : {e.role, e.resource, e.action} \subseteq Entity
  BY DEF AssignEdge, PermEdge, Entity
<1> HIDE DEF Rows, As, Ps
<1> DEFINE Granted(q) ==
        \E x \in DOMAIN As, p \in DOMAIN Ps :
            LET u == As[x].edge
                r == Ps[p].edge
            IN  /\ Graph(a)!Active(As, x) /\ Graph(a)!Active(Ps, p)
                /\ u.role = r.role
                /\ \A y \in {u.user, u.role, u.tenant, r.resource, r.action} : Graph(a)!Active(Rows, y)
                /\ <<u.user, u.tenant>> = <<q.user, q.tenant>>
                /\ <<Rows[r.resource].name, Rows[r.action].name>> = <<q.resource, q.action>>
<1>8. Graph(a)!Decisions = {q \in Questions : Granted(q)}
  BY DEF Graph!Decisions, Questions, Rows, As, Ps, RowsOf, AssignmentsOf, PermissionsOf
<1>9. ASSUME NEW q \in Questions PROVE Granted(q) <=> Check(a, q.user, q.tenant, q.resource, q.action)
  <2>1. ASSUME Granted(q) PROVE Check(a, q.user, q.tenant, q.resource, q.action)
    <3>1. PICK x \in DOMAIN As, p \in DOMAIN Ps :
              /\ x \in liveAssign /\ p \in livePerm
              /\ assign[x].role = perm[p].role
              /\ \A y \in {assign[x].user, assign[x].role, assign[x].tenant, perm[p].resource, perm[p].action} :
                    Graph(a)!Active(Rows, y)
              /\ assign[x].user = q.user /\ assign[x].tenant = q.tenant
              /\ Rows[perm[p].resource].name = q.resource /\ Rows[perm[p].action].name = q.action
      BY <1>3, <1>4, <2>1
    <3> QED
      BY <1>1, <1>2, <1>5, <1>6, <1>7, <3>1 DEF Check
  <2>2. ASSUME Check(a, q.user, q.tenant, q.resource, q.action) PROVE Granted(q)
    <3>1. PICK x \in liveAssign, p \in livePerm :
              /\ perm[p].role = assign[x].role
              /\ \A y \in {assign[x].user, assign[x].role, assign[x].tenant, perm[p].resource, perm[p].action} :
                    InApp(a, y)
              /\ assign[x].user = q.user /\ assign[x].tenant = q.tenant
              /\ name[perm[p].resource] = q.resource /\ name[perm[p].action] = q.action
      BY <2>2 DEF Check
    <3>2. x \in DOMAIN As /\ p \in DOMAIN Ps
      BY <1>5, <1>6, <3>1
    <3>3. \A y \in {assign[x].user, assign[x].role, assign[x].tenant, perm[p].resource, perm[p].action} :
             Graph(a)!Active(Rows, y) /\ Rows[y].name = name[y]
      BY <1>1, <1>2, <1>5, <1>6, <1>7, <3>1
    <3> QED
      BY <1>3, <1>4, <3>1, <3>2, <3>3
  <2> QED
    BY <2>1, <2>2
<1> QED
  BY <1>8, <1>9 DEF Allowed

-----------------------------------------------------------------------------
(* The graphs of other apps *)

LEMMA GraphOfOthersKept ==
    ASSUME TypeOK, NEW a, NEW b \in Apps, a # b, OneTableWritten(a)
    PROVE  Kept(b)
<1>1. RowsOf(b)' = RowsOf(b)
  <2>1. {y \in Entity : appOf'[y] = b} = {y \in Entity : appOf[y] = b}
    BY RowsOfOthersKept
  <2>2. \A x \in {y \in Entity : appOf[y] = b} :
            [name |-> name'[x], live |-> x \in live'] = [name |-> name[x], live |-> x \in live]
    BY RowsOfOthersKept
  <2> QED
    BY <2>1, <2>2 DEF RowsOf
<1>2. AssignmentsOf(b)' = AssignmentsOf(b)
  <2>1. {y \in AssignIds : AssignmentOf(b, y)'} = {y \in AssignIds : AssignmentOf(b, y)}
    BY AssignmentsOfOthersKept
  <2>2. \A x \in {y \in AssignIds : AssignmentOf(b, y)} :
            [edge |-> assign'[x], live |-> x \in liveAssign'] = [edge |-> assign[x], live |-> x \in liveAssign]
    BY AssignmentsOfOthersKept
  <2> QED
    BY <2>1, <2>2 DEF AssignmentsOf, AssignmentOf
<1>3. PermissionsOf(b)' = PermissionsOf(b)
  <2>1. {q \in PermIds : PermissionOf(b, q)'} = {q \in PermIds : PermissionOf(b, q)}
    BY PermissionsOfOthersKept
  <2>2. \A p \in {q \in PermIds : PermissionOf(b, q)} :
            [edge |-> perm'[p], live |-> p \in livePerm'] = [edge |-> perm[p], live |-> p \in livePerm]
    BY PermissionsOfOthersKept
  <2> QED
    BY <2>1, <2>2 DEF PermissionsOf, PermissionOf
<1> QED
  BY <1>1, <1>2, <1>3 DEF Kept

-----------------------------------------------------------------------------
(* The graph of the app that is served *)

\* The edges of an app survive what happens to rows: its tenants and roles exist already.
LEMMA EdgesKeptByRows ==
    ASSUME TypeOK, EdgesInOneApp, NEW a \in Apps, NEW c, RowsWritten(c),
           UNCHANGED <<assignVars, permVars>>
    PROVE  UNCHANGED <<AssignmentsOf(a), PermissionsOf(a)>>
<1>1. ASSUME NEW y \in AssignIds, assign[y] # NoEdge
      PROVE  appOf'[assign[y].tenant] = appOf[assign[y].tenant]
  BY <1>1, AppIsFixed
  DEF EdgesInOneApp, AssignmentsInOneApp, AssignmentSameApp, TypeOK, AssignmentTypeOK, AssignEdge, Entity
<1>2. ASSUME NEW q \in PermIds, perm[q] # NoGrant
      PROVE  appOf'[perm[q].role] = appOf[perm[q].role]
  BY <1>2, AppIsFixed
  DEF EdgesInOneApp, PermissionsInOneApp, PermissionSameApp, TypeOK, PermissionTypeOK, PermEdge, Entity
<1>3. /\ {y \in AssignIds : assign[y] # NoEdge /\ appOf'[assign[y].tenant] = a}
            = {y \in AssignIds : assign[y] # NoEdge /\ appOf[assign[y].tenant] = a}
      /\ {q \in PermIds : perm[q] # NoGrant /\ appOf'[perm[q].role] = a}
            = {q \in PermIds : perm[q] # NoGrant /\ appOf[perm[q].role] = a}
  BY <1>1, <1>2
<1> QED
  BY <1>3 DEF AssignmentsOf, PermissionsOf, assignVars, permVars

LEMMA RowOperation ==
    ASSUME TypeOK, EdgesInOneApp, NEW a \in Apps, RowsWritten(a), UNCHANGED <<assignVars, permVars>>
    PROVE  UNCHANGED graphTables \/ Graph(a)!Operation
<1> DEFINE Rows == RowsOf(a)
<1>1. UNCHANGED <<AssignmentsOf(a), PermissionsOf(a)>>
  BY EdgesKeptByRows
<1>2. ASSUME NEW table, NEW x, NEW n, ~Taken(table, a, x, n)
      PROVE  Graph(a)!NameFree(table, x, n)
  BY <1>2 DEF Taken, Graph!NameFree, Graph!Active, RowsOf
<1>3. CASE UNCHANGED rows
  BY <1>3 DEF graphTables
<1>4. CASE RowAdded(a)
  <2>1. PICK table \in Tables, n \in Names \cup {NoName} : \E z \in table :
            /\ appOf[z] = NoApp
            /\ ~Taken(table, a, z, n)
            /\ appOf' = [appOf EXCEPT ![z] = a]
            /\ live' = live \cup {z}
            /\ name' = [name EXCEPT ![z] = n]
    BY <1>4 DEF RowAdded
  <2>2. PICK x \in table :
            /\ appOf[x] = NoApp
            /\ ~Taken(table, a, x, n)
            /\ appOf' = [appOf EXCEPT ![x] = a]
            /\ live' = live \cup {x}
            /\ name' = [name EXCEPT ![x] = n]
    BY <2>1
  <2>3. x \in Entity /\ x \notin DOMAIN Rows
    BY <2>2, TablesAreEntities, EntityAssumption DEF RowsOf
  <2>4. DOMAIN Rows' = DOMAIN Rows \cup {x}
    BY <2>2, <2>3 DEF RowsOf, TypeOK, EntityTypeOK
  <2>5. Rows' = Graph(a)!Put(Rows, x, [name |-> n, live |-> TRUE])
    <3>1. Rows' = [y \in DOMAIN Rows' |-> Rows'[y]] /\ DOMAIN Rows' = DOMAIN Rows \cup {x}
      BY <2>2, <2>3, <2>4 DEF RowsOf, TypeOK, EntityTypeOK
    <3>2. Rows'[x] = [name |-> n, live |-> TRUE]
      BY <2>2, <2>3, <2>4, <3>1 DEF RowsOf, TypeOK, EntityTypeOK
    <3>3. \A y \in DOMAIN Rows : y # x => Rows'[y] = Rows[y]
      BY <2>2, <2>3, <2>4 DEF RowsOf, TypeOK, EntityTypeOK
    <3>4. OneValuePut(Rows, Rows', x, [name |-> n, live |-> TRUE])
      BY <3>1, <3>2, <3>3 DEF OneValuePut
    <3> HIDE DEF Rows
    <3> QED
      BY <3>4, PutOne
  <2>6. Graph(a)!AddRow(table, x, n)
    BY <1>1, <1>2, <2>2, <2>3, <2>5 DEF Graph!AddRow, RowsOf, AssignmentsOf, PermissionsOf
  <2> QED
    BY <2>6 DEF Graph!Operation, Graph!Tables, Graph!AnyName, Tables, Names
<1>5. CASE RowRenamed(a)
  <2>1. PICK table \in Tables, n \in Names \cup {NoName} : \E z \in table :
            /\ InApp(a, z)
            /\ ~Taken(table, a, z, n)
            /\ name' = [name EXCEPT ![z] = n]
            /\ UNCHANGED <<appOf, live>>
    BY <1>5 DEF RowRenamed
  <2>2. PICK x \in table :
            /\ InApp(a, x)
            /\ ~Taken(table, a, x, n)
            /\ name' = [name EXCEPT ![x] = n]
            /\ UNCHANGED <<appOf, live>>
    BY <2>1
  <2>3. x \in Entity /\ Graph(a)!Active(Rows, x)
    BY <2>2, TablesAreEntities DEF RowsOf, InApp, Graph!Active
  <2>5. Rows' = Graph(a)!Put(Rows, x, [name |-> n, live |-> TRUE])
    <3>1. Rows' = [y \in DOMAIN Rows' |-> Rows'[y]] /\ DOMAIN Rows' = DOMAIN Rows \cup {x}
      BY <2>2, <2>3 DEF RowsOf, InApp, TypeOK, EntityTypeOK
    <3>2. Rows'[x] = [name |-> n, live |-> TRUE]
      BY <2>2, <2>3, <3>1 DEF RowsOf, InApp, TypeOK, EntityTypeOK
    <3>3. \A y \in DOMAIN Rows : y # x => Rows'[y] = Rows[y]
      BY <2>2, <2>3 DEF RowsOf, InApp, TypeOK, EntityTypeOK
    <3>4. OneValuePut(Rows, Rows', x, [name |-> n, live |-> TRUE])
      BY <3>1, <3>2, <3>3 DEF OneValuePut
    <3> HIDE DEF Rows
    <3> QED
      BY <3>4, PutOne
  <2>6. Graph(a)!RenameRow(table, x, n)
    BY <1>1, <1>2, <2>2, <2>3, <2>5 DEF Graph!RenameRow, RowsOf, AssignmentsOf, PermissionsOf
  <2> QED
    BY <2>6 DEF Graph!Operation, Graph!Tables, Graph!AnyName, Tables, Names
<1>6. CASE RowDeleted(a)
  <2>1. PICK x \in live :
            /\ appOf[x] = a
            /\ live' = live \ {x}
            /\ UNCHANGED <<appOf, name>>
    BY <1>6 DEF RowDeleted
  <2>2. x \in Entity /\ Graph(a)!Active(Rows, x) /\ Rows[x].name = name[x]
    BY <2>1 DEF RowsOf, Graph!Active, TypeOK, EntityTypeOK
  <2>3. Rows' = Graph(a)!Put(Rows, x, [name |-> Rows[x].name, live |-> FALSE])
    <3>1. Rows' = [y \in DOMAIN Rows' |-> Rows'[y]] /\ DOMAIN Rows' = DOMAIN Rows \cup {x}
      BY <2>1, <2>2 DEF RowsOf, Graph!Active
    <3>2. Rows'[x] = [name |-> Rows[x].name, live |-> FALSE]
      <4>1. (x \in live') = FALSE
        BY <2>1
      <4>2. Rows'[x] = [name |-> name[x], live |-> x \in live']
        BY <2>1, <2>2, <3>1 DEF RowsOf, Graph!Active
      <4> QED
        BY <2>2, <4>1, <4>2
    <3>3. \A y \in DOMAIN Rows : y # x => Rows'[y] = Rows[y]
      BY <2>1, <2>2 DEF RowsOf, Graph!Active
    <3>4. OneValuePut(Rows, Rows', x, [name |-> Rows[x].name, live |-> FALSE])
      BY <3>1, <3>2, <3>3 DEF OneValuePut
    <3> HIDE DEF Rows
    <3> QED
      BY <3>4, PutOne
  <2>4. Graph(a)!DeleteRow(x)
    BY <1>1, <2>2, <2>3 DEF Graph!DeleteRow, RowsOf, AssignmentsOf, PermissionsOf
  <2> QED
    BY <2>2, <2>4 DEF Graph!Operation, Graph!Tables, Entity
<1> QED
  BY <1>3, <1>4, <1>5, <1>6 DEF RowsWritten

LEMMA AssignmentOperation ==
    ASSUME TypeOK, NEW a \in Apps, AssignmentsWritten(a), UNCHANGED <<rows, permVars>>
    PROVE  UNCHANGED graphTables \/ Graph(a)!Operation
<1> DEFINE As == AssignmentsOf(a)
<1>1. UNCHANGED <<RowsOf(a), PermissionsOf(a)>>
  BY DEF rows, permVars, RowsOf, PermissionsOf
<1>2. ASSUME NEW x \in AssignIds, NEW e \in AssignEdge, AssignmentSameApp(e), appOf[e.tenant] = a,
             ~AssignmentTaken(x, e)
      PROVE  /\ {e.user, e.role, e.tenant} \subseteq DOMAIN RowsOf(a)
             /\ Graph(a)!EdgeFree(As, x, e)
  BY <1>2 DEF AssignmentSameApp, AssignmentTaken, AssignEdge, Entity, RowsOf, AssignmentsOf,
     Graph!EdgeFree, Graph!Active
<1>3. CASE UNCHANGED assignVars
  BY <1>3 DEF graphTables
<1>4. ASSUME NEW x \in AssignIds, NEW e \in AssignEdge, AssignmentSameApp(e), appOf[e.tenant] = a,
             ~AssignmentTaken(x, e), x \notin DOMAIN As \/ Graph(a)!Active(As, x),
             assign' = [assign EXCEPT ![x] = e], liveAssign' = liveAssign \cup {x}
      PROVE  Graph(a)!Operation
  <2>1. DOMAIN As' = DOMAIN As \cup {x}
    BY <1>4, AssignmentAssumption DEF AssignmentsOf, rows, TypeOK, AssignmentTypeOK
  <2>2. As' = Graph(a)!Put(As, x, [edge |-> e, live |-> TRUE])
    <3>1. As' = [y \in DOMAIN As' |-> As'[y]] /\ DOMAIN As' = DOMAIN As \cup {x}
      BY <1>4, <2>1 DEF AssignmentsOf, rows, TypeOK, AssignmentTypeOK
    <3>2. As'[x] = [edge |-> e, live |-> TRUE]
      BY <1>4, <2>1, <3>1 DEF AssignmentsOf, rows, TypeOK, AssignmentTypeOK
    <3>3. \A y \in DOMAIN As : y # x => As'[y] = As[y]
      BY <1>4, <2>1 DEF AssignmentsOf, rows, TypeOK, AssignmentTypeOK
    <3>4. OneValuePut(As, As', x, [edge |-> e, live |-> TRUE])
      BY <3>1, <3>2, <3>3 DEF OneValuePut
    <3> HIDE DEF As
    <3> QED
      BY <3>4, PutOne
  <2>3. Graph(a)!Assign(x, e)
    BY <1>1, <1>2, <1>4, <2>2 DEF Graph!Assign, RowsOf, AssignmentsOf, PermissionsOf
  <2> QED
    BY <2>3 DEF Graph!Operation, Graph!UserEdge, AssignEdge
<1>5. CASE AssignmentAdded(a)
  <2>1. PICK x \in AssignIds, e \in AssignEdge :
            /\ assign[x] = NoEdge
            /\ AssignmentSameApp(e)
            /\ appOf[e.tenant] = a
            /\ ~AssignmentTaken(x, e)
            /\ assign' = [assign EXCEPT ![x] = e]
            /\ liveAssign' = liveAssign \cup {x}
    BY <1>5 DEF AssignmentAdded
  <2> QED
    BY <1>4, <2>1 DEF AssignmentsOf
<1>6. CASE AssignmentMoved(a)
  <2>1. PICK x \in liveAssign, e \in AssignEdge :
            /\ appOf[assign[x].tenant] = a
            /\ AssignmentSameApp(e)
            /\ appOf[e.tenant] = a
            /\ ~AssignmentTaken(x, e)
            /\ assign' = [assign EXCEPT ![x] = e]
            /\ UNCHANGED liveAssign
    BY <1>6 DEF AssignmentMoved
  <2>2. x \in AssignIds /\ Graph(a)!Active(As, x) /\ liveAssign' = liveAssign \cup {x}
    BY <2>1 DEF AssignmentsOf, Graph!Active, TypeOK, AssignmentTypeOK
  <2> QED
    BY <1>4, <2>1, <2>2
<1>7. CASE AssignmentDeleted(a)
  <2>1. PICK x \in liveAssign :
            /\ appOf[assign[x].tenant] = a
            /\ liveAssign' = liveAssign \ {x}
            /\ UNCHANGED assign
    BY <1>7 DEF AssignmentDeleted
  <2>2. x \in AssignIds /\ Graph(a)!Active(As, x) /\ As[x].edge = assign[x]
    BY <2>1 DEF AssignmentsOf, Graph!Active, TypeOK, AssignmentTypeOK
  <2>3. As' = Graph(a)!Put(As, x, [edge |-> As[x].edge, live |-> FALSE])
    <3>1. As' = [y \in DOMAIN As' |-> As'[y]] /\ DOMAIN As' = DOMAIN As \cup {x}
      BY <2>1, <2>2 DEF AssignmentsOf, Graph!Active, rows
    <3>2. As'[x] = [edge |-> As[x].edge, live |-> FALSE]
      <4>1. (x \in liveAssign') = FALSE
        BY <2>1
      <4>2. As'[x] = [edge |-> assign[x], live |-> x \in liveAssign']
        BY <2>1, <2>2, <3>1 DEF AssignmentsOf, Graph!Active, rows
      <4> QED
        BY <2>2, <4>1, <4>2
    <3>3. \A y \in DOMAIN As : y # x => As'[y] = As[y]
      BY <2>1, <2>2 DEF AssignmentsOf, Graph!Active, rows
    <3>4. OneValuePut(As, As', x, [edge |-> As[x].edge, live |-> FALSE])
      BY <3>1, <3>2, <3>3 DEF OneValuePut
    <3> HIDE DEF As
    <3> QED
      BY <3>4, PutOne
  <2>4. Graph(a)!Unassign(x)
    BY <1>1, <2>2, <2>3 DEF Graph!Unassign, RowsOf, AssignmentsOf, PermissionsOf
  <2> QED
    BY <2>2, <2>4 DEF Graph!Operation
<1> QED
  BY <1>3, <1>5, <1>6, <1>7 DEF AssignmentsWritten

LEMMA PermissionOperation ==
    ASSUME TypeOK, NEW a \in Apps, PermissionsWritten(a), UNCHANGED <<rows, assignVars>>
    PROVE  UNCHANGED graphTables \/ Graph(a)!Operation
<1> DEFINE Ps == PermissionsOf(a)
<1>1. UNCHANGED <<RowsOf(a), AssignmentsOf(a)>>
  BY DEF rows, assignVars, RowsOf, AssignmentsOf
<1>2. CASE UNCHANGED permVars
  BY <1>2 DEF graphTables
<1>3. CASE PermissionAdded(a)
  <2>1. PICK p \in PermIds, e \in PermEdge :
            /\ perm[p] = NoGrant
            /\ PermissionSameApp(e)
            /\ appOf[e.role] = a
            /\ ~PermissionTaken(e)
            /\ perm' = [perm EXCEPT ![p] = e]
            /\ livePerm' = livePerm \cup {p}
    BY <1>3 DEF PermissionAdded
  <2>2. /\ {e.role, e.resource, e.action} \subseteq DOMAIN RowsOf(a)
        /\ Graph(a)!EdgeFree(Ps, p, e)
        /\ p \notin DOMAIN Ps
    BY <2>1 DEF PermissionSameApp, PermissionTaken, PermEdge, Entity, RowsOf, PermissionsOf,
       Graph!EdgeFree, Graph!Active
  <2>3. DOMAIN Ps' = DOMAIN Ps \cup {p}
    BY <2>1, PermissionAssumption DEF PermissionsOf, rows, TypeOK, PermissionTypeOK
  <2>4. Ps' = Graph(a)!Put(Ps, p, [edge |-> e, live |-> TRUE])
    <3>1. Ps' = [y \in DOMAIN Ps' |-> Ps'[y]] /\ DOMAIN Ps' = DOMAIN Ps \cup {p}
      BY <2>1, <2>3 DEF PermissionsOf, rows, TypeOK, PermissionTypeOK
    <3>2. Ps'[p] = [edge |-> e, live |-> TRUE]
      BY <2>1, <2>3, <3>1 DEF PermissionsOf, rows, TypeOK, PermissionTypeOK
    <3>3. \A y \in DOMAIN Ps : y # p => Ps'[y] = Ps[y]
      BY <2>1, <2>3 DEF PermissionsOf, rows, TypeOK, PermissionTypeOK
    <3>4. OneValuePut(Ps, Ps', p, [edge |-> e, live |-> TRUE])
      BY <3>1, <3>2, <3>3 DEF OneValuePut
    <3> HIDE DEF Ps
    <3> QED
      BY <3>4, PutOne
  <2>5. Graph(a)!Grant(p, e)
    BY <1>1, <2>2, <2>4 DEF Graph!Grant, RowsOf, AssignmentsOf, PermissionsOf
  <2> QED
    BY <2>5 DEF Graph!Operation, Graph!RoleEdge, PermEdge
<1>4. CASE PermissionDeleted(a)
  <2>1. PICK p \in livePerm :
            /\ appOf[perm[p].role] = a
            /\ livePerm' = livePerm \ {p}
            /\ UNCHANGED perm
    BY <1>4 DEF PermissionDeleted
  <2>2. p \in PermIds /\ Graph(a)!Active(Ps, p) /\ Ps[p].edge = perm[p]
    BY <2>1 DEF PermissionsOf, Graph!Active, TypeOK, PermissionTypeOK
  <2>3. Ps' = Graph(a)!Put(Ps, p, [edge |-> Ps[p].edge, live |-> FALSE])
    <3>1. Ps' = [y \in DOMAIN Ps' |-> Ps'[y]] /\ DOMAIN Ps' = DOMAIN Ps \cup {p}
      BY <2>1, <2>2 DEF PermissionsOf, Graph!Active, rows
    <3>2. Ps'[p] = [edge |-> Ps[p].edge, live |-> FALSE]
      <4>1. (p \in livePerm') = FALSE
        BY <2>1
      <4>2. Ps'[p] = [edge |-> perm[p], live |-> p \in livePerm']
        BY <2>1, <2>2, <3>1 DEF PermissionsOf, Graph!Active, rows
      <4> QED
        BY <2>2, <4>1, <4>2
    <3>3. \A y \in DOMAIN Ps : y # p => Ps'[y] = Ps[y]
      BY <2>1, <2>2 DEF PermissionsOf, Graph!Active, rows
    <3>4. OneValuePut(Ps, Ps', p, [edge |-> Ps[p].edge, live |-> FALSE])
      BY <3>1, <3>2, <3>3 DEF OneValuePut
    <3> HIDE DEF Ps
    <3> QED
      BY <3>4, PutOne
  <2>4. Graph(a)!Revoke(p)
    BY <1>1, <2>2, <2>3 DEF Graph!Revoke, RowsOf, AssignmentsOf, PermissionsOf
  <2> QED
    BY <2>2, <2>4 DEF Graph!Operation
<1> QED
  BY <1>2, <1>3, <1>4 DEF PermissionsWritten

-----------------------------------------------------------------------------
(* The refinement *)

LEMMA DecisionsOfGraphAfter == TypeOK' => GraphDecides'
  BY DecisionsOfGraph, PTL

LEMMA GraphSteps ==
    ASSUME IInv, EdgesInOneApp, TypeOK', [Next]_vars, NEW a \in Apps
    PROVE  Graph(a)!GraphStep
<1> USE DEF IInv
<1>1. Allowed(a)' = Graph(a)!Decisions'
  BY DecisionsOfGraphAfter DEF GraphDecides
<1>2. PICK c : OneTableWritten(c)
  BY StepWrites
<1>3. CASE UNCHANGED graphTables
  BY <1>3
  DEF graphTables, rows, assignVars, permVars, Graph!GraphStep, Graph!graphVars, Allowed, Check, InApp
<1>4. CASE Graph(a)!Operation
  BY <1>1, <1>4 DEF Graph!GraphStep, Graph!GraphNext
<1>5. CASE c # a
  <2>1. Kept(a) /\ Allowed(a)' = Allowed(a)
    BY <1>2, <1>5, GraphOfOthersKept, DecisionsOfOthersKept
  <2> QED
    BY <2>1 DEF Kept, Graph!GraphStep, Graph!graphVars, RowsOf, AssignmentsOf, PermissionsOf
<1> QED
  BY <1>2, <1>3, <1>4, <1>5, RowOperation, AssignmentOperation, PermissionOperation
  DEF OneTableWritten

\* Every app has an access graph of its own, which only whole operations of its own
\* change and which alone decides its questions.
THEOREM AppsHaveGraphs == Spec => AppsHaveTheirOwnGraph
<1>1. Init => \A a \in Apps : Graph(a)!GraphInit
  BY GraphStart
<1>2. IInv /\ EdgesInOneApp /\ IInv' /\ [Next]_vars =>
        [TablesWritten => \A a \in Apps : Graph(a)!GraphStep]_vars
  BY GraphSteps DEF IInv
<1> QED
  BY <1>1, <1>2, Invariance, EdgesStayInOneApp, PTL DEF Spec, AppsHaveTheirOwnGraph

=============================================================================
