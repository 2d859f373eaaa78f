---------------------------- MODULE ServiceProofs ----------------------------
(***************************************************************************)
(* The service behind its middleware is Access, with less freedom: every   *)
(* step of Service is a step of Access or leaves it alone, and every step  *)
(* of Service is a step of Keys or leaves it alone.  What AccessProofs     *)
(* shows of Access and KeysProofs of Keys therefore holds of the service,  *)
(* and together they say whose key a change of an app's graph needs.       *)
(***************************************************************************)
EXTENDS Service, AppGraphProofs, KeysProofs

\* A request that dispatches serves an app: a session of an app key names one.
LEMMA SessionsNameApps ==
    ASSUME KeysTypeOK, NEW r \in Requests, AppHandler(r)
    PROVE  session[r].app \in Apps
BY DEF KeysTypeOK, AppHandler

\* Seen from the keys, a step of a handler changes nothing: the service only adds steps between them.
LEMMA ServiceStepIsKeyStep == [ServiceNext]_serviceVars => [KeysNext]_keyVars
BY DEF ServiceNext, serviceVars, KeyRoute, Dispatch, NextStatement, Finish, KeysNext

\* Every step of the service is a step of Access, or leaves the graph and the request
\* slots alone.
LEMMA ServiceStepIsAccessStep ==
    KeysTypeOK /\ [ServiceNext]_serviceVars => [Next]_vars
<1> SUFFICES ASSUME KeysTypeOK, ServiceNext PROVE [Next]_vars
    BY DEF serviceVars
<1>1. ASSUME NEW r \in Requests, Dispatch(r) PROVE Next
    BY <1>1, SessionsNameApps DEF Dispatch, Next
<1>2. ASSUME NEW r \in Requests, NextStatement(r) PROVE Next
    BY <1>2 DEF NextStatement, Next
<1>3. ASSUME NEW r \in Requests, Finish(r) PROVE [Next]_vars
    <2>1. CASE Abort(r) /\ UNCHANGED <<assignVars, permVars>>
        BY <2>1 DEF Next, Continue, ContinueEntityOp
    <2> QED BY <1>3, <2>1 DEF Finish
<1> QED BY <1>1, <1>2, <1>3 DEF ServiceNext, KeyRoute

\* So the type invariant of the keys holds in the service.
LEMMA ServiceKeepsTypes == ServiceSpec => []KeysTypeOK
BY KeysTypeInit, KeysTypeStep, ServiceStepIsKeyStep, PTL DEF ServiceSpec, ServiceInit

\* The graph behind the middleware behaves as Access does, and the keys as Keys do: what
\* is proved of either holds of the service.
THEOREM ServiceImplementsParts == ServiceSpec => Spec /\ KeysSpec
BY ServiceKeepsTypes, ServiceStepIsKeyStep, ServiceStepIsAccessStep, PTL
   DEF ServiceSpec, ServiceInit, Spec, KeysSpec

-----------------------------------------------------------------------------
(* Whose request it is *)

\* A handler remembers the app it was called for, until it answers.
LEMMA StartServes ==
    ASSUME NEW r \in Requests, NEW a \in Apps, Start(r, a)
    PROVE  \E v : (v.op = "answered" \/ v.app = a) /\ req' = [req EXCEPT ![r] = v]
<1>1. ASSUME NEW status, Answer(r, status)
      PROVE  \E v : (v.op = "answered" \/ v.app = a) /\ req' = [req EXCEPT ![r] = v]
    BY <1>1 DEF Answer, Answered
<1>2. ASSUME NEW v, v.app = a, Remember(r, v)
      PROVE  \E w : (w.op = "answered" \/ w.app = a) /\ req' = [req EXCEPT ![r] = w]
    BY <1>2 DEF Remember
<1>3. CASE StartEntityOp(r, a)
    <2>1. ASSUME NEW x, NEW named, NEW n, ReadForUpdate(r, a, x, named, n)
          PROVE  \E v : (v.op = "answered" \/ v.app = a) /\ req' = [req EXCEPT ![r] = v]
        BY <1>1, <1>2, <2>1 DEF ReadForUpdate, Renaming
    <2>2. ASSUME NEW table, NEW x, NEW n, Insert(table, r, a, x, n) \/ WriteName(table, r, a, x, n)
          PROVE  \E v : (v.op = "answered" \/ v.app = a) /\ req' = [req EXCEPT ![r] = v]
        BY <1>1, <2>2 DEF Insert, WriteName
    <2>3. ASSUME NEW x, SoftDelete(r, a, x) \/ BadRequest(r)
          PROVE  \E v : (v.op = "answered" \/ v.app = a) /\ req' = [req EXCEPT ![r] = v]
        BY <1>1, <2>3 DEF SoftDelete, BadRequest
    <2> QED BY <1>3, <2>1, <2>2, <2>3 DEF StartEntityOp, UserRequest, TenantRequest, RoleRequest,
            ResourceRequest, ActionRequest, CreateUser, CreateTenant, CreateRole, CreateResource,
            CreateAction, DeleteUser, DeleteTenant, DeleteRole, DeleteResource, DeleteAction,
            UpdateRole, UpdateTenant, UpdateUserRead, UpdateResourceRead, UpdateActionRead
<1>4. CASE AssignmentRequest(r, a)
    BY <1>1, <1>2, <1>4 DEF AssignmentRequest, CreateAssignmentCheck, DeleteAssignmentMatch,
        UpdateAssignmentRead, Assigning, Unassigning, Repointing
<1>5. CASE PermissionRequest(r, a)
    BY <1>1, <1>2, <1>5 DEF PermissionRequest, CreatePermissionCheck, DeletePermission, Granting
<1> QED BY <1>3, <1>4, <1>5 DEF Start

\* The slot of r is answered, or goes on for the same app.
MovesOn(r) == \E v :
    /\ req' = [req EXCEPT ![r] = v]
    /\ v.op = "answered" \/ (v.app = req[r].app /\ v # req[r])

\* Every later statement of a handler serves the app its slot was bound to, and moves
\* the slot.
LEMMA ContinueServes ==
    ASSUME TypeOK, NEW r \in Requests, Continue(r)
    PROVE  MovesOn(r)
<1>0. ASSUME NEW v, req' = [req EXCEPT ![r] = v],
             v.op = "answered" \/ (v.app = req[r].app /\ v # req[r])
      PROVE  MovesOn(r)
    BY <1>0 DEF MovesOn
<1>1. ASSUME NEW status, Answer(r, status)
      PROVE  MovesOn(r)
    <2>1. Answered(status).op = "answered"
        BY DEF Answered
    <2> QED BY <1>0, <1>1, <2>1 DEF Answer
<1>2. CASE ContinueEntityOp(r)
    BY <1>1, <1>2 DEF ContinueEntityOp, UpdateUserWrite, UpdateResourceWrite, UpdateActionWrite,
        UpdateWrite, WriteName, Abort
<1>3. CASE ContinueAssignmentOp(r)
    <2>1. ASSUME UpdateAssignmentCheck(r) \/ UpdateAssignmentMatch(r)
          PROVE  MovesOn(r)
        <3>1. req[r] \in RepointSlot
            BY <2>1, SlotFields DEF UpdateAssignmentCheck, UpdateAssignmentMatch, RepointAt
        <3>2. CASE RepointAt(r, "read") /\ req' = [req EXCEPT ![r].at = "checked"]
            <4> DEFINE v == [req[r] EXCEPT !.at = "checked"]
            <4>1. req' = [req EXCEPT ![r] = v]
                BY <3>2
            <4>2. v.at = "checked" /\ v.app = req[r].app /\ req[r].at = "read"
                BY <3>1, <3>2 DEF RepointSlot, RepointAt
            <4> HIDE DEF v
            <4> QED BY <1>0, <4>1, <4>2
        <3>3. ASSUME NEW t, RepointAt(r, "checked"),
                     req' = [req EXCEPT ![r].at = "matched", ![r].tenant = t]
              PROVE  MovesOn(r)
            <4> DEFINE v == [req[r] EXCEPT !.at = "matched", !.tenant = t]
            <4>1. req' = [req EXCEPT ![r] = v]
                BY <3>3 DEF TypeOK
            <4>2. v.at = "matched" /\ v.app = req[r].app /\ req[r].at = "checked"
                BY <3>1, <3>3 DEF RepointSlot, RepointAt
            <4> HIDE DEF v
            <4> QED BY <1>0, <4>1, <4>2
        <3> QED BY <1>1, <2>1, <3>2, <3>3 DEF UpdateAssignmentCheck, UpdateAssignmentMatch
    <2> QED BY <1>1, <1>3, <2>1 DEF ContinueAssignmentOp, CreateAssignmentInsert,
            UpdateAssignmentWrite, DeleteAssignmentWrite
<1>4. CASE ContinuePermissionOp(r)
    BY <1>1, <1>4 DEF ContinuePermissionOp, CreatePermissionInsert
<1> QED BY <1>2, <1>3, <1>4 DEF Continue

-----------------------------------------------------------------------------
(* Handlers and their sessions *)

\* What is true of a handler at work and its session.
Bound(r) == Free(r) \/
    /\ session[r].who = "app"
    /\ session[r].step \in {"serving", "lost"}
    /\ req[r].app = session[r].app

\* A step that binds its own request and leaves the others' slots and sessions alone, but
\* for the server they run on, keeps every handler bound.
LEMMA OthersStayBound ==
    ASSUME TypeOK, KeysTypeOK, HandlersServeTheirSession, NEW r \in Requests, Bound(r)',
           NEW v, req' = [req EXCEPT ![r] = v] \/ req' = req,
           NEW s, session' = [session EXCEPT ![r] = s] \/ session' = session
    PROVE  HandlersServeTheirSession'
<1> SUFFICES ASSUME NEW q \in Requests PROVE Bound(q)'
    BY DEF HandlersServeTheirSession, Bound
<1>1. CASE q # r
    BY <1>1 DEF HandlersServeTheirSession, Bound, Free, TypeOK, KeysTypeOK
<1> QED BY <1>1

\* The sessions that AppStep, KeyStep and the middleware write are their request's own.
LEMMA KeyRouteWritesItsSession ==
    ASSUME NEW r \in Requests, Authenticate(r) \/ AppStep(r) \/ KeyStep(r)
    PROVE  \E s : session' = [session EXCEPT ![r] = s] \/ session' = session
BY DEF Authenticate, ResolveAppKey, ResolveAdminKey, AppStep, CreateApp, UpdateAppRead,
       UpdateAppWrite, DeleteApp, KeyStep, RequireActiveApp, InsertAppKey, RevokeAppKey,
       CreateAdminKey, RevokeAdminKey, Close, Proceed

\* Serve leaves the session of its request at work, or lost with its server.
LEMMA ServeKeepsSession ==
    ASSUME KeysTypeOK, NEW r \in Requests, Serve(r)
    PROVE  \E s : /\ session' = [session EXCEPT ![r] = s]
                  /\ s.step \in {"serving", "lost"}
                  /\ s.who = session[r].who
                  /\ s.app = session[r].app
                  /\ s.key = session[r].key
<1> DEFINE next == [session[r] EXCEPT !.step = "serving"]
           s    == IF session[r].at = NoServer THEN [next EXCEPT !.step = "lost"] ELSE next
<1>1. session[r] \in Sessions
    BY DEF KeysTypeOK
<1>2. /\ s.step \in {"serving", "lost"}
      /\ s.who = session[r].who
      /\ s.app = session[r].app
      /\ s.key = session[r].key
    BY <1>1 DEF Sessions
<1>3. session' = [session EXCEPT ![r] = s]
    BY DEF Serve, Proceed
<1> QED BY <1>2, <1>3

\* A handler starts bound to the app of the session that let it in.
LEMMA DispatchBinds ==
    ASSUME TypeOK, KeysTypeOK, HandlersServeTheirSession, NEW r \in Requests, Dispatch(r)
    PROVE  HandlersServeTheirSession'
<1>1. PICK s : /\ session' = [session EXCEPT ![r] = s]
               /\ s.step \in {"serving", "lost"}
               /\ s.who = session[r].who
               /\ s.app = session[r].app
    BY ServeKeepsSession DEF Dispatch
<1>2. PICK v : (v.op = "answered" \/ v.app = session[r].app) /\ req' = [req EXCEPT ![r] = v]
    BY SessionsNameApps, StartServes DEF Dispatch
<1>3. session'[r] = s /\ req'[r] = v
    BY <1>1, <1>2 DEF TypeOK, KeysTypeOK
<1>4. Bound(r)'
    BY <1>1, <1>2, <1>3 DEF Bound, Free, Dispatch, AppHandler
<1> QED BY <1>1, <1>2, <1>4, OthersStayBound

\* A further statement of a handler leaves it bound to the same session.
LEMMA NextStatementBinds ==
    ASSUME TypeOK, KeysTypeOK, HandlersServeTheirSession, NEW r \in Requests, NextStatement(r)
    PROVE  HandlersServeTheirSession'
<1>1. PICK s : /\ session' = [session EXCEPT ![r] = s]
               /\ s.step \in {"serving", "lost"}
               /\ s.who = session[r].who
               /\ s.app = session[r].app
    BY ServeKeepsSession DEF NextStatement
<1>2. PICK v : (v.op = "answered" \/ v.app = req[r].app) /\ req' = [req EXCEPT ![r] = v]
    BY ContinueServes DEF NextStatement, MovesOn
<1>3. session'[r] = s /\ req'[r] = v
    BY <1>1, <1>2 DEF TypeOK, KeysTypeOK
<1>4. session[r].who = "app" /\ req[r].app = session[r].app
    BY DEF HandlersServeTheirSession, NextStatement
<1>5. Bound(r)'
    BY <1>1, <1>2, <1>3, <1>4 DEF Bound, Free
<1> QED BY <1>1, <1>2, <1>5, OthersStayBound

\* A request that is answered frees its slot, so nothing is left to bind.
LEMMA FinishFrees ==
    ASSUME TypeOK, KeysTypeOK, HandlersServeTheirSession, NEW r \in Requests, Finish(r)
    PROVE  HandlersServeTheirSession'
<1>1. session' = [session EXCEPT ![r] = Nobody]
    BY DEF Finish, EndRequest, Close
<1>2. CASE Free(r) /\ UNCHANGED vars
    <2>1. Bound(r)'
        BY <1>2 DEF Bound, Free, vars
    <2> QED BY <1>1, <1>2, <2>1, OthersStayBound DEF vars
<1>3. CASE Abort(r)
    <2>1. PICK status : req' = [req EXCEPT ![r] = Answered(status)]
        BY <1>3 DEF Abort, Answer
    <2>2. Bound(r)'
        BY <2>1 DEF Bound, Free, Answered, TypeOK
    <2> QED BY <1>1, <2>1, <2>2, OthersStayBound
<1> QED BY <1>2, <1>3 DEF Finish

\* The three facts above, over every step of the service.
LEMMA HandlersStep ==
    TypeOK /\ KeysTypeOK /\ HandlersServeTheirSession /\ [ServiceNext]_serviceVars
        => HandlersServeTheirSession'
<1> SUFFICES ASSUME TypeOK, KeysTypeOK, HandlersServeTheirSession, [ServiceNext]_serviceVars
             PROVE  HandlersServeTheirSession'
    OBVIOUS
<1>1. CASE UNCHANGED serviceVars
    BY <1>1 DEF serviceVars, vars, keyVars, HandlersServeTheirSession, Free
<1>2. ASSUME NEW i \in Servers, Instance(i), UNCHANGED vars
      PROVE  HandlersServeTheirSession'
    <2>1. \A r \in Requests : /\ session'[r].who = session[r].who
                              /\ session'[r].step = session[r].step
                              /\ session'[r].app = session[r].app
        BY <1>2 DEF Instance, LookUpBootstrapKey, InsertBootstrapKey, StartWithoutBootstrap,
                    Stop, KeysTypeOK, Sessions
    <2> QED BY <1>2, <2>1 DEF HandlersServeTheirSession, Free, vars
<1>3. ASSUME NEW r \in Requests, KeyRoute(r) PROVE HandlersServeTheirSession'
    <2>1. PICK s : session' = [session EXCEPT ![r] = s] \/ session' = session
        BY <1>3, KeyRouteWritesItsSession DEF KeyRoute
    <2>2. Bound(r)' /\ req' = req
        BY <1>3 DEF KeyRoute, Bound, Free, vars
    <2> QED BY <2>1, <2>2, OthersStayBound
<1> QED BY <1>1, <1>2, <1>3, DispatchBinds, NextStatementBinds, FinishFrees DEF ServiceNext

\* A handler at work serves the app its request was let in for.
THEOREM HandlersServeSessions == ServiceSpec => []HandlersServeTheirSession
<1>1. ServiceInit => HandlersServeTheirSession
    BY DEF ServiceInit, Init, EntityInit, Answered, Free, HandlersServeTheirSession
<1> QED BY <1>1, HandlersStep, ServiceImplementsParts, TypeCorrect, KeysTypeCorrect, PTL
        DEF ServiceSpec

-----------------------------------------------------------------------------
(* Whose key it takes *)

\* A session of an app key names the app of that key.
KeysOfSessions == \A r \in Requests : session[r].who = "app" =>
    /\ session[r].key \in AppKeys
    /\ session[r].app \in Apps
    /\ keyApp[session[r].key] = session[r].app

\* A key that has an app keeps it.
LEMMA KeyAppIsFixed ==
    ASSUME KeysTypeOK, [KeysNext]_keyVars, NEW k \in AppKeys, keyApp[k] # NoApp
    PROVE  keyApp'[k] = keyApp[k]
<1>1. CASE UNCHANGED keyVars
    BY <1>1 DEF keyVars
<1>2. ASSUME NEW r \in Requests, NEW x \in AppKeys, InsertAppKey(r, x)
      PROVE  keyApp'[k] = keyApp[k]
    <2>1. x # k
        BY <1>2 DEF InsertAppKey, KeysTypeOK
    <2> QED BY <1>2, <2>1 DEF InsertAppKey, KeysTypeOK
<1> QED
    BY <1>1, <1>2 DEF KeysNext, Instance, LookUpBootstrapKey, InsertBootstrapKey,
        StartWithoutBootstrap, Stop, Authenticate, ResolveAppKey, ResolveAdminKey, AppStep,
        CreateApp, UpdateAppRead, UpdateAppWrite, DeleteApp, KeyStep, RequireActiveApp,
        RevokeAppKey, CreateAdminKey, RevokeAdminKey, Serve, EndRequest, tables

\* A session of an app key is one the middleware has just made, or goes on as it was.
LEMMA SessionsContinue ==
    ASSUME KeysTypeOK, [KeysNext]_keyVars, NEW r \in Requests, session'[r].who = "app"
    PROVE  \/ /\ session'[r].key \in AppKeys
              /\ AppKeyResolves(session'[r].key)
              /\ session'[r].app = keyApp[session'[r].key]
           \/ /\ session[r].who = "app"
              /\ session'[r].key = session[r].key
              /\ session'[r].app = session[r].app
<1> DEFINE Same(q) == /\ session'[q].who = session[q].who
                      /\ session'[q].key = session[q].key
                      /\ session'[q].app = session[q].app
<1>0. session \in [Requests -> Sessions]
    BY DEF KeysTypeOK
<1>1. CASE UNCHANGED keyVars
    BY <1>1 DEF keyVars
<1>2. ASSUME NEW i \in Servers, Instance(i) PROVE Same(r)
    BY <1>0, <1>2 DEF Instance, LookUpBootstrapKey, InsertBootstrapKey, StartWithoutBootstrap,
        Stop, Sessions
<1>3. ASSUME NEW q \in Requests, q # r,
             Authenticate(q) \/ AppStep(q) \/ KeyStep(q) \/ Serve(q) \/ EndRequest(q)
      PROVE  Same(r)
    <2>1. \E s : session' = [session EXCEPT ![q] = s] \/ session' = session
        BY <1>3, KeyRouteWritesItsSession DEF Serve, EndRequest, Proceed, Close
    <2> QED BY <1>0, <1>3, <2>1
<1>4. CASE Authenticate(r)
    BY <1>0, <1>4 DEF Authenticate, ResolveAppKey, ResolveAdminKey
<1>5. ASSUME Close(r) PROVE FALSE
    BY <1>0, <1>5 DEF Close, Nobody
<1>6. ASSUME NEW next \in Sessions, Proceed(r, next)
      PROVE  /\ session'[r].who = next.who
             /\ session'[r].key = next.key
             /\ session'[r].app = next.app
    <2>1. session'[r] = IF session[r].at = NoServer THEN [next EXCEPT !.step = "lost"] ELSE next
        BY <1>0, <1>6 DEF Proceed
    <2>2. /\ [next EXCEPT !.step = "lost"].who = next.who
          /\ [next EXCEPT !.step = "lost"].key = next.key
          /\ [next EXCEPT !.step = "lost"].app = next.app
        BY DEF Sessions
    <2> QED BY <2>1, <2>2
<1>7. CASE AppStep(r)
    <2>1. ASSUME NEW a \in Apps, NEW n, n \in AppNames \cup {NoName}, UpdateAppRead(r, a, n),
                 appRow[a] = "active"
          PROVE  FALSE
        <3> DEFINE next == [session[r] EXCEPT !.app = a, !.step = "appRead",
                              !.name = IF n = NoName THEN appName[a] ELSE n]
        <3>1. next \in Sessions /\ next.who = session[r].who
            BY <1>0, <2>1 DEF Sessions, KeysTypeOK
        <3>2. Proceed(r, next) /\ session[r].who = "admin"
            BY <2>1 DEF UpdateAppRead, AdminHandler
        <3> QED BY <1>6, <3>1, <3>2
    <2> QED BY <1>5, <1>7, <2>1 DEF AppStep, CreateApp, UpdateAppRead, UpdateAppWrite, DeleteApp
<1>8. CASE KeyStep(r)
    <2>1. ASSUME NEW a \in Apps, RequireActiveApp(r, a), appRow[a] = "active"
          PROVE  Same(r)
        <3> DEFINE next == [session[r] EXCEPT !.app = a, !.step = "appChecked"]
        <3>1. /\ next \in Sessions
              /\ next.who = session[r].who
              /\ next.key = session[r].key
              /\ next.app = a
            BY <1>0, <2>1 DEF Sessions
        <3>2. Proceed(r, next) /\ (AdminHandler(r) \/ session[r].app = a)
            BY <2>1 DEF RequireActiveApp
        <3> QED BY <1>6, <3>1, <3>2 DEF AdminHandler
    <2> QED BY <1>5, <1>8, <2>1 DEF KeyStep, RequireActiveApp, InsertAppKey, RevokeAppKey,
            CreateAdminKey, RevokeAdminKey
<1>9. CASE Serve(r)
    BY <1>0, <1>9, ServeKeepsSession
<1> QED BY <1>1, <1>2, <1>3, <1>4, <1>5, <1>7, <1>8, <1>9 DEF KeysNext, EndRequest

\* What the sessions remember of their keys stays true in every step of the service.
LEMMA KeysOfSessionsStep ==
    KeysTypeOK /\ KeysOfSessions /\ [KeysNext]_keyVars => KeysOfSessions'
<1> SUFFICES ASSUME KeysTypeOK, KeysOfSessions, [KeysNext]_keyVars,
                    NEW r \in Requests, session'[r].who = "app"
             PROVE  /\ session'[r].key \in AppKeys
                    /\ session'[r].app \in Apps
                    /\ keyApp'[session'[r].key] = session'[r].app
    BY DEF KeysOfSessions
<1>1. /\ session'[r].key \in AppKeys
      /\ keyApp[session'[r].key] = session'[r].app
      /\ session'[r].app \in Apps
    BY SessionsContinue DEF KeysOfSessions, AppKeyResolves, KeysTypeOK
<1> QED BY <1>1, KeyAppIsFixed, KeyAssumption

\* A statement of a handler moves its own slot or session, and nobody else's.
LEMMA StatementsMoveTheirRequest ==
    ASSUME TypeOK, KeysTypeOK, NEW r \in Requests, Dispatch(r) \/ NextStatement(r)
    PROVE  Moving = {r}
<1>1. PICK s : session' = [session EXCEPT ![r] = s] /\ s.step \in {"serving", "lost"}
    BY ServeKeepsSession DEF Dispatch, NextStatement
<1>2. PICK v : /\ req' = [req EXCEPT ![r] = v]
               /\ NextStatement(r) => v.op = "answered" \/ v # req[r]
    BY SessionsNameApps, StartServes, ContinueServes DEF Dispatch, NextStatement, MovesOn
<1>3. session'[r] = s /\ req'[r] = v
    BY <1>1, <1>2 DEF TypeOK, KeysTypeOK
<1>4. \A q \in Requests \ {r} : req'[q] = req[q] /\ session'[q] = session[q]
    BY <1>1, <1>2 DEF TypeOK, KeysTypeOK
<1>5. CASE Dispatch(r)
    <2>1. session'[r] # session[r]
        BY <1>1, <1>3, <1>5 DEF Dispatch, AppHandler
    <2> QED BY <1>4, <2>1 DEF Moving
<1>6. CASE NextStatement(r)
    <2>1. req'[r] # req[r]
        BY <1>2, <1>3, <1>6 DEF NextStatement, Free
    <2> QED BY <1>4, <2>1 DEF Moving
<1> QED BY <1>5, <1>6

\* What changes the view of an app is a statement of a handler that was let in for it.
LEMMA ViewsChangeForTheirApp ==
    ASSUME IInv, TypeOK', KeysTypeOK, HandlersServeTheirSession, [ServiceNext]_serviceVars,
           NEW a \in Apps, AppView(a)' # AppView(a)
    PROVE  \E r \in Requests :
               /\ Moving = {r}
               /\ session[r].who = "app"
               /\ session[r].app = a
               /\ session[r].step \in {"authenticated", "serving"}
<1>1. ASSUME UNCHANGED <<rows, assignVars, permVars>> PROVE FALSE
    BY <1>1 DEF AppView, Allowed, Check, InApp, rows, assignVars, permVars
<1>2. ASSUME NEW b \in Apps, StepOf(b) PROVE b = a
    BY <1>2, StepOfWrites, ViewOfOthersKept DEF IInv
<1>3. ASSUME NEW r \in Requests, Dispatch(r)
      PROVE  session[r].who = "app" /\ session[r].app = a /\ session[r].step = "authenticated"
    <2>1. StepOf(session[r].app) /\ session[r].app \in Apps
        BY <1>3, SessionsNameApps DEF Dispatch, StepOf
    <2> QED BY <1>2, <1>3, <2>1 DEF Dispatch, AppHandler
<1>4. ASSUME NEW r \in Requests, NextStatement(r)
      PROVE  session[r].who = "app" /\ session[r].app = a /\ session[r].step = "serving"
    <2>1. session[r].who = "app" /\ req[r].app = session[r].app
        BY <1>4 DEF NextStatement, HandlersServeTheirSession
    <2>2. StepOf(session[r].app) /\ session[r].app \in Apps
        BY <1>4, <2>1 DEF NextStatement, StepOf, KeysTypeOK
    <2> QED BY <1>2, <1>4, <2>1, <2>2 DEF NextStatement
<1>5. ASSUME NEW r \in Requests, Finish(r) PROVE FALSE
    BY <1>1, <1>5 DEF Finish, Abort, vars, rows, assignVars, permVars
<1>6. ASSUME UNCHANGED vars PROVE FALSE
    BY <1>1, <1>6 DEF vars, rows, assignVars, permVars
<1>7. ASSUME NEW r \in Requests, Dispatch(r) \/ NextStatement(r) PROVE Moving = {r}
    BY <1>7, StatementsMoveTheirRequest DEF IInv
<1> QED BY <1>3, <1>4, <1>5, <1>6, <1>7 DEF ServiceNext, KeyRoute, serviceVars

\* Rows, edges and decisions of an app change only in a step of one request, let in with
\* a key of that app.
THEOREM ChangesTakeAKey == ServiceSpec => ChangesNeedAKeyOfTheApp
<1>1. KeysInit => KeysOfSessions
    BY DEF KeysInit, KeysOfSessions, Nobody
<1>2. KeysSpec => []KeysOfSessions
    BY <1>1, KeysOfSessionsStep, KeysTypeCorrect, PTL DEF KeysSpec
<1>3. IInv /\ TypeOK' /\ KeysTypeOK /\ HandlersServeTheirSession /\ KeysOfSessions
        /\ [ServiceNext]_serviceVars =>
            [TablesWritten => \A a \in Apps : AppView(a)' # AppView(a) =>
                \E r \in Requests :
                    /\ Moving = {r}
                    /\ session[r].who = "app"
                    /\ keyApp[session[r].key] = a]_serviceVars
    BY ViewsChangeForTheirApp DEF KeysOfSessions
<1> QED BY <1>2, <1>3, HandlersServeSessions, ServiceImplementsParts, Invariance, TypeCorrect,
        KeysTypeCorrect, PTL DEF ServiceSpec, ChangesNeedAKeyOfTheApp

\* A deleted app is frozen once the requests let in before are done.
THEOREM DeletedAppsStayFrozen == ServiceSpec => DeletedAppsAreFrozen
<1>1. ASSUME IInv, TypeOK', KeysTypeOK, HandlersServeTheirSession, [ServiceNext]_serviceVars,
             NEW a \in Apps, Abandoned(a)
      PROVE  Abandoned(a)' /\ AppView(a)' = AppView(a)
    <2>1. AppView(a)' = AppView(a)
        BY <1>1, ViewsChangeForTheirApp DEF Abandoned
    <2>2. Abandoned(a)'
        BY <1>1, ServiceStepIsKeyStep, SilentStep, SilenceLasts
    <2> QED BY <2>1, <2>2
<1>2. IInv /\ TypeOK' /\ KeysTypeOK /\ HandlersServeTheirSession /\ [ServiceNext]_serviceVars =>
        [\A a \in Apps : Abandoned(a) => Abandoned(a)' /\ AppView(a)' = AppView(a)]_serviceVars
    BY <1>1
<1> QED BY <1>2, HandlersServeSessions, ServiceImplementsParts, Invariance, TypeCorrect,
        KeysTypeCorrect, PTL DEF ServiceSpec, DeletedAppsAreFrozen

-----------------------------------------------------------------------------
(* The parts' promises *)

\* Behind the middleware every promise of the graph and of the keys still holds: edges
\* stay in one app, decisions follow the documented rule, nothing is granted silently,
\* what is deleted or revoked stays so, and every app has an access graph of its own.
THEOREM ServiceKeepsPromises ==
    ServiceSpec =>
        /\ [](TypeOK /\ EdgesInOneApp /\ CheckIsPolicy /\ NoTwinEdges /\ NamesDenoteOneRow)
        /\ DeletedIsFinal /\ OtherAppsUnaffected /\ NoSilentGrant /\ AppsHaveTheirOwnGraph
        /\ [](KeysTypeOK /\ StartupEnsuresTheKey)
        /\ DeletedAppsFallSilent /\ RevocationIsFinal /\ KeysAreManagedByTheirApp
<1>1. Spec => [](TypeOK /\ EdgesInOneApp /\ CheckIsPolicy /\ NoTwinEdges /\ NamesDenoteOneRow)
    BY TypeCorrect, EdgesStayInOneApp, CheckDecidesPolicy, EdgesHaveNoTwin, NamesAreUnambiguous,
       PTL
<1>2. KeysSpec => [](KeysTypeOK /\ StartupEnsuresTheKey)
    BY KeysTypeCorrect, StartupLeavesTheKey, PTL
<1> QED BY <1>1, <1>2, ServiceImplementsParts, DeletionIsFinal, AppsAreIsolated, GrantsAreExplicit,
        AppsHaveGraphs, DeletedAppsAreSilent, RevokedKeysStayOut, KeysStayWithTheirApp, PTL

=============================================================================
