----------------------------- MODULE KeysProofs -----------------------------
(***************************************************************************)
(* What holds of Keys for any number of apps, keys, instances and          *)
(* requests.  The type invariant is inductive, and the three action        *)
(* properties need nothing more: each follows from what the single         *)
(* statement guards.                                                       *)
(***************************************************************************)
EXTENDS Keys, TLAPS

\* Nobody, a shape a session may have.
LEMMA NobodyIsSession == Nobody \in Sessions
BY DEF Nobody, Sessions

LEMMA KeysTypeInit == KeysInit => KeysTypeOK
BY KeyAssumption, NobodyIsSession DEF KeysInit, KeysTypeOK, RowStates, Nobody

\* A request that is closed, or replaced by a well-formed one, leaves well-formed sessions.
SessionFits(s) ==
    /\ s \in Sessions
    /\ s.who = "app" => s.app \in Apps
    /\ s.step \in {"appChecked", "appRead"} => s.app \in Apps
    /\ s.who = "nobody" => s.step = "none"
    /\ s.step = "authenticated" /\ s.who = "admin" => s.app = NoApp

TablesFit ==
    /\ appRow \in [Apps -> RowStates]
    /\ appName \in [Apps -> AppNames \cup {NoName}]
    /\ keyRow \in [AppKeys -> RowStates]
    /\ keyApp \in [AppKeys -> Apps \cup {NoApp}]
    /\ adminRow \in [AdminKeys -> RowStates]
    /\ server \in [Servers -> {"down", "inserting", "up", "exited"}]
    /\ \A k \in AppKeys : keyRow[k] # "absent" <=> keyApp[k] # NoApp

SessionsFit == session \in [Requests -> Sessions] /\ \A r \in Requests : SessionFits(session[r])

\* The type invariant is about the tables and about the sessions, apart.
LEMMA TypeParts == KeysTypeOK <=> TablesFit /\ SessionsFit
BY DEF KeysTypeOK, TablesFit, SessionsFit, SessionFits

LEMMA OneSessionChanged ==
    ASSUME SessionsFit, NEW r \in Requests, NEW s, SessionFits(s),
           session' = [session EXCEPT ![r] = s]
    PROVE  SessionsFit'
BY DEF SessionsFit, SessionFits

LEMMA Closing ==
    ASSUME SessionsFit, NEW r \in Requests, Close(r)
    PROVE  SessionsFit'
<1>1. SessionFits(Nobody)
    BY NobodyIsSession DEF SessionFits, Nobody
<1> QED BY <1>1, OneSessionChanged DEF Close

LEMMA Proceeding ==
    ASSUME SessionsFit, NEW r \in Requests, NEW next,
           SessionFits(next), next.who # "nobody", Proceed(r, next)
    PROVE  SessionsFit'
<1> DEFINE lost == [next EXCEPT !.step = "lost"]
<1>1. SessionFits(lost)
    BY DEF SessionFits, Sessions
<1>2. CASE session[r].at = NoServer
    <2>1. session' = [session EXCEPT ![r] = lost]
        BY <1>2 DEF Proceed
    <2> QED BY <1>1, <2>1, OneSessionChanged
<1>3. CASE session[r].at # NoServer
    <2>1. session' = [session EXCEPT ![r] = next]
        BY <1>3 DEF Proceed
    <2> QED BY <2>1, OneSessionChanged
<1> QED BY <1>2, <1>3

LEMMA AuthenticateType ==
    ASSUME TablesFit, SessionsFit, NEW r \in Requests, Authenticate(r)
    PROVE  TablesFit' /\ SessionsFit'
<1>1. PICK i \in Servers :
        \/ \E k \in AppKeys : ResolveAppKey(r, i, k)
        \/ \E k \in AdminKeys : ResolveAdminKey(r, i, k)
    BY DEF Authenticate
<1>2. TablesFit'
    BY <1>1 DEF ResolveAppKey, ResolveAdminKey, TablesFit, tables
<1>3. ASSUME UNCHANGED session PROVE SessionsFit'
    BY <1>3 DEF SessionsFit, SessionFits
<1>4. ASSUME NEW k \in AppKeys, ResolveAppKey(r, i, k) PROVE SessionsFit'
    <2> DEFINE s == [who |-> "app", key |-> k, app |-> keyApp[k], at |-> i,
                     step |-> "authenticated", name |-> NoName]
    <2>1. CASE AppKeyResolves(k)
        <3>1. session' = [session EXCEPT ![r] = s]
            BY <1>4, <2>1 DEF ResolveAppKey
        <3>2. keyApp[k] \in Apps
            BY <2>1 DEF TablesFit, AppKeyResolves
        <3>3. SessionFits(s)
            BY <3>2 DEF SessionFits, Sessions
        <3> QED BY <3>1, <3>3, OneSessionChanged
    <2> QED BY <1>3, <1>4, <2>1 DEF ResolveAppKey
<1>5. ASSUME NEW k \in AdminKeys, ResolveAdminKey(r, i, k) PROVE SessionsFit'
    <2> DEFINE s == [who |-> "admin", key |-> k, app |-> NoApp, at |-> i,
                     step |-> "authenticated", name |-> NoName]
    <2>1. CASE AdminKeyExists(k)
        <3>1. session' = [session EXCEPT ![r] = s]
            BY <1>5, <2>1 DEF ResolveAdminKey
        <3>2. SessionFits(s)
            BY DEF SessionFits, Sessions
        <3> QED BY <3>1, <3>2, OneSessionChanged
    <2> QED BY <1>3, <1>5, <2>1 DEF ResolveAdminKey
<1> QED BY <1>1, <1>2, <1>4, <1>5

LEMMA AppStepType ==
    ASSUME TablesFit, SessionsFit, NEW r \in Requests, AppStep(r)
    PROVE  TablesFit' /\ SessionsFit'
<1>1. SessionFits(session[r])
    BY DEF SessionsFit
<1>2. ASSUME NEW a \in Apps, NEW n \in AppNames, CreateApp(r, a, n)
      PROVE  TablesFit' /\ SessionsFit'
    BY <1>2, Closing DEF CreateApp, TablesFit, RowStates
<1>3. ASSUME NEW a \in Apps, NEW n \in AppNames \cup {NoName}, UpdateAppRead(r, a, n)
      PROVE  TablesFit' /\ SessionsFit'
    <2> DEFINE next == [session[r] EXCEPT
            !.app = a, !.step = "appRead",
            !.name = IF n = NoName THEN appName[a] ELSE n]
    <2>1. TablesFit'
        BY <1>3 DEF UpdateAppRead, TablesFit, tables
    <2>2. SessionFits(next) /\ next.who # "nobody"
        BY <1>1, <1>3 DEF UpdateAppRead, AdminHandler, SessionFits, Sessions, TablesFit
    <2> QED BY <1>3, <2>1, <2>2, Closing, Proceeding DEF UpdateAppRead
<1>4. ASSUME NEW a \in Apps, DeleteApp(r, a)
      PROVE  TablesFit' /\ SessionsFit'
    BY <1>4, Closing DEF DeleteApp, TablesFit, RowStates
<1>5. ASSUME UpdateAppWrite(r)
      PROVE  TablesFit' /\ SessionsFit'
    BY <1>1, <1>5, Closing DEF UpdateAppWrite, TablesFit, SessionFits, Sessions
<1> QED BY <1>2, <1>3, <1>4, <1>5 DEF AppStep

LEMMA KeyStepType ==
    ASSUME TablesFit, SessionsFit, NEW r \in Requests, KeyStep(r)
    PROVE  TablesFit' /\ SessionsFit'
<1>1. SessionFits(session[r])
    BY DEF SessionsFit
<1>2. ASSUME NEW a \in Apps, RequireActiveApp(r, a)
      PROVE  TablesFit' /\ SessionsFit'
    <2> DEFINE next == [session[r] EXCEPT !.app = a, !.step = "appChecked"]
    <2>1. TablesFit'
        BY <1>2 DEF RequireActiveApp, TablesFit, tables
    <2>2. SessionFits(next) /\ next.who # "nobody"
        BY <1>1, <1>2 DEF RequireActiveApp, AdminHandler, AppHandler, SessionFits, Sessions
    <2> QED BY <1>2, <2>1, <2>2, Closing, Proceeding DEF RequireActiveApp
<1>3. ASSUME NEW k \in AppKeys, InsertAppKey(r, k)
      PROVE  TablesFit' /\ SessionsFit'
    BY <1>1, <1>3, Closing, KeyAssumption DEF InsertAppKey, TablesFit, RowStates, SessionFits
<1>4. ASSUME NEW k \in AppKeys, RevokeAppKey(r, k)
      PROVE  TablesFit' /\ SessionsFit'
    BY <1>4, Closing DEF RevokeAppKey, TablesFit, RowStates
<1>5. ASSUME NEW k \in AdminKeys, CreateAdminKey(r, k) \/ RevokeAdminKey(r, k)
      PROVE  TablesFit' /\ SessionsFit'
    BY <1>5, Closing DEF CreateAdminKey, RevokeAdminKey, TablesFit, RowStates
<1> QED BY <1>2, <1>3, <1>4, <1>5 DEF KeyStep

LEMMA OtherStepType ==
    ASSUME TablesFit, SessionsFit, NEW r \in Requests, Serve(r) \/ EndRequest(r)
    PROVE  TablesFit' /\ SessionsFit'
<1> DEFINE next == [session[r] EXCEPT !.step = "serving"]
<1>1. TablesFit'
    BY DEF Serve, EndRequest, TablesFit, tables
<1>2. CASE Serve(r)
    <2>1. SessionFits(session[r])
        BY DEF SessionsFit
    <2>2. SessionFits(next) /\ next.who # "nobody"
        BY <1>2, <2>1 DEF Serve, AppHandler, SessionFits, Sessions
    <2> QED BY <1>1, <1>2, <2>2, Proceeding DEF Serve
<1>3. CASE EndRequest(r)
    BY <1>1, <1>3, Closing DEF EndRequest
<1> QED BY <1>2, <1>3

LEMMA InstanceType ==
    ASSUME TablesFit, SessionsFit, NEW i \in Servers, Instance(i)
    PROVE  TablesFit' /\ SessionsFit'
<1>1. CASE LookUpBootstrapKey(i) \/ InsertBootstrapKey(i) \/ StartWithoutBootstrap(i)
    <2>1. TablesFit'
        BY <1>1, KeyAssumption DEF LookUpBootstrapKey, InsertBootstrapKey,
            StartWithoutBootstrap, TablesFit, RowStates, tables
    <2>2. SessionsFit'
        BY <1>1 DEF LookUpBootstrapKey, InsertBootstrapKey, StartWithoutBootstrap,
            SessionsFit, SessionFits
    <2> QED BY <2>1, <2>2
<1>2. CASE Stop(i)
    <2>1. TablesFit'
        BY <1>2 DEF Stop, TablesFit, tables
    <2>2. SessionsFit'
        BY <1>2 DEF Stop, SessionsFit, SessionFits, Sessions
    <2> QED BY <2>1, <2>2
<1> QED BY <1>1, <1>2 DEF Instance

LEMMA KeysTypeStep == KeysTypeOK /\ [KeysNext]_keyVars => KeysTypeOK'
<1> SUFFICES ASSUME TablesFit, SessionsFit, [KeysNext]_keyVars
             PROVE  TablesFit' /\ SessionsFit'
    BY TypeParts DEF KeysTypeOK, TablesFit, SessionsFit, SessionFits
<1>1. CASE UNCHANGED keyVars
    BY <1>1 DEF keyVars, TablesFit, SessionsFit, SessionFits
<1>2. CASE KeysNext
    BY <1>2, AuthenticateType, AppStepType, KeyStepType, OtherStepType, InstanceType
       DEF KeysNext
<1> QED BY <1>1, <1>2

\* In every reachable state the tables and the sessions have their shape: a key row names
\* its app, and a handler that is about to write a key or an app knows which app.
THEOREM KeysTypeCorrect == KeysSpec => []KeysTypeOK
BY KeysTypeInit, KeysTypeStep, PTL DEF KeysSpec

-----------------------------------------------------------------------------
(* Start-up *)

\* A row of the bootstrap key, once there, is never removed.
LEMMA BootstrapKeyStays ==
    ASSUME KeysTypeOK, [KeysNext]_keyVars, adminRow[Bootstrap] # "absent"
    PROVE  adminRow'[Bootstrap] # "absent"
<1> USE KeyAssumption
<1>1. ASSUME NEW i \in Servers, Instance(i) PROVE adminRow'[Bootstrap] # "absent"
    BY <1>1 DEF Instance, LookUpBootstrapKey, InsertBootstrapKey, StartWithoutBootstrap, Stop,
        tables, KeysTypeOK
<1>2. ASSUME NEW r \in Requests, KeyStep(r) PROVE adminRow'[Bootstrap] # "absent"
    BY <1>2 DEF KeyStep, RequireActiveApp, InsertAppKey, RevokeAppKey, CreateAdminKey,
        RevokeAdminKey, tables, KeysTypeOK
<1>3. ASSUME NEW r \in Requests, Authenticate(r) \/ AppStep(r) \/ Serve(r) \/ EndRequest(r)
      PROVE  adminRow'[Bootstrap] # "absent"
    BY <1>3 DEF Authenticate, ResolveAppKey, ResolveAdminKey, AppStep, CreateApp, UpdateAppRead,
        UpdateAppWrite, DeleteApp, Serve, EndRequest, tables
<1>4. CASE UNCHANGED keyVars
    BY <1>4 DEF keyVars
<1> QED BY <1>1, <1>2, <1>3, <1>4 DEF KeysNext

\* An instance gives up only over a row that is there.
LEMMA ExitsFindTheKey ==
    ASSUME KeysTypeOK, [KeysNext]_keyVars, NEW i \in Servers, server'[i] = "exited"
    PROVE  server[i] = "exited" \/ adminRow[Bootstrap] # "absent"
<1>1. ASSUME NEW j \in Servers, Instance(j), server[i] # "exited"
      PROVE  adminRow[Bootstrap] # "absent"
    BY <1>1 DEF Instance, LookUpBootstrapKey, InsertBootstrapKey, StartWithoutBootstrap, Stop,
        KeysTypeOK
<1>2. ASSUME NEW r \in Requests,
             Authenticate(r) \/ AppStep(r) \/ KeyStep(r) \/ Serve(r) \/ EndRequest(r)
      PROVE  UNCHANGED server
    BY <1>2 DEF Authenticate, ResolveAppKey, ResolveAdminKey, AppStep, CreateApp, UpdateAppRead,
        UpdateAppWrite, DeleteApp, KeyStep, RequireActiveApp, InsertAppKey, RevokeAppKey,
        CreateAdminKey, RevokeAdminKey, Serve, EndRequest
<1>3. CASE UNCHANGED keyVars
    BY <1>3 DEF keyVars
<1> QED BY <1>1, <1>2, <1>3 DEF KeysNext

\* An instance that gave up in its start-up finds the bootstrap key there when it is
\* started again, whatever was revoked meanwhile.
THEOREM StartupLeavesTheKey == KeysSpec => []StartupEnsuresTheKey
<1>1. KeysInit => StartupEnsuresTheKey
    BY DEF KeysInit, StartupEnsuresTheKey
<1>2. KeysTypeOK /\ StartupEnsuresTheKey /\ [KeysNext]_keyVars => StartupEnsuresTheKey'
    BY BootstrapKeyStays, ExitsFindTheKey DEF StartupEnsuresTheKey
<1> QED BY <1>1, <1>2, KeysTypeCorrect, PTL DEF KeysSpec

-----------------------------------------------------------------------------
(* Deleted apps *)

\* What silence means for one step: a stays deleted, its keys and its name stay as they
\* are, and every request is still, or newly, not at work for a.
Silent(a) ==
    /\ appRow'[a] = "gone"
    /\ appName'[a] = appName[a]
    /\ \A k \in AppKeys : keyApp'[k] = a <=> keyApp[k] = a
    /\ \A k \in AppKeys : keyApp[k] = a => keyRow'[k] = keyRow[k]
    /\ \A r \in Requests : session'[r].app = a => session'[r].step \in {"appRead", "lost"}

LEMMA SilenceLasts ==
    ASSUME KeysTypeOK, NEW a \in Apps, Abandoned(a), Silent(a)
    PROVE  Abandoned(a)' /\ KeysOf(a)' = KeysOf(a)
BY DEF Silent, Abandoned, KeysOf

LEMMA SessionsOfTheAbandoned ==
    ASSUME KeysTypeOK, NEW a \in Apps, Abandoned(a), NEW r \in Requests, NEW s,
           s.app = a => s.step \in {"appRead", "lost"},
           session' = [session EXCEPT ![r] = s]
    PROVE  \A q \in Requests : session'[q].app = a => session'[q].step \in {"appRead", "lost"}
BY DEF KeysTypeOK, Abandoned

LEMMA AbandonedClose ==
    ASSUME KeysTypeOK, NEW a \in Apps, Abandoned(a), NEW r \in Requests, Close(r)
    PROVE  \A q \in Requests : session'[q].app = a => session'[q].step \in {"appRead", "lost"}
<1>1. Nobody.app # a
    BY KeyAssumption DEF Nobody
<1> QED BY <1>1, SessionsOfTheAbandoned DEF Close

LEMMA AbandonedProceed ==
    ASSUME KeysTypeOK, NEW a \in Apps, Abandoned(a), NEW r \in Requests,
           NEW next \in Sessions, next.app = a => next.step \in {"appRead", "lost"},
           Proceed(r, next)
    PROVE  \A q \in Requests : session'[q].app = a => session'[q].step \in {"appRead", "lost"}
<1> DEFINE s == IF session[r].at = NoServer THEN [next EXCEPT !.step = "lost"] ELSE next
<1>1. s.app = a => s.step \in {"appRead", "lost"}
    BY DEF Sessions
<1>2. session' = [session EXCEPT ![r] = s]
    BY DEF Proceed
<1> HIDE DEF s
<1> QED BY <1>1, <1>2, SessionsOfTheAbandoned

LEMMA SilentStep ==
    ASSUME KeysTypeOK, [KeysNext]_keyVars, NEW a \in Apps, Abandoned(a)
    PROVE  Silent(a)
<1>1. CASE UNCHANGED keyVars
    BY <1>1 DEF keyVars, Abandoned, Silent
<1>2. ASSUME NEW i \in Servers, Instance(i) PROVE Silent(a)
    <2>1. UNCHANGED <<appRow, appName, keyRow, keyApp>>
        BY <1>2 DEF Instance, LookUpBootstrapKey, InsertBootstrapKey,
            StartWithoutBootstrap, Stop, tables
    <2>2. \A r \in Requests : session'[r].app = session[r].app /\ session'[r].step = session[r].step
        BY <1>2 DEF Instance, LookUpBootstrapKey, InsertBootstrapKey,
            StartWithoutBootstrap, Stop, KeysTypeOK, Sessions
    <2> QED BY <2>1, <2>2 DEF Silent, Abandoned
<1>3. ASSUME NEW r \in Requests, Authenticate(r) PROVE Silent(a)
    <2>1. UNCHANGED <<appRow, appName, keyRow, keyApp>>
        BY <1>3 DEF Authenticate, ResolveAppKey, ResolveAdminKey, tables
    <2>2. \/ UNCHANGED session
          \/ \E s : s.app # a /\ session' = [session EXCEPT ![r] = s]
        BY <1>3, KeyAssumption DEF Authenticate, ResolveAppKey, ResolveAdminKey,
            AppKeyResolves, Abandoned
    <2>3. \A q \in Requests : session'[q].app = a => session'[q].step \in {"appRead", "lost"}
        BY <2>2, SessionsOfTheAbandoned DEF Abandoned
    <2> QED BY <2>1, <2>3 DEF Silent, Abandoned
<1>4. ASSUME NEW r \in Requests, AppStep(r) PROVE Silent(a)
    <2>1. ASSUME NEW b \in Apps, NEW n \in AppNames \cup {NoName}, UpdateAppRead(r, b, n)
          PROVE  Silent(a)
        <3> DEFINE next == [session[r] EXCEPT
                !.app = b, !.step = "appRead", !.name = IF n = NoName THEN appName[b] ELSE n]
        <3>1. next \in Sessions /\ next.step = "appRead"
            BY <2>1 DEF KeysTypeOK, Sessions
        <3>2. \A q \in Requests : session'[q].app = a => session'[q].step \in {"appRead", "lost"}
            BY <2>1, <3>1, AbandonedClose, AbandonedProceed DEF UpdateAppRead
        <3> QED BY <2>1, <3>2 DEF UpdateAppRead, tables, Silent, Abandoned
    <2>2. ASSUME NEW b \in Apps, NEW n \in AppNames, CreateApp(r, b, n) PROVE Silent(a)
        BY <2>2, AbandonedClose DEF CreateApp, Silent, Abandoned, KeysTypeOK
    <2>3. ASSUME NEW b \in Apps, DeleteApp(r, b) PROVE Silent(a)
        BY <2>3, AbandonedClose DEF DeleteApp, Silent, Abandoned, KeysTypeOK
    <2>4. ASSUME UpdateAppWrite(r) PROVE Silent(a)
        BY <2>4, AbandonedClose DEF UpdateAppWrite, Silent, Abandoned, KeysTypeOK
    <2> QED BY <1>4, <2>1, <2>2, <2>3, <2>4 DEF AppStep
<1>5. ASSUME NEW r \in Requests, KeyStep(r) PROVE Silent(a)
    <2>1. ASSUME NEW b \in Apps, RequireActiveApp(r, b) PROVE Silent(a)
        <3> DEFINE next == [session[r] EXCEPT !.app = b, !.step = "appChecked"]
        <3>1. next \in Sessions /\ next.app = b
            BY DEF KeysTypeOK, Sessions
        <3>2. \A q \in Requests : session'[q].app = a => session'[q].step \in {"appRead", "lost"}
            BY <2>1, <3>1, AbandonedClose, AbandonedProceed DEF RequireActiveApp, Abandoned
        <3> QED BY <2>1, <3>2 DEF RequireActiveApp, tables, Silent, Abandoned
    <2>2. ASSUME NEW k \in AppKeys, InsertAppKey(r, k) PROVE Silent(a)
        <3>1. session[r].app # a
            BY <2>2 DEF InsertAppKey, Abandoned
        <3>2. keyApp[k] = NoApp
            BY <2>2 DEF InsertAppKey, KeysTypeOK
        <3> QED BY <2>2, <3>1, <3>2, AbandonedClose, KeyAssumption
                DEF InsertAppKey, Silent, Abandoned, KeysTypeOK
    <2>3. ASSUME NEW k \in AppKeys, RevokeAppKey(r, k) PROVE Silent(a)
        <3>1. session[r].app # a
            BY <2>3 DEF RevokeAppKey, AppHandler, Abandoned
        <3> QED BY <2>3, <3>1, AbandonedClose DEF RevokeAppKey, Silent, Abandoned, KeysTypeOK
    <2>4. ASSUME NEW k \in AdminKeys, CreateAdminKey(r, k) \/ RevokeAdminKey(r, k)
          PROVE  Silent(a)
        BY <2>4, AbandonedClose DEF CreateAdminKey, RevokeAdminKey, Silent, Abandoned
    <2> QED BY <1>5, <2>1, <2>2, <2>3, <2>4 DEF KeyStep
<1>6. ASSUME NEW r \in Requests, Serve(r) \/ EndRequest(r) PROVE Silent(a)
    <2> DEFINE next == [session[r] EXCEPT !.step = "serving"]
    <2>1. ASSUME Serve(r)
          PROVE  \A q \in Requests : session'[q].app = a => session'[q].step \in {"appRead", "lost"}
        <3>1. next \in Sessions /\ next.app # a
            BY <2>1 DEF Serve, AppHandler, KeysTypeOK, Sessions, Abandoned
        <3> QED BY <2>1, <3>1, AbandonedProceed DEF Serve
    <2> QED BY <1>6, <2>1, AbandonedClose DEF Serve, EndRequest, tables, Silent, Abandoned
<1> QED BY <1>1, <1>2, <1>3, <1>4, <1>5, <1>6 DEF KeysNext

\* A deleted app is out of reach for good once the requests that were let in before are
\* done, although its keys stay active and may even have been joined by a late one.
THEOREM DeletedAppsAreSilent == KeysSpec => DeletedAppsFallSilent
<1>1. KeysTypeOK /\ [KeysNext]_keyVars =>
        [\A a \in Apps : Abandoned(a) =>
            /\ Abandoned(a)'
            /\ KeysOf(a)' = KeysOf(a)
            /\ appName'[a] = appName[a]]_keyVars
    BY SilentStep, SilenceLasts DEF Silent
<1> QED BY <1>1, KeysTypeCorrect, PTL DEF KeysSpec, DeletedAppsFallSilent

-----------------------------------------------------------------------------
(* Revoked keys *)

\* Which key a request presented is settled when it is let in.
LEMMA PresentedKeys ==
    ASSUME KeysTypeOK, [KeysNext]_keyVars, NEW r \in Requests, NEW k \in AppKeys \cup AdminKeys,
           session'[r].key = k, session[r].key # k
    PROVE  (k \in AppKeys /\ keyRow[k] = "active") \/ (k \in AdminKeys /\ adminRow[k] = "active")
<1>1. Nobody.key # k
    BY KeyAssumption DEF Nobody
<1>2. ASSUME NEW q \in Requests, Close(q) PROVE FALSE
    BY <1>1, <1>2 DEF Close, KeysTypeOK
<1>3. ASSUME NEW q \in Requests, NEW next \in Sessions, next.key = session[q].key, Proceed(q, next)
      PROVE  FALSE
    BY <1>3 DEF Proceed, KeysTypeOK, Sessions
<1>4. CASE UNCHANGED keyVars
    BY <1>4 DEF keyVars
<1>5. ASSUME NEW i \in Servers, Instance(i) PROVE FALSE
    BY <1>5 DEF Instance, LookUpBootstrapKey, InsertBootstrapKey, StartWithoutBootstrap, Stop,
        KeysTypeOK, Sessions
<1>6. ASSUME NEW q \in Requests, Authenticate(q)
      PROVE  (k \in AppKeys /\ keyRow[k] = "active") \/ (k \in AdminKeys /\ adminRow[k] = "active")
    BY <1>6 DEF Authenticate, ResolveAppKey, ResolveAdminKey, AppKeyResolves, AdminKeyExists,
        KeysTypeOK
<1>7. ASSUME NEW q \in Requests, AppStep(q) PROVE FALSE
    <2>1. ASSUME NEW b \in Apps, NEW n \in AppNames \cup {NoName}, UpdateAppRead(q, b, n)
          PROVE  FALSE
        <3> DEFINE next == [session[q] EXCEPT
                !.app = b, !.step = "appRead", !.name = IF n = NoName THEN appName[b] ELSE n]
        <3>1. next \in Sessions /\ next.key = session[q].key
            BY <2>1 DEF KeysTypeOK, Sessions
        <3> QED BY <1>2, <1>3, <2>1, <3>1 DEF UpdateAppRead
    <2> QED BY <1>2, <1>7, <2>1 DEF AppStep, CreateApp, DeleteApp, UpdateAppWrite
<1>8. ASSUME NEW q \in Requests, KeyStep(q) PROVE FALSE
    <2>1. ASSUME NEW b \in Apps, RequireActiveApp(q, b) PROVE FALSE
        <3> DEFINE next == [session[q] EXCEPT !.app = b, !.step = "appChecked"]
        <3>1. next \in Sessions /\ next.key = session[q].key
            BY DEF KeysTypeOK, Sessions
        <3> QED BY <1>2, <1>3, <2>1, <3>1 DEF RequireActiveApp
    <2> QED BY <1>2, <1>8, <2>1 DEF KeyStep, InsertAppKey, RevokeAppKey, CreateAdminKey,
                RevokeAdminKey
<1>9. ASSUME NEW q \in Requests, Serve(q) \/ EndRequest(q) PROVE FALSE
    <2> DEFINE next == [session[q] EXCEPT !.step = "serving"]
    <2>1. next \in Sessions /\ next.key = session[q].key
        BY DEF KeysTypeOK, Sessions
    <2> QED BY <1>2, <1>3, <1>9, <2>1 DEF Serve, EndRequest
<1> QED BY <1>4, <1>5, <1>6, <1>7, <1>8, <1>9 DEF KeysNext

\* A revoked row stays revoked: no handler and no starting instance brings it back.
LEMMA RevokedStaysRevoked ==
    ASSUME KeysTypeOK, [KeysNext]_keyVars
    PROVE  /\ \A k \in AppKeys : keyRow[k] = "gone" => keyRow'[k] = "gone"
           /\ \A k \in AdminKeys : adminRow[k] = "gone" => adminRow'[k] = "gone"
<1>1. CASE UNCHANGED keyVars
    BY <1>1 DEF keyVars
<1>2. ASSUME NEW r \in Requests,
             Authenticate(r) \/ AppStep(r) \/ Serve(r) \/ EndRequest(r)
      PROVE  UNCHANGED <<keyRow, adminRow>>
    BY <1>2 DEF Authenticate, ResolveAppKey, ResolveAdminKey, AppStep, CreateApp, UpdateAppRead,
        UpdateAppWrite, DeleteApp, Serve, EndRequest, tables
<1>3. ASSUME NEW r \in Requests, KeyStep(r)
      PROVE  /\ \A k \in AppKeys : keyRow[k] = "gone" => keyRow'[k] = "gone"
             /\ \A k \in AdminKeys : adminRow[k] = "gone" => adminRow'[k] = "gone"
    BY <1>3 DEF KeyStep, RequireActiveApp, InsertAppKey, RevokeAppKey, CreateAdminKey,
        RevokeAdminKey, tables, KeysTypeOK
<1>4. ASSUME NEW i \in Servers, Instance(i)
      PROVE  /\ \A k \in AppKeys : keyRow[k] = "gone" => keyRow'[k] = "gone"
             /\ \A k \in AdminKeys : adminRow[k] = "gone" => adminRow'[k] = "gone"
    BY <1>4 DEF Instance, LookUpBootstrapKey, InsertBootstrapKey, StartWithoutBootstrap, Stop,
        tables, KeysTypeOK
<1> QED BY <1>1, <1>2, <1>3, <1>4 DEF KeysNext

\* A revoked key, of an app or of an admin, lets nobody in again: not after a restart, not
\* when the bootstrap key of the configuration is the revoked one.
THEOREM RevokedKeysStayOut == KeysSpec => RevocationIsFinal
<1>1. KeysTypeOK /\ [KeysNext]_keyVars =>
        [\A k \in AppKeys \cup AdminKeys : Barred(k) => Barred(k)']_keyVars
    <2> SUFFICES ASSUME KeysTypeOK, [KeysNext]_keyVars,
                        NEW k \in AppKeys \cup AdminKeys, Barred(k)
                 PROVE  Barred(k)'
        OBVIOUS
    <2>1. \A r \in Requests : session'[r].key # k
        BY PresentedKeys, KeyAssumption DEF Barred
    <2> QED BY <2>1, RevokedStaysRevoked DEF Barred
<1> QED BY <1>1, KeysTypeCorrect, PTL DEF KeysSpec, RevocationIsFinal

-----------------------------------------------------------------------------
(* Keys of other apps *)

\* A key row changes only in the last statement of a request that works for the key's app.
THEOREM KeysStayWithTheirApp == KeysSpec => KeysAreManagedByTheirApp
<1>1. KeysTypeOK /\ [KeysNext]_keyVars =>
        [\A k \in AppKeys : keyRow'[k] # keyRow[k] =>
            \E r \in Requests : session[r].app = keyApp'[k] /\ session'[r] = Nobody]_keyVars
    <2> SUFFICES ASSUME KeysTypeOK, KeysNext, NEW k \in AppKeys, keyRow'[k] # keyRow[k]
                 PROVE  \E r \in Requests : session[r].app = keyApp'[k] /\ session'[r] = Nobody
        BY DEF keyVars
    <2>1. PICK r \in Requests : \E x \in AppKeys : InsertAppKey(r, x) \/ RevokeAppKey(r, x)
        BY DEF KeysNext, Instance, LookUpBootstrapKey, InsertBootstrapKey, StartWithoutBootstrap,
            Stop, Authenticate, ResolveAppKey, ResolveAdminKey, AppStep, CreateApp, UpdateAppRead,
            UpdateAppWrite, DeleteApp, KeyStep, RequireActiveApp, CreateAdminKey, RevokeAdminKey,
            Serve, EndRequest, tables
    <2>2. session'[r] = Nobody
        BY <2>1 DEF InsertAppKey, RevokeAppKey, Close, KeysTypeOK
    <2>3. session[r].app = keyApp'[k]
        BY <2>1 DEF InsertAppKey, RevokeAppKey, KeysTypeOK
    <2> QED BY <2>2, <2>3
<1> QED BY <1>1, KeysTypeCorrect, PTL DEF KeysSpec, KeysAreManagedByTheirApp

=============================================================================
