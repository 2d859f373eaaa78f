-------------------------------- MODULE Keys --------------------------------
(***************************************************************************)
(* Apps, their API keys, the admin keys, and the middleware that lets a    *)
(* request in.  Several instances of the server share the database; each   *)
(* makes sure of the bootstrap admin key when it starts.  A request that   *)
(* presents a key becomes a session: the middleware resolves the key once, *)
(* and what the handler does afterwards relies on that answer.             *)
(*                                                                         *)
(* A key is its hash: key_hash is unique, a generated key is never         *)
(* generated again, and the bootstrap key comes from the configuration.    *)
(* One action is one SQL statement with the code around it.                *)
(***************************************************************************)
EXTENDS Tenancy

CONSTANTS
    AppKeys, AdminKeys,  \* key hashes
    Bootstrap,           \* the hash of BOOTSTRAP_ADMIN_API_KEY, one of AdminKeys
    AppNames,
    Servers,             \* instances of the server
    NoKey, NoServer

ASSUME KeyAssumption ==
    /\ NoApp \notin Apps
    /\ NoName \notin AppNames
    /\ NoKey \notin AppKeys \cup AdminKeys
    /\ NoServer \notin Servers
    /\ AppKeys \cap AdminKeys = {}
    /\ Bootstrap \in AdminKeys

VARIABLES
    appRow,    \* appRow[a]: is app a absent, active or gone (deleted_at set)?
    appName,   \* appName[a]: apps.name
    keyRow,    \* keyRow[k]: is app key k absent, active or gone (revoked_at set)?
    keyApp,    \* keyApp[k]: api_keys.app_id
    adminRow,  \* adminRow[k]: the same of an admin key
    server,    \* server[i]: what instance i has got to
    session    \* session[r]: whom the middleware let in, and how far the handler is

tables  == <<appRow, appName, keyRow, keyApp, adminRow>>
keyVars == <<appRow, appName, keyRow, keyApp, adminRow, server, session>>

RowStates == {"absent", "active", "gone"}

Nobody == [who |-> "nobody", key |-> NoKey, app |-> NoApp, at |-> NoServer,
           step |-> "none", name |-> NoName]

KeysInit ==
    /\ appRow = [a \in Apps |-> "absent"]
    /\ appName = [a \in Apps |-> NoName]
    /\ keyRow = [k \in AppKeys |-> "absent"]
    /\ keyApp = [k \in AppKeys |-> NoApp]
    /\ adminRow = [k \in AdminKeys |-> "absent"]
    /\ server = [i \in Servers |-> "down"]
    /\ session = [r \in Requests |-> Nobody]

-----------------------------------------------------------------------------
\* The handler answers, or the client hangs up and the handler gives up.
Close(r) == session' = [session EXCEPT ![r] = Nobody]

\* The handler goes on to its next statement, unless its server is gone: then
\* the statement it had sent has taken effect, and no other follows.
Proceed(r, next) ==
    session' = [session EXCEPT ![r] =
        IF session[r].at = NoServer THEN [next EXCEPT !.step = "lost"] ELSE next]

AppHandler(r)   == session[r].who = "app" /\ session[r].step = "authenticated"
AdminHandler(r) == session[r].who = "admin" /\ session[r].step = "authenticated"

-----------------------------------------------------------------------------
(* The middleware *)

\* A faulty variant: the join with apps is left out.
AppKeyResolvesAlone(k) == keyRow[k] = "active"

\* ResolveAppIDByKeyHash: the key is not revoked and its app is not deleted.
AppKeyResolves(k) == keyRow[k] = "active" /\ appRow[keyApp[k]] = "active"

ResolveAppKey(r, i, k) ==
    /\ server[i] = "up"
    /\ session[r] = Nobody
    /\ \/ /\ AppKeyResolves(k)
          /\ session' = [session EXCEPT ![r] =
                [who |-> "app", key |-> k, app |-> keyApp[k], at |-> i,
                 step |-> "authenticated", name |-> NoName]]
       \/ /\ ~AppKeyResolves(k)      \* 401
          /\ UNCHANGED session
    /\ UNCHANGED <<tables, server>>

AdminKeyExists(k) == adminRow[k] = "active"

ResolveAdminKey(r, i, k) ==
    /\ server[i] = "up"
    /\ session[r] = Nobody
    /\ \/ /\ AdminKeyExists(k)
          /\ session' = [session EXCEPT ![r] =
                [who |-> "admin", key |-> k, app |-> NoApp, at |-> i,
                 step |-> "authenticated", name |-> NoName]]
       \/ /\ ~AdminKeyExists(k)      \* 401
          /\ UNCHANGED session
    /\ UNCHANGED <<tables, server>>

-----------------------------------------------------------------------------
(* Apps: /admin/apps *)

CreateApp(r, a, n) ==
    /\ AdminHandler(r)
    /\ appRow[a] = "absent"
    /\ appRow' = [appRow EXCEPT ![a] = "active"]
    /\ appName' = [appName EXCEPT ![a] = n]
    /\ Close(r)
    /\ UNCHANGED <<keyRow, keyApp, adminRow, server>>

\* PATCH reads the app and keeps its name when the body has none (n = NoName).
UpdateAppRead(r, a, n) ==
    /\ AdminHandler(r)
    /\ \/ /\ appRow[a] # "active"    \* 404
          /\ Close(r)
       \/ /\ appRow[a] = "active"
          /\ Proceed(r, [session[r] EXCEPT
                !.app = a, !.step = "appRead",
                !.name = IF n = NoName THEN appName[a] ELSE n])
    /\ UNCHANGED <<tables, server>>

UpdateAppWrite(r) ==
    /\ session[r].step = "appRead"
    /\ \/ /\ appRow[session[r].app] = "active"
          /\ appName' = [appName EXCEPT ![session[r].app] = session[r].name]
       \/ /\ appRow[session[r].app] # "active"    \* 404
          /\ UNCHANGED appName
    /\ Close(r)
    /\ UNCHANGED <<appRow, keyRow, keyApp, adminRow, server>>

DeleteApp(r, a) ==
    /\ AdminHandler(r)
    /\ appRow' = IF appRow[a] = "active" THEN [appRow EXCEPT ![a] = "gone"] ELSE appRow
    /\ Close(r)
    /\ UNCHANGED <<appName, keyRow, keyApp, adminRow, server>>

-----------------------------------------------------------------------------
(* App keys: /api_keys, and /admin/apps/{id}/api_keys *)

\* A faulty variant: the handler forgets which app it has checked.
RequireSomeActiveApp(r, a) ==
    /\ AdminHandler(r) \/ (AppHandler(r) /\ session[r].app = a)
    /\ appRow[a] = "active"
    /\ Proceed(r, [session[r] EXCEPT !.step = "appChecked"])
    /\ UNCHANGED <<tables, server>>

\* requireActiveApp: an app key creates keys of its own app, an admin of any.
RequireActiveApp(r, a) ==
    /\ AdminHandler(r) \/ (AppHandler(r) /\ session[r].app = a)
    /\ \/ /\ appRow[a] = "active"
          /\ Proceed(r, [session[r] EXCEPT !.app = a, !.step = "appChecked"])
       \/ /\ appRow[a] # "active"    \* 404
          /\ Close(r)
    /\ UNCHANGED <<tables, server>>

InsertAppKey(r, k) ==
    /\ session[r].step = "appChecked"
    /\ keyRow[k] = "absent"
    /\ keyRow' = [keyRow EXCEPT ![k] = "active"]
    /\ keyApp' = [keyApp EXCEPT ![k] = session[r].app]
    /\ Close(r)
    /\ UNCHANGED <<appRow, appName, adminRow, server>>

\* A faulty variant: the UPDATE does not compare app_id.
RevokeKeyOfAnyApp(r, k) ==
    /\ AppHandler(r)
    /\ keyRow' = IF keyRow[k] = "active" THEN [keyRow EXCEPT ![k] = "gone"] ELSE keyRow
    /\ Close(r)
    /\ UNCHANGED <<appRow, appName, keyApp, adminRow, server>>

RevokeAppKey(r, k) ==
    /\ AppHandler(r)
    /\ keyRow' = IF keyRow[k] = "active" /\ keyApp[k] = session[r].app
                 THEN [keyRow EXCEPT ![k] = "gone"]
                 ELSE keyRow         \* 404
    /\ Close(r)
    /\ UNCHANGED <<appRow, appName, keyApp, adminRow, server>>

-----------------------------------------------------------------------------
(* Admin keys: /admin/api_keys *)

CreateAdminKey(r, k) ==
    /\ AdminHandler(r)
    /\ k # Bootstrap
    /\ adminRow[k] = "absent"
    /\ adminRow' = [adminRow EXCEPT ![k] = "active"]
    /\ Close(r)
    /\ UNCHANGED <<appRow, appName, keyRow, keyApp, server>>

\* A faulty variant: the row is deleted.
RevokeAdminKeyForGood(r, k) ==
    /\ AdminHandler(r)
    /\ adminRow' = [adminRow EXCEPT ![k] = "absent"]
    /\ Close(r)
    /\ UNCHANGED <<appRow, appName, keyRow, keyApp, server>>

RevokeAdminKey(r, k) ==
    /\ AdminHandler(r)
    /\ adminRow' = IF adminRow[k] = "active" THEN [adminRow EXCEPT ![k] = "gone"]
                   ELSE adminRow     \* 404
    /\ Close(r)
    /\ UNCHANGED <<appRow, appName, keyRow, keyApp, server>>

-----------------------------------------------------------------------------
(* Every other route, and the ways a request ends early *)

\* A handler of another app route issues its first or its next statement.
Serve(r) ==
    /\ AppHandler(r) \/ session[r].step = "serving"
    /\ Proceed(r, [session[r] EXCEPT !.step = "serving"])
    /\ UNCHANGED <<tables, server>>

\* Its answer; also a body that does not decode, and every GET.  Or the client
\* hangs up between two statements, or the statement of a lost server is done.
EndRequest(r) ==
    /\ session[r] # Nobody
    /\ Close(r)
    /\ UNCHANGED <<tables, server>>

-----------------------------------------------------------------------------
(* Instances *)

\* A faulty variant: INSERT ... ON CONFLICT (key_hash) DO UPDATE SET revoked_at = NULL,
\* without a look first.
RestoreBootstrapKey(i) ==
    /\ server[i] \in {"down", "exited"}
    /\ server' = [server EXCEPT ![i] = "up"]
    /\ adminRow' = [adminRow EXCEPT ![Bootstrap] = "active"]
    /\ UNCHANGED <<appRow, appName, keyRow, keyApp, session>>

\* EnsureBootstrapKey, first statement: any row with the hash will do.
LookUpBootstrapKey(i) ==
    /\ server[i] \in {"down", "exited"}
    /\ server' = [server EXCEPT ![i] =
        IF adminRow[Bootstrap] = "absent" THEN "inserting" ELSE "up"]
    /\ UNCHANGED <<tables, session>>

\* Second statement: key_hash is unique, and log.Fatalf ends the process on any error.
InsertBootstrapKey(i) ==
    /\ server[i] = "inserting"
    /\ \/ /\ adminRow[Bootstrap] = "absent"
          /\ adminRow' = [adminRow EXCEPT ![Bootstrap] = "active"]
          /\ server' = [server EXCEPT ![i] = "up"]
       \/ /\ adminRow[Bootstrap] # "absent"
          /\ server' = [server EXCEPT ![i] = "exited"]
          /\ UNCHANGED adminRow
    /\ UNCHANGED <<appRow, appName, keyRow, keyApp, session>>

\* The instance runs without BOOTSTRAP_ADMIN_API_KEY.
StartWithoutBootstrap(i) ==
    /\ server[i] \in {"down", "exited"}
    /\ server' = [server EXCEPT ![i] = "up"]
    /\ UNCHANGED <<tables, session>>

\* The process stops; a statement one of its handlers has sent may still take effect.
Stop(i) ==
    /\ server[i] \in {"inserting", "up"}
    /\ server' = [server EXCEPT ![i] = "down"]
    /\ session' = [r \in Requests |->
        IF session[r].at = i THEN [session[r] EXCEPT !.at = NoServer] ELSE session[r]]
    /\ UNCHANGED tables

-----------------------------------------------------------------------------
AppStep(r) ==
    \/ \E a \in Apps :
        \/ \E n \in AppNames : CreateApp(r, a, n)
        \/ \E n \in AppNames \cup {NoName} : UpdateAppRead(r, a, n)
        \/ DeleteApp(r, a)
    \/ UpdateAppWrite(r)

KeyStep(r) ==
    \/ \E a \in Apps : RequireActiveApp(r, a)
    \/ \E k \in AppKeys : InsertAppKey(r, k) \/ RevokeAppKey(r, k)
    \/ \E k \in AdminKeys : CreateAdminKey(r, k) \/ RevokeAdminKey(r, k)

Authenticate(r) ==
    \E i \in Servers :
        \/ \E k \in AppKeys : ResolveAppKey(r, i, k)
        \/ \E k \in AdminKeys : ResolveAdminKey(r, i, k)

Instance(i) ==
    \/ LookUpBootstrapKey(i)
    \/ InsertBootstrapKey(i)
    \/ StartWithoutBootstrap(i)
    \/ Stop(i)

KeysNext ==
    \/ \E i \in Servers : Instance(i)
    \/ \E r \in Requests :
        Authenticate(r) \/ AppStep(r) \/ KeyStep(r) \/ Serve(r) \/ EndRequest(r)

KeysSpec == KeysInit /\ [][KeysNext]_keyVars

-----------------------------------------------------------------------------
(* Properties *)

Sessions == [
    who  : {"nobody", "app", "admin"},
    key  : AppKeys \cup AdminKeys \cup {NoKey},
    app  : Apps \cup {NoApp},
    at   : Servers \cup {NoServer},
    step : {"none", "authenticated", "appChecked", "appRead", "serving", "lost"},
    name : AppNames \cup {NoName}]

\* Rows and sessions have the shape the schema and the middleware give them: a key row
\* names its app, and a session that handles an app names one.
KeysTypeOK ==
    /\ appRow \in [Apps -> RowStates]
    /\ appName \in [Apps -> AppNames \cup {NoName}]
    /\ keyRow \in [AppKeys -> RowStates]
    /\ keyApp \in [AppKeys -> Apps \cup {NoApp}]
    /\ adminRow \in [AdminKeys -> RowStates]
    /\ server \in [Servers -> {"down", "inserting", "up", "exited"}]
    /\ session \in [Requests -> Sessions]
    /\ \A k \in AppKeys : keyRow[k] # "absent" <=> keyApp[k] # NoApp
    /\ \A r \in Requests :
        /\ session[r].who = "app" => session[r].app \in Apps
        /\ session[r].step \in {"appChecked", "appRead"} => session[r].app \in Apps
        /\ session[r].who = "nobody" => session[r].step = "none"
        /\ session[r].step = "authenticated" /\ session[r].who = "admin"
            => session[r].app = NoApp

\* Nobody who was let in before app a was deleted is still at work for it: no
\* handler with its key, no handler about to insert a key for it.
Abandoned(a) ==
    /\ appRow[a] = "gone"
    /\ \A r \in Requests : session[r].app = a => session[r].step \in {"appRead", "lost"}

KeysOf(a) == {<<k, keyRow[k]>> : k \in {x \in AppKeys : keyApp[x] = a}}

\* Deleting an app revokes none of its keys, and keys may still be inserted by the
\* handlers that had checked the app before; yet once those are done the app is out
\* of reach for good: nobody is let in for it, its keys and its name never change.
DeletedAppsFallSilent ==
    [][\A a \in Apps : Abandoned(a) =>
        /\ Abandoned(a)'
        /\ KeysOf(a)' = KeysOf(a)
        /\ appName'[a] = appName[a]]_keyVars

\* "Revoked keys fail authentication": after a revocation, and when the requests let in
\* before are done, no request is let in with that key -- whatever instances start.
Barred(k) ==
    /\ (k \in AppKeys /\ keyRow[k] = "gone") \/ (k \in AdminKeys /\ adminRow[k] = "gone")
    /\ \A r \in Requests : session[r].key # k
RevocationIsFinal == [][\A k \in AppKeys \cup AdminKeys : Barred(k) => Barred(k)']_keyVars

\* A key is created or revoked only by a request that works for the key's app: an app
\* key never reaches the keys of another app.
KeysAreManagedByTheirApp ==
    [][\A k \in AppKeys : keyRow'[k] # keyRow[k] =>
        \E r \in Requests : session[r].app = keyApp'[k] /\ session'[r] = Nobody]_keyVars

\* "On startup, OpenAura ensures that key exists (idempotent)": of instances that start
\* together one may give up because another was faster, but then the key has been
\* ensured, and it stays so until the one that gave up is started again, although
\* the key may be revoked meanwhile.
StartupEnsuresTheKey == \A i \in Servers : server[i] = "exited" => adminRow[Bootstrap] # "absent"

=============================================================================
