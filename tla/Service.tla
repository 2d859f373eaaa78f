------------------------------ MODULE Service -------------------------------
(***************************************************************************)
(* The service behind its middleware: a request presents a key (Keys), and *)
(* the app the key was resolved to is the app its handler serves (Access). *)
(* Request slot r is one goroutine: session[r] is what its context says,   *)
(* req[r] what its handler remembers between two statements.  The key is   *)
(* looked at once, when the request is let in, so what a handler does      *)
(* later may come after the key was revoked or the app deleted.            *)
(***************************************************************************)
EXTENDS Access, Keys

serviceVars == <<vars, keyVars>>

ServiceInit == Init /\ KeysInit

-----------------------------------------------------------------------------
\* The middleware, an admin route, or a route of the app keys.
KeyRoute(r) ==
    /\ Free(r)
    /\ Authenticate(r) \/ AppStep(r) \/ KeyStep(r)
    /\ UNCHANGED vars

\* A faulty variant: the handler takes the app id from the request instead of the context.
DispatchToAnyApp(r) ==
    /\ AppHandler(r)
    /\ Serve(r)
    /\ \E a \in Apps : Start(r, a)

\* RequireAppID: the handler serves the app of the context.
Dispatch(r) ==
    /\ AppHandler(r)
    /\ Serve(r)
    /\ Start(r, session[r].app)

\* The handler issues its next statement.
NextStatement(r) ==
    /\ session[r].step = "serving"
    /\ ~Free(r)
    /\ Serve(r)
    /\ Continue(r)

\* The request is over: answered, given up, or lost with its server.
Finish(r) ==
    /\ EndRequest(r)
    /\ \/ Free(r) /\ UNCHANGED vars
       \/ Abort(r) /\ UNCHANGED <<assignVars, permVars>>

ServiceNext ==
    \/ \E i \in Servers : Instance(i) /\ UNCHANGED vars
    \/ \E r \in Requests : KeyRoute(r) \/ Dispatch(r) \/ NextStatement(r) \/ Finish(r)

ServiceSpec == ServiceInit /\ [][ServiceNext]_serviceVars

-----------------------------------------------------------------------------
(* Properties *)

\* A handler at work serves the app its request was let in for, and no other.
HandlersServeTheirSession ==
    \A r \in Requests : ~Free(r) =>
        /\ session[r].who = "app"
        /\ session[r].step \in {"serving", "lost"}
        /\ req[r].app = session[r].app

\* The requests whose handler or session moves in the step.
Moving == {r \in Requests : <<req[r], session[r]>>' # <<req[r], session[r]>>}

\* "The server resolves the key to an app_id": rows, edges and decisions of an app change
\* only in a step of one request, and that request was let in with a key of that very
\* app, whatever ids it sends and whatever requests of other apps are under way.
ChangesNeedAKeyOfTheApp ==
    [][TablesWritten => \A a \in Apps : AppView(a)' # AppView(a) =>
        \E r \in Requests :
            /\ Moving = {r}
            /\ session[r].who = "app"
            /\ keyApp[session[r].key] = a]_serviceVars

\* After an app is deleted and the requests let in before are done, nothing that belongs
\* to it changes ever more: no request is let in for it, and no row, no edge, no decision
\* changes -- although not one of its rows, edges and keys was deleted with it.
DeletedAppsAreFrozen ==
    [][\A a \in Apps : Abandoned(a) => Abandoned(a)' /\ AppView(a)' = AppView(a)]_serviceVars

=============================================================================
