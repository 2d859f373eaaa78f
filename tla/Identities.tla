----------------------------- MODULE Identities -----------------------------
(***************************************************************************)
(* End-user sign-up and sign-in: /auth/register, /auth/login, /auth/apple, *)
(* over the tables users and user_identities, while /users creates,        *)
(* patches and deletes users.  One action is one SQL statement with the    *)
(* code around it.                                                         *)
(*                                                                         *)
(* A row inserted by an open transaction is "pending": no other request    *)
(* sees it, but an INSERT or UPDATE that would collide with it in a unique *)
(* index waits until that transaction ends.  An UPDATE of users.email      *)
(* holds its own row while it waits so, and is two actions.  A credential  *)
(* is a provider with its subject: an email for "password", a subject for  *)
(* "apple".                                                                *)
(* Statuses: 200 and 201 carry a token for request[r].user.                *)
(***************************************************************************)
EXTENDS Naturals, FiniteSets, Tenancy

CONSTANTS
    Users, UserIdentities,  \* row ids
    Emails,                 \* normalized emails
    Subjects,               \* "sub" claims of Apple identity tokens
    NoUser, NoIdentity

ASSUME IdentityAssumption ==
    /\ NoApp \notin Apps
    /\ NoName \notin Emails \cup Subjects
    /\ NoUser \notin Users
    /\ NoIdentity \notin UserIdentities
    /\ Emails \cap Subjects = {}

VARIABLES
    user,      \* user[u]: row state, app_id and email
    identity,  \* identity[i]: row state, app_id, user_id, provider with subject
    request    \* request[r]: the handler running in slot r

idVars == <<user, identity, request>>

NoUserRow     == [row |-> "absent", app |-> NoApp, email |-> NoName]
NoIdentityRow == [row |-> "absent", app |-> NoApp, user |-> NoUser, subject |-> NoName]

Idle == [op |-> "none", step |-> "none", app |-> NoApp, email |-> NoName,
         subject |-> NoName, user |-> NoUser, identity |-> NoIdentity,
         status |-> 0, gone |-> {}]

IdentitiesInit ==
    /\ user = [u \in Users |-> NoUserRow]
    /\ identity = [i \in UserIdentities |-> NoIdentityRow]
    /\ request = [r \in Requests |-> Idle]

-----------------------------------------------------------------------------
(* Rows and indexes *)

UserRows(a, e)     == {u \in Users : user[u].app = a /\ user[u].email = e}
IdentityRows(a, c) == {i \in UserIdentities : identity[i].app = a /\ identity[i].subject = c}

\* users_app_email_active_uq and user_identities_app_provider_subject_active_uq.
Taken(rows, table) == \E k \in rows : table[k].row = "active"

-----------------------------------------------------------------------------
(* Who waits for whom *)

InTx(r) == request[r].step \in {"insertIdentity", "commit"}

\* What r holds until its transaction, or its UPDATE, is over.
HoldsUser(r, u) == request[r].user = u /\ \/ InTx(r) /\ user[u].row = "pending"
                                          \/ request[r].step = "writeUser"
HoldsIdentity(r, i) == request[r].step = "commit" /\ request[r].identity = i

\* The rows of users whose fate is open: uncommitted, or locked by an UPDATE that may
\* yet give their email away.
InDoubt(rows) == {u \in rows :
    \/ user[u].row = "pending"
    \/ \E r \in Requests : request[r].step = "writeUser" /\ request[r].user = u}

\* What the next statement of r waits for: its own row, or rows it would collide with.
AwaitedUsers(r) ==
    LET rows == UserRows(request[r].app, request[r].email) IN
    CASE request[r].step = "insertUser" -> InDoubt(rows)
      [] request[r].step = "lockUser"   -> InDoubt({request[r].user})
      [] request[r].step = "writeUser"  -> InDoubt(rows \ {request[r].user})
      [] OTHER                          -> {}

AwaitedIdentities(r) ==
    {i \in IdentityRows(request[r].app, request[r].subject) :
        request[r].step = "insertIdentity" /\ identity[i].row = "pending"}

WaitsFor(r, s) == \/ \E u \in AwaitedUsers(r) : HoldsUser(s, u)
                  \/ \E i \in AwaitedIdentities(r) : HoldsIdentity(s, i)

\* r is on a cycle of waits: nobody waits for two requests.
InRing(r) == \E S \in SUBSET Requests :
    /\ r \in S
    /\ \A s \in S : (\E q \in S : WaitsFor(s, q)) /\ (\E q \in S : WaitsFor(q, s))

-----------------------------------------------------------------------------
(* Bounds, and the ends of a transaction *)

\* The ids left are more than the requests that may use one (a bound).
Room ==
    LET busy == Cardinality({r \in Requests : request[r].step # "none"}) IN
    /\ Cardinality({u \in Users : user[u].row = "absent"}) > busy
    /\ Cardinality({i \in UserIdentities : identity[i].row = "absent"}) > busy

\* What becomes of the rows r has inserted when its transaction ends.
CommitRows(r) ==
    /\ user' = [u \in Users |->
          IF u = request[r].user /\ user[u].row = "pending"
          THEN [user[u] EXCEPT !.row = "active"] ELSE user[u]]
    /\ identity' = [i \in UserIdentities |->
          IF i = request[r].identity THEN [identity[i] EXCEPT !.row = "active"] ELSE identity[i]]

\* A faulty variant: the deferred Rollback is left out.
LeaveRows(r) == UNCHANGED <<user, identity>> /\ r \in Requests

\* The deferred Rollback, or the end of the connection.
RollbackRows(r) ==
    /\ user' = [u \in Users |->
          IF u = request[r].user /\ user[u].row = "pending" THEN NoUserRow ELSE user[u]]
    /\ identity' = [i \in UserIdentities |->
          IF i = request[r].identity THEN NoIdentityRow ELSE identity[i]]

\* "gone" remembers which users were deleted when the request came in: only
\* properties read it.
Arrival(op, step, a, e, c, u, status) ==
    [op |-> op, step |-> step, app |-> a, email |-> e, subject |-> c, user |-> u,
     identity |-> NoIdentity, status |-> status,
     gone |-> {v \in Users : user[v].row = "gone"}]

Accept(r, arrival) ==
    /\ request[r] = Idle
    /\ request' = [request EXCEPT ![r] = arrival]

Answer(r, status) ==
    request' = [request EXCEPT ![r] =
        [@ EXCEPT !.step = "answered", !.status = status]]

-----------------------------------------------------------------------------
(* POST /auth/register *)

Register(r, a, e) ==
    /\ Room
    /\ Accept(r, Arrival("register", "insertUser", a, e, e, NoUser, 0))
    /\ UNCHANGED <<user, identity>>

\* A faulty variant: the user is created outside the transaction.
InsertUserAtOnce(r, u) ==
    LET rows == UserRows(request[r].app, request[r].email) IN
    /\ request[r].step = "insertUser"
    /\ user[u].row = "absent"
    /\ AwaitedUsers(r) = {}
    /\ ~Taken(rows, user)
    /\ user' = [user EXCEPT ![u] =
          [row |-> "active", app |-> request[r].app, email |-> request[r].email]]
    /\ request' = [request EXCEPT ![r] =
                [@ EXCEPT !.step = "insertIdentity", !.user = u]]
    /\ UNCHANGED identity

\* users.CreateTx.
InsertUser(r, u) ==
    LET rows == UserRows(request[r].app, request[r].email) IN
    /\ request[r].step = "insertUser"
    /\ user[u].row = "absent"
    /\ AwaitedUsers(r) = {}
    /\ \/ /\ Taken(rows, user)
          /\ Answer(r, 409)
          /\ UNCHANGED user
       \/ /\ ~Taken(rows, user)
          /\ user' = [user EXCEPT ![u] =
                [row |-> "pending", app |-> request[r].app, email |-> request[r].email]]
          /\ request' = [request EXCEPT ![r] =
                [@ EXCEPT !.step = "insertIdentity", !.user = u]]
    /\ UNCHANGED identity

\* A faulty variant: the unique index on identities is missing.
InsertIdentityAnyway(r, i) ==
    /\ request[r].step = "insertIdentity"
    /\ identity[i].row = "absent"
    /\ identity' = [identity EXCEPT ![i] =
          [row |-> "pending", app |-> request[r].app, user |-> request[r].user,
           subject |-> request[r].subject]]
    /\ request' = [request EXCEPT ![r] =
                [@ EXCEPT !.step = "commit", !.identity = i]]
    /\ UNCHANGED user

\* idents.CreateTx.
InsertIdentity(r, i) ==
    LET rows == IdentityRows(request[r].app, request[r].subject) IN
    /\ request[r].step = "insertIdentity"
    /\ identity[i].row = "absent"
    /\ AwaitedIdentities(r) = {}
    /\ \/ /\ Taken(rows, identity)
          /\ Answer(r, 409)
          /\ RollbackRows(r)
       \/ /\ ~Taken(rows, identity)
          /\ identity' = [identity EXCEPT ![i] =
                [row |-> "pending", app |-> request[r].app, user |-> request[r].user,
                 subject |-> request[r].subject]]
          /\ request' = [request EXCEPT ![r] =
                [@ EXCEPT !.step = "commit", !.identity = i]]
          /\ UNCHANGED user

\* tx.Commit and the token: 201 for a new user, 200 for one Apple has found.
Commit(r) ==
    /\ request[r].step = "commit"
    /\ CommitRows(r)
    /\ Answer(r, IF user[request[r].user].row = "pending" THEN 201 ELSE 200)

-----------------------------------------------------------------------------
(* POST /auth/login *)

\* A faulty variant: the join forgets u.deleted_at.
OpensOnceActive(i) == identity[i].row = "active" /\ user[identity[i].user].row \in {"active", "gone"}

\* GetPasswordByEmail: the identity and its user are both active.
Opens(i) == identity[i].row = "active" /\ user[identity[i].user].row = "active"

\* The answer with a wrong password is the one without an identity.
Login(r, a, e) ==
    /\ \/ \E i \in IdentityRows(a, e) :
             /\ Opens(i)
             /\ Accept(r, Arrival("login", "answered", a, e, e, identity[i].user, 200))
       \/ Accept(r, Arrival("login", "answered", a, e, e, NoUser, 401))
    /\ UNCHANGED <<user, identity>>

-----------------------------------------------------------------------------
(* POST /auth/apple, once the identity token is verified *)

\* GetByProviderSubject.  The token or the body may carry no email (NoName).
Apple(r, a, s, e) ==
    LET known == {i \in IdentityRows(a, s) : identity[i].row = "active"} IN
    /\ Room
    /\ \/ \E i \in known :
             Accept(r, Arrival("apple", "getUser", a, e, s, identity[i].user, 0))
       \/ /\ known = {}
          /\ e = NoName
          /\ Accept(r, Arrival("apple", "answered", a, e, s, NoUser, 400))
       \/ /\ known = {}
          /\ e # NoName
          /\ Accept(r, Arrival("apple", "findEmail", a, e, s, NoUser, 0))
    /\ UNCHANGED <<user, identity>>

\* A faulty variant: the user is looked up by the email of the body.
GetUserByEmail(r) ==
    LET row == user[request[r].user] IN
    /\ request[r].step = "getUser"
    /\ Answer(r, IF row.row = "active" /\ row.email = request[r].email THEN 200 ELSE 500)
    /\ UNCHANGED <<user, identity>>

\* users.GetByID: a deleted user is ErrNotFound, which writeAuthError does not know.
GetUser(r) ==
    LET row == user[request[r].user] IN
    /\ request[r].step = "getUser"
    /\ Answer(r, IF row.row = "active" /\ row.app = request[r].app THEN 200 ELSE 500)
    /\ UNCHANGED <<user, identity>>

\* users.GetByEmail, through the pool and so outside the open transaction.
FindEmail(r) ==
    LET found == {u \in UserRows(request[r].app, request[r].email) : user[u].row = "active"} IN
    /\ request[r].step = "findEmail"
    /\ \/ \E u \in found :
             request' = [request EXCEPT ![r] =
                [@ EXCEPT !.step = "insertIdentity", !.user = u]]
       \/ /\ found = {}
          /\ request' = [request EXCEPT ![r] = [@ EXCEPT !.step = "insertUser"]]
    /\ UNCHANGED <<user, identity>>

-----------------------------------------------------------------------------
(* /users: one statement each, but for PATCH, which reads first *)

CreateUser(r, u, a, e) ==
    /\ Room
    /\ request[r] = Idle
    /\ user[u].row = "absent"
    /\ InDoubt(UserRows(a, e)) = {}
    /\ ~Taken(UserRows(a, e), user)    \* 409 otherwise
    /\ user' = [user EXCEPT ![u] = [row |-> "active", app |-> a, email |-> e]]
    /\ UNCHANGED <<identity, request>>

\* A faulty variant: a body without an email blanks it.
UpdateUserReadBlank(r, u, e) ==
    /\ user[u].row = "active"
    /\ Accept(r, Arrival("update", "lockUser", user[u].app, e, NoName, u, 0))
    /\ UNCHANGED <<user, identity>>

\* A body without an email (e = NoName) keeps the one that is read.
UpdateUserRead(r, u, e) ==
    /\ user[u].row = "active"    \* 404 otherwise
    /\ Accept(r, Arrival("update", "lockUser", user[u].app,
                         IF e = NoName THEN user[u].email ELSE e, NoName, u, 0))
    /\ UNCHANGED <<user, identity>>

\* UPDATE users, first half: the row is found still active, and locked.
UpdateUserLock(r) ==
    /\ request[r].step = "lockUser"
    /\ AwaitedUsers(r) = {}
    /\ \/ /\ user[request[r].user].row = "active"
          /\ request' = [request EXCEPT ![r] = [@ EXCEPT !.step = "writeUser"]]
       \/ /\ user[request[r].user].row # "active"    \* 404
          /\ request' = [request EXCEPT ![r] = Idle]
    /\ UNCHANGED <<user, identity>>

\* Second half: the new email meets the unique index.
UpdateUserWrite(r) ==
    LET u    == request[r].user
        rows == UserRows(request[r].app, request[r].email) \ {u} IN
    /\ request[r].step = "writeUser"
    /\ AwaitedUsers(r) = {}
    /\ \/ /\ ~Taken(rows, user)
          /\ user' = [user EXCEPT ![u].email = request[r].email]
       \/ /\ Taken(rows, user)    \* 409
          /\ UNCHANGED user
    /\ request' = [request EXCEPT ![r] = Idle]
    /\ UNCHANGED identity

DeleteUser(r, u) ==
    /\ request[r] = Idle
    /\ user[u].row = "active"    \* 404 otherwise
    /\ InDoubt({u}) = {}
    /\ user' = [user EXCEPT ![u].row = "gone"]
    /\ UNCHANGED <<identity, request>>

-----------------------------------------------------------------------------
\* The answer leaves; it may be lost on the way.
EndRequest(r) ==
    /\ request[r].step = "answered"
    /\ request' = [request EXCEPT ![r] = Idle]
    /\ UNCHANGED <<user, identity>>

\* The client hangs up or the server dies: the transaction is rolled back.
HangUp(r) ==
    /\ request[r].step \notin {"none", "answered"}
    /\ RollbackRows(r)
    /\ request' = [request EXCEPT ![r] = Idle]

\* PostgreSQL ends one of the requests that wait in a ring (40P01), which MapWriteError
\* does not know.
Deadlock(r) ==
    /\ InRing(r)
    /\ RollbackRows(r)
    /\ Answer(r, 500)

AuthRequest(r, a) ==
    \/ \E e \in Emails : Register(r, a, e) \/ Login(r, a, e)
    \/ \E s \in Subjects, e \in Emails \cup {NoName} : Apple(r, a, s, e)

UserRequest(r, u) ==
    \/ \E a \in Apps, e \in Emails : CreateUser(r, u, a, e)
    \/ \E e \in Emails \cup {NoName} : UpdateUserRead(r, u, e)
    \/ DeleteUser(r, u)

Lookup(r) == GetUser(r) \/ FindEmail(r)

Insertion(r) ==
    \/ \E u \in Users : InsertUser(r, u)
    \/ \E i \in UserIdentities : InsertIdentity(r, i)

UserUpdate(r) == UpdateUserLock(r) \/ UpdateUserWrite(r)

IdentitiesNext == \E r \in Requests :
    \/ \E a \in Apps : AuthRequest(r, a)
    \/ \E u \in Users : UserRequest(r, u)
    \/ Lookup(r)
    \/ Insertion(r)
    \/ UserUpdate(r)
    \/ Commit(r)
    \/ EndRequest(r)
    \/ HangUp(r)
    \/ Deadlock(r)

IdentitiesSpec == IdentitiesInit /\ [][IdentitiesNext]_idVars

\* The database answers every statement it can, the handler goes on after it,
\* and a waiting INSERT or UPDATE is let in when its rows are free often enough.
\* A ring of waits is found after deadlock_timeout.
\* Clients need send nothing, and need never hang up.
IdentitiesFairness == \A r \in Requests :
    /\ WF_idVars(Lookup(r) \/ Commit(r) \/ EndRequest(r) \/ Deadlock(r))
    /\ SF_idVars(Insertion(r))
    /\ SF_idVars(UserUpdate(r))

FairIdentitiesSpec == IdentitiesSpec /\ IdentitiesFairness

-----------------------------------------------------------------------------
(* Properties *)

UserRowType == {NoUserRow} \cup
    [row : {"pending", "active", "gone"}, app : Apps, email : Emails]

IdentityRowType == {NoIdentityRow} \cup
    [row : {"pending", "active"}, app : Apps, user : Users, subject : Emails \cup Subjects]

Ops      == {"none", "register", "login", "apple", "update"}
Steps    == {"none", "insertUser", "insertIdentity", "commit", "getUser", "findEmail",
             "lockUser", "writeUser", "answered"}
Statuses == {0, 200, 201, 400, 401, 409, 500}

RequestType == [op : Ops, step : Steps,
                app : Apps \cup {NoApp}, email : Emails \cup {NoName},
                subject : Emails \cup Subjects \cup {NoName}, user : Users \cup {NoUser},
                identity : UserIdentities \cup {NoIdentity},
                status : Statuses, gone : SUBSET Users]

\* Rows and requests keep their shape: above all, no row an open transaction inserted
\* loses a column, and a PATCH never blanks an email.
IdentitiesTypeOK ==
    /\ user \in [Users -> UserRowType]
    /\ identity \in [UserIdentities -> IdentityRowType]
    /\ request \in [Requests -> RequestType]

Answered(r, op) == request[r].step = "answered" /\ request[r].op = op
HasToken(r)     == request[r].step = "answered" /\ request[r].status \in {200, 201}

\* Sign-up and sign-in keep the promises of Accounts, seen through committed
\* rows: a transaction's rows appear together or not at all, an identity is
\* attached to a user of its own app (no constraint of the schema says so), a
\* password opens only the account it was made with, and no credential changes
\* hands.
CommittedUser == [u \in Users |-> IF user[u].row = "pending" THEN NoUserRow ELSE user[u]]
CommittedCredentials ==
    {[app |-> identity[i].app, subject |-> identity[i].subject, user |-> identity[i].user] :
        i \in {j \in UserIdentities : identity[j].row = "active"}}

A == INSTANCE Accounts WITH account <- CommittedUser, credential <- CommittedCredentials

KeepsAccounts == A!AccountsSpec

\* A token never names a user who was deleted before the request came in, nor
\* one of another app, whichever statements of other requests came between.
TokensAreDue == \A r \in Requests : HasToken(r) =>
    /\ request[r].user \notin request[r].gone
    /\ user[request[r].user].app = request[r].app

\* A sign-in with Apple fails inside the server only for a user who has been deleted,
\* never because an identity leads to a user of another app, or to one who never was,
\* and never because PostgreSQL had to break a deadlock.
OnlyDeletedUsersFail == \A r \in Requests :
    Answered(r, "apple") /\ request[r].status = 500 => user[request[r].user].row = "gone"

\* Two rows that are active, or about to be, never collide: a request that has
\* waited for another's transaction looks at the index again.
NoTwinAccounts ==
    /\ \A u, v \in Users :
          /\ user[u].row \in {"pending", "active"}
          /\ user[v].row \in {"pending", "active"}
          /\ user[u].app = user[v].app
          /\ user[u].email = user[v].email
          => u = v
    /\ \A i, j \in UserIdentities :
          /\ identity[i].row \in {"pending", "active"}
          /\ identity[j].row \in {"pending", "active"}
          /\ identity[i].app = identity[j].app
          /\ identity[i].subject = identity[j].subject
          => i = j

\* Waiting comes to an end: what makes a statement wait belongs to a request still at
\* work, whichever way earlier ones ended; and requests that wait for each other in a
\* ring are all PATCHes of users that ask for each other's emails, one of which
\* PostgreSQL fails.  No sign-up or sign-in is ever among them, since it takes its
\* users row before its user_identities row and reads outside its transaction.
RowWaitsEnd == \A r \in Requests :
    /\ AwaitedUsers(r) # {} \/ AwaitedIdentities(r) # {} => \E s \in Requests : WaitsFor(r, s)
    /\ InRing(r) => request[r].op = "update" /\ request[r].step = "writeUser"

\* Every request is answered, however requests wait for each other's
\* uncommitted or locked rows, and leaves no row behind that others would wait for.
SignInsEnd == \A r \in Requests : request[r].step # "none" ~> request[r].step = "none"

\* Violated.  docs/how-to/authenticate.md, of /auth/apple: "If an apple identity
\* already exists for the token sub, issue a JWT for that user (200)".
KnownSubjectsSignIn == \A r \in Requests : Answered(r, "apple") => request[r].status # 500

=============================================================================
