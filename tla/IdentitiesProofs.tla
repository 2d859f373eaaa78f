-------------------------- MODULE IdentitiesProofs --------------------------
(***************************************************************************)
(* Proofs about Identities.  The inductive invariant says what the row of  *)
(* request r may rely on while its transaction is open: the user it will   *)
(* attach an identity to is its own uncommitted row or a committed row of  *)
(* the same app, and no two transactions hold the same uncommitted row.    *)
(***************************************************************************)
EXTENDS Identities, TLAPS

Settled(u) == user[u].row \in {"active", "gone"}
OfApp(r)   == user[request[r].user].app = request[r].app

\* The user a sign-in has found or made.
TxUser(r) ==
    LET u == request[r].user IN
    /\ request[r].app \in Apps
    /\ u \in Users
    /\ OfApp(r)
    /\ u \notin request[r].gone
    /\ \/ /\ user[u].row = "pending"
          /\ user[u].email = request[r].email
          /\ request[r].subject \in {request[r].email} \cup Subjects
       \/ /\ Settled(u)
          /\ request[r].subject \in Subjects

\* The identity it has made.
TxIdentity(r) ==
    IF request[r].step = "commit"
    THEN /\ request[r].identity \in UserIdentities
         /\ identity[request[r].identity] =
               [row |-> "pending", app |-> request[r].app, user |-> request[r].user,
                subject |-> request[r].subject]
    ELSE request[r].identity = NoIdentity

Fresh(r) ==
    /\ request[r].app \in Apps
    /\ request[r].email \in Emails
    /\ request[r].user = NoUser
    /\ request[r].identity = NoIdentity
    /\ request[r].subject \in {request[r].email} \cup Subjects

Found(r) ==
    /\ request[r].app \in Apps
    /\ request[r].user \in Users
    /\ Settled(request[r].user)
    /\ OfApp(r)
    /\ request[r].identity = NoIdentity

Due(r) ==
    /\ request[r].user \in Users
    /\ Settled(request[r].user)
    /\ OfApp(r)
    /\ request[r].user \notin request[r].gone

RequestInv(r) ==
    /\ \A u \in request[r].gone : user[u].row = "gone"
    /\ request[r].step \in {"insertUser", "findEmail"} => Fresh(r)
    /\ request[r].step = "findEmail" => request[r].subject \in Subjects
    /\ request[r].step \in {"getUser", "lockUser", "writeUser"} => Found(r)
    /\ request[r].step \in {"lockUser", "writeUser"} =>
          request[r].op = "update" /\ request[r].email \in Emails
    /\ request[r].step = "writeUser" => user[request[r].user].row = "active"
    /\ InTx(r) => TxUser(r) /\ TxIdentity(r)
    /\ HasToken(r) => Due(r)

Linked == \A i \in UserIdentities : identity[i].row = "active" =>
    /\ Settled(identity[i].user)
    /\ user[identity[i].user].app = identity[i].app

Exclusive == \A r, q \in Requests : r # q /\ InTx(r) /\ InTx(q) =>
    /\ request[r].user = request[q].user => user[request[r].user].row # "pending"
    /\ request[r].step = "commit" /\ request[q].step = "commit" =>
          request[r].identity # request[q].identity

IInv ==
    /\ IdentitiesTypeOK
    /\ NoTwinAccounts
    /\ Linked
    /\ Exclusive
    /\ \A r \in Requests : RequestInv(r)

-----------------------------------------------------------------------------
\* A step that keeps committed rows committed, and the rows of r's own
\* transaction as they are, keeps what r relies on.
LEMMA RequestKept ==
    ASSUME NEW r \in Requests, RequestInv(r), request'[r] = request[r],
           request[r].gone \subseteq Users,
           \A u \in Users : Settled(u) => Settled(u)' /\ user'[u].app = user[u].app,
           \A u \in Users : user[u].row = "gone" => user'[u].row = "gone",
           InTx(r) /\ user[request[r].user].row = "pending" =>
               user'[request[r].user] = user[request[r].user],
           request[r].step = "commit" =>
               identity'[request[r].identity] = identity[request[r].identity],
           request[r].step = "writeUser" =>
               user'[request[r].user].row = user[request[r].user].row
    PROVE  RequestInv(r)'
<1>1. (\A u \in request[r].gone : user[u].row = "gone")'
  BY DEF RequestInv
<1>2. (request[r].step \in {"insertUser", "findEmail"} => Fresh(r))'
  BY DEF RequestInv, Fresh
<1>3. (request[r].step = "findEmail" => request[r].subject \in Subjects)'
  BY DEF RequestInv
<1>4. (request[r].step \in {"getUser", "lockUser", "writeUser"} => Found(r))'
  BY DEF RequestInv, Found, OfApp
<1>5. /\ (request[r].step \in {"lockUser", "writeUser"} =>
            request[r].op = "update" /\ request[r].email \in Emails)'
      /\ (request[r].step = "writeUser" => user[request[r].user].row = "active")'
  BY DEF RequestInv
<1>6. (InTx(r) => TxUser(r))'
  BY DEF RequestInv, TxUser, InTx, OfApp
<1>7. (InTx(r) => TxIdentity(r))'
  BY DEF RequestInv, TxIdentity, InTx
<1>8. (HasToken(r) => Due(r))'
  BY DEF RequestInv, HasToken, Due, OfApp
<1> QED
  BY <1>1, <1>2, <1>3, <1>4, <1>5, <1>6, <1>7, <1>8 DEF RequestInv

\* Statements that only change r's slot: what is left to show is r's own part.
LEMMA SlotStep ==
    ASSUME IInv, NEW r \in Requests, NEW rq \in RequestType,
           request' = [request EXCEPT ![r] = rq],
           UNCHANGED <<user, identity>>,
           rq.step = "insertIdentity" =>
               \A q \in Requests : q # r /\ InTx(q) /\ request[q].user = rq.user =>
                   user[rq.user].row # "pending",
           rq.step # "commit",
           RequestInv(r)'
    PROVE  IInv'
<1>1. IdentitiesTypeOK'
  BY DEF IInv, IdentitiesTypeOK, RequestType, Idle
<1>2. NoTwinAccounts' /\ Linked'
  BY DEF IInv, NoTwinAccounts, Linked, Settled
<1>3. Exclusive'
  BY DEF IInv, IdentitiesTypeOK, Exclusive, InTx
<1>4. ASSUME NEW q \in Requests PROVE RequestInv(q)'
  <2>1. CASE q = r
    BY <2>1
  <2>2. CASE q # r
    <3>1. request'[q] = request[q] /\ request[q].gone \subseteq Users
      BY <2>2 DEF IInv, IdentitiesTypeOK, RequestType
    <3> QED
      BY <3>1, RequestKept DEF IInv, Settled
  <2> QED
    BY <2>1, <2>2
<1> QED
  BY <1>1, <1>2, <1>3, <1>4 DEF IInv

LEMMA InitInv == ASSUME IdentityAssumption, IdentitiesInit PROVE IInv
BY DEF IdentityAssumption, IdentitiesInit, IInv, IdentitiesTypeOK, NoTwinAccounts, Linked,
       Exclusive, RequestInv, InTx, HasToken, Idle, NoUserRow, NoIdentityRow,
       UserRowType, IdentityRowType, RequestType, Ops, Steps, Statuses

-----------------------------------------------------------------------------
(* Slots *)

LEMMA SlotFields ==
    ASSUME IInv, NEW r \in Requests
    PROVE  /\ request[r] \in RequestType
           /\ request[r] = [op |-> request[r].op, step |-> request[r].step,
                            app |-> request[r].app, email |-> request[r].email,
                            subject |-> request[r].subject, user |-> request[r].user,
                            identity |-> request[r].identity,
                            status |-> request[r].status, gone |-> request[r].gone]
BY DEF IInv, IdentitiesTypeOK, RequestType

LEMMA ArrivalType ==
    ASSUME NEW op \in Ops, NEW step \in Steps, NEW a \in Apps \cup {NoApp},
           NEW e \in Emails \cup {NoName}, NEW c \in Emails \cup Subjects \cup {NoName},
           NEW u \in Users \cup {NoUser}, NEW status \in Statuses
    PROVE  Arrival(op, step, a, e, c, u, status) \in RequestType
BY DEF Arrival, RequestType

LEMMA StepNames ==
    /\ "insertUser" \in Steps
    /\ "insertIdentity" \in Steps
    /\ "commit" \in Steps
    /\ "answered" \in Steps
BY DEF Steps

LEMMA MovedType ==
    ASSUME NEW q \in RequestType, NEW step \in Steps
    PROVE  /\ [q EXCEPT !.step = step] \in RequestType
           /\ \A u \in Users : [q EXCEPT !.step = step, !.user = u] \in RequestType
           /\ \A i \in UserIdentities : [q EXCEPT !.step = step, !.identity = i] \in RequestType
           /\ \A status \in Statuses : [q EXCEPT !.step = step, !.status = status] \in RequestType
BY DEF RequestType

LEMMA IdleType == Idle \in RequestType
BY DEF Idle, RequestType, Ops, Steps, Statuses

\* A request that comes in.
LEMMA ArrivalStep ==
    ASSUME IInv, NEW r \in Requests, NEW op \in Ops, NEW step \in Steps \ {"insertIdentity", "commit", "writeUser"},
           NEW a \in Apps \cup {NoApp},
           NEW e \in Emails \cup {NoName}, NEW c \in Emails \cup Subjects \cup {NoName},
           NEW u \in Users \cup {NoUser}, NEW status \in Statuses,
           Accept(r, Arrival(op, step, a, e, c, u, status)),
           UNCHANGED <<user, identity>>,
           step \in {"insertUser", "findEmail"} =>
               /\ u = NoUser
               /\ a \in Apps
               /\ e \in Emails
               /\ c \in {e} \cup Subjects
               /\ step = "findEmail" => c \in Subjects,
           step \in {"getUser", "lockUser"} =>
               u \in Users /\ a \in Apps /\ Settled(u) /\ user[u].app = a,
           step = "lockUser" => op = "update" /\ e \in Emails,
           step = "answered" /\ status \in {200, 201} =>
               u \in Users /\ a \in Apps /\ user[u].row = "active" /\ user[u].app = a
    PROVE  IInv'
<1> DEFINE rq == Arrival(op, step, a, e, c, u, status)
<1>1. rq \in RequestType
  BY ArrivalType
<1>2. request' = [request EXCEPT ![r] = rq] /\ request'[r] = rq
  BY DEF Accept, IInv, IdentitiesTypeOK
<1>3. /\ rq.op = op /\ rq.step = step /\ rq.app = a /\ rq.email = e /\ rq.subject = c /\ rq.user = u
      /\ rq.identity = NoIdentity /\ rq.status = status
      /\ rq.gone = {v \in Users : user[v].row = "gone"}
  BY DEF Arrival
<1> HIDE DEF rq
<1>4. RequestInv(r)'
  BY <1>2, <1>3 DEF RequestInv, Fresh, Found, Due, OfApp, Settled, InTx, HasToken
<1> QED
  BY <1>1, <1>2, <1>3, <1>4, SlotStep

-----------------------------------------------------------------------------
(* Requests that come in and statements that only read *)

LEMMA RegisterKeeps ==
    ASSUME IInv, NEW r \in Requests, NEW a \in Apps, NEW e \in Emails, Register(r, a, e)
    PROVE  IInv'
BY ArrivalStep DEF Register, Ops, Steps, Statuses

\* The identities a sign-in finds open users of its app.
LEMMA IdentityFound ==
    ASSUME IInv, NEW a \in Apps, NEW c, NEW i \in IdentityRows(a, c),
           identity[i].row = "active"
    PROVE  /\ identity[i].user \in Users
           /\ Settled(identity[i].user)
           /\ user[identity[i].user].app = a
BY DEF IInv, IdentitiesTypeOK, IdentityRowType, NoIdentityRow, IdentityRows, Linked

LEMMA LoginKeeps ==
    ASSUME IInv, NEW r \in Requests, NEW a \in Apps, NEW e \in Emails, Login(r, a, e)
    PROVE  IInv'
<1>1. UNCHANGED <<user, identity>>
  BY DEF Login
<1>2. ASSUME NEW i \in IdentityRows(a, e), Opens(i),
             Accept(r, Arrival("login", "answered", a, e, e, identity[i].user, 200))
      PROVE  IInv'
  <2>1. /\ identity[i].user \in Users
        /\ user[identity[i].user].app = a
        /\ user[identity[i].user].row = "active"
    BY <1>2, IdentityFound DEF Opens
  <2> QED
    BY <1>1, <1>2, <2>1, ArrivalStep DEF Ops, Steps, Statuses
<1>3. CASE Accept(r, Arrival("login", "answered", a, e, e, NoUser, 401))
  BY <1>1, <1>3, ArrivalStep DEF Ops, Steps, Statuses
<1> QED
  BY <1>2, <1>3 DEF Login

LEMMA AppleKeeps ==
    ASSUME IInv, NEW r \in Requests, NEW a \in Apps, NEW s \in Subjects,
           NEW e \in Emails \cup {NoName}, Apple(r, a, s, e)
    PROVE  IInv'
<1>1. UNCHANGED <<user, identity>>
  BY DEF Apple
<1>2. ASSUME NEW i \in IdentityRows(a, s), identity[i].row = "active",
             Accept(r, Arrival("apple", "getUser", a, e, s, identity[i].user, 0))
      PROVE  IInv'
  <2>1. /\ identity[i].user \in Users
        /\ user[identity[i].user].app = a
        /\ Settled(identity[i].user)
    BY <1>2, IdentityFound
  <2> QED
    BY <1>1, <1>2, <2>1, ArrivalStep DEF Ops, Steps, Statuses
<1>3. CASE Accept(r, Arrival("apple", "answered", a, e, s, NoUser, 400))
  BY <1>1, <1>3, ArrivalStep DEF Ops, Steps, Statuses
<1>4. CASE e # NoName /\ Accept(r, Arrival("apple", "findEmail", a, e, s, NoUser, 0))
  BY <1>1, <1>4, ArrivalStep DEF Ops, Steps, Statuses
<1> QED
  BY <1>2, <1>3, <1>4 DEF Apple

LEMMA UpdateUserReadKeeps ==
    ASSUME IInv, NEW r \in Requests, NEW u \in Users, NEW e \in Emails \cup {NoName},
           UpdateUserRead(r, u, e)
    PROVE  IInv'
<1>1. user[u].app \in Apps /\ user[u].email \in Emails /\ Settled(u)
  BY DEF IInv, IdentitiesTypeOK, UserRowType, NoUserRow, UpdateUserRead, Settled
<1>2. PICK a \in Apps, email \in Emails :
         /\ user[u].app = a
         /\ Accept(r, Arrival("update", "lockUser", a, email, NoName, u, 0))
  BY <1>1 DEF UpdateUserRead
<1>3. UNCHANGED <<user, identity>>
  BY DEF UpdateUserRead
<1>4. /\ "update" \in Ops
      /\ "lockUser" \in Steps \ {"insertIdentity", "commit", "writeUser"}
      /\ 0 \in Statuses
      /\ "lockUser" \notin {"insertUser", "findEmail", "answered"}
  BY DEF Ops, Steps, Statuses
<1>5. NoName \in Emails \cup Subjects \cup {NoName} /\ u \in Users \cup {NoUser}
      /\ a \in Apps \cup {NoApp} /\ email \in Emails \cup {NoName}
  BY <1>2
<1> QED
  BY <1>1, <1>2, <1>3, <1>4, <1>5, ArrivalStep, Zenon

LEMMA GetUserKeeps ==
    ASSUME IInv, NEW r \in Requests, GetUser(r)
    PROVE  IInv'
<1> DEFINE row == user[request[r].user]
           status == IF row.row = "active" /\ row.app = request[r].app THEN 200 ELSE 500
           rq == [request[r] EXCEPT !.step = "answered", !.status = status]
<1>1. request[r] \in RequestType /\ RequestInv(r) /\ request[r].step = "getUser"
  BY SlotFields DEF IInv, GetUser
<1>2. status \in Statuses
  BY DEF Statuses
<1>3. status \in {200, 201} => row.row = "active" /\ row.app = request[r].app
  OBVIOUS
<1>4. request' = [request EXCEPT ![r] = rq] /\ request'[r] = rq /\ UNCHANGED <<user, identity>>
  BY DEF GetUser, Answer, IInv, IdentitiesTypeOK
<1> HIDE DEF status
<1>5. rq \in RequestType
  BY <1>1, <1>2, StepNames, MovedType, Zenon
<1>6. /\ rq.step = "answered" /\ rq.status = status /\ rq.user = request[r].user
      /\ rq.gone = request[r].gone /\ rq.app = request[r].app
  BY <1>1 DEF RequestType
<1> HIDE DEF rq
<1>7. RequestInv(r)'
  BY <1>1, <1>4, <1>6, <1>3 DEF RequestInv, Found, Due, OfApp, Settled, InTx, HasToken
<1> QED
  BY <1>5, <1>4, <1>6, <1>7, SlotStep

LEMMA FindEmailKeeps ==
    ASSUME IInv, NEW r \in Requests, FindEmail(r)
    PROVE  IInv'
<1>1. /\ request[r] \in RequestType /\ RequestInv(r) /\ request[r].step = "findEmail"
      /\ UNCHANGED <<user, identity>>
  BY SlotFields DEF IInv, FindEmail
<1>2. Fresh(r) /\ request[r].subject \in Subjects
  BY <1>1 DEF RequestInv
<1>3. ASSUME NEW u \in UserRows(request[r].app, request[r].email), user[u].row = "active",
             request' = [request EXCEPT ![r] =
                 [@ EXCEPT !.step = "insertIdentity", !.user = u]]
      PROVE  IInv'
  <2> DEFINE rq == [request[r] EXCEPT !.step = "insertIdentity", !.user = u]
  <2>1. u \in Users /\ user[u].app = request[r].app
    BY DEF UserRows
  <2>2. rq \in RequestType
    BY <1>1, <2>1, StepNames, MovedType, Zenon
  <2>3. request' = [request EXCEPT ![r] = rq] /\ request'[r] = rq
    BY <1>3 DEF IInv, IdentitiesTypeOK
  <2>4. /\ rq.step = "insertIdentity" /\ rq.user = u /\ rq.app = request[r].app
        /\ rq.email = request[r].email /\ rq.subject = request[r].subject
        /\ rq.identity = request[r].identity /\ rq.gone = request[r].gone
    BY <1>1 DEF RequestType
  <2> HIDE DEF rq
  <2>5. RequestInv(r)'
    BY <1>1, <1>2, <1>3, <2>1, <2>3, <2>4
    DEF RequestInv, Fresh, TxUser, TxIdentity, OfApp, Settled, InTx, HasToken
  <2> QED
    BY <1>1, <1>3, <2>2, <2>3, <2>4, <2>5, SlotStep
<1>4. CASE request' = [request EXCEPT ![r] = [@ EXCEPT !.step = "insertUser"]]
  <2> DEFINE rq == [request[r] EXCEPT !.step = "insertUser"]
  <2>1. rq \in RequestType
    BY <1>1, StepNames, MovedType, Zenon
  <2>2. request' = [request EXCEPT ![r] = rq] /\ request'[r] = rq
    BY <1>4 DEF IInv, IdentitiesTypeOK
  <2>3. /\ rq.step = "insertUser" /\ rq.user = request[r].user /\ rq.app = request[r].app
        /\ rq.email = request[r].email /\ rq.subject = request[r].subject
        /\ rq.identity = request[r].identity /\ rq.gone = request[r].gone
    BY <1>1 DEF RequestType
  <2> HIDE DEF rq
  <2>4. RequestInv(r)'
    BY <1>1, <1>2, <2>2, <2>3 DEF RequestInv, Fresh, InTx, HasToken
  <2> QED
    BY <1>1, <2>1, <2>2, <2>3, <2>4, SlotStep
<1> QED
  BY <1>3, <1>4 DEF FindEmail

LEMMA EndRequestKeeps ==
    ASSUME IInv, NEW r \in Requests, EndRequest(r)
    PROVE  IInv'
<1>1. request' = [request EXCEPT ![r] = Idle] /\ UNCHANGED <<user, identity>>
  BY DEF EndRequest
<1>2. RequestInv(r)'
  BY <1>1 DEF IInv, IdentitiesTypeOK, RequestInv, InTx, HasToken, Idle
<1> QED
  BY <1>1, <1>2, IdleType, SlotStep DEF Idle

-----------------------------------------------------------------------------
(* Statements that write rows *)

\* The row a PATCH has locked.
LEMMA LockedUser ==
    ASSUME IInv, NEW r \in Requests, request[r].step = "writeUser"
    PROVE  /\ request[r].user \in Users
           /\ user[request[r].user].row = "active"
           /\ user[request[r].user].app = request[r].app
           /\ request[r].op = "update"
           /\ request[r].email \in Emails
BY DEF IInv, RequestInv, Found, OfApp

\* A statement that waits for no row of users finds none in doubt.
LEMMA NoneInDoubt ==
    ASSUME NEW r \in Requests, AwaitedUsers(r) = {}
    PROVE  LET rows == UserRows(request[r].app, request[r].email) IN
           /\ request[r].step = "insertUser" => \A v \in rows : user[v].row # "pending"
           /\ request[r].step = "writeUser" =>
                 \A v \in rows \ {request[r].user} : user[v].row # "pending"
BY DEF AwaitedUsers, InDoubt

\* What a statement of r must leave alone, and what is left to show of r.
LEMMA TableStep ==
    ASSUME IInv, NEW r \in Requests, NEW rq \in RequestType,
           request' = [request EXCEPT ![r] = rq],
           user' \in [Users -> UserRowType],
           identity' \in [UserIdentities -> IdentityRowType],
           \A u \in Users : Settled(u) => Settled(u)' /\ user'[u].app = user[u].app,
           \A u \in Users : user[u].row = "gone" => user'[u].row = "gone",
           \A q \in Requests : q # r /\ InTx(q) =>
               /\ user[request[q].user].row = "pending" =>
                     user'[request[q].user] = user[request[q].user]
               /\ request[q].step = "commit" =>
                     identity'[request[q].identity] = identity[request[q].identity]
               /\ rq.step = "insertIdentity" \/ rq.step = "commit" =>
                     (rq.user = request[q].user => user'[rq.user].row # "pending")
               /\ rq.step = "commit" /\ request[q].step = "commit" =>
                     rq.identity # request[q].identity,
           \A q \in Requests : q # r /\ request[q].step = "writeUser" =>
               user'[request[q].user].row = user[request[q].user].row,
           NoTwinAccounts', Linked', RequestInv(r)'
    PROVE  IInv'
<1>1. IdentitiesTypeOK'
  BY DEF IInv, IdentitiesTypeOK
<1>2. request'[r] = rq /\ \A q \in Requests : q # r => request'[q] = request[q]
  BY DEF IInv, IdentitiesTypeOK
<1>3. ASSUME NEW q \in Requests, q # r PROVE RequestInv(q)'
  <2>1. request'[q] = request[q] /\ request[q].gone \subseteq Users /\ RequestInv(q)
    BY <1>2, <1>3 DEF IInv, IdentitiesTypeOK, RequestType
  <2>2. /\ InTx(q) /\ user[request[q].user].row = "pending" =>
              user'[request[q].user] = user[request[q].user]
        /\ request[q].step = "commit" =>
              identity'[request[q].identity] = identity[request[q].identity]
    BY <1>3 DEF InTx
  <2> QED
    BY <2>1, <2>2, RequestKept
<1>4. ASSUME NEW p \in Requests, NEW q \in Requests, p # q, InTx(p)', InTx(q)'
      PROVE  /\ request'[p].user = request'[q].user => user'[request'[p].user].row # "pending"
             /\ request'[p].step = "commit" /\ request'[q].step = "commit" =>
                   request'[p].identity # request'[q].identity
  <2>1. CASE p = r
    BY <1>2, <1>4, <2>1 DEF InTx
  <2>2. CASE q = r
    BY <1>2, <1>4, <2>2 DEF InTx
  <2>3. CASE p # r /\ q # r
    <3>1. InTx(p) /\ InTx(q) /\ TxUser(p)
      BY <1>2, <1>4, <2>3 DEF InTx, IInv, RequestInv
    <3>2. user'[request[p].user].row = "pending" => user[request[p].user].row = "pending"
      BY <3>1 DEF TxUser, Settled
    <3> QED
      BY <1>2, <1>4, <2>3, <3>1, <3>2 DEF IInv, Exclusive
  <2> QED
    BY <2>1, <2>2, <2>3
<1>5. Exclusive'
  BY <1>4 DEF Exclusive
<1> QED
  BY <1>1, <1>2, <1>3, <1>5 DEF IInv

\* A refused request: its slot is answered with 409.
LEMMA RefusedSlot ==
    ASSUME IInv, NEW r \in Requests, Answer(r, 409)
    PROVE  \E rq \in RequestType :
              /\ request' = [request EXCEPT ![r] = rq]
              /\ request'[r] = rq
              /\ rq.step = "answered"
              /\ rq.status = 409
              /\ rq.gone = request[r].gone
<1> DEFINE status == 409
           rq == [request[r] EXCEPT !.step = "answered", !.status = status]
<1>1. request[r] \in RequestType
  BY SlotFields
<1>2. status \in Statuses
  BY DEF Statuses
<1>3. request' = [request EXCEPT ![r] = rq] /\ request'[r] = rq
  BY DEF Answer, IInv, IdentitiesTypeOK
<1>4. rq.step = "answered" /\ rq.status = 409 /\ rq.gone = request[r].gone
  BY <1>1 DEF RequestType
<1> HIDE DEF status
<1>5. rq \in RequestType
  BY <1>1, <1>2, StepNames, MovedType, Zenon
<1> HIDE DEF rq
<1> QED
  BY <1>3, <1>4, <1>5

LEMMA InsertUserKeeps ==
    ASSUME IInv, NEW r \in Requests, NEW u \in Users, InsertUser(r, u)
    PROVE  IInv'
<1>1. /\ request[r] \in RequestType /\ RequestInv(r) /\ request[r].step = "insertUser"
      /\ UNCHANGED identity /\ user[u].row = "absent"
  BY SlotFields DEF IInv, InsertUser
<1>2. Fresh(r)
  BY <1>1 DEF RequestInv
<1> DEFINE rows == UserRows(request[r].app, request[r].email)
           row  == [row |-> "pending", app |-> request[r].app, email |-> request[r].email]
           rq   == [request[r] EXCEPT !.step = "insertIdentity", !.user = u]
<1>3. CASE Answer(r, 409) /\ UNCHANGED user
  <2>1. PICK rf \in RequestType :
           /\ request' = [request EXCEPT ![r] = rf]
           /\ request'[r] = rf
           /\ rf.step = "answered" /\ rf.status = 409 /\ rf.gone = request[r].gone
    BY <1>3, RefusedSlot
  <2>2. RequestInv(r)'
    BY <1>1, <1>3, <2>1 DEF RequestInv, InTx, HasToken
  <2> QED
    BY <1>1, <1>3, <2>1, <2>2, SlotStep
<1>4. CASE /\ ~Taken(rows, user) /\ AwaitedUsers(r) = {}
           /\ user' = [user EXCEPT ![u] = row]
           /\ request' = [request EXCEPT ![r] = rq]
  <2>1. rq \in RequestType
    BY <1>1, StepNames, MovedType, Zenon
  <2>2. /\ rq.step = "insertIdentity" /\ rq.user = u /\ rq.app = request[r].app
        /\ rq.email = request[r].email /\ rq.subject = request[r].subject
        /\ rq.identity = request[r].identity /\ rq.gone = request[r].gone
    BY <1>1 DEF RequestType
  <2> HIDE DEF rq
  <2>3. /\ user' \in [Users -> UserRowType] /\ identity' \in [UserIdentities -> IdentityRowType]
        /\ user'[u] = row /\ \A v \in Users \ {u} : user'[v] = user[v]
    BY <1>1, <1>2, <1>4 DEF IInv, IdentitiesTypeOK, UserRowType, Fresh
  <2>4. request'[r] = rq
    BY <1>4 DEF IInv, IdentitiesTypeOK
  <2>5. /\ \A v \in Users : Settled(v) => Settled(v)' /\ user'[v].app = user[v].app
        /\ \A v \in Users : user[v].row = "gone" => user'[v].row = "gone"
    BY <1>1, <2>3 DEF Settled
  <2>6. ASSUME NEW q \in Requests, q # r, InTx(q)
        PROVE  request[q].user \in Users \ {u}
    BY <1>1, <2>6 DEF IInv, RequestInv, TxUser, Settled
  <2>7. NoTwinAccounts'
    <3>1. \A v \in rows : user[v].row \notin {"pending", "active"}
      BY <1>1, <1>4, NoneInDoubt DEF Taken
    <3> QED
      BY <1>1, <2>3, <3>1 DEF IInv, NoTwinAccounts, UserRows
  <2>8. Linked'
    BY <1>1, <2>3, <2>5 DEF IInv, IdentitiesTypeOK, IdentityRowType, NoIdentityRow, Linked
  <2>9. RequestInv(r)'
    <3>1. u \notin request[r].gone
      BY <1>1 DEF RequestInv
    <3> QED
      BY <1>1, <1>2, <2>2, <2>3, <2>4, <3>1
      DEF RequestInv, RequestType, Fresh, TxUser, TxIdentity, OfApp, InTx, HasToken
  <2>10. ASSUME NEW q \in Requests, q # r, InTx(q)
         PROVE  /\ user[request[q].user].row = "pending" =>
                      user'[request[q].user] = user[request[q].user]
                /\ request[q].step = "commit" =>
                      identity'[request[q].identity] = identity[request[q].identity]
                /\ rq.step = "insertIdentity" \/ rq.step = "commit" =>
                      (rq.user = request[q].user => user'[rq.user].row # "pending")
                /\ rq.step = "commit" /\ request[q].step = "commit" =>
                      rq.identity # request[q].identity
    BY <1>1, <2>2, <2>3, <2>6, <2>10
  <2>11. request' = [request EXCEPT ![r] = rq]
    BY <1>4
  <2>12. \A q \in Requests : q # r /\ request[q].step = "writeUser" =>
            user'[request[q].user].row = user[request[q].user].row
    BY <1>1, <2>3, LockedUser
  <2> QED
    BY <2>1, <2>3, <2>5, <2>7, <2>8, <2>9, <2>10, <2>11, <2>12, TableStep
<1> QED
  BY <1>3, <1>4 DEF InsertUser

\* The end of r's transaction without a commit.
LEMMA RollbackKeeps ==
    ASSUME IInv, NEW r \in Requests, RollbackRows(r),
           request[r].step \notin {"none", "answered"},
           NEW rq \in RequestType, request' = [request EXCEPT ![r] = rq],
           \/ rq = Idle
           \/ rq.step = "answered" /\ rq.status \in {409, 500} /\ rq.gone = request[r].gone
    PROVE  IInv'
<1>1. request[r] \in RequestType /\ RequestInv(r)
  BY SlotFields DEF IInv
<1>2. /\ request[r].identity \in UserIdentities =>
            /\ request[r].step = "commit"
            /\ identity[request[r].identity].row = "pending"
      /\ request[r].user \in Users /\ user[request[r].user].row = "pending" => InTx(r)
  BY <1>1, IdentityAssumption
  DEF RequestType, RequestInv, TxIdentity, InTx, Fresh, Found, Settled, Steps
<1>3. /\ user' \in [Users -> UserRowType]
      /\ \A u \in Users : \/ user'[u] = user[u] /\ u # request[r].user
                          \/ user'[u] = user[u] /\ user[u].row # "pending"
                          \/ /\ user'[u] = NoUserRow /\ u = request[r].user
                             /\ user[u].row = "pending" /\ InTx(r)
  BY <1>2 DEF RollbackRows, IInv, IdentitiesTypeOK, UserRowType
<1>4. /\ identity' \in [UserIdentities -> IdentityRowType]
      /\ \A i \in UserIdentities : \/ identity'[i] = identity[i] /\ i # request[r].identity
                                   \/ /\ identity'[i] = NoIdentityRow
                                      /\ i = request[r].identity
                                      /\ request[r].step = "commit"
                                      /\ identity[i].row = "pending"
  BY <1>2 DEF RollbackRows, IInv, IdentitiesTypeOK, IdentityRowType
<1>5. request'[r] = rq /\ rq.step \in {"none", "answered"}
  BY DEF IInv, IdentitiesTypeOK, Idle
<1>6. /\ \A u \in Users : Settled(u) => Settled(u)' /\ user'[u].app = user[u].app
      /\ \A u \in Users : user[u].row = "gone" => user'[u].row = "gone"
  BY <1>3 DEF Settled
<1>7. ASSUME NEW q \in Requests, q # r, InTx(q)
      PROVE  /\ user[request[q].user].row = "pending" =>
                    user'[request[q].user] = user[request[q].user]
             /\ request[q].step = "commit" =>
                    identity'[request[q].identity] = identity[request[q].identity]
  <2>1. TxUser(q) /\ TxIdentity(q)
    BY <1>7 DEF IInv, RequestInv
  <2>2. user[request[q].user].row = "pending" => user'[request[q].user] = user[request[q].user]
    BY <1>3, <1>7, <2>1 DEF IInv, Exclusive, TxUser
  <2>3. request[q].step = "commit" =>
            identity'[request[q].identity] = identity[request[q].identity]
    <3>1. request[r].step = "commit" => InTx(r)
      BY DEF InTx
    <3> QED
      BY <1>4, <1>7, <2>1, <3>1 DEF IInv, Exclusive, TxIdentity
  <2> QED
    BY <2>2, <2>3
<1>8. NoTwinAccounts'
  BY <1>3, <1>4 DEF IInv, NoTwinAccounts, NoUserRow, NoIdentityRow
<1>9. Linked'
  BY <1>4, <1>6 DEF IInv, IdentitiesTypeOK, IdentityRowType, NoIdentityRow, Linked
<1>10. RequestInv(r)'
  BY <1>1, <1>5, <1>6 DEF RequestInv, RequestType, InTx, HasToken, Idle
<1>11. \A q \in Requests : q # r /\ request[q].step = "writeUser" =>
          user'[request[q].user].row = user[request[q].user].row
  BY <1>3, LockedUser
<1>12. \A q \in Requests : q # r /\ InTx(q) =>
          /\ user[request[q].user].row = "pending" =>
                user'[request[q].user] = user[request[q].user]
          /\ request[q].step = "commit" =>
                identity'[request[q].identity] = identity[request[q].identity]
          /\ rq.step = "insertIdentity" \/ rq.step = "commit" =>
                (rq.user = request[q].user => user'[rq.user].row # "pending")
          /\ rq.step = "commit" /\ request[q].step = "commit" =>
                rq.identity # request[q].identity
  BY <1>5, <1>7
<1>13. user' \in [Users -> UserRowType] /\ identity' \in [UserIdentities -> IdentityRowType]
  BY <1>3, <1>4
<1> QED
  BY <1>6, <1>8, <1>9, <1>10, <1>11, <1>12, <1>13, TableStep, Zenon

LEMMA HangUpKeeps ==
    ASSUME IInv, NEW r \in Requests, HangUp(r)
    PROVE  IInv'
BY IdleType, RollbackKeeps DEF HangUp

\* Who waits is at work.
LEMMA RingMembersWait ==
    ASSUME NEW r \in Requests, InRing(r)
    PROVE  request[r].step \in {"insertUser", "lockUser", "writeUser", "insertIdentity"}
BY DEF InRing, WaitsFor, AwaitedUsers, AwaitedIdentities

LEMMA DeadlockKeeps ==
    ASSUME IInv, NEW r \in Requests, Deadlock(r)
    PROVE  IInv'
<1> DEFINE status == 500
           rq == [request[r] EXCEPT !.step = "answered", !.status = status]
<1>1. request[r] \in RequestType /\ request[r].step \notin {"none", "answered"}
  BY SlotFields, RingMembersWait DEF Deadlock
<1>2. status \in Statuses
  BY DEF Statuses
<1>3. request' = [request EXCEPT ![r] = rq] /\ RollbackRows(r)
  BY DEF Deadlock, Answer
<1>4. rq.step = "answered" /\ rq.status = 500 /\ rq.gone = request[r].gone
  BY <1>1 DEF RequestType
<1> HIDE DEF status
<1>5. rq \in RequestType
  BY <1>1, <1>2, StepNames, MovedType, Zenon
<1> HIDE DEF rq
<1> QED
  BY <1>1, <1>3, <1>4, <1>5, RollbackKeeps

LEMMA InsertIdentityKeeps ==
    ASSUME IInv, NEW r \in Requests, NEW i \in UserIdentities, InsertIdentity(r, i)
    PROVE  IInv'
<1>1. /\ request[r] \in RequestType /\ RequestInv(r) /\ request[r].step = "insertIdentity"
      /\ identity[i].row = "absent"
  BY SlotFields DEF IInv, InsertIdentity
<1>2. TxUser(r) /\ TxIdentity(r)
  BY <1>1 DEF RequestInv, InTx
<1> DEFINE rows == IdentityRows(request[r].app, request[r].subject)
           row  == [row |-> "pending", app |-> request[r].app, user |-> request[r].user,
                    subject |-> request[r].subject]
           rq   == [request[r] EXCEPT !.step = "commit", !.identity = i]
<1>3. CASE Answer(r, 409) /\ RollbackRows(r)
  <2>1. PICK rf \in RequestType :
           /\ request' = [request EXCEPT ![r] = rf]
           /\ rf.step = "answered" /\ rf.status = 409 /\ rf.gone = request[r].gone
    BY <1>3, RefusedSlot
  <2> QED
    BY <1>1, <1>3, <2>1, RollbackKeeps
<1>4. CASE /\ ~Taken(rows, identity) /\ AwaitedIdentities(r) = {}
           /\ identity' = [identity EXCEPT ![i] = row]
           /\ request' = [request EXCEPT ![r] = rq]
           /\ UNCHANGED user
  <2>1. rq \in RequestType
    BY <1>1, StepNames, MovedType, Zenon
  <2>2. /\ rq.step = "commit" /\ rq.user = request[r].user /\ rq.app = request[r].app
        /\ rq.email = request[r].email /\ rq.subject = request[r].subject
        /\ rq.identity = i /\ rq.gone = request[r].gone
    BY <1>1 DEF RequestType
  <2> HIDE DEF rq
  <2>3. request[r].subject \in Emails \cup Subjects
    BY <1>2 DEF TxUser, IInv, IdentitiesTypeOK, UserRowType, NoUserRow
  <2>4. /\ user' \in [Users -> UserRowType] /\ identity' \in [UserIdentities -> IdentityRowType]
        /\ identity'[i] = row /\ \A j \in UserIdentities \ {i} : identity'[j] = identity[j]
    BY <1>2, <1>4, <2>3 DEF IInv, IdentitiesTypeOK, IdentityRowType, TxUser
  <2>5. request'[r] = rq
    BY <1>4 DEF IInv, IdentitiesTypeOK
  <2>6. ASSUME NEW q \in Requests, q # r, InTx(q), request[q].step = "commit"
        PROVE  request[q].identity \in UserIdentities \ {i}
    <3>1. TxIdentity(q)
      BY <2>6 DEF IInv, RequestInv
    <3> QED
      BY <1>1, <2>6, <3>1 DEF TxIdentity
  <2>7. ASSUME NEW q \in Requests, q # r, InTx(q), request[r].user = request[q].user
        PROVE  user[request[r].user].row # "pending"
    BY <1>1, <2>7 DEF IInv, Exclusive, InTx
  <2>8. NoTwinAccounts'
    <3>1. \A j \in rows : identity[j].row \notin {"pending", "active"}
      BY <1>1, <1>4 DEF Taken, AwaitedIdentities
    <3> QED
      BY <1>4, <2>4, <3>1 DEF IInv, NoTwinAccounts, IdentityRows
  <2>9. Linked'
    BY <1>4, <2>4 DEF IInv, Linked, Settled
  <2>10. RequestInv(r)'
    BY <1>1, <1>2, <1>4, <2>2, <2>4, <2>5
    DEF RequestInv, TxUser, TxIdentity, OfApp, Settled, InTx, HasToken
  <2>11. ASSUME NEW q \in Requests, q # r, InTx(q)
         PROVE  /\ user[request[q].user].row = "pending" =>
                      user'[request[q].user] = user[request[q].user]
                /\ request[q].step = "commit" =>
                      identity'[request[q].identity] = identity[request[q].identity]
                /\ rq.step = "insertIdentity" \/ rq.step = "commit" =>
                      (rq.user = request[q].user => user'[rq.user].row # "pending")
                /\ rq.step = "commit" /\ request[q].step = "commit" =>
                      rq.identity # request[q].identity
    BY <1>4, <2>2, <2>4, <2>6, <2>7, <2>11
  <2>12. request' = [request EXCEPT ![r] = rq]
    BY <1>4
  <2>13. /\ \A v \in Users : Settled(v) => Settled(v)' /\ user'[v].app = user[v].app
         /\ \A v \in Users : user[v].row = "gone" => user'[v].row = "gone"
    BY <1>4 DEF Settled
  <2>14. \A q \in Requests : q # r /\ request[q].step = "writeUser" =>
            user'[request[q].user].row = user[request[q].user].row
    BY <1>4
  <2> QED
    BY <2>1, <2>4, <2>8, <2>9, <2>10, <2>11, <2>12, <2>13, <2>14, TableStep
<1> QED
  BY <1>3, <1>4 DEF InsertIdentity

\* What a commit does to the rows: r's own uncommitted rows become active.
LEMMA CommitWrites ==
    ASSUME IInv, NEW r \in Requests, Commit(r)
    PROVE  LET u == request[r].user
               i == request[r].identity
           IN
           /\ TxUser(r) /\ TxIdentity(r) /\ InTx(r) /\ request[r].step = "commit"
           /\ u \in Users /\ i \in UserIdentities
           /\ user' \in [Users -> UserRowType]
           /\ identity' \in [UserIdentities -> IdentityRowType]
           /\ \A v \in Users \ {u} : user'[v] = user[v]
           /\ user[u].row # "pending" => user'[u] = user[u]
           /\ user[u].row = "pending" =>
                 user'[u] = [row |-> "active", app |-> request[r].app, email |-> request[r].email]
           /\ \A j \in UserIdentities \ {i} : identity'[j] = identity[j]
           /\ identity[i].row = "pending"
           /\ identity'[i] = [row |-> "active", app |-> request[r].app, user |-> u,
                              subject |-> request[r].subject]
<1>1. /\ TxUser(r) /\ TxIdentity(r) /\ InTx(r) /\ request[r].step = "commit"
      /\ request[r].user \in Users /\ request[r].identity \in UserIdentities
  BY DEF Commit, IInv, RequestInv, InTx, TxUser, TxIdentity
<1> DEFINE u == request[r].user
           i == request[r].identity
<1>2. /\ \A v \in Users : user[v] = NoUserRow \/ user[v] \in
              [row : {"pending", "active", "gone"}, app : Apps, email : Emails]
      /\ \A j \in UserIdentities : identity[j] = NoIdentityRow \/ identity[j] \in
              [row : {"pending", "active"}, app : Apps, user : Users,
               subject : Emails \cup Subjects]
  BY DEF IInv, IdentitiesTypeOK, UserRowType, IdentityRowType
<1>3. /\ \A v \in Users \ {u} : user'[v] = user[v]
      /\ user[u].row # "pending" => user'[u] = user[u]
      /\ user[u].row = "pending" => user'[u] = [user[u] EXCEPT !.row = "active"]
  BY <1>1 DEF Commit, CommitRows
<1>4. user[u].row = "pending" =>
          [user[u] EXCEPT !.row = "active"] =
              [row |-> "active", app |-> request[r].app, email |-> request[r].email]
  BY <1>1, <1>2 DEF TxUser, OfApp, NoUserRow, Settled
<1>5. /\ \A j \in UserIdentities \ {i} : identity'[j] = identity[j]
      /\ identity'[i] = [identity[i] EXCEPT !.row = "active"]
  BY <1>1 DEF Commit, CommitRows
<1>6. /\ identity[i].row = "pending"
      /\ [identity[i] EXCEPT !.row = "active"] =
             [row |-> "active", app |-> request[r].app, user |-> u, subject |-> request[r].subject]
  BY <1>1 DEF TxIdentity
<1>7. request[r].app \in Apps /\ request[r].subject \in Emails \cup Subjects
  BY <1>1, <1>2 DEF TxUser, TxIdentity, NoIdentityRow
<1>8. user' \in [Users -> UserRowType]
  <2>1. user[u].row = "pending" => request[r].email \in Emails
    BY <1>1, <1>2 DEF TxUser, Settled, NoUserRow
  <2>2. \A v \in Users : user'[v] \in UserRowType
    BY <1>2, <1>3, <1>4, <1>7, <2>1 DEF UserRowType
  <2>3. user' = [v \in Users |-> user'[v]]
    BY DEF Commit, CommitRows
  <2> QED
    BY <2>2, <2>3
<1>9. identity' \in [UserIdentities -> IdentityRowType]
  <2>1. \A j \in UserIdentities : identity'[j] \in IdentityRowType
    BY <1>1, <1>2, <1>5, <1>6, <1>7 DEF IdentityRowType
  <2>2. identity' = [j \in UserIdentities |-> identity'[j]]
    BY DEF Commit, CommitRows
  <2> QED
    BY <2>1, <2>2
<1> QED
  BY <1>1, <1>3, <1>4, <1>5, <1>6, <1>8, <1>9

LEMMA CommitKeeps ==
    ASSUME IInv, NEW r \in Requests, Commit(r)
    PROVE  IInv'
<1> DEFINE u == request[r].user
           i == request[r].identity
           status == IF user[u].row = "pending" THEN 201 ELSE 200
           rq == [request[r] EXCEPT !.step = "answered", !.status = status]
<1>1. /\ TxUser(r) /\ TxIdentity(r) /\ InTx(r) /\ request[r].step = "commit"
      /\ u \in Users /\ i \in UserIdentities
      /\ user' \in [Users -> UserRowType]
      /\ identity' \in [UserIdentities -> IdentityRowType]
      /\ \A v \in Users \ {u} : user'[v] = user[v]
      /\ user[u].row # "pending" => user'[u] = user[u]
      /\ user[u].row = "pending" =>
            user'[u] = [row |-> "active", app |-> request[r].app, email |-> request[r].email]
      /\ \A j \in UserIdentities \ {i} : identity'[j] = identity[j]
      /\ identity[i].row = "pending"
      /\ identity'[i] = [row |-> "active", app |-> request[r].app, user |-> u,
                         subject |-> request[r].subject]
  BY CommitWrites
<1>2. request[r] \in RequestType /\ RequestInv(r)
  BY SlotFields DEF IInv
<1>3. request' = [request EXCEPT ![r] = rq] /\ request'[r] = rq
  BY DEF Commit, Answer, IInv, IdentitiesTypeOK
<1>4. status \in Statuses
  BY DEF Statuses
<1> HIDE DEF status
<1>5. rq \in RequestType
  BY <1>2, <1>4, StepNames, MovedType, Zenon
<1>6. /\ rq.step = "answered" /\ rq.user = request[r].user
      /\ rq.gone = request[r].gone /\ rq.app = request[r].app
  BY <1>2 DEF RequestType
<1> HIDE DEF rq
<1>7. /\ \A v \in Users : Settled(v) => Settled(v)' /\ user'[v].app = user[v].app
      /\ \A v \in Users : user[v].row = "gone" => user'[v].row = "gone"
      /\ user'[u].row \in {"active", "gone"} /\ user'[u].app = request[r].app
  BY <1>1 DEF Settled, TxUser, OfApp
<1>8. ASSUME NEW q \in Requests, q # r, InTx(q)
      PROVE  /\ user[request[q].user].row = "pending" =>
                   user'[request[q].user] = user[request[q].user]
             /\ request[q].step = "commit" =>
                   identity'[request[q].identity] = identity[request[q].identity]
  <2>1. TxUser(q) /\ TxIdentity(q)
    BY <1>8 DEF IInv, RequestInv
  <2>2. user[request[q].user].row = "pending" => request[q].user # u
    BY <1>8, <1>1 DEF IInv, Exclusive
  <2>3. request[q].step = "commit" => request[q].identity \in UserIdentities \ {i}
    BY <1>8, <2>1, <1>1 DEF IInv, Exclusive, TxIdentity
  <2> QED
    BY <2>1, <2>2, <2>3, <1>1 DEF TxUser
<1>9. NoTwinAccounts'
  <2>1. \A v \in Users : \/ user'[v] = user[v]
                         \/ /\ user[v].row = "pending"
                            /\ user'[v].app = user[v].app
                            /\ user'[v].email = user[v].email
    BY <1>1 DEF TxUser, OfApp, Settled
  <2>2. \A j \in UserIdentities : \/ identity'[j] = identity[j]
                                  \/ /\ identity[j].row = "pending"
                                     /\ identity'[j].app = identity[j].app
                                     /\ identity'[j].subject = identity[j].subject
    BY <1>1 DEF TxIdentity
  <2> QED
    BY <2>1, <2>2 DEF IInv, NoTwinAccounts
<1>10. Linked'
  <2> SUFFICES ASSUME NEW j \in UserIdentities, identity'[j].row = "active"
               PROVE  /\ user'[identity'[j].user].row \in {"active", "gone"}
                      /\ user'[identity'[j].user].app = identity'[j].app
    BY DEF Linked, Settled
  <2>1. CASE j = i
    BY <1>7, <2>1, <1>1 DEF Settled
  <2>2. CASE j # i
    <3>1. identity'[j] = identity[j]
      BY <2>2, CommitWrites
    <3>2. identity[j].user \in Users /\ Settled(identity[j].user)
          /\ user[identity[j].user].app = identity[j].app
      BY <3>1 DEF IInv, IdentitiesTypeOK, IdentityRowType, NoIdentityRow, Linked
    <3> QED
      BY <1>7, <3>1, <3>2 DEF Settled
  <2> QED
    BY <2>1, <2>2
<1>11. RequestInv(r)'
  <2>1. u \in Users /\ u \notin request[r].gone
    BY <1>1 DEF TxUser
  <2>2. request[r].gone \subseteq Users
    BY <1>2 DEF RequestType
  <2> QED
    BY <1>2, <1>3, <1>6, <1>7, <2>1, <2>2 DEF RequestInv, Due, OfApp, Settled, InTx, HasToken
<1>12. /\ user' \in [Users -> UserRowType]
       /\ identity' \in [UserIdentities -> IdentityRowType]
  BY <1>1
<1>13. \A q \in Requests : q # r /\ request[q].step = "writeUser" =>
          user'[request[q].user].row = user[request[q].user].row
  BY <1>1, LockedUser
<1> QED
  BY <1>3, <1>5, <1>6, <1>7, <1>8, <1>9, <1>10, <1>11, <1>12, <1>13, TableStep

\* Statements of /users: one row of users changes and the slot becomes idle.
LEMMA UserRowStep ==
    ASSUME IInv, NEW r \in Requests, NEW u \in Users,
           NEW row \in [row : {"active", "gone"}, app : Apps, email : Emails],
           request' = [request EXCEPT ![r] = Idle],
           user' = [user EXCEPT ![u] = row],
           UNCHANGED identity,
           \/ user[u].row = "absent"
           \/ user[u].row = "active" /\ row.app = user[u].app,
           row.row = "active" \/ \A q \in Requests :
               request[q].step = "writeUser" => request[q].user # u,
           row.row = "active" => \A v \in UserRows(row.app, row.email) \ {u} :
               user[v].row \notin {"pending", "active"}
    PROVE  IInv'
<1>1. /\ user' \in [Users -> UserRowType]
      /\ identity' \in [UserIdentities -> IdentityRowType]
      /\ user'[u] = row
      /\ \A v \in Users \ {u} : user'[v] = user[v]
  BY DEF IInv, IdentitiesTypeOK, UserRowType
<1>2. /\ \A v \in Users : Settled(v) => Settled(v)' /\ user'[v].app = user[v].app
      /\ \A v \in Users : user[v].row = "gone" => user'[v].row = "gone"
  BY <1>1 DEF Settled
<1>3. ASSUME NEW q \in Requests, q # r, InTx(q)
      PROVE  /\ user[request[q].user].row = "pending" =>
                   user'[request[q].user] = user[request[q].user]
             /\ request[q].step = "commit" =>
                   identity'[request[q].identity] = identity[request[q].identity]
  <2>1. TxUser(q)
    BY <1>3 DEF IInv, RequestInv
  <2> QED
    BY <1>1, <2>1 DEF TxUser
<1>4. NoTwinAccounts'
  BY <1>1 DEF IInv, NoTwinAccounts, UserRows
<1>5. Linked'
  BY <1>1, <1>2 DEF IInv, IdentitiesTypeOK, IdentityRowType, NoIdentityRow, Linked
<1>6. request'[r] = Idle
  BY DEF IInv, IdentitiesTypeOK
<1>7. RequestInv(r)'
  BY <1>6 DEF RequestInv, InTx, HasToken, Idle
<1>8. \A q \in Requests : q # r /\ InTx(q) =>
         /\ user[request[q].user].row = "pending" =>
               user'[request[q].user] = user[request[q].user]
         /\ request[q].step = "commit" =>
               identity'[request[q].identity] = identity[request[q].identity]
         /\ Idle.step = "insertIdentity" \/ Idle.step = "commit" =>
               (Idle.user = request[q].user => user'[Idle.user].row # "pending")
         /\ Idle.step = "commit" /\ request[q].step = "commit" =>
               Idle.identity # request[q].identity
  BY <1>3 DEF Idle
<1>9. \A q \in Requests : q # r /\ request[q].step = "writeUser" =>
         user'[request[q].user].row = user[request[q].user].row
  BY <1>1, LockedUser
<1> QED
  BY <1>1, <1>2, <1>4, <1>5, <1>7, <1>8, <1>9, IdleType, TableStep

LEMMA CreateUserKeeps ==
    ASSUME IInv, NEW r \in Requests, NEW u \in Users, NEW a \in Apps, NEW e \in Emails,
           CreateUser(r, u, a, e)
    PROVE  IInv'
<1> DEFINE row == [row |-> "active", app |-> a, email |-> e]
<1>1. row \in [row : {"active", "gone"}, app : Apps, email : Emails]
  OBVIOUS
<1>2. request' = [request EXCEPT ![r] = Idle]
  BY DEF CreateUser, IInv, IdentitiesTypeOK
<1>3. /\ user' = [user EXCEPT ![u] = row] /\ UNCHANGED identity /\ user[u].row = "absent"
      /\ \A v \in UserRows(row.app, row.email) \ {u} : user[v].row \notin {"pending", "active"}
  BY DEF CreateUser, Taken, InDoubt
<1>4. row.row = "active"
  OBVIOUS
<1> HIDE DEF row
<1> QED
  BY <1>1, <1>2, <1>3, <1>4, UserRowStep

LEMMA UpdateUserLockKeeps ==
    ASSUME IInv, NEW r \in Requests, UpdateUserLock(r)
    PROVE  IInv'
<1>1. /\ request[r] \in RequestType /\ RequestInv(r) /\ request[r].step = "lockUser"
      /\ UNCHANGED <<user, identity>>
  BY SlotFields DEF IInv, UpdateUserLock
<1>2. CASE request' = [request EXCEPT ![r] = Idle]
  <2>1. RequestInv(r)'
    BY <1>2 DEF IInv, IdentitiesTypeOK, RequestInv, InTx, HasToken, Idle
  <2> QED
    BY <1>1, <1>2, <2>1, IdleType, SlotStep DEF Idle
<1>3. CASE /\ user[request[r].user].row = "active"
           /\ request' = [request EXCEPT ![r] = [@ EXCEPT !.step = "writeUser"]]
  <2> DEFINE rq == [request[r] EXCEPT !.step = "writeUser"]
  <2>1. "writeUser" \in Steps
    BY DEF Steps
  <2>2. rq \in RequestType
    BY <1>1, <2>1, MovedType, Zenon
  <2>3. request' = [request EXCEPT ![r] = rq] /\ request'[r] = rq
    BY <1>3 DEF IInv, IdentitiesTypeOK
  <2>4. /\ rq.step = "writeUser" /\ rq.user = request[r].user /\ rq.app = request[r].app
        /\ rq.email = request[r].email /\ rq.op = request[r].op
        /\ rq.identity = request[r].identity /\ rq.gone = request[r].gone
    BY <1>1 DEF RequestType
  <2> HIDE DEF rq
  <2>5. RequestInv(r)'
    BY <1>1, <1>3, <2>3, <2>4 DEF RequestInv, Found, OfApp, Settled, InTx, HasToken
  <2> QED
    BY <1>1, <2>2, <2>3, <2>4, <2>5, SlotStep
<1> QED
  BY <1>2, <1>3 DEF UpdateUserLock

LEMMA UpdateUserWriteKeeps ==
    ASSUME IInv, NEW r \in Requests, UpdateUserWrite(r)
    PROVE  IInv'
<1>1. PICK u \in Users : u = request[r].user
  BY LockedUser DEF UpdateUserWrite
<1>2. /\ request' = [request EXCEPT ![r] = Idle] /\ UNCHANGED identity
      /\ request[r].email \in Emails
      /\ user[u].row = "active" /\ user[u].app = request[r].app
  BY <1>1, LockedUser DEF UpdateUserWrite
<1> DEFINE row == [user[u] EXCEPT !.email = request[r].email]
<1>3. CASE UNCHANGED user
  <2>1. RequestInv(r)'
    BY <1>1, <1>2 DEF IInv, IdentitiesTypeOK, RequestInv, InTx, HasToken, Idle
  <2> QED
    BY <1>1, <1>2, <1>3, <2>1, IdleType, SlotStep DEF Idle
<1>4. CASE /\ user' = [user EXCEPT ![u].email = request[r].email]
           /\ ~Taken(UserRows(request[r].app, request[r].email) \ {u}, user)
  <2>1. user[u] \in [row : {"active"}, app : Apps, email : Emails]
    BY <1>1, <1>2 DEF IInv, IdentitiesTypeOK, UserRowType, NoUserRow
  <2>2. /\ row \in [row : {"active", "gone"}, app : Apps, email : Emails]
        /\ row.app = request[r].app /\ row.email = request[r].email /\ row.row = "active"
    BY <1>1, <1>2, <2>1
  <2>3. user' = [user EXCEPT ![u] = row]
    BY <1>4 DEF IInv, IdentitiesTypeOK
  <2>4. \A v \in UserRows(row.app, row.email) \ {u} : user[v].row \notin {"pending", "active"}
    BY <1>1, <1>4, <2>2, NoneInDoubt DEF Taken, UpdateUserWrite
  <2>5. user[u].row = "active" /\ row.app = user[u].app
    BY <1>2, <2>2
  <2> HIDE DEF row
  <2> QED
    BY <1>1, <1>2, <2>2, <2>3, <2>4, <2>5, UserRowStep
<1> QED
  BY <1>1, <1>3, <1>4 DEF UpdateUserWrite

LEMMA DeleteUserKeeps ==
    ASSUME IInv, NEW r \in Requests, NEW u \in Users, DeleteUser(r, u)
    PROVE  IInv'
<1> DEFINE row == [user[u] EXCEPT !.row = "gone"]
<1>1. user[u] \in [row : {"active"}, app : Apps, email : Emails]
  BY DEF DeleteUser, IInv, IdentitiesTypeOK, UserRowType, NoUserRow
<1>2. /\ row \in [row : {"active", "gone"}, app : Apps, email : Emails]
      /\ row.app = user[u].app /\ row.row = "gone"
  BY <1>1
<1>3. /\ user' = [user EXCEPT ![u] = row] /\ UNCHANGED identity /\ user[u].row = "active"
      /\ request' = [request EXCEPT ![r] = Idle]
  BY DEF DeleteUser, IInv, IdentitiesTypeOK
<1>4. \A q \in Requests : request[q].step = "writeUser" => request[q].user # u
  BY DEF DeleteUser, InDoubt
<1> HIDE DEF row
<1> QED
  BY <1>2, <1>3, <1>4, UserRowStep

-----------------------------------------------------------------------------
\* Every step keeps the invariant.
LEMMA IInvStep == ASSUME IInv, [IdentitiesNext]_idVars PROVE IInv'
<1>1. ASSUME NEW r \in Requests, NEW a \in Apps, AuthRequest(r, a) PROVE IInv'
  BY <1>1, RegisterKeeps, LoginKeeps, AppleKeeps DEF AuthRequest
<1>2. ASSUME NEW r \in Requests, NEW u \in Users, UserRequest(r, u) PROVE IInv'
  BY <1>2, CreateUserKeeps, UpdateUserReadKeeps, DeleteUserKeeps DEF UserRequest
<1>3. ASSUME NEW r \in Requests, Lookup(r) PROVE IInv'
  BY <1>3, GetUserKeeps, FindEmailKeeps DEF Lookup
<1>4. ASSUME NEW r \in Requests, Insertion(r) PROVE IInv'
  BY <1>4, InsertUserKeeps, InsertIdentityKeeps DEF Insertion
<1>5. CASE UNCHANGED idVars
  <2>1. \A r \in Requests : RequestInv(r)'
    BY <1>5 DEF idVars, IInv, RequestInv, Fresh, Found, Due, TxUser, TxIdentity, OfApp, Settled,
                InTx, HasToken
  <2>2. (IdentitiesTypeOK /\ NoTwinAccounts /\ Linked /\ Exclusive)'
    BY <1>5 DEF idVars, IInv, IdentitiesTypeOK, NoTwinAccounts, Linked, Exclusive, Settled, InTx
  <2> QED
    BY <2>1, <2>2 DEF IInv
<1> QED
  BY <1>1, <1>2, <1>3, <1>4, <1>5, UpdateUserLockKeeps, UpdateUserWriteKeeps, CommitKeeps,
     EndRequestKeeps, HangUpKeeps, DeadlockKeeps DEF IdentitiesNext, UserUpdate

\* The inductive invariant of register, login, Apple and user management holds of every behaviour.
THEOREM Invariance == IdentitiesSpec => []IInv
<1>1. IdentitiesInit => IInv
  BY IdentityAssumption, InitInv
<1>2. IInv /\ [IdentitiesNext]_idVars => IInv'
  BY IInvStep
<1> QED
  BY <1>1, <1>2, PTL DEF IdentitiesSpec

\* Users, identities and requests keep their shape.
THEOREM IdentitiesTypeCorrect == IdentitiesSpec => []IdentitiesTypeOK
<1>1. IInv => IdentitiesTypeOK
  BY DEF IInv
<1> QED
  BY <1>1, Invariance, PTL

\* No two committed or uncommitted rows collide in a unique index.
THEOREM AccountsHaveNoTwin == IdentitiesSpec => []NoTwinAccounts
<1>1. IInv => NoTwinAccounts
  BY DEF IInv
<1> QED
  BY <1>1, Invariance, PTL

\* A token names a user of the request's app who was not deleted before the
\* request came in.
THEOREM TokensAreAlwaysDue == IdentitiesSpec => []TokensAreDue
<1>1. IInv => TokensAreDue
  BY DEF IInv, RequestInv, Due, OfApp, TokensAreDue
<1> QED
  BY <1>1, Invariance, PTL

-----------------------------------------------------------------------------
(* Rings *)

\* Who waits in a ring holds a row: before its first row a request holds none, and whoever
\* is about to commit waits for nobody, so what is about to insert an identity is on no ring.
LEMMA RingsOfPatches ==
    ASSUME IInv, NEW r \in Requests, InRing(r)
    PROVE  request[r].op = "update" /\ request[r].step = "writeUser"
<1>1. PICK S \in SUBSET Requests :
         /\ r \in S
         /\ \A s \in S : (\E q \in S : WaitsFor(s, q)) /\ (\E q \in S : WaitsFor(q, s))
  BY DEF InRing
<1>2. ASSUME NEW s \in S
      PROVE  request[s].step \in {"writeUser", "insertIdentity"}
  <2>1. request[s].step \in {"insertUser", "lockUser", "writeUser", "insertIdentity"}
    BY <1>1 DEF WaitsFor, AwaitedUsers, AwaitedIdentities
  <2>2. request[s].step \in {"insertIdentity", "commit", "writeUser"}
    BY <1>1 DEF WaitsFor, HoldsUser, HoldsIdentity, InTx
  <2> QED
    BY <2>1, <2>2
<1>3. request[r].step # "insertIdentity"
  <2> SUFFICES ASSUME request[r].step = "insertIdentity" PROVE FALSE
    OBVIOUS
  <2>1. PICK q \in S : WaitsFor(r, q)
    BY <1>1
  <2>2. request[q].step = "commit"
    BY <2>1 DEF WaitsFor, AwaitedUsers, HoldsIdentity
  <2> QED
    BY <1>2, <2>2
<1> QED
  BY <1>1, <1>2, <1>3, LockedUser

-----------------------------------------------------------------------------
(* Failures *)

Failed(r)     == Answered(r, "apple") /\ request[r].status = 500
FailedForGone == \A r \in Requests : Failed(r) => /\ request[r].user \in Users
                                                 /\ user[request[r].user].row = "gone"

\* A deleted row stays as it is.
LEMMA GoneStays ==
    ASSUME IInv, [IdentitiesNext]_idVars, NEW u \in Users, user[u].row = "gone"
    PROVE  user'[u].row = "gone"
<1>1. user \in [Users -> UserRowType]
  BY DEF IInv, IdentitiesTypeOK
<1>2. ASSUME NEW r \in Requests, NEW v \in Users, UserRequest(r, v)
      PROVE  user'[u].row = "gone"
  BY <1>1, <1>2 DEF UserRequest, CreateUser, UpdateUserRead, DeleteUser, UserRowType, NoUserRow
<1>3. ASSUME NEW r \in Requests, Insertion(r) PROVE user'[u].row = "gone"
  BY <1>1, <1>3 DEF Insertion, InsertUser, InsertIdentity, RollbackRows
<1>4. ASSUME NEW r \in Requests, UserUpdate(r) PROVE user'[u].row = "gone"
  BY <1>1, <1>4 DEF UserUpdate, UpdateUserLock, UpdateUserWrite, UserRowType, NoUserRow
<1>5. ASSUME NEW r \in Requests, Commit(r) \/ HangUp(r) \/ Deadlock(r)
      PROVE  user'[u].row = "gone"
  BY <1>5 DEF Commit, CommitRows, HangUp, Deadlock, RollbackRows
<1>6. ASSUME NEW r \in Requests,
             (\E a \in Apps : AuthRequest(r, a)) \/ Lookup(r) \/ EndRequest(r)
      PROVE  UNCHANGED user
  BY <1>6 DEF AuthRequest, Register, Login, Apple, Lookup, GetUser, FindEmail, EndRequest
<1> QED
  BY <1>2, <1>3, <1>4, <1>5, <1>6 DEF IdentitiesNext, idVars

\* Of Apple's statements only GetUser fails.
LEMMA WhoFails ==
    ASSUME IInv, [IdentitiesNext]_idVars, NEW r \in Requests, Failed(r)'
    PROVE  request'[r] = request[r] \/ GetUser(r)
<1>1. request \in [Requests -> RequestType]
  BY DEF IInv, IdentitiesTypeOK
<1>2. ASSUME NEW q \in Requests, NEW a \in Apps, AuthRequest(q, a)
      PROVE  request'[r] = request[r]
  BY <1>1, <1>2 DEF AuthRequest, Register, Login, Apple, Accept, Arrival, Failed, Answered
<1>3. ASSUME NEW q \in Requests, NEW u \in Users, UserRequest(q, u)
      PROVE  request'[r] = request[r]
  BY <1>1, <1>3 DEF UserRequest, CreateUser, UpdateUserRead, DeleteUser, Accept, Arrival, Failed, Answered
<1>4. ASSUME NEW q \in Requests, ~Failed(q)', \A p \in Requests \ {q} : request'[p] = request[p]
      PROVE  request'[r] = request[r]
  BY <1>4
<1>5. ASSUME NEW q \in Requests, NEW status \in {200, 201, 409}, Answer(q, status)
      PROVE  request'[r] = request[r]
  <2>1. request'[q].status = status /\ \A p \in Requests \ {q} : request'[p] = request[p]
    BY <1>1, <1>5 DEF Answer, RequestType
  <2> QED
    BY <1>4, <2>1 DEF Failed, Answered
<1>6. ASSUME NEW q \in Requests, FindEmail(q) \/ Insertion(q) PROVE request'[r] = request[r]
  <2> DEFINE Moves(step) == request'[q].step = step /\ \A p \in Requests \ {q} : request'[p] = request[p]
  <2>1. request[q] \in RequestType
    BY <1>1
  <2>2. CASE \E step \in {"insertUser", "insertIdentity", "commit"} : Moves(step)
    BY <1>4, <2>2 DEF Failed, Answered
  <2>3. request' = [request EXCEPT ![q] = [@ EXCEPT !.step = "insertUser"]] => Moves("insertUser")
    BY <1>1, <2>1 DEF RequestType
  <2>4. ASSUME NEW u,
               request' = [request EXCEPT ![q] = [@ EXCEPT !.step = "insertIdentity", !.user = u]]
        PROVE  Moves("insertIdentity")
    BY <1>1, <2>1, <2>4 DEF RequestType
  <2>5. ASSUME NEW i,
               request' = [request EXCEPT ![q] = [@ EXCEPT !.step = "commit", !.identity = i]]
        PROVE  Moves("commit")
    BY <1>1, <2>1, <2>5 DEF RequestType
  <2> HIDE DEF Moves
  <2>6. CASE FindEmail(q)
    BY <2>2, <2>3, <2>4, <2>6 DEF FindEmail
  <2>7. ASSUME NEW u \in Users, InsertUser(q, u) PROVE request'[r] = request[r]
    <3>1. CASE Answer(q, 409)
      BY <1>5, <3>1
    <3>2. CASE request' = [request EXCEPT ![q] =
                              [@ EXCEPT !.step = "insertIdentity", !.user = u]]
      BY <2>2, <2>4, <3>2
    <3> QED
      BY <2>7, <3>1, <3>2 DEF InsertUser
  <2>8. ASSUME NEW i \in UserIdentities, InsertIdentity(q, i) PROVE request'[r] = request[r]
    <3>1. CASE Answer(q, 409)
      BY <1>5, <3>1
    <3>2. CASE request' = [request EXCEPT ![q] =
                              [@ EXCEPT !.step = "commit", !.identity = i]]
      BY <2>2, <2>5, <3>2
    <3> QED
      BY <2>8, <3>1, <3>2 DEF InsertIdentity
  <2> QED
    BY <1>6, <2>6, <2>7, <2>8 DEF Insertion
<1>7. ASSUME NEW q \in Requests, Commit(q) PROVE request'[r] = request[r]
  BY <1>5, <1>7 DEF Commit
<1>8. ASSUME NEW q \in Requests, UpdateUserWrite(q) \/ EndRequest(q) \/ HangUp(q)
      PROVE  request'[r] = request[r]
  BY <1>1, <1>8 DEF UpdateUserWrite, EndRequest, HangUp, Failed, Answered, Idle
<1>9. ASSUME NEW q \in Requests, q # r, GetUser(q) PROVE request'[r] = request[r]
  BY <1>1, <1>9 DEF GetUser, Answer
<1>10. ASSUME NEW q \in Requests, UpdateUserLock(q) PROVE request'[r] = request[r]
  <2>1. request'[q].step # "answered" /\ \A p \in Requests \ {q} : request'[p] = request[p]
    BY <1>1, <1>10 DEF UpdateUserLock, Idle, RequestType
  <2> QED
    BY <1>4, <2>1 DEF Failed, Answered
<1>11. ASSUME NEW q \in Requests, Deadlock(q) PROVE request'[r] = request[r]
  <2>1. request[q].op = "update"
    BY <1>11, RingsOfPatches DEF Deadlock
  <2>2. request'[q].op = "update" /\ \A p \in Requests \ {q} : request'[p] = request[p]
    BY <1>1, <1>11, <2>1 DEF Deadlock, Answer, RequestType
  <2> QED
    BY <1>4, <2>2 DEF Failed, Answered
<1> QED
  BY <1>2, <1>3, <1>6, <1>7, <1>8, <1>9, <1>10, <1>11
  DEF IdentitiesNext, Lookup, UserUpdate, idVars

LEMMA FailedStep == IInv /\ FailedForGone /\ [IdentitiesNext]_idVars => FailedForGone'
<1> SUFFICES ASSUME IInv, FailedForGone, [IdentitiesNext]_idVars, NEW r \in Requests, Failed(r)'
             PROVE  request'[r].user \in Users /\ user'[request'[r].user].row = "gone"
  BY DEF FailedForGone
<1>1. CASE request'[r] = request[r]
  BY <1>1, GoneStays DEF FailedForGone, Failed, Answered
<1>2. CASE GetUser(r)
  <2>1. request[r] \in RequestType /\ Found(r)
    BY <1>2, SlotFields DEF IInv, RequestInv, GetUser
  <2>2. request'[r].user = request[r].user /\ user' = user
    BY <1>2, <2>1 DEF GetUser, Answer, IInv, IdentitiesTypeOK, RequestType
  <2>3. user[request[r].user].row # "active"
    BY <1>2, <2>1 DEF GetUser, Answer, Failed, Found, OfApp, IInv, IdentitiesTypeOK, RequestType
  <2> QED
    BY <2>1, <2>2, <2>3 DEF Found, Settled
<1> QED
  BY <1>1, <1>2, WhoFails

\* A sign-in with Apple is answered 500 only for a deleted user, in every state.
THEOREM FailuresAreOfTheDeleted == IdentitiesSpec => []OnlyDeletedUsersFail
<1>1. IdentitiesInit => FailedForGone
  BY DEF IdentitiesInit, FailedForGone, Failed, Idle
<1>2. IInv /\ FailedForGone /\ [IdentitiesNext]_idVars => FailedForGone'
  BY FailedStep
<1>3. FailedForGone => OnlyDeletedUsersFail
  BY DEF FailedForGone, Failed, OnlyDeletedUsersFail, Answered
<1> QED
  BY <1>1, <1>2, <1>3, Invariance, PTL DEF IdentitiesSpec

-----------------------------------------------------------------------------
(* Waiting for rows *)

\* The holders of the uncommitted rows.
HasUser(r, u) == InTx(r) /\ request[r].user = u

Held ==
    /\ \A u \in Users : user[u].row = "pending" => \E r \in Requests : HasUser(r, u)
    /\ \A i \in UserIdentities :
          identity[i].row = "pending" => \E r \in Requests : HoldsIdentity(r, i)

\* A step of r keeps every uncommitted row held if the rows uncommitted after
\* it are r's, or were uncommitted and not r's before.
LEMMA HeldKept ==
    ASSUME Held, NEW r \in Requests,
           \A q \in Requests \ {r} : request'[q] = request[q],
           \A u \in Users : user'[u].row = "pending" =>
               HasUser(r, u)' \/ (user[u].row = "pending" /\ ~HasUser(r, u)),
           \A i \in UserIdentities : identity'[i].row = "pending" =>
               HoldsIdentity(r, i)' \/ (identity[i].row = "pending" /\ ~HoldsIdentity(r, i))
    PROVE  Held'
<1>1. ASSUME NEW u \in Users, user'[u].row = "pending"
      PROVE  \E q \in Requests : HasUser(q, u)'
  <2>1. CASE HasUser(r, u)'
    BY <2>1
  <2>2. CASE user[u].row = "pending" /\ ~HasUser(r, u)
    <3>1. PICK q \in Requests : HasUser(q, u)
      BY <2>2 DEF Held
    <3>2. request'[q] = request[q]
      BY <2>2, <3>1
    <3> QED
      BY <3>1, <3>2 DEF HasUser, InTx
  <2> QED
    BY <1>1, <2>1, <2>2
<1>2. ASSUME NEW i \in UserIdentities, identity'[i].row = "pending"
      PROVE  \E q \in Requests : HoldsIdentity(q, i)'
  <2>1. CASE HoldsIdentity(r, i)'
    BY <2>1
  <2>2. CASE identity[i].row = "pending" /\ ~HoldsIdentity(r, i)
    <3>1. PICK q \in Requests : HoldsIdentity(q, i)
      BY <2>2 DEF Held
    <3>2. request'[q] = request[q]
      BY <2>2, <3>1
    <3> QED
      BY <3>1, <3>2 DEF HoldsIdentity
  <2> QED
    BY <1>2, <2>1, <2>2
<1> QED
  BY <1>1, <1>2 DEF Held

LEMMA RollbackHeld ==
    ASSUME IInv, Held, NEW r \in Requests, RollbackRows(r), request[r].step # "none",
           request[r].step # "answered", \A q \in Requests \ {r} : request'[q] = request[q]
    PROVE  Held'
<1>1. \A u \in Users : user'[u].row = "pending" => user[u].row = "pending" /\ ~HasUser(r, u)
  BY DEF RollbackRows, HasUser, NoUserRow
<1>2. \A i \in UserIdentities :
         identity'[i].row = "pending" => identity[i].row = "pending" /\ ~HoldsIdentity(r, i)
  BY DEF RollbackRows, HoldsIdentity, NoIdentityRow
<1> QED
  BY <1>1, <1>2, HeldKept

LEMMA InsertUserHeld ==
    ASSUME IInv, Held, NEW r \in Requests, NEW u \in Users, InsertUser(r, u)
    PROVE  Held'
<1>1. /\ \A q \in Requests \ {r} : request'[q] = request[q]
      /\ request[r].step = "insertUser" /\ UNCHANGED identity
  BY DEF InsertUser, Answer, IInv, IdentitiesTypeOK
<1>2. \A i \in UserIdentities :
         identity'[i].row = "pending" => identity[i].row = "pending" /\ ~HoldsIdentity(r, i)
  BY <1>1 DEF HoldsIdentity
<1>3. CASE UNCHANGED user
  BY <1>1, <1>2, <1>3, HeldKept DEF HasUser, InTx
<1>4. CASE /\ \A v \in Users \ {u} : user'[v] = user[v]
           /\ request'[r].step = "insertIdentity" /\ request'[r].user = u
  BY <1>1, <1>2, <1>4, HeldKept DEF HasUser, InTx
<1>5. request[r] \in RequestType
  BY SlotFields
<1>6. request' = [request EXCEPT ![r] = [@ EXCEPT !.step = "insertIdentity", !.user = u]] =>
         request'[r].step = "insertIdentity" /\ request'[r].user = u
  BY <1>5 DEF IInv, IdentitiesTypeOK, RequestType
<1> QED
  BY <1>3, <1>4, <1>6 DEF InsertUser, IInv, IdentitiesTypeOK

LEMMA InsertIdentityHeld ==
    ASSUME IInv, Held, NEW r \in Requests, NEW i \in UserIdentities, InsertIdentity(r, i)
    PROVE  Held'
<1>1. /\ \A q \in Requests \ {r} : request'[q] = request[q]
      /\ request[r].step = "insertIdentity" /\ request[r] \in RequestType
  BY SlotFields DEF InsertIdentity, Answer, IInv, IdentitiesTypeOK
<1>2. CASE RollbackRows(r)
  BY <1>1, <1>2, RollbackHeld
<1>3. CASE ~RollbackRows(r)
  <2> DEFINE rq == [request[r] EXCEPT !.step = "commit", !.identity = i]
             row == [row |-> "pending", app |-> request[r].app, user |-> request[r].user,
                     subject |-> request[r].subject]
  <2>1. UNCHANGED user /\ request' = [request EXCEPT ![r] = rq]
        /\ identity' = [identity EXCEPT ![i] = row]
    BY <1>3 DEF InsertIdentity
  <2>2. rq.step = "commit" /\ rq.identity = i /\ rq.user = request[r].user
    BY <1>1 DEF RequestType
  <2>3. request'[r] = rq
    BY <2>1 DEF IInv, IdentitiesTypeOK
  <2> HIDE DEF rq, row
  <2>4. \A j \in UserIdentities \ {i} : identity'[j] = identity[j]
    BY <2>1 DEF IInv, IdentitiesTypeOK
  <2>5. /\ request'[r].step = "commit" /\ request'[r].identity = i
        /\ request'[r].user = request[r].user
        /\ UNCHANGED user
        /\ \A j \in UserIdentities \ {i} : identity'[j] = identity[j]
    BY <2>1, <2>2, <2>3, <2>4
  <2>6. \A u \in Users : user'[u].row = "pending" =>
           HasUser(r, u)' \/ (user[u].row = "pending" /\ ~HasUser(r, u))
    BY <1>1, <2>5 DEF HasUser, InTx
  <2>7. \A j \in UserIdentities : identity'[j].row = "pending" =>
           HoldsIdentity(r, j)' \/ (identity[j].row = "pending" /\ ~HoldsIdentity(r, j))
    BY <1>1, <2>5 DEF HoldsIdentity
  <2> QED
    BY <1>1, <2>6, <2>7, HeldKept
<1> QED
  BY <1>2, <1>3

LEMMA CommitHeld ==
    ASSUME IInv, Held, NEW r \in Requests, Commit(r)
    PROVE  Held'
<1>1. \A q \in Requests \ {r} : request'[q] = request[q]
  BY DEF Commit, Answer, IInv, IdentitiesTypeOK
<1>2. user \in [Users -> UserRowType] /\ identity \in [UserIdentities -> IdentityRowType]
  BY DEF IInv, IdentitiesTypeOK
<1>3. \A u \in Users : user'[u].row = "pending" => user[u].row = "pending" /\ ~HasUser(r, u)
  BY <1>2 DEF Commit, CommitRows, HasUser, UserRowType, NoUserRow
<1>4. \A i \in UserIdentities :
         identity'[i].row = "pending" => identity[i].row = "pending" /\ ~HoldsIdentity(r, i)
  BY <1>2 DEF Commit, CommitRows, HoldsIdentity, IdentityRowType, NoIdentityRow
<1> QED
  BY <1>1, <1>3, <1>4, HeldKept

\* Requests that come in, statements that only read, answers that leave, and
\* the statements of /users: r holds no row and leaves none uncommitted.
LEMMA OutsideTxHeld ==
    ASSUME IInv, Held, NEW r \in Requests, ~InTx(r),
           \A q \in Requests \ {r} : request'[q] = request[q],
           \A u \in Users : user'[u].row = "pending" => user[u].row = "pending",
           UNCHANGED identity
    PROVE  Held'
BY HeldKept DEF HasUser, HoldsIdentity, InTx

LEMMA HeldStep == IInv /\ Held /\ [IdentitiesNext]_idVars => Held'
<1> SUFFICES ASSUME IInv, Held, [IdentitiesNext]_idVars PROVE Held'
  OBVIOUS
<1>1. request \in [Requests -> RequestType] /\ user \in [Users -> UserRowType]
  BY DEF IInv, IdentitiesTypeOK
<1>2. ASSUME NEW r \in Requests, NEW a \in Apps, AuthRequest(r, a) PROVE Held'
  <2>1. /\ ~InTx(r) /\ UNCHANGED <<user, identity>>
        /\ \A q \in Requests \ {r} : request'[q] = request[q]
    BY <1>1, <1>2 DEF AuthRequest, Register, Login, Apple, Accept, InTx, Idle
  <2> QED
    BY <2>1, OutsideTxHeld
<1>3. ASSUME NEW r \in Requests, NEW u \in Users, UserRequest(r, u) PROVE Held'
  <2>1. /\ ~InTx(r) /\ UNCHANGED identity
        /\ \A q \in Requests \ {r} : request'[q] = request[q]
    BY <1>1, <1>3 DEF UserRequest, CreateUser, UpdateUserRead, DeleteUser, Accept, InTx, Idle
  <2>2. \A v \in Users : user'[v].row = "pending" => user[v].row = "pending"
    BY <1>1, <1>3 DEF UserRequest, CreateUser, UpdateUserRead, DeleteUser, UserRowType, NoUserRow
  <2> QED
    BY <2>1, <2>2, OutsideTxHeld
<1>4. ASSUME NEW r \in Requests, Lookup(r) \/ EndRequest(r) PROVE Held'
  <2>1. /\ ~InTx(r) /\ UNCHANGED <<user, identity>>
        /\ \A q \in Requests \ {r} : request'[q] = request[q]
    BY <1>1, <1>4 DEF Lookup, GetUser, FindEmail, EndRequest, Answer, InTx
  <2> QED
    BY <2>1, OutsideTxHeld
<1>5. ASSUME NEW r \in Requests, UserUpdate(r) PROVE Held'
  <2>1. /\ ~InTx(r) /\ UNCHANGED identity
        /\ \A q \in Requests \ {r} : request'[q] = request[q]
    BY <1>1, <1>5 DEF UserUpdate, UpdateUserLock, UpdateUserWrite, InTx
  <2>2. \A v \in Users : user'[v].row = "pending" => user[v].row = "pending"
    BY <1>1, <1>5 DEF UserUpdate, UpdateUserLock, UpdateUserWrite, UserRowType, NoUserRow
  <2> QED
    BY <2>1, <2>2, OutsideTxHeld
<1>6. ASSUME NEW r \in Requests, HangUp(r) PROVE Held'
  BY <1>1, <1>6, RollbackHeld DEF HangUp
<1>7. ASSUME NEW r \in Requests, Insertion(r) PROVE Held'
  BY <1>7, InsertUserHeld, InsertIdentityHeld DEF Insertion
<1>8. CASE UNCHANGED idVars
  BY <1>8 DEF idVars, Held, HasUser, HoldsIdentity, InTx
<1>9. ASSUME NEW r \in Requests, Deadlock(r) PROVE Held'
  BY <1>1, <1>9, RollbackHeld, RingMembersWait DEF Deadlock, Answer
<1> QED
  BY <1>2, <1>3, <1>4, <1>5, <1>6, <1>7, <1>8, <1>9, CommitHeld DEF IdentitiesNext

LEMMA WaitingEnds == ASSUME IInv, Held PROVE RowWaitsEnd
<1>1. ASSUME NEW r \in Requests, NEW u \in AwaitedUsers(r)
      PROVE  \E s \in Requests : WaitsFor(r, s)
  <2>1. u \in Users
    BY LockedUser DEF AwaitedUsers, InDoubt, UserRows, IInv, RequestInv, Found
  <2>2. CASE user[u].row = "pending"
    <3>1. PICK s \in Requests : HasUser(s, u)
      BY <2>1, <2>2 DEF Held
    <3> QED
      BY <2>2, <3>1 DEF WaitsFor, HasUser, HoldsUser
  <2>3. CASE user[u].row # "pending"
    BY <2>3 DEF AwaitedUsers, InDoubt, WaitsFor, HoldsUser
  <2> QED
    BY <2>2, <2>3
<1>2. ASSUME NEW r \in Requests, NEW i \in AwaitedIdentities(r)
      PROVE  \E s \in Requests : WaitsFor(r, s)
  <2>1. i \in UserIdentities /\ identity[i].row = "pending"
    BY DEF AwaitedIdentities, IdentityRows
  <2> QED
    BY <2>1 DEF Held, WaitsFor
<1> QED
  BY <1>1, <1>2, RingsOfPatches DEF RowWaitsEnd

\* A statement never waits for a row nobody will commit, unlock or roll back, and only
\* PATCHes of users ever wait for each other in a ring, however many requests there are.
THEOREM RowWaitsAlwaysEnd == IdentitiesSpec => []RowWaitsEnd
<1>1. IdentitiesInit => Held
  BY DEF IdentitiesInit, Held, NoUserRow, NoIdentityRow
<1>2. IInv /\ Held /\ [IdentitiesNext]_idVars => Held'
  BY HeldStep
<1>3. IInv /\ Held => RowWaitsEnd
  BY WaitingEnds
<1> QED
  BY <1>1, <1>2, <1>3, Invariance, PTL DEF IdentitiesSpec

-----------------------------------------------------------------------------
(* Identities implements Accounts *)

\* Uncommitted rows do not show.
LEMMA QuietStep ==
    ASSUME \A u \in Users : \/ user'[u] = user[u]
                            \/ /\ user[u] = NoUserRow \/ user[u].row = "pending"
                               /\ user'[u] = NoUserRow \/ user'[u].row = "pending",
           \A i \in UserIdentities : \/ identity'[i] = identity[i]
                                     \/ identity[i].row # "active" /\ identity'[i].row # "active"
    PROVE  CommittedUser' = CommittedUser /\ CommittedCredentials' = CommittedCredentials
<1>1. CommittedUser' = CommittedUser
  BY DEF CommittedUser, NoUserRow
<1>2. ASSUME NEW i \in UserIdentities
      PROVE  /\ identity[i].row = "active" <=> identity'[i].row = "active"
             /\ identity[i].row = "active" => identity'[i] = identity[i]
  OBVIOUS
<1>3. CommittedCredentials' = CommittedCredentials
  BY <1>2 DEF CommittedCredentials
<1> QED
  BY <1>1, <1>3

LEMMA SameIdentities ==
    ASSUME UNCHANGED identity
    PROVE  CommittedCredentials' = CommittedCredentials
BY DEF CommittedCredentials

LEMMA CommittedRow ==
    ASSUME IInv, NEW u \in Users
    PROVE  /\ CommittedUser[u] = IF user[u].row = "pending" THEN NoUserRow ELSE user[u]
           /\ CommittedUser[u].row = "active" => user[u].row = "active" /\ CommittedUser[u] = user[u]
BY DEF CommittedUser, NoUserRow

LEMMA EmailAvailable ==
    ASSUME IInv, NEW a, NEW e, ~Taken(UserRows(a, e), user)
    PROVE  A!Available(a, e)
BY CommittedRow DEF A!Available, Taken, UserRows

\* One committed row of users appears or changes.
LEMMA UserWritten ==
    ASSUME IInv, NEW u \in Users, NEW row, row.row # "pending",
           user' = [user EXCEPT ![u] = row]
    PROVE  CommittedUser' = [CommittedUser EXCEPT ![u] = row]
<1>1. user'[u] = row /\ \A v \in Users \ {u} : user'[v] = user[v]
  BY DEF IInv, IdentitiesTypeOK
<1> QED
  BY <1>1 DEF CommittedUser

LEMMA CreateUserImplements ==
    ASSUME IInv, NEW r \in Requests, NEW u \in Users, NEW a \in Apps, NEW e \in Emails,
           CreateUser(r, u, a, e)
    PROVE  A!AddAccount(u, a, e)
<1>1. A!Available(a, e)
  BY EmailAvailable DEF CreateUser
<1>2. CommittedUser[u] = A!NoAccount
  BY CommittedRow DEF CreateUser, A!NoAccount, NoUserRow, IInv, IdentitiesTypeOK, UserRowType
<1>3. CommittedUser' = [CommittedUser EXCEPT ![u] = [row |-> "active", app |-> a, email |-> e]]
  BY UserWritten DEF CreateUser
<1> QED
  BY <1>1, <1>2, <1>3, SameIdentities DEF CreateUser, A!AddAccount, A!Open

LEMMA DeleteUserImplements ==
    ASSUME IInv, NEW r \in Requests, NEW u \in Users, DeleteUser(r, u)
    PROVE  A!CloseAccount(u)
<1> DEFINE row == [user[u] EXCEPT !.row = "gone"]
<1>1. user[u] \in [row : {"active"}, app : Apps, email : Emails]
  BY DEF DeleteUser, IInv, IdentitiesTypeOK, UserRowType, NoUserRow
<1>2. user' = [user EXCEPT ![u] = row] /\ UNCHANGED identity
  BY DEF DeleteUser, IInv, IdentitiesTypeOK
<1>3. row.row # "pending"
  BY <1>1
<1>4. CommittedUser[u] = user[u] /\ CommittedUser[u].row = "active"
  BY <1>1, CommittedRow
<1>5. CommittedUser' = [CommittedUser EXCEPT ![u] = row]
  <2> HIDE DEF row
  <2> QED
    BY <1>2, <1>3, UserWritten
<1>6. CommittedUser' = [CommittedUser EXCEPT ![u].row = "gone"]
  BY <1>4, <1>5 DEF CommittedUser
<1> QED
  BY <1>2, <1>4, <1>6, SameIdentities DEF A!CloseAccount

LEMMA UpdateUserWriteImplements ==
    ASSUME IInv, NEW r \in Requests, UpdateUserWrite(r)
    PROVE  \/ A!AccountsNext
           \/ CommittedUser' = CommittedUser /\ CommittedCredentials' = CommittedCredentials
<1>1. PICK u \in Users : u = request[r].user
  BY LockedUser DEF UpdateUserWrite
<1>2. /\ user[u].row = "active" /\ user[u].app = request[r].app
      /\ request[r].email \in Emails /\ UNCHANGED identity
  BY <1>1, LockedUser DEF UpdateUserWrite
<1> DEFINE e == request[r].email
           row == [user[u] EXCEPT !.email = e]
<1>3. CASE UNCHANGED user
  BY <1>2, <1>3 DEF CommittedUser, CommittedCredentials
<1>4. CASE /\ user' = [user EXCEPT ![u].email = e]
           /\ ~Taken(UserRows(request[r].app, e) \ {u}, user)
  <2>1. user[u] \in [row : {"active"}, app : Apps, email : Emails] /\ user[u].app = request[r].app
    BY <1>1, <1>2 DEF IInv, IdentitiesTypeOK, UserRowType, NoUserRow
  <2>2. CommittedUser[u] = user[u]
    BY <2>1, CommittedRow
  <2>3. user' = [user EXCEPT ![u] = row]
    BY <1>4 DEF IInv, IdentitiesTypeOK
  <2>4. row.row # "pending"
    BY <2>1
  <2>5. CommittedUser' = [CommittedUser EXCEPT ![u] = row]
    <3> HIDE DEF row
    <3> QED
      BY <2>3, <2>4, UserWritten
  <2>6. CommittedUser' = [CommittedUser EXCEPT ![u].email = e]
    BY <2>2, <2>5 DEF CommittedUser
  <2>7. CASE user[u].email = e
    <3>1. row = user[u]
      BY <2>1, <2>7
    <3>2. CommittedUser' = CommittedUser
      <4> HIDE DEF row
      <4> QED
        BY <2>2, <2>5, <3>1 DEF CommittedUser
    <3> QED
      BY <1>2, <3>2, SameIdentities
  <2>8. CASE user[u].email # e
    <3>1. ~Taken(UserRows(request[r].app, e), user)
      BY <1>4, <2>8 DEF Taken, UserRows
    <3>2. A!Available(CommittedUser[u].app, e)
      BY <2>1, <2>2, <3>1, EmailAvailable
    <3>3. A!ChangeEmail(u, e)
      BY <1>2, <2>1, <2>2, <2>6, <3>2, SameIdentities DEF A!ChangeEmail
    <3> QED
      BY <1>2, <3>3 DEF A!AccountsNext
  <2> QED
    BY <2>7, <2>8
<1> QED
  BY <1>1, <1>3, <1>4 DEF UpdateUserWrite

LEMMA CommitImplements ==
    ASSUME IInv, NEW r \in Requests, Commit(r)
    PROVE  A!AccountsNext
<1> DEFINE a == request[r].app
           e == request[r].email
           c == request[r].subject
<1>1. PICK u \in Users, i \in UserIdentities : u = request[r].user /\ i = request[r].identity
  BY CommitWrites
<1>2. /\ TxUser(r) /\ TxIdentity(r) /\ request[r].step = "commit"
      /\ \A v \in Users \ {u} : user'[v] = user[v]
      /\ user[u].row # "pending" => user'[u] = user[u]
      /\ user[u].row = "pending" => user'[u] = [row |-> "active", app |-> a, email |-> e]
      /\ \A j \in UserIdentities \ {i} : identity'[j] = identity[j]
      /\ identity[i].row = "pending"
      /\ identity'[i] = [row |-> "active", app |-> a, user |-> u, subject |-> c]
  BY <1>1, CommitWrites
<1>3. A!Attach(u, a, c)
  <2>1. identity[i].app = a /\ identity[i].subject = c
    BY <1>1, <1>2 DEF TxIdentity
  <2>2. A!Unused(a, c)
    BY <1>2, <2>1 DEF A!Unused, CommittedCredentials, IInv, NoTwinAccounts
  <2>3. ASSUME NEW d PROVE d \in CommittedCredentials' <=>
            d \in CommittedCredentials \/ d = [app |-> a, subject |-> c, user |-> u]
    BY <1>2 DEF CommittedCredentials
  <2>4. CommittedCredentials' = CommittedCredentials \cup {[app |-> a, subject |-> c, user |-> u]}
    BY <2>3
  <2> QED
    BY <2>2, <2>4 DEF A!Attach
<1>4. CASE user[u].row = "pending"
  <2>1. user[u].app = a /\ user[u].email = e /\ c \in {e} \cup Subjects /\ a \in Apps
    BY <1>1, <1>2, <1>4 DEF TxUser, OfApp, Settled
  <2>2. e \in Emails
    BY <1>4, <2>1 DEF IInv, IdentitiesTypeOK, UserRowType, NoUserRow
  <2>3. ~Taken(UserRows(a, e), user)
    BY <1>4, <2>1 DEF IInv, NoTwinAccounts, Taken, UserRows
  <2>4. A!Available(a, e)
    BY <2>3, EmailAvailable
  <2>5. CommittedUser[u] = A!NoAccount
    BY <1>4, CommittedRow DEF A!NoAccount, NoUserRow
  <2>6. CommittedUser' = [CommittedUser EXCEPT ![u] = [row |-> "active", app |-> a, email |-> e]]
    <3> DEFINE row == [row |-> "active", app |-> a, email |-> e]
    <3>1. user'[u] = row /\ row.row # "pending" /\ \A v \in Users \ {u} : user'[v] = user[v]
      BY <1>2, <1>4
    <3> HIDE DEF row
    <3>2. CommittedUser' = [CommittedUser EXCEPT ![u] = row]
      BY <3>1 DEF CommittedUser
    <3> QED
      BY <3>2 DEF row
  <2>7. A!SignUp(u, a, e, c)
    BY <1>3, <2>4, <2>5, <2>6 DEF A!SignUp, A!Open
  <2> QED
    BY <2>1, <2>2, <2>7 DEF A!AccountsNext
<1>5. CASE user[u].row # "pending"
  <2>1. Settled(u) /\ user[u].app = a /\ c \in Subjects
    BY <1>1, <1>2, <1>5 DEF TxUser, OfApp
  <2>2. CommittedUser[u] = user[u] /\ CommittedUser[u] # A!NoAccount
    BY <1>5, <2>1, CommittedRow DEF Settled, A!NoAccount
  <2>3. CommittedUser' = CommittedUser
    BY <1>2, <1>5 DEF CommittedUser
  <2>4. A!AddCredential(u, c)
    BY <1>3, <2>1, <2>2, <2>3 DEF A!AddCredential
  <2> QED
    BY <2>1, <2>4 DEF A!AccountsNext
<1> QED
  BY <1>4, <1>5

\* Insertions and rollbacks do not show.
LEMMA RollbackIsQuiet ==
    ASSUME IInv, NEW r \in Requests, RollbackRows(r),
           request[r].step \notin {"none", "answered"}
    PROVE  CommittedUser' = CommittedUser /\ CommittedCredentials' = CommittedCredentials
<1>1. RequestInv(r) /\ request[r] \in RequestType
  BY SlotFields DEF IInv
<1>2. request[r].identity \in UserIdentities => identity[request[r].identity].row = "pending"
  BY <1>1, IdentityAssumption DEF RequestType, RequestInv, TxIdentity, InTx, Fresh, Found, Steps
<1>3. \A i \in UserIdentities : \/ identity'[i] = identity[i]
                                \/ identity[i].row # "active" /\ identity'[i].row # "active"
  BY <1>2 DEF RollbackRows, NoIdentityRow
<1>4. \A u \in Users : \/ user'[u] = user[u]
                       \/ /\ user[u] = NoUserRow \/ user[u].row = "pending"
                          /\ user'[u] = NoUserRow \/ user'[u].row = "pending"
  BY DEF RollbackRows
<1> QED
  BY <1>3, <1>4, QuietStep

LEMMA InsertionIsQuiet ==
    ASSUME IInv, NEW r \in Requests, Insertion(r)
    PROVE  CommittedUser' = CommittedUser /\ CommittedCredentials' = CommittedCredentials
<1>1. ASSUME NEW u \in Users, InsertUser(r, u)
      PROVE  CommittedUser' = CommittedUser /\ CommittedCredentials' = CommittedCredentials
  <2>1. UNCHANGED identity
    BY <1>1 DEF InsertUser
  <2>2. user[u] = NoUserRow
    BY <1>1 DEF InsertUser, IInv, IdentitiesTypeOK, UserRowType
  <2>3. \A v \in Users : \/ user'[v] = user[v]
                         \/ /\ user[v] = NoUserRow \/ user[v].row = "pending"
                            /\ user'[v] = NoUserRow \/ user'[v].row = "pending"
    BY <1>1, <2>2 DEF InsertUser, IInv, IdentitiesTypeOK
  <2> QED
    BY <2>1, <2>3, QuietStep
<1>2. ASSUME NEW i \in UserIdentities, InsertIdentity(r, i)
      PROVE  CommittedUser' = CommittedUser /\ CommittedCredentials' = CommittedCredentials
  <2>1. CASE RollbackRows(r)
    BY <1>2, <2>1, RollbackIsQuiet DEF InsertIdentity
  <2>2. CASE ~RollbackRows(r)
    <3>1. /\ UNCHANGED user
          /\ identity[i].row = "absent"
          /\ identity' = [identity EXCEPT ![i] =
                [row |-> "pending", app |-> request[r].app, user |-> request[r].user,
                 subject |-> request[r].subject]]
      BY <1>2, <2>2 DEF InsertIdentity
    <3>2. \A j \in UserIdentities : \/ identity'[j] = identity[j]
                                    \/ identity[j].row # "active" /\ identity'[j].row # "active"
      BY <3>1 DEF IInv, IdentitiesTypeOK
    <3> QED
      BY <3>1, <3>2, QuietStep
  <2> QED
    BY <2>1, <2>2
<1> QED
  BY <1>1, <1>2 DEF Insertion

LEMMA StepImplements ==
    ASSUME IInv, [IdentitiesNext]_idVars
    PROVE  [A!AccountsNext]_(A!accountVars)
<1> DEFINE Quiet == CommittedUser' = CommittedUser /\ CommittedCredentials' = CommittedCredentials
<1>1. user' = user /\ identity' = identity => Quiet
  BY DEF CommittedUser, CommittedCredentials
<1>2. ASSUME NEW r \in Requests, NEW a \in Apps, AuthRequest(r, a) PROVE Quiet
  BY <1>1, <1>2 DEF AuthRequest, Register, Login, Apple
<1>3. ASSUME NEW r \in Requests, NEW u \in Users, UserRequest(r, u)
      PROVE  Quiet \/ A!AccountsNext
  <2>1. CASE \E a \in Apps, e \in Emails : CreateUser(r, u, a, e)
    BY <2>1, CreateUserImplements DEF A!AccountsNext
  <2>2. CASE \E e \in Emails \cup {NoName} : UpdateUserRead(r, u, e)
    BY <1>1, <2>2 DEF UpdateUserRead
  <2>3. CASE DeleteUser(r, u)
    BY <2>3, DeleteUserImplements DEF A!AccountsNext
  <2> QED
    BY <1>3, <2>1, <2>2, <2>3 DEF UserRequest
<1>4. ASSUME NEW r \in Requests, Lookup(r) \/ EndRequest(r) \/ UpdateUserLock(r) PROVE Quiet
  BY <1>1, <1>4 DEF Lookup, GetUser, FindEmail, EndRequest, UpdateUserLock
<1>5. ASSUME NEW r \in Requests, HangUp(r) \/ Deadlock(r) PROVE Quiet
  BY <1>5, RollbackIsQuiet, RingMembersWait DEF HangUp, Deadlock
<1>6. ASSUME UNCHANGED idVars PROVE Quiet
  BY <1>1, <1>6 DEF idVars
<1>7. ASSUME NEW r \in Requests, Insertion(r) PROVE Quiet
  BY <1>7, InsertionIsQuiet
<1>8. ASSUME NEW r \in Requests, UpdateUserWrite(r) PROVE Quiet \/ A!AccountsNext
  BY <1>8, UpdateUserWriteImplements
<1>9. ASSUME NEW r \in Requests, Commit(r) PROVE A!AccountsNext
  BY <1>9, CommitImplements
<1>10. Quiet \/ A!AccountsNext
  <2> HIDE DEF Quiet
  <2> QED
    BY <1>2, <1>3, <1>4, <1>5, <1>6, <1>7, <1>8, <1>9 DEF IdentitiesNext, UserUpdate
<1> QED
  BY <1>10 DEF A!accountVars

\* Seen through committed rows, sign-up, sign-in and /users are Accounts.
THEOREM IdentitiesImplementAccounts == IdentitiesSpec => KeepsAccounts
<1>1. IdentitiesInit => A!AccountsInit
  BY DEF IdentitiesInit, A!AccountsInit, CommittedUser, CommittedCredentials, A!NoAccount,
         NoUserRow, NoIdentityRow
<1>2. IInv /\ [IdentitiesNext]_idVars => [A!AccountsNext]_(A!accountVars)
  BY StepImplements
<1> QED
  BY <1>1, <1>2, Invariance, PTL DEF IdentitiesSpec, KeepsAccounts, A!AccountsSpec

=============================================================================
