# OpenAura: a TLA+ verification project

OpenAura is a multi-tenant RBAC service: a Go HTTP server in front of one PostgreSQL
database. Client backends manage users, tenants, roles, resources and actions through a REST
API, connect them with role assignments and permissions, and ask `POST /access/check` whether a
user may do something. End users register, log in and sign in with Apple. Operators manage apps
and keys. All state is in the database; a server keeps nothing between requests except a
connection pool and a cache of Apple's public keys. The interesting behaviour is what happens
when many handlers, each issuing several SQL statements, most of them outside a transaction,
interleave on the same tables, while keys are revoked, apps deleted and servers restarted.

## 1. Inventory

| Part | Source (`src/...`) | State | Operations | Talks to | What makes it correct | Module |
|---|---|---|---|---|---|---|
| Entity CRUD | `internal/{user,tenant,role,resource,action}` | five tables with `app_id`, `deleted_at`, a name | create, patch, soft-delete, get, list | PostgreSQL | names unambiguous per app; deletion final; no app touches another's rows | `Entities` |
| Role assignments | `internal/roleassignments` | `roleassignments` (user, role, tenant) | create, patch any column, soft-delete | users, roles, tenants tables | edges stay in one app; one active row per edge; a patch changes what it says | `RoleAssignments` |
| Permissions | `internal/permission` | `permissions` (role, resource, action) | create, soft-delete under a role | roles, resources, actions tables | as above | `Permissions` |
| Access check | `internal/access` | none | one join over all seven tables | all of the above | the documented decision rule; nothing grants silently | `Access` |
| Apps | `internal/app` | `apps` | create, patch, soft-delete by admins | keys, every other table | a deleted app is locked out | `Keys` |
| App and admin keys, bootstrap | `internal/apikey`, `internal/adminapikey`, `cmd/server` | `api_keys`, `admin_api_keys`, instances | create, revoke, ensure the bootstrap key at start-up | apps | a revoked key lets nobody in, whatever restarts; a start-up is idempotent | `Keys` |
| Middleware and routing | `internal/auth`, `internal/httpserver` | the app id in a request's context | resolve a key, hand the request to its handler | keys, every handler | a handler serves the app of the key | `Keys`, `Service` |
| End-user sign-in | `internal/userauth`, `internal/useridentity`, V3 migration | `user_identities`, open transactions | register, login, Sign in with Apple | users table, key cache, pool | one account per email and per Apple subject; all or nothing; no token for a deleted user; every sign-in ends | `Identities`, abstractly `Accounts` |
| Connection pool | `internal/db`, pgxpool | free connections, queue | acquire, release, Begin, Commit, Rollback | every handler | no connection is lost; no request waits for ever | `ConnPool` |
| Apple key cache | `internal/userauth/apple_jwks.go` | keys, fetch time, mutex | look up, fetch, store | Apple's endpoint, sign-in | bounded staleness; every verification ends | `Jwks` |
| Lists | every `repository.List`, `internal/httpx` | none | one page by LIMIT and OFFSET | PostgreSQL | a walk through the pages misses and repeats no row for which there is no reason | `Listing` |
| Schema | `migrations/V1`, `V3` | triggers, partial unique indexes | run by every write | every repository | | the constraint operators of the modules above |
| Errors | `internal/store` | none | map errors to statuses | every handler | a status tells the truth | the statuses in the slots |
| JWT | `internal/userauth/jwt.go` | none | issue, parse | sign-in | names the right user | `Identities` (whom a token names) |

What is hard about this code, in short (`PROJECT.json` lists every case at its line): handlers
check and write in separate statements; PATCH is read-merge-write of all columns; UPDATEs that
join a second table meet concurrent changes of the join column; soft deletes leave edges, keys
and identities behind; keys and apps are checked once per request; INSERTs wait for rows of
open transactions; a transaction takes a second connection from the same pool; the key cache is
filled by responses in any order; instances start side by side.

## 2. Modules and how they correspond to the code

    Tenancy               apps and request slots, shared by the modules of the service
      Entities            tables and handlers of users, tenants, roles, resources, actions
        RoleAssignments   EXTENDS Entities
        Permissions       EXTENDS Entities
          Access          EXTENDS both: Init, Next, Spec, Check, the properties;
                          implements AppGraph for each app (INSTANCE Graph)
      AppGraph            what one app gets: the abstract specification
      Keys                apps, keys, middleware, instances
        Service           EXTENDS Access and Keys: the handlers behind the middleware
      Accounts            what sign-up and sign-in promise: the abstract specification
        Identities        register, login, Apple, /users; implements Accounts (INSTANCE A)
    ConnPool              the connection pool under every kind of handler
    Jwks                  the cache of Apple's keys
    Listing               walks through a list endpoint

Each `MC<module>` adds symmetry for TLC, each `<module>Proofs` holds theorems for TLAPS
(`AppGraphProofs` extends `AccessProofs`; `ServiceProofs` extends it and `KeysProofs`).

In every module one action is one SQL statement (or one call to Apple, or one hold of the mutex)
with the Go code around it up to the next one. A request can be abandoned between any two: the
client hangs up, a statement fails, or the server stops. Reads that no later statement relies on
are operators, not actions.

### The RBAC graph: `Entities`, `RoleAssignments`, `Permissions`, `Access`
**Tables.** `appOf[x]`, `name[x]` and `x \in live` are the `app_id` column, the name (users.email,
resources.name, actions.name, `metadata->>'name'` of a role) and `deleted_at IS NULL` of row `x`;
`NoApp` marks ids not issued yet. The code generates UUIDv7 ids and never removes a row, so an
id is used once. `assign`/`liveAssign` and `perm`/`livePerm` are the edge tables.

**Requests.** `req[r]` is a request slot: a goroutine serving one HTTP request after another. When
free it holds the status it answered last; between two statements of a handler it holds the Go
locals that survive (`Renaming`, `Assigning`, `Repointing`, `Unassigning`, `Granting`). One action is
one SQL statement with the code around it. Single-statement handlers are one action; create of
an edge is two (`requireEntitiesInApp`, then INSERT); PATCH of a user, resource or action is two
(`GetByID`, then UPDATE of all columns); PATCH of an assignment is `GetByID`,
`requireEntitiesInApp`, UPDATE. `Abort` ends a request between two statements: the client hangs
up, a statement fails or the server stops. Nothing survives it, as in the code. An answer that
is lost after its statement committed is not told apart from one that arrives: no property is
about what a client believes.

**PostgreSQL at READ COMMITTED.** A statement on one table that waits for a row lock re-tests its
WHERE clause on the newest row, so it acts as one atomic step. What it holds while it waits can only
matter when two statements wait for each other: PostgreSQL then fails one of them with a 500, which in
these modules is an `Abort`; `Identities` has the waits themselves. The UPDATEs of `roleassignments`
also join `tenants`, and PostgreSQL re-tests the newest row against the tenant matched before the
wait: these are two steps, `...Match` (the snapshot; the slot keeps the tenant) and `...Write` (the
row is locked; `StillMatches`). This is the documented behaviour of EvalPlanQual, and what the run
`false_404` rests on. The UPDATE of `permissions` joins `roles` too, but a permission never changes
its role, so it stays one step. A violated unique index is a 409, a violated trigger or foreign
key a 400 (`AssignmentWriteStatus`, `PermissionWriteStatus`; store/errors.go).

**Inputs.** Any id of the right table, of any app, existing or not; normalized names. Requests
refused before any SQL (`BadRequest`) change nothing. Reads (`Get`, `List`, `access/check`) change
nothing and are operators (`InApp`, `VisibleAssignment`, `VisiblePermission`, `Check`). The app of a
request is any app: the one its key resolved to, as `Service` shows.

**What one app gets.** `AppGraph` has one app, no requests and no statements: the rows the app has
had with their names, its assignments and permissions, and `allowed`, the questions answered with
yes. `AddRow`, `RenameRow`, `DeleteRow`, `Assign`, `Unassign`, `Grant` and `Revoke` are one step each, with
what the schema guarantees as their guards; `Decisions` reads what is allowed off the graph, by the
documented rule, with no app in it. `Access` implements one `AppGraph` for every app: the refinement
mapping `Graph(a)` takes the rows whose `app_id` is `a`, the edges whose tenant or role is one of them
(the column the handlers join through), and for `allowed` what `Check` answers. `AppGraph` is as weak as
the code: `Assign` and `Grant` ask that the ends exist in the app, not that they are active, since they
may be deleted between the check and the INSERT.

### Keys and the middleware: `Keys`, `Service`

`appRow`, `keyRow` and `adminRow` say whether a row of `apps`, `api_keys`, `admin_api_keys` is absent,
active or gone (`deleted_at`, `revoked_at`). A key is its hash: generated keys are never repeated
and the bootstrap key (`Bootstrap`) comes from the configuration. `session[r]` is what the context of
the request in slot `r` says: who was let in, by which key, for which app, on which instance, and
how far the handler is. `ResolveAppKey` and `ResolveAdminKey` are the middleware; `CreateApp`,
`UpdateAppRead`/`UpdateAppWrite`, `DeleteApp`, `RequireActiveApp`/`InsertAppKey`, `RevokeAppKey`,
`CreateAdminKey`, `RevokeAdminKey` the handlers, statement by statement; `Serve` is a statement of any
other handler. `server[i]` is an instance: `LookUpBootstrapKey` and `InsertBootstrapKey` are the two
statements of `EnsureBootstrapKey`, after which `log.Fatalf` ends the process (`"exited"`) or it is up;
`Stop` ends it at any point. A statement that a stopped server had already sent may still take
effect, once (`Proceed` and the step `"lost"`).

`Service` conjoins the two: slot `r` is one goroutine, `session[r]` its context and `req[r]` its locals.
`Dispatch` is `RequireAppID` and the handler's first statement for the app of the context,
`NextStatement` any later one, `Finish` the answer or the end without one. Every step of `Service` is
a step of `Keys` and, on the graph, of `Access` or none; both facts are proved.

### Sign-up and sign-in: `Identities` and `Accounts`

`user[u]` and `identity[i]` are the rows. A row inserted by an open transaction is `"pending"`: nobody
else sees it, but an INSERT or UPDATE that would collide with it in a partial unique index is not
enabled until it is committed or rolled back, and then looks at the index again. An UPDATE of
`users.email` is two actions: `UpdateUserLock` finds its row active and locks it, `UpdateUserWrite` meets the
index while it holds the row, and others wait meanwhile for the row and for the email it may give
away (`InDoubt`). Who holds what, who waits for what, and which waits close a ring are operators
(`HoldsUser`, `AwaitedUsers`, `WaitsFor`, `InRing`). Two PATCHes that swap emails do wait for each
other; `Deadlock` is PostgreSQL failing one of them with 40P01, which `MapWriteError` does not know: 500.
A credential is
a provider and a subject in one value: an email for `password`, a subject for `apple`.
`Register` starts the transaction of `/auth/register`; `InsertUser`, `InsertIdentity`, `Commit` are its
statements, `RollbackRows` the deferred `Rollback`. `Login` is one join. `Apple` starts `/auth/apple` after
the token is verified (`GetByProviderSubject`); `GetUser` and `FindEmail` are its look-ups, the second
through the pool while its transaction is open, and it goes on with `InsertUser` or `InsertIdentity`.
`CreateUser`, `UpdateUserRead` and the UPDATE's two halves, `DeleteUser` are `/users` on the same rows. In these slots an
answered request keeps its status and the user its token names until `EndRequest`, so that
properties can speak of the answer. `gone` is a history field.

`Accounts` knows neither requests nor rows: accounts of apps, and credentials each of which opens
one account for ever. `SignUp` makes both in one step. `Identities` implements it under the mapping
`CommittedUser`, `CommittedCredentials` that hides pending rows. `Accounts` is as weak as the code: closing
an account leaves its credentials in force (`AddCredential` also reaches a closed account, because
`FindEmail` and `InsertIdentity` are two statements), and changing its email leaves them behind.

### The pool: `ConnPool`

`pool` is the set of free connections, `queue` the requests that wait, first come first served as
pgxpool's semaphore does, and `handler[r]` the kind of handler, the call it is at and the connections
it holds. The calls are sequences: a plain handler uses the pool for the key, a read and a write;
register opens a transaction; a first Apple sign-in opens one and then uses the pool again
(`GetByEmail`) before it commits. `Fail` and `HangUp` return early with the deferred `Rollback`.
`AppleRequests` bounds how many first Apple sign-ins run at a time; nothing in the code does.

### Apple's keys: `Jwks`

`cache` is the stored set and its age, `verifier[v]` one call of `Verify`. `LookUp` and `LookAgain` are the two
holds of the read lock around `refreshKeys`; `Serve` is Apple's answer with the keys of that moment,
`Store` the write under the lock; `FetchFails` and `TimeOut` end a fetch. `Publish` and `Withdraw` are
Apple's. Time is counted in ticks; `withdrawnFor[k]` is history: how long key `k` has
been absent from Apple's set.

### Lists: `Listing`

One list of one app. `BeginInsert` takes `created_at` (the start of the inserting transaction), `CommitInsert`
makes the row visible, possibly after newer ones. `List` is one page: any order of the active rows
that ORDER BY allows (`Orders`), cut by the clamped limit and offset. A client walks on from as many
rows as it has.

**Faulty variants.** An operator introduced as "a faulty variant" is no part of the
specification: each is a plausible bug, put in place of the operator after it to see that a
property notices (`PROJECT.json`, `mutants`).

## 3. Properties

### That hold

Of the graph:

* `TypeOK`: the shape of tables and slots.
* `EdgesInOneApp`: no edge, deleted ones included, joins rows of two apps, although the check and
  the write are separate statements and rows are deleted in between.
* `CheckIsPolicy`: the join of `Check` is the documented decision rule; because of `EdgesInOneApp` the
  app of the user stands for the app of all seven rows.
* `NoTwinEdges`: no two active rows carry one edge, so one DELETE takes a right away.
* `NamesDenoteOneRow`: `Check` goes by name; a name is never about two active rows.
* `OtherAppsUnaffected`: what an app sees never changes in a step that serves another.
* `DeletedIsFinal`: no handler that read a row before its deletion writes it afterwards.
* `NoSilentGrant`: a denial turns into an approval only in a step that writes an edge of that very
  question or gives a row the name asked for. Deleting, creating or aborting never grants.
* `AppsHaveTheirOwnGraph`: the refinement. It holds what the others say one by one: for each app
  every step is one whole operation on its own graph or nothing at all, and the answers of `Check`
  are always those of that graph, whatever handlers of other apps do between two statements.

Of keys and the service:

* `KeysTypeOK`: rows and sessions keep their shape; a handler about to write knows its app.
* `DeletedAppsFallSilent`: deleting an app revokes none of its keys, and a handler that checked the
  app before may still insert one; yet when those are done, nobody is let in for the app and its
  keys and its name never change.
* `StartupEnsuresTheKey`: of instances that start together on a new database, one may exit because
  another's INSERT was faster; the key is there then, and still when the instance is started again.
* `RevocationIsFinal`: a revoked key lets no later request in. The bootstrap key is included,
  whatever instances start, stop or restart: the look-up finds revoked rows too, so a restart
  reports it ensured and does not restore it.
* `KeysAreManagedByTheirApp`: a key changes only in a request that works for the key's app.
* `HandlersServeTheirSession`: between any two statements a handler serves the app its key was
  resolved to.
* `ChangesNeedAKeyOfTheApp`: rows, edges and decisions of an app change only in a step in which exactly
  one request moves (`Moving`: its slot or its session), and a key of that app let this request in. That
  another request with such a key happens to be in progress is not enough.
* `DeletedAppsAreFrozen`: once the requests let in before are done, nobody is let in for a deleted
  app and nothing of it changes, although no row, edge or key was deleted with it.

Of sign-up and sign-in:

* `IdentitiesTypeOK`; `NoTwinAccounts`: a request that waited for another's transaction looks again.
* `TokensAreDue`: no token names a user of another app, or one deleted before the request came in.
* `OnlyDeletedUsersFail`: the 500 of the finding `KnownSubjectsSignIn` is confined to deleted users; an
  identity never leads to a user of another app or to one whose transaction was rolled back, and
  PostgreSQL never breaks a deadlock at an Apple sign-in's expense.
* `KeepsAccounts`: the refinement. It holds all of this at once: a transaction's rows appear
  together or not at all, an identity is attached to a user of its own app (which no constraint of
  the schema demands), and no credential ever changes hands.
* `RowWaitsEnd`: a row that makes a statement wait is held by a request still at work, however others
  ended; and a request in a ring of waits is a PATCH of a user that holds its row. Such rings exist (two
  PATCHes that swap emails), but no sign-up or sign-in is ever drawn into one: each takes its `users` row
  before its `user_identities` row, and `/auth/apple` looks the email up without waiting.
* `SignInsEnd`: every request is answered, however requests wait for each other's rows, rings included.

Of pool, cache and lists:

* `PoolTypeOK`; `NoConnIsLost`: every connection is in the pool or held once by one running handler.
* `NeverJammed`: with fewer first Apple sign-ins than connections somebody can always go on;
  `RequestsEnd`: then every request ends.
* `JwksTypeOK` (no verification outlives its timeout: what the guard of `Tick` says of the HTTP client); `StaleKeysExpire`: a key withdrawn longer ago
  than the cache's lifetime and one timeout signs nobody in, in whatever order fetches end.
* `VerificationsEnd`: every verification ends, whether Apple answers or not.
* `ListingTypeOK`; `WalksAreComplete`: a walk no deletion overlapped lists every row that was there all
  along; `WalksListOnce`: one no insertion overlapped lists none twice. The conditions are needed
  (pages by offset shift), and so is the third, `NoTies`: rows created at one instant have no order
  between two queries.

### That documentation states and the code breaks

Each has a run whose counterexample is a behaviour of the code, and an entry under `findings`.

| Property | What is said | What happens |
|---|---|---|
| `PatchWritesItsFields` | "Fields to update" (of PATCH) | two PATCHes that overlap undo each other: each writes back the columns it had read. A PATCH of a resource's metadata reverts a rename in the same way, and with it decisions of `Check` |
| `NotFoundIsGone` | 404: "Unknown or soft-deleted resource" | a DELETE of an assignment whose tenant is being patched answers 404; the right stays in place |
| `KnownSubjectsSignIn` | "If an `apple` identity already exists ..., issue a JWT" | the user was deleted, its identity was not: 500 at every later sign-in of the subject |
| `AppleSignInsAreAnswered` | "Else create a user + `apple` identity (`201`)" | as many first Apple sign-ins as connections wait for each other for ever |

The models contain more behaviours that documentation does not lead one to expect. They are
part of what the passing runs explore, and no property forbids them:

* Two first sign-ins of one Apple subject at a time: the later one is answered 409 instead of 200
  or 201 (`InsertUser` or `InsertIdentity` after the wait). `NoTwinAccounts` is what the index saves.
* A registered user is deleted: the email cannot be registered again (409, "Email already registered
  in the app"), because its password identity is active (`DeleteUser`, `InsertIdentity`).
* A user's email is changed: login still takes the old one and not the new one (`UpdateUserWrite`
  leaves `identity` alone). `Accounts` says so: `ChangeEmail` leaves credentials behind.
* Of two instances that start on a new database one exits (`InsertBootstrapKey`).
* An older answer of Apple, stored between a verification's store and its second look-up, makes it
  refuse a token whose key Apple publishes ("unknown kid" in `LookAgain`).
* A `limit` above 100 becomes 50, and the tests agree; the docs say "Clamped to 1–100", the comment of the
  function "caps at 100" (`ClampLimit`).
* Two PATCHes that swap the emails of two users at a time: one of them is answered 500 (`Deadlock`),
  where one after the other they would both be answered 409.

## 4. Runs

All runs are exhaustive on their instance (`service` within its state constraint). Symmetry is used over
ids that are interchangeable, never for liveness. Deadlock is checked in all of them: in every state a
client may still send, give up or restart something, so a stop would be an error. (A jammed pool is no deadlock of the
model, because clients may hang up; `NeverJammed` is what says it.)

| Run | Instance | Checks | Result |
|---|---|---|---|
| `assign` | 1 app, 2 users with 2 emails, 1 role, 2 tenants, 2 assignments, 2 requests; PATCH of the tenant | `NoTwinEdges`, `NamesDenoteOneRow`, `DeletedIsFinal` | hold |
| `isolation` | 2 apps, 2 roles and one row of each other table, one name, 2 requests; PATCH of the role | `TypeOK`, `EdgesInOneApp`, `CheckIsPolicy`, `OtherAppsUnaffected`, `NoSilentGrant`, `AppsHaveTheirOwnGraph` | hold |
| `keys` | 2 apps, 2 app keys, 2 admin keys (one the bootstrap key), 2 servers, 2 requests | `KeysTypeOK`, `StartupEnsuresTheKey`, `DeletedAppsFallSilent`, `RevocationIsFinal`, `KeysAreManagedByTheirApp` | hold |
| `service` | 2 apps, 1 user, 1 tenant, 1 role, 1 assignment, 2 app keys, 1 admin key, 1 server, 2 requests; at most 2 deletions | `HandlersServeTheirSession`, `ChangesNeedAKeyOfTheApp`, `DeletedAppsAreFrozen` | hold |
| `signup` | 1 app, 2 users, 2 identities, 2 emails, 1 subject, 2 requests, fair | `IdentitiesTypeOK`, `NoTwinAccounts`, `TokensAreDue`, `OnlyDeletedUsersFail`, `RowWaitsEnd`, `KeepsAccounts`, `SignInsEnd` | hold |
| `pool` | 3 requests, 1 of them Apple's, 2 connections, fair | `PoolTypeOK`, `NoConnIsLost`, `NeverJammed`, `RequestsEnd` | hold |
| `jwks` | 1 key, 2 verifications, TTL 2, timeout 1, fair | `JwksTypeOK`, `StaleKeysExpire`, `VerificationsEnd` | hold |
| `listing` | 4 rows, default limit 1, maximum 2 | `ListingTypeOK`, `WalksAreComplete`, `WalksListOnce` | hold |
| `lost_update`, `false_404` | 1 app, 1 user, 2 roles, 2 tenants, 2 assignments, 2 requests; PATCH of role or tenant | `PatchWritesItsFields`; `NotFoundIsGone` | violated |
| `apple_500` | 1 app, 2 users, 2 identities, 1 email, 1 subject, 1 request | `KnownSubjectsSignIn` | violated |
| `pool_jam` | 2 requests, both Apple's, 2 connections, fair | `AppleSignInsAreAnswered` | violated |

**Bounds and why they are enough.** Every constant set is a bound. A conflict of this code is
between two requests about one row, edge, email, key or cache, hence two slots and two ids of the
table in question; what crosses apps needs two apps and one foreign row. `PatchFields` bounds which
columns a PATCH names: one column at a time is what makes two PATCHes disjoint. The named bounds:

* `isolation` has one row of each table but two roles, so that a PATCH moves the assignment from one
  role to another, of the same app or not; the theorem `GrantsAreExplicit` is about all the rest. Its one
  name serves users, resources and actions alike, which never compare names with each other. Its
  `VIEW` (`StatusesHidden`) identifies states that differ in the statuses of free slots alone: no
  handler reads them and no property of the run does.
* `service` has edges in two apps but no permissions, hence no decisions, and its state constraint
  `FewTombstones` keeps it to two deletions or revocations of apps, app keys, users, tenants and roles,
  in any combination and order: an app and one thing more that it owned, or two of one kind.
  `ChangesTakeAKey` and `DeletedAppsStayFrozen` are about any number of apps and deletions and all tables.
  Its `VIEW` (`DeadDataHidden`) also identifies what a handler whose server is gone would have done next,
  because it never does. A handler that starts moves its session and one that goes on leaves its slot or
  frees it, so `Moving` does not depend on a status.
* `signup` has one app: what crosses apps (`TokensAreDue`, `KeepsAccounts`) is a theorem. Two users and
  two requests are what an email swap needs.
* Ids run out on a small instance. A create with no id left waits until it is abandoned, which hides
  no behaviour of the rows that exist. In `Identities` a waiting INSERT must not be mistaken for a lack
  of ids, so `Room` lets a request in only while there are more ids than requests at work. With
  two ids and two requests, two sign-ups run beside each other from the start, and one runs beside a
  PATCH or DELETE of a user with a past.
* `Expired` and `LongAgo` (`Jwks`): a time past them is only known to be longer, which is all that the
  comparisons in the code and the properties ask. One tick of timeout and two of lifetime put a
  fetch, a store and an expiry in every order; one key that comes and goes gives two different sets
  to overtake each other.
* `Limits`, `Offsets`, `Times` (`Listing`): below, at and above each clamp, and one instant per row and one
  more. Four rows give walks of several pages with rows on both sides of an insertion.
* The pool needs a request beyond the connections to have a queue, and Apple sign-ins one fewer than
  connections to be at the edge of the jam that `pool_jam` shows.

The theorems below remove all of these bounds for what they state.

**Fairness.** Nothing is assumed of clients, of Apple, or of failures: nobody has to send, hang up,
answer or fail. What is assumed:

* `Identities`: weak fairness of look-ups, COMMIT and the answer, because the database answers and the
  goroutine runs, and of `Deadlock`, because PostgreSQL looks for rings after `deadlock_timeout`; strong
  fairness of an INSERT or UPDATE, which PostgreSQL wakes when the transaction it waits for ends, while
  another may take the row first.
* `ConnPool`: weak fairness of each handler's work, and of handing out a connection. The queue itself
  is in the model, so no strong fairness is needed: pgxpool serves waiters in order.
* `Jwks`: weak fairness of the handler's own steps and of `TimeOut` (the HTTP client has a timeout of ten
  seconds). Strong fairness of `Tick`: time passes, although `Tick` is disabled between a store and the
  look-up that follows it.

## 5. Proofs

All theorems hold for every value of the constants, from the assumptions declared with them:
null values are no ids, and id sets that must differ are disjoint (`EntityAssumption`,
`AssignmentAssumption`, `PermissionAssumption`, `KeyAssumption`, `IdentityAssumption`); connections and Apple
slots are finite sets (`PoolAssumption`); lifetime and timeout are natural numbers (`JwksAssumption`);
the rows of a list are finitely many and the default limit lies between 1 and the maximum
(`ListingAssumption`).

| Module | Theorem | Statement |
|---|---|---|
| `AccessProofs` | `TypeCorrect` | `Spec => []TypeOK` |
| | `EdgesStayInOneApp` | `Spec => []EdgesInOneApp` |
| | `CheckDecidesPolicy` | `Spec => []CheckIsPolicy` |
| | `EdgesHaveNoTwin` | `Spec => []NoTwinEdges` |
| | `NamesAreUnambiguous` | `Spec => []NamesDenoteOneRow` |
| | `DeletionIsFinal` | `Spec => DeletedIsFinal` |
| | `AppsAreIsolated` | `Spec => OtherAppsUnaffected` |
| | `GrantsAreExplicit` | `Spec => NoSilentGrant` |
| `AppGraphProofs` | `AppsHaveGraphs` | `Spec => AppsHaveTheirOwnGraph` |
| `KeysProofs` | `KeysTypeCorrect` | `KeysSpec => []KeysTypeOK` |
| | `DeletedAppsAreSilent` | `KeysSpec => DeletedAppsFallSilent` |
| | `StartupLeavesTheKey` | `KeysSpec => []StartupEnsuresTheKey` |
| | `RevokedKeysStayOut` | `KeysSpec => RevocationIsFinal` |
| | `KeysStayWithTheirApp` | `KeysSpec => KeysAreManagedByTheirApp` |
| `ServiceProofs` | `ServiceImplementsParts` | `ServiceSpec => Spec /\ KeysSpec` |
| | `HandlersServeSessions` | `ServiceSpec => []HandlersServeTheirSession` |
| | `ChangesTakeAKey` | `ServiceSpec => ChangesNeedAKeyOfTheApp` |
| | `DeletedAppsStayFrozen` | `ServiceSpec => DeletedAppsAreFrozen` |
| | `ServiceKeepsPromises` | `ServiceSpec =>` all that is above of `Access` and `Keys` |
| `IdentitiesProofs` | `IdentitiesTypeCorrect` | `IdentitiesSpec => []IdentitiesTypeOK` |
| | `AccountsHaveNoTwin` | `IdentitiesSpec => []NoTwinAccounts` |
| | `TokensAreAlwaysDue` | `IdentitiesSpec => []TokensAreDue` |
| | `FailuresAreOfTheDeleted` | `IdentitiesSpec => []OnlyDeletedUsersFail` |
| | `RowWaitsAlwaysEnd` | `IdentitiesSpec => []RowWaitsEnd` |
| | `IdentitiesImplementAccounts` | `IdentitiesSpec => KeepsAccounts` |
| `ConnPoolProofs` | `PoolTypeCorrect` | `PoolSpec => []PoolTypeOK` |
| | `ConnsAreConserved` | `PoolSpec => []NoConnIsLost` |
| | `LargePoolsDoNotJam` | `PoolSpec => []NeverJammed` |
| `JwksProofs` | `JwksTypeCorrect` | `JwksSpec => []JwksTypeOK` |
| | `StaleKeysAreExpired` | `JwksSpec => StaleKeysExpire` |
| `ListingProofs` | `ListingTypeCorrect` | `ListingSpec => []ListingTypeOK` |
| | `WalksMissNothing` | `ListingSpec => []WalksAreComplete` |
| | `WalksRepeatNothing` | `ListingSpec => []WalksListOnce` |

**The graph.** The argument has three layers.

1. The inductive invariant is `IInv`: `TypeOK`, and `SlotsInApp`, which says that what a handler
   remembers after its checks (the edge it will write, the tenant its UPDATE matched) belongs to
   the app it serves. `TypeOK` alone would be inductive, but it does not tell for whom the second
   statement of a request writes. `SlotsInApp` survives every interleaving because a row, deleted or
   not, never changes its app (`AppIsFixed`).
2. `StepOfWrites` says what a step serving app `a` may do to the tables: insert, rewrite or
   soft-delete at most one row of one table, of app `a`, within the constraints of the schema
   (`OneTableWritten(a)`). It is proved handler by handler, and it is the only place where handlers
   appear. `StepServesApp` adds that every step serves some app.
3. Every property follows from those kinds of write, relative to `IInv`. `EdgesInOneApp`: both INSERT
   and UPDATE of an edge meet the trigger, so it rests on the triggers and not on
   `requireEntitiesInApp`, whose answer may be out of date when the INSERT runs. `NoTwinEdges` and
   `NamesDenoteOneRow`: every write meets its unique index. `DeletedRowsFrozen`: every UPDATE
   re-tests `deleted_at`. `CheckIsPolicy` is a consequence of `TypeOK` and `EdgesInOneApp`, with no
   induction of its own. `OtherAppsUnaffected`: the rows, assignments and permissions of another app
   are kept one by one (`RowsOfOthersKept`, `AssignmentsOfOthersKept`, `PermissionsOfOthersKept`), hence
   the join of `Check` finds for it what it found before; this is the theorem that needs `SlotsInApp`.
   `NoSilentGrant`: a freshly inserted row is at the end of no edge, because by `EdgesInOneApp` every
   end of an edge already existed (`RowsGrantByName`), and a new approval through an old edge needs a
   new name.

**What one app gets.** `AppGraphProofs` starts from the same list of writes: each is shown to be an
operation of `AppGraph` on the app it serves (`RowOperation`, `AssignmentOperation`,
`PermissionOperation`) and to leave the graph of every other app as it is (`GraphOfOthersKept`). That a
new row brings no edge into the graph rests on `EdgesInOneApp` (`EdgesKeptByRows`). That `Check` answers
what the graph says (`DecisionsOfGraph`) needs no induction: it is proved from `TypeOK` in one state and
used in the next one as well. So a step is an operation of one app and a stutter for all others, which
is what `GraphStep` asks.

**Keys.** `KeysTypeOK` is inductive because it says of a session what its next write relies on. The
action properties follow from it step by step. For `DeletedAppsFallSilent` the predicate `Abandoned(a)` has to
reproduce itself: nobody at work for `a` can become so, since both resolvers join the active app
and `RequireActiveApp` looks at it (`SilentStep`).

**The service.** `ServiceImplementsParts` shows step by step that the composition takes nothing away
from its parts, so their theorems hold of it (`ServiceKeepsPromises` states them). What is new is the tie between slot and session:
`Bound(r)`, that a handler at work serves the app of its session, is kept by the session's
own steps because only they write it (`KeyRouteWritesItsSession`, `ServeKeepsSession`) and by the steps of
the handler because no handler changes the app it serves (`ContinueServes`). `KeysOfSessions` adds that
a session names the app of its key. Then `StepOfWrites` of `AccessProofs` (a step serving `a` writes at
most one row, of `a`) says that the view of any other app is kept (`ViewOfOthersKept`). A step that
changes a table moves exactly one request, the one whose handler writes (`StatementsMoveTheirRequest`), so
the key `ChangesNeedAKeyOfTheApp` asks for is that of the acting request. With `SilentStep` of
`KeysProofs`, `DeletedAppsAreFrozen` follows.

**Sign-up and sign-in.** None of the properties is inductive. `IInv` adds what a request may rely on
while its transaction is open: the user it will attach an identity to is its own pending row, or a
committed row of its app (`TxUser`); its identity row is as it inserted it (`TxIdentity`); no two
transactions share a pending row (`Exclusive`), without which one's rollback would undo the other's
insert; and committed identities belong to committed users of their app (`Linked`). The refinement
then needs one lemma per statement: every step but `Commit` and the single statements of `/users` is a
stutter of `Accounts` (`QuietStep`); `Commit` is `SignUp` or `AddCredential`.

`OnlyDeletedUsersFail` needs that a 500 once given stays about a deleted row (`FailedForGone`, by `WhoFails`
and `GoneStays`); what `GetUser` finds is settled and of the request's app by `IInv`.

`RowWaitsEnd` needs one more invariant, `Held`: every pending row has a request in a transaction that
names it. Each step keeps it because the rows pending afterwards are those of the request that took the
step, or were pending before and not its own (`HeldKept`); a rollback or commit leaves none of its own.
Rows that `writeUser` has locked need no such invariant: only a waiting PATCH holds one, and it names it.
That a ring is one of PATCHes (`RingsOfPatches`) is an argument about who waits while it holds
something. In a ring everybody waits and is waited for, so everybody holds a row. Whoever waits with a row
in hand is a PATCH whose own row is locked, or a request about to insert an identity after its user; but
the latter waits only for a request that has inserted its identity and is about to commit, which waits for
nobody and so is on no ring. `OnlyDeletedUsersFail` uses the same lemma: the statement that `Deadlock`
ends is never one of an Apple sign-in.

**The pool.** `NoConnIsLost` is inductive with `Consistent` (what a handler holds is determined by its
call and its phase) and `QueueOfWaiting`. If the pool were jammed, every connection would be held by a
waiting handler; a waiting handler holds one only in a transaction, and only Apple's calls wait in one:
an injection from connections into Apple sign-ins, which are fewer.

**Apple's keys.** What a verification has fetched is no older than its wait (`FetchedRecently`), what is
stored no older than the store and one timeout (`StoredRecently`). A clock that nobody resets is what
makes both inductive, and the mutex is not needed for either.

**Lists.** A walk is a sequence put together page by page, and the proof avoids to reason about it as
one. Where a row stands in the order is counted without the order, as the number of active rows newer
than it (`Newer`). `PlaceInOrder` says that ORDER BY puts every row exactly there as long as no two rows
share an instant, so a page takes the rows at the places from its offset to its limit (`PageTaken`,
`PagePlaces`). An insertion only moves rows to later places (`CommitMovesBack`), a deletion only to
earlier ones (`DeleteMovesForward`), also when the row inserted is older than rows already there. The
inductive invariant `ListInv` is `Shape` with two conjuncts: `StillAhead`, that without a deletion every
row of the beginning that is not listed stands at or behind the place where the next page starts, and
`NeverAgain`, that without an insertion every listed row stands before it. When a page is the last one,
nothing stands behind it, and the two properties are what is left.

**What is only model-checked.** Liveness (`SignInsEnd`, `RequestsEnd`, `VerificationsEnd`) is out of the prover's
reach; `RowWaitsEnd` and `NeverJammed` are its safety halves, and they are proved. The properties that the
code breaks are settled by their counterexamples. Every other property a passing run checks is also
a theorem.

## 6. Assumptions about what is not in the repository

PostgreSQL: READ COMMITTED, row locks with re-evaluation, partial unique indexes that make an
INSERT or UPDATE wait for an uncommitted duplicate, an UPDATE that keeps its row locked while it waits, a
deadlock detector that ends one of the statements in a ring of waits (40P01) after `deadlock_timeout`,
`now()` at the start of the transaction. pgxpool: first
come first served; a cancelled context leaves the queue and releases; a closed connection rolls
back. net/http: one goroutine per request, a context cancelled when the client leaves, no deadline
of its own (the server sets `ReadHeaderTimeout` only). Apple: any set of keys, any answer, at any time.

## 7. Not modelled

* JSON and UUID parsing and requests refused before any SQL (they change nothing), the generated
  OpenAPI documents, logging, the check of the version header (stateless), `config.Load`: what of it
  matters is a constant (`Bootstrap`) or a choice (`StartWithoutBootstrap`).
* bcrypt and the signatures: whether a password or token is sound is a choice. `ParseToken` is called by
  tests only.
* Metadata other than a role's `name`; timestamps other than `created_at` in lists.
* The move of password hashes in V3: it runs once, before a server with this code does.
* `StaticAppleVerifier`, `apitest`, `dbtest` and other test doubles.
* That a client repeats a POST whose answer was lost: a second request of the model.

## 8. Plan

1. `Identities` and `Jwks` behind the middleware, as `Service` does for the graph: a token for a user of an app
   that is deleted while the sign-in runs.
2. `Identities` on `ConnPool`: a statement that waits for a row holds a connection meanwhile, so row waits
   and pool waits may close a cycle.
3. A theorem about each request of `ConnPool` in place of the pool as a whole: who can go on next.
