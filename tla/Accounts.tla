------------------------------ MODULE Accounts ------------------------------
(***************************************************************************)
(* What sign-up and sign-in promise to an app, without requests, rows or   *)
(* transactions.  An account belongs to one app and, while it is active,   *)
(* no other active account of the app has its email.  A credential (an     *)
(* email with a password, or an Apple subject) opens one account of the    *)
(* app it was registered in, for ever.  A sign-up makes the account and    *)
(* its credential in one step.                                             *)
(***************************************************************************)
EXTENDS Tenancy

CONSTANTS
    Users,     \* ids of accounts
    Emails, Subjects

VARIABLES
    account,    \* account[u]: its state, app and email
    credential  \* the credentials in force: which account each one opens

accountVars == <<account, credential>>

NoAccount == [row |-> "absent", app |-> NoApp, email |-> NoName]

Available(a, e) ==
    \A u \in Users : account[u].row = "active" => <<account[u].app, account[u].email>> # <<a, e>>

Unused(a, c) == \A d \in credential : <<d.app, d.subject>> # <<a, c>>

AccountsInit ==
    /\ account = [u \in Users |-> NoAccount]
    /\ credential = {}

Open(u, a, e) ==
    /\ account[u] = NoAccount
    /\ Available(a, e)
    /\ account' = [account EXCEPT ![u] = [row |-> "active", app |-> a, email |-> e]]

Attach(u, a, c) ==
    /\ Unused(a, c)
    /\ credential' = credential \cup {[app |-> a, subject |-> c, user |-> u]}

AddAccount(u, a, e) == Open(u, a, e) /\ UNCHANGED credential

\* With a password for the account's email (c = e), or an Apple subject.
SignUp(u, a, e, c) == Open(u, a, e) /\ Attach(u, a, c)

\* Only an Apple subject is added to an account that exists, or that was closed
\* while the credential was on its way.
AddCredential(u, s) ==
    /\ account[u] # NoAccount
    /\ Attach(u, account[u].app, s)
    /\ UNCHANGED account

ChangeEmail(u, e) ==
    /\ account[u].row = "active"
    /\ Available(account[u].app, e)
    /\ account' = [account EXCEPT ![u].email = e]
    /\ UNCHANGED credential

CloseAccount(u) ==
    /\ account[u].row = "active"
    /\ account' = [account EXCEPT ![u].row = "gone"]
    /\ UNCHANGED credential

AccountsNext == \E u \in Users :
    \/ \E a \in Apps, e \in Emails : AddAccount(u, a, e)
    \/ \E a \in Apps, e \in Emails : \E c \in {e} \cup Subjects : SignUp(u, a, e, c)
    \/ \E s \in Subjects : AddCredential(u, s)
    \/ \E e \in Emails : ChangeEmail(u, e)
    \/ CloseAccount(u)

AccountsSpec == AccountsInit /\ [][AccountsNext]_accountVars

=============================================================================
