------------------------------ MODULE ConnPool ------------------------------
(***************************************************************************)
(* The pool of database connections that every handler shares, and what    *)
(* each kind of handler asks of it.  A statement sent to the pool acquires *)
(* a connection and gives it back; Begin acquires one and keeps it until   *)
(* Commit or Rollback.  /auth/apple looks the user up through the pool     *)
(* while its transaction keeps a connection.  The pool hands out           *)
(* connections in the order they were asked for, and a handler waits for   *)
(* one as long as its client does.                                         *)
(***************************************************************************)
EXTENDS Naturals, Sequences, FiniteSets

CONSTANTS
    Requests,       \* slots for requests in progress
    AppleRequests,  \* those that may serve a first Apple sign-in
    Conns,          \* the connections of the pool
    NoConn

ASSUME PoolAssumption ==
    /\ AppleRequests \subseteq Requests
    /\ NoConn \notin Conns
    /\ IsFiniteSet(Conns)
    /\ IsFiniteSet(AppleRequests)

VARIABLES
    pool,    \* the connections nobody holds
    queue,   \* the requests that wait for one, in the order they asked
    handler  \* handler[r]: its kind, the call it is at, the connections it holds

poolVars == <<pool, queue, handler>>

\* The calls of a handler: "use" (one statement through the pool), "begin",
\* "tx" (a statement on the transaction's connection) and "end".
PlainCalls    == <<"use", "use", "use">>            \* key, read, write
\* A faulty variant of RegisterCalls: its rows are inserted through the pool.
RegisterCallsOutsideTx == <<"use", "begin", "use", "end">>
RegisterCalls == <<"use", "begin", "tx", "end">>    \* key, Begin, CreateTx, Commit
AppleCalls    == <<"use", "use", "begin", "use", "tx", "end">>
                 \* key, GetByProviderSubject, Begin, GetByEmail, CreateTx, Commit

Calls(kind) == CASE kind = "plain"    -> PlainCalls
                 [] kind = "register" -> RegisterCalls
                 [] kind = "apple"    -> AppleCalls

NoHandler == [kind |-> "none", at |-> 0, phase |-> "idle", tx |-> NoConn, conn |-> NoConn]

Call(r) == Calls(handler[r].kind)[handler[r].at]
Holds(r) == {handler[r].tx, handler[r].conn} \ {NoConn}

PoolInit ==
    /\ pool = Conns
    /\ queue = <<>>
    /\ handler = [r \in Requests |-> NoHandler]

-----------------------------------------------------------------------------
Start(r, kind) ==
    /\ handler[r] = NoHandler
    /\ kind = "apple" => r \in AppleRequests
    /\ handler' = [handler EXCEPT ![r] =
           [kind |-> kind, at |-> 1, phase |-> "ready", tx |-> NoConn, conn |-> NoConn]]
    /\ UNCHANGED <<pool, queue>>

\* The handler asks the pool for a connection.
Acquire(r) ==
    /\ handler[r].phase = "ready"
    /\ Call(r) \in {"use", "begin"}
    /\ queue' = Append(queue, r)
    /\ handler' = [handler EXCEPT ![r] = [@ EXCEPT !.phase = "waiting"]]
    /\ UNCHANGED pool

\* The pool serves the request that has waited longest.
Hand(r, c) ==
    /\ queue # <<>>
    /\ r = Head(queue)
    /\ c \in pool
    /\ queue' = Tail(queue)
    /\ pool' = pool \ {c}
    /\ handler' = [handler EXCEPT ![r] = [@ EXCEPT !.phase = "running", !.conn = c]]

\* The call after this one; the last one is followed by the answer.
Advanced(r) == IF handler[r].at = Len(Calls(handler[r].kind))
            THEN NoHandler
            ELSE [handler[r] EXCEPT !.at = @ + 1, !.phase = "ready", !.conn = NoConn]

\* The statement is done and its connection goes back.
Used(r) ==
    /\ handler[r].phase = "running"
    /\ Call(r) = "use"
    /\ pool' = pool \cup {handler[r].conn}
    /\ handler' = [handler EXCEPT ![r] = Advanced(r)]
    /\ UNCHANGED queue

\* Begin: the connection stays with the transaction.
Begun(r) ==
    /\ handler[r].phase = "running"
    /\ Call(r) = "begin"
    /\ handler' = [handler EXCEPT ![r] = [Advanced(r) EXCEPT !.tx = handler[r].conn]]
    /\ UNCHANGED <<pool, queue>>

TxStatement(r) ==
    /\ handler[r].phase = "ready"
    /\ Call(r) = "tx"
    /\ handler' = [handler EXCEPT ![r] = Advanced(r)]
    /\ UNCHANGED <<pool, queue>>

Committed(r) ==
    /\ handler[r].phase = "ready"
    /\ Call(r) = "end"
    /\ pool' = pool \cup {handler[r].tx}
    /\ handler' = [handler EXCEPT ![r] = NoHandler]
    /\ UNCHANGED queue

\* A faulty variant: the deferred Rollback is left out.
GiveUpWithoutRollback(r) ==
    /\ pool' = pool \cup ({handler[r].conn} \ {NoConn})
    /\ handler' = [handler EXCEPT ![r] = NoHandler]

\* A faulty variant: a connection is given back whether or not there is one.
GiveUpUnchecked(r) ==
    /\ pool' = pool \cup {handler[r].tx, handler[r].conn}
    /\ handler' = [handler EXCEPT ![r] = NoHandler]

\* The handler returns early: the deferred Rollback gives back its connection.
GiveUp(r) ==
    /\ pool' = pool \cup Holds(r)
    /\ handler' = [handler EXCEPT ![r] = NoHandler]

\* A statement fails: the key is unknown, a row is missing or in conflict.
Fail(r) ==
    /\ \/ handler[r].phase = "running"
       \/ handler[r].phase = "ready" /\ Call(r) = "tx"
    /\ GiveUp(r)
    /\ UNCHANGED queue

\* The client hangs up: r's context is cancelled, and r leaves the queue.
HangUp(r) ==
    /\ handler[r] # NoHandler
    /\ GiveUp(r)
    /\ \/ handler[r].phase # "waiting" /\ UNCHANGED queue
       \/ \E i \in DOMAIN queue :
            /\ queue[i] = r
            /\ queue' = SubSeq(queue, 1, i - 1) \o SubSeq(queue, i + 1, Len(queue))

Work(r) == Acquire(r) \/ Used(r) \/ Begun(r) \/ TxStatement(r) \/ Committed(r)

PoolNext == \E r \in Requests :
    \/ \E kind \in {"plain", "register", "apple"} : Start(r, kind)
    \/ Work(r)
    \/ \E c \in Conns : Hand(r, c)
    \/ Fail(r)
    \/ HangUp(r)

PoolSpec == PoolInit /\ [][PoolNext]_poolVars

\* Handlers run, the database answers, and the pool hands out what it has.
\* Nothing makes a client send a request, or hang up.
PoolFairness ==
    /\ \A r \in Requests : WF_poolVars(Work(r))
    /\ WF_poolVars(\E r \in Requests, c \in Conns : Hand(r, c))

FairPoolSpec == PoolSpec /\ PoolFairness

-----------------------------------------------------------------------------
(* Properties *)

WorkingType ==
    [kind : {"plain", "register", "apple"}, at : 1 .. 6,
     phase : {"ready", "waiting", "running"}, tx : Conns \cup {NoConn}, conn : Conns \cup {NoConn}]

HandlerType == {NoHandler} \cup WorkingType

\* The pool hands out connections of its own, and the handlers keep their shape.
PoolTypeOK ==
    /\ pool \subseteq Conns
    /\ queue \in Seq(Requests)
    /\ handler \in [Requests -> HandlerType]
    /\ \A r \in Requests : handler[r].kind = "apple" => r \in AppleRequests

\* However handlers fail or are abandoned, every connection is either in the
\* pool or held by one handler that still runs, for one call.
NoConnIsLost == \A c \in Conns :
    /\ c \in pool <=> \A r \in Requests : c \notin Holds(r)
    /\ \A r, q \in Requests : c \in Holds(r) /\ c \in Holds(q) => r = q
    /\ \A r \in Requests : handler[r].tx = c => handler[r].conn # c

\* The handlers that can go on without a connection from the pool.
Moving == {r \in Requests : handler[r].phase \in {"ready", "running"}}

\* Every connection is held by a first Apple sign-in that waits for another.
Jammed ==
    /\ pool = {}
    /\ Moving = {}

\* With fewer first Apple sign-ins at a time than connections, there always is
\* a connection to hand out or a handler that will give one back.
NeverJammed == Cardinality(AppleRequests) < Cardinality(Conns) => ~Jammed

\* Then every request is answered, however long the queue.
RequestsEnd == \A r \in Requests : handler[r] # NoHandler ~> handler[r] = NoHandler

\* Violated with as many first Apple sign-ins as connections:
\* docs/how-to/authenticate.md promises each of them a user and an answer
\* ("Else create a user + apple identity (201)").
AppleSignInsAreAnswered ==
    \A r \in AppleRequests : handler[r].kind = "apple" ~> handler[r] = NoHandler

=============================================================================
