--------------------------- MODULE ConnPoolProofs ---------------------------
(***************************************************************************)
(* For any number of requests and of connections: the pool's bookkeeping   *)
(* is exact, and it cannot jam while first Apple sign-ins are fewer than   *)
(* the connections.  The second needs the first, and that a handler that   *)
(* waits for a connection while it keeps another is an Apple sign-in.      *)
(***************************************************************************)
EXTENDS ConnPool, FiniteSetTheorems, TLAPS

\* The calls at which a handler has a transaction open.
InTx(h) ==
    \/ h.kind = "register" /\ h.at \in {3, 4}
    \/ h.kind = "apple" /\ h.at \in {4, 5, 6}

\* What a handler holds is determined by the call it is at and by its phase.
Consistent(r) ==
    \/ handler[r] = NoHandler
    \/ /\ handler[r].at \in 1 .. Len(Calls(handler[r].kind))
       /\ handler[r].conn # NoConn <=> handler[r].phase = "running"
       /\ handler[r].phase # "ready" => Call(r) \in {"use", "begin"}
       /\ handler[r].tx # NoConn <=> InTx(handler[r])

\* Who is in the queue waits, and waits in one place.
QueueOfWaiting ==
    /\ \A i \in DOMAIN queue : handler[queue[i]].phase = "waiting"
    /\ \A i, j \in DOMAIN queue : queue[i] = queue[j] => i = j

PoolInv ==
    /\ PoolTypeOK
    /\ NoConnIsLost
    /\ \A r \in Requests : Consistent(r)
    /\ QueueOfWaiting

-----------------------------------------------------------------------------
\* The last call of each kind of handler and what each call does, as facts
\* the provers can use without the sequences.
LEMMA CallFacts ==
    /\ Len(Calls("plain")) = 3 /\ Len(Calls("register")) = 4 /\ Len(Calls("apple")) = 6
    /\ \A i \in 1 .. 3 : Calls("plain")[i] = "use"
    /\ Calls("register")[1] = "use" /\ Calls("register")[2] = "begin"
    /\ Calls("register")[3] = "tx" /\ Calls("register")[4] = "end"
    /\ Calls("apple")[1] = "use" /\ Calls("apple")[2] = "use" /\ Calls("apple")[3] = "begin"
    /\ Calls("apple")[4] = "use" /\ Calls("apple")[5] = "tx" /\ Calls("apple")[6] = "end"
BY DEF Calls, PlainCalls, RegisterCalls, AppleCalls

\* A handler is idle or has the fields of one at work.
LEMMA HandlerFields ==
    ASSUME PoolTypeOK, NEW r \in Requests, handler[r] # NoHandler
    PROVE  /\ handler[r] \in WorkingType
           /\ handler[r].kind \in {"plain", "register", "apple"}
           /\ handler[r].at \in 1 .. 6
           /\ handler[r].phase \in {"ready", "waiting", "running"}
           /\ handler[r].tx \in Conns \cup {NoConn}
           /\ handler[r].conn \in Conns \cup {NoConn}
           /\ handler[r].kind = "apple" => r \in AppleRequests
BY DEF PoolTypeOK, HandlerType, WorkingType

\* A step that only moves connections between the pool and one handler keeps
\* the bookkeeping exact.
LEMMA Conserved ==
    ASSUME NoConnIsLost, NEW r \in Requests, NEW h,
           handler \in [Requests -> HandlerType],
           handler' = [handler EXCEPT ![r] = h],
           pool' \cup ({h.tx, h.conn} \ {NoConn}) = pool \cup Holds(r),
           pool' \cap ({h.tx, h.conn} \ {NoConn}) = {},
           h.tx # h.conn \/ h.tx = NoConn
    PROVE  NoConnIsLost'
<1>1. \A q \in Requests : q # r => handler'[q] = handler[q] /\ Holds(q)' = Holds(q)
  BY DEF Holds
<1>2. handler'[r] = h /\ Holds(r)' = {h.tx, h.conn} \ {NoConn}
  BY DEF Holds
<1>. SUFFICES ASSUME NEW c \in Conns
              PROVE  /\ c \in pool' <=> \A q \in Requests : c \notin Holds(q)'
                     /\ \A p, q \in Requests : c \in Holds(p)' /\ c \in Holds(q)' => p = q
                     /\ \A q \in Requests : handler'[q].tx = c => handler'[q].conn # c
  BY DEF NoConnIsLost
<1>3. c \in pool' \/ c \in Holds(r)' <=> c \in pool \/ c \in Holds(r)
  BY <1>2
<1>4. ~(c \in pool' /\ c \in Holds(r)')
  BY <1>2
<1>5. /\ c \in pool <=> \A q \in Requests : c \notin Holds(q)
      /\ \A p, q \in Requests : c \in Holds(p) /\ c \in Holds(q) => p = q
      /\ \A q \in Requests : handler[q].tx = c => handler[q].conn # c
  BY DEF NoConnIsLost
<1>6. c \in pool' <=> \A q \in Requests : c \notin Holds(q)'
  BY <1>1, <1>3, <1>4, <1>5
<1>7. \A p, q \in Requests : c \in Holds(p)' /\ c \in Holds(q)' => p = q
  BY <1>1, <1>3, <1>5
<1>8. \A q \in Requests : handler'[q].tx = c => handler'[q].conn # c
  <2>. TAKE q \in Requests
  <2>1. CASE q = r
    <3>. HAVE handler'[q].tx = c
    <3>1. h.tx = c
      BY <1>2, <2>1
    <3>2. CASE h.tx = NoConn
      BY <3>1, <3>2, PoolAssumption
    <3>3. CASE h.tx # h.conn
      BY <1>2, <2>1, <3>1, <3>3
    <3>. QED BY <3>2, <3>3
  <2>2. CASE q # r
    BY <1>1, <1>5, <2>2
  <2>. QED BY <2>1, <2>2
<1>. QED BY <1>6, <1>7, <1>8

\* Where the handlers of a step that touches only r's are as they were.
LEMMA OthersConsistent ==
    ASSUME \A q \in Requests : Consistent(q), NEW r \in Requests, NEW h,
           handler \in [Requests -> HandlerType],
           handler' = [handler EXCEPT ![r] = h],
           Consistent(r)'
    PROVE  \A q \in Requests : Consistent(q)'
<1>. SUFFICES ASSUME NEW q \in Requests, q # r PROVE Consistent(q)'
  OBVIOUS
<1>1. handler'[q] = handler[q]
  OBVIOUS
<1>. QED BY <1>1 DEF Consistent, Call

\* A handler outside the queue may change without disturbing it.
LEMMA QueueKept ==
    ASSUME QueueOfWaiting, PoolTypeOK, NEW r \in Requests, NEW h,
           handler' = [handler EXCEPT ![r] = h],
           handler[r].phase # "waiting", UNCHANGED queue
    PROVE  QueueOfWaiting'
BY DEF QueueOfWaiting, PoolTypeOK

-----------------------------------------------------------------------------
\* What has to be shown of a step that changes one handler.
LEMMA OneHandlerStep ==
    ASSUME PoolInv, NEW r \in Requests, NEW h,
           h \in HandlerType, h.kind = "apple" => r \in AppleRequests,
           handler' = [handler EXCEPT ![r] = h],
           pool' \subseteq Conns, queue' \in Seq(Requests),
           pool' \cup ({h.tx, h.conn} \ {NoConn}) = pool \cup Holds(r),
           pool' \cap ({h.tx, h.conn} \ {NoConn}) = {},
           h.tx # h.conn \/ h.tx = NoConn,
           Consistent(r)', QueueOfWaiting'
    PROVE  PoolInv'
<1>1. handler \in [Requests -> HandlerType]
  BY DEF PoolInv, PoolTypeOK
<1>2. PoolTypeOK'
  BY <1>1 DEF PoolInv, PoolTypeOK
<1>3. NoConnIsLost'
  BY <1>1, Conserved DEF PoolInv
<1>4. \A q \in Requests : Consistent(q)'
  BY <1>1, OthersConsistent DEF PoolInv
<1>. QED BY <1>2, <1>3, <1>4 DEF PoolInv

\* What r holds is not in the pool, and is two connections at most.
LEMMA HeldApart ==
    ASSUME PoolInv, NEW r \in Requests
    PROVE  /\ Holds(r) \subseteq Conns
           /\ pool \cap Holds(r) = {}
           /\ handler[r].tx # handler[r].conn \/ handler[r].tx = NoConn
<1>1. Holds(r) \subseteq Conns
  <2>1. CASE handler[r] = NoHandler
    BY <2>1 DEF Holds, NoHandler
  <2>2. CASE handler[r] # NoHandler
    BY <2>2, HandlerFields DEF Holds, PoolInv
  <2>. QED BY <2>1, <2>2
<1>2. pool \cap Holds(r) = {}
  BY <1>1 DEF PoolInv, NoConnIsLost
<1>3. ASSUME handler[r].tx # NoConn, handler[r].tx = handler[r].conn PROVE FALSE
  <2>1. handler[r].tx \in Conns
    BY <1>1, <1>3 DEF Holds
  <2>. QED BY <2>1, <1>3 DEF PoolInv, NoConnIsLost
<1>. QED BY <1>1, <1>2, <1>3

\* A handler that gives up gives back all it holds.
LEMMA GiveUpKeeps ==
    ASSUME PoolInv, NEW r \in Requests, GiveUp(r), queue' \in Seq(Requests), QueueOfWaiting'
    PROVE  PoolInv'
<1>1. pool' \subseteq Conns
  BY HeldApart DEF GiveUp, PoolInv, PoolTypeOK
<1>2. NoHandler \in HandlerType /\ NoHandler.kind # "apple"
  BY DEF HandlerType, NoHandler
<1>3. {NoHandler.tx, NoHandler.conn} \ {NoConn} = {} /\ NoHandler.tx = NoConn
  BY DEF NoHandler
<1>4. handler'[r] = NoHandler
  BY DEF GiveUp, PoolInv, PoolTypeOK
<1>5. Consistent(r)'
  BY <1>4 DEF Consistent
<1>. QED BY <1>1, <1>2, <1>3, <1>5, OneHandlerStep DEF GiveUp

LEMMA StartKeeps ==
    ASSUME PoolInv, NEW r \in Requests, NEW kind \in {"plain", "register", "apple"}, Start(r, kind)
    PROVE  PoolInv'
<1>. DEFINE h == [kind |-> kind, at |-> 1, phase |-> "ready", tx |-> NoConn, conn |-> NoConn]
<1>1. h.kind = kind /\ h.at = 1 /\ h.phase = "ready"
  OBVIOUS
<1>2. h \in HandlerType /\ h.tx = NoConn /\ h.conn = NoConn
  BY DEF HandlerType, WorkingType
<1>3. Holds(r) = {}
  BY DEF Start, Holds, NoHandler
<1>4. handler'[r] = h
  BY DEF Start, PoolInv, PoolTypeOK
<1>5. Consistent(r)'
  <2>1. handler'[r].at \in 1 .. Len(Calls(handler'[r].kind))
    BY <1>1, <1>4, CallFacts
  <2>. QED BY <2>1, <1>1, <1>2, <1>4 DEF Consistent, InTx
<1>6. QueueOfWaiting'
  <2>1. handler[r].phase # "waiting"
    BY DEF Start, NoHandler
  <2>. QED BY <2>1, QueueKept DEF Start, PoolInv
<1>7. pool' = pool /\ pool \subseteq Conns /\ queue' \in Seq(Requests)
  BY DEF Start, PoolInv, PoolTypeOK
<1>8. h.kind = "apple" => r \in AppleRequests
  BY <1>1 DEF Start
<1>. QED
  BY <1>2, <1>3, <1>5, <1>6, <1>7, <1>8, OneHandlerStep DEF Start

LEMMA AcquireKeeps ==
    ASSUME PoolInv, NEW r \in Requests, Acquire(r)
    PROVE  PoolInv'
<1>. DEFINE h == [handler[r] EXCEPT !.phase = "waiting"]
<1>0. handler[r] # NoHandler
  BY DEF Acquire, NoHandler
<1>1. /\ h \in WorkingType
      /\ h.kind = handler[r].kind /\ h.at = handler[r].at /\ h.phase = "waiting"
      /\ h.tx = handler[r].tx /\ h.conn = handler[r].conn
  BY <1>0, HandlerFields DEF PoolInv, WorkingType
<1>2. h \in HandlerType
  BY <1>1 DEF HandlerType
<1>3. {h.tx, h.conn} \ {NoConn} = Holds(r)
  BY <1>1 DEF Holds
<1>4. handler'[r] = h
  BY DEF Acquire, PoolInv, PoolTypeOK
<1>5. Consistent(r)'
  BY <1>0, <1>1, <1>4 DEF Consistent, Call, Acquire, PoolInv, InTx, NoHandler
<1>6. pool' = pool /\ pool \subseteq Conns /\ queue \in Seq(Requests) /\ queue' = Append(queue, r)
  BY DEF Acquire, PoolInv, PoolTypeOK
<1>7. QueueOfWaiting'
  <2>1. \A i \in DOMAIN queue : queue[i] # r
    BY DEF QueueOfWaiting, PoolInv, Acquire
  <2>2. DOMAIN queue' = 1 .. Len(queue) + 1 /\ queue'[Len(queue) + 1] = r
        /\ \A i \in 1 .. Len(queue) : queue'[i] = queue[i] /\ queue[i] \in Requests
    BY <1>6
  <2>3. DOMAIN queue = 1 .. Len(queue) /\ Len(queue) \in Nat
    BY <1>6
  <2>4. \A i \in 1 .. Len(queue) : handler'[queue[i]].phase = "waiting"
    BY <2>1, <2>2, <2>3 DEF Acquire, QueueOfWaiting, PoolInv, PoolTypeOK
  <2>5. handler'[r].phase = "waiting"
    BY <1>1, <1>4
  <2>6. \A i \in DOMAIN queue' : handler'[queue'[i]].phase = "waiting"
    BY <2>2, <2>3, <2>4, <2>5
  <2>7. \A i, j \in DOMAIN queue' : queue'[i] = queue'[j] => i = j
    BY <2>1, <2>2, <2>3 DEF QueueOfWaiting, PoolInv
  <2>. QED BY <2>6, <2>7 DEF QueueOfWaiting
<1>8. h.kind = "apple" => r \in AppleRequests
  BY <1>0, <1>1, HandlerFields DEF PoolInv
<1>9. queue' \in Seq(Requests)
  BY <1>6
<1>10. h.tx # h.conn \/ h.tx = NoConn
  BY <1>1, HeldApart
<1>. QED
  BY <1>2, <1>3, <1>5, <1>6, <1>7, <1>8, <1>9, <1>10, HeldApart, OneHandlerStep DEF Acquire

LEMMA HandKeeps ==
    ASSUME PoolInv, NEW r \in Requests, NEW c \in Conns, Hand(r, c)
    PROVE  PoolInv'
<1>. DEFINE h == [handler[r] EXCEPT !.phase = "running", !.conn = c]
<1>1. queue \in Seq(Requests) /\ Len(queue) \in Nat \ {0} /\ queue' = Tail(queue)
      /\ DOMAIN queue = 1 .. Len(queue) /\ r = queue[1]
  BY DEF Hand, PoolInv, PoolTypeOK
<1>2. handler[r].phase = "waiting"
  BY <1>1 DEF PoolInv, QueueOfWaiting
<1>3. handler[r] # NoHandler
  BY <1>2 DEF NoHandler
<1>4. /\ h \in WorkingType
      /\ h.kind = handler[r].kind /\ h.at = handler[r].at /\ h.phase = "running"
      /\ h.tx = handler[r].tx /\ h.conn = c
  BY <1>3, HandlerFields DEF PoolInv, WorkingType
<1>5. h \in HandlerType
  BY <1>4 DEF HandlerType
<1>6. handler[r].conn = NoConn
  BY <1>2, <1>3 DEF Consistent, PoolInv
<1>7. c \in pool /\ c # NoConn /\ c \notin Holds(r)
  BY PoolAssumption, HeldApart DEF Hand
<1>8. pool' = pool \ {c}
  BY DEF Hand
<1>9. pool' \cup ({h.tx, h.conn} \ {NoConn}) = pool \cup Holds(r)
      /\ pool' \cap ({h.tx, h.conn} \ {NoConn}) = {}
      /\ (h.tx # h.conn \/ h.tx = NoConn)
  BY <1>4, <1>6, <1>7, <1>8, HeldApart DEF Holds
<1>10. handler'[r] = h
  BY DEF Hand, PoolInv, PoolTypeOK
<1>11. Consistent(r)'
  BY <1>2, <1>3, <1>4, <1>7, <1>10 DEF Consistent, Call, PoolInv, InTx, NoHandler
<1>12. queue' \in Seq(Requests) /\ DOMAIN queue' = 1 .. Len(queue) - 1
       /\ \A i \in DOMAIN queue' : queue'[i] = queue[i + 1] /\ queue'[i] \in Requests
  BY <1>1
<1>13. QueueOfWaiting'
  <2>1. \A i \in DOMAIN queue' : queue'[i] # r
    BY <1>1, <1>12 DEF PoolInv, QueueOfWaiting
  <2>2. \A i \in DOMAIN queue' : handler'[queue'[i]].phase = "waiting"
    BY <1>1, <1>12, <2>1 DEF PoolInv, PoolTypeOK, QueueOfWaiting, Hand
  <2>3. \A i, j \in DOMAIN queue' : queue'[i] = queue'[j] => i = j
    BY <1>1, <1>12 DEF PoolInv, QueueOfWaiting
  <2>. QED BY <2>2, <2>3 DEF QueueOfWaiting
<1>14. h.kind = "apple" => r \in AppleRequests
  BY <1>3, <1>4, HandlerFields DEF PoolInv
<1>15. pool' \subseteq Conns
  BY <1>8 DEF PoolInv, PoolTypeOK
<1>. QED
  BY <1>5, <1>9, <1>11, <1>12, <1>13, <1>14, <1>15, OneHandlerStep DEF Hand

\* Where in its handler each call stands.
LEMMA CallAt ==
    ASSUME PoolInv, NEW r \in Requests, handler[r] # NoHandler
    PROVE  LET k == handler[r].kind
               a == handler[r].at
           IN /\ a \in 1 .. Len(Calls(k))
              /\ \/ k = "plain" /\ Len(Calls(k)) = 3
                 \/ k = "register" /\ Len(Calls(k)) = 4
                 \/ k = "apple" /\ Len(Calls(k)) = 6
              /\ Call(r) = "use" =>
                   k = "plain" \/ (k = "register" /\ a = 1) \/ (k = "apple" /\ a \in {1, 2, 4})
              /\ Call(r) = "begin" => (k = "register" /\ a = 2) \/ (k = "apple" /\ a = 3)
              /\ Call(r) = "tx" => (k = "register" /\ a = 3) \/ (k = "apple" /\ a = 5)
              /\ Call(r) = "end" => (k = "register" /\ a = 4) \/ (k = "apple" /\ a = 6)
<1>. DEFINE k == handler[r].kind
            a == handler[r].at
<1>1. k \in {"plain", "register", "apple"} /\ a \in 1 .. Len(Calls(k)) /\ Call(r) = Calls(k)[a]
  BY HandlerFields DEF PoolInv, Consistent, Call
<1>. HIDE DEF k, a
<1>2. /\ \/ k = "plain" /\ Len(Calls(k)) = 3
         \/ k = "register" /\ Len(Calls(k)) = 4
         \/ k = "apple" /\ Len(Calls(k)) = 6
      /\ Call(r) = "use" =>
           k = "plain" \/ (k = "register" /\ a = 1) \/ (k = "apple" /\ a \in {1, 2, 4})
      /\ Call(r) = "begin" => (k = "register" /\ a = 2) \/ (k = "apple" /\ a = 3)
      /\ Call(r) = "tx" => (k = "register" /\ a = 3) \/ (k = "apple" /\ a = 5)
      /\ Call(r) = "end" => (k = "register" /\ a = 4) \/ (k = "apple" /\ a = 6)
  <2>1. CASE k = "plain"
    <3>1. Len(Calls(k)) = 3 /\ \A i \in 1 .. 3 : Calls(k)[i] = "use"
      BY <2>1, CallFacts
    <3>2. a \in 1 .. 3
      BY <1>1, <3>1
    <3>3. Call(r) = "use"
      BY <1>1, <3>1, <3>2
    <3>. QED BY <2>1, <3>1, <3>3
  <2>2. CASE k = "register"
    <3>0. Len(Calls(k)) = 4 /\ Calls(k) = Calls("register")
      BY <2>2, CallFacts
    <3>1. a \in 1 .. 4
      BY <1>1, <3>0
    <3>2. a = 1 \/ a = 2 \/ a = 3 \/ a = 4
      BY <3>1
    <3>3. /\ a = 1 => Call(r) = "use"
          /\ a = 2 => Call(r) = "begin"
          /\ a = 3 => Call(r) = "tx"
          /\ a = 4 => Call(r) = "end"
      BY <1>1, <3>0, CallFacts
    <3>. QED BY <2>2, <3>0, <3>2, <3>3
  <2>3. CASE k = "apple"
    <3>0. Len(Calls(k)) = 6 /\ Calls(k) = Calls("apple")
      BY <2>3, CallFacts
    <3>1. a \in 1 .. 6
      BY <1>1, <3>0
    <3>2. a = 1 \/ a = 2 \/ a = 3 \/ a = 4 \/ a = 5 \/ a = 6
      BY <3>1
    <3>3. /\ a \in {1, 2, 4} => Call(r) = "use"
          /\ a = 3 => Call(r) = "begin"
          /\ a = 5 => Call(r) = "tx"
          /\ a = 6 => Call(r) = "end"
      BY <1>1, <3>0, CallFacts
    <3>. QED BY <2>3, <3>0, <3>2, <3>3
  <2>. QED BY <1>1, <2>1, <2>2, <2>3
<1>. QED BY <1>1, <1>2 DEF k, a

\* A transaction is open from the call after Begin to the last one.
LEMMA TxAt ==
    ASSUME PoolInv, NEW r \in Requests, handler[r] # NoHandler
    PROVE  /\ handler[r].tx # NoConn <=> InTx(handler[r])
           /\ Call(r) = "begin" => ~InTx(handler[r])
           /\ Call(r) \in {"tx", "end"} => InTx(handler[r])
<1>1. handler[r].tx # NoConn <=> InTx(handler[r])
  BY DEF PoolInv, Consistent
<1>2. Call(r) = "begin" => ~InTx(handler[r])
  <2>. HAVE Call(r) = "begin"
  <2>1. \/ handler[r].kind = "register" /\ handler[r].at = 2
        \/ handler[r].kind = "apple" /\ handler[r].at = 3
    BY CallAt
  <2>. QED BY <2>1 DEF InTx
<1>3. Call(r) \in {"tx", "end"} => InTx(handler[r])
  <2>. HAVE Call(r) \in {"tx", "end"}
  <2>1. \/ handler[r].kind = "register" /\ handler[r].at \in {3, 4}
        \/ handler[r].kind = "apple" /\ handler[r].at \in {5, 6}
    BY CallAt
  <2>. QED BY <2>1 DEF InTx
<1>. QED BY <1>1, <1>2, <1>3

\* A handler past one call: at the next, or done.
LEMMA AdvancedFields ==
    ASSUME PoolInv, NEW r \in Requests, handler[r] # NoHandler
    PROVE  LET n == Len(Calls(handler[r].kind)) IN
           /\ n \in 3 .. 6
           /\ handler[r].at = n => Advanced(r) = NoHandler
           /\ handler[r].at # n =>
                /\ Advanced(r) \in WorkingType
                /\ Advanced(r).kind = handler[r].kind
                /\ Advanced(r).at = handler[r].at + 1
                /\ handler[r].at + 1 \in 1 .. n
                /\ Advanced(r).phase = "ready"
                /\ Advanced(r).tx = handler[r].tx
                /\ Advanced(r).conn = NoConn
<1>. DEFINE n == Len(Calls(handler[r].kind))
<1>1. handler[r] \in WorkingType /\ handler[r].kind \in {"plain", "register", "apple"}
  BY HandlerFields DEF PoolInv
<1>2. n \in 3 .. 6 /\ handler[r].at \in 1 .. n
  BY CallAt
<1>. HIDE DEF n
<1>3. ASSUME handler[r].at # n
      PROVE  /\ Advanced(r) \in WorkingType
             /\ Advanced(r).kind = handler[r].kind
             /\ Advanced(r).at = handler[r].at + 1
             /\ Advanced(r).phase = "ready"
             /\ Advanced(r).tx = handler[r].tx
             /\ Advanced(r).conn = NoConn
  <2>1. handler[r].at + 1 \in 1 .. 6
    BY <1>2, <1>3
  <2>2. Advanced(r) = [handler[r] EXCEPT !.at = @ + 1, !.phase = "ready", !.conn = NoConn]
    BY <1>3 DEF Advanced, n
  <2>. QED BY <1>1, <2>1, <2>2 DEF WorkingType
<1>4. handler[r].at # n => handler[r].at + 1 \in 1 .. n
  BY <1>2
<1>5. handler[r].at = n => Advanced(r) = NoHandler
  BY DEF Advanced, n
<1>. QED BY <1>2, <1>3, <1>4, <1>5 DEF n

LEMMA UsedKeeps ==
    ASSUME PoolInv, NEW r \in Requests, Used(r)
    PROVE  PoolInv'
<1>. DEFINE h == Advanced(r)
<1>1. handler[r] # NoHandler
  BY DEF Used, NoHandler
<1>2. handler'[r] = h /\ pool' = pool \cup {handler[r].conn} /\ handler[r].conn # NoConn
  BY <1>1 DEF Used, PoolInv, PoolTypeOK, Consistent
<1>3. queue' = queue /\ queue' \in Seq(Requests) /\ pool' \subseteq Conns
  BY <1>2, HeldApart DEF Used, PoolInv, PoolTypeOK, Holds
<1>4. QueueOfWaiting'
  BY <1>3, QueueKept DEF PoolInv, Used
<1>5. CASE h = NoHandler
  <2>1. handler[r].tx = NoConn
    <3>1. handler[r].at = Len(Calls(handler[r].kind)) /\ Len(Calls(handler[r].kind)) \in 3 .. 6
      <4>1. NoHandler.phase # "ready"
        BY DEF NoHandler
      <4>2. handler[r].at # Len(Calls(handler[r].kind)) => Advanced(r).phase = "ready"
        BY <1>1, AdvancedFields
      <4>. QED BY <1>1, <1>5, <4>1, <4>2, AdvancedFields
    <3>2. handler[r].kind = "plain"
      <4>1. Call(r) = "use"
        BY DEF Used
      <4>2. \/ handler[r].kind = "plain"
            \/ handler[r].kind = "register" /\ handler[r].at = 1 /\ Len(Calls(handler[r].kind)) = 4
            \/ handler[r].kind = "apple" /\ handler[r].at \in {1, 2, 4} /\ Len(Calls(handler[r].kind)) = 6
        BY <1>1, <4>1, CallAt
      <4>3. 1 # 4 /\ 6 \notin {1, 2, 4}
        OBVIOUS
      <4>. QED BY <3>1, <4>2, <4>3, Zenon
    <3>3. ~InTx(handler[r])
      BY <3>2 DEF InTx
    <3>. QED BY <1>1, <3>3, TxAt
  <2>2. Holds(r) = {handler[r].conn}
    BY <1>2, <2>1 DEF Holds
  <2>3. GiveUp(r)
    BY <1>2, <1>5, <2>2 DEF GiveUp, Used
  <2>. QED BY <2>3, <1>3, <1>4, GiveUpKeeps
<1>6. CASE h # NoHandler
  <2>1. /\ h \in HandlerType
        /\ h.kind = handler[r].kind /\ h.at = handler[r].at + 1 /\ h.phase = "ready"
        /\ h.tx = handler[r].tx /\ h.conn = NoConn
        /\ h.at \in 1 .. Len(Calls(h.kind))
    BY <1>1, <1>6, AdvancedFields DEF HandlerType
  <2>2. h.kind = "apple" => r \in AppleRequests
    BY <1>1, <2>1, HandlerFields DEF PoolInv
  <2>3. /\ pool' \cup ({h.tx, h.conn} \ {NoConn}) = pool \cup Holds(r)
        /\ pool' \cap ({h.tx, h.conn} \ {NoConn}) = {}
        /\ h.tx # h.conn \/ h.tx = NoConn
    BY <1>2, <2>1, HeldApart DEF Holds
  <2>4. InTx(h) <=> InTx(handler[r])
    BY <1>1, <2>1, HandlerFields, CallAt DEF PoolInv, InTx, Used
  <2>5. handler[r].tx # NoConn <=> InTx(handler[r])
    BY <1>1 DEF PoolInv, Consistent
  <2>6. Consistent(r)'
    BY <1>2, <2>1, <2>4, <2>5 DEF Consistent, InTx
  <2>. QED BY <1>3, <1>4, <2>1, <2>2, <2>3, <2>6, OneHandlerStep DEF Used
<1>. QED BY <1>5, <1>6

LEMMA BegunKeeps ==
    ASSUME PoolInv, NEW r \in Requests, Begun(r)
    PROVE  PoolInv'
<1>. DEFINE h == [Advanced(r) EXCEPT !.tx = handler[r].conn]
<1>1. handler[r] # NoHandler
  BY DEF Begun, NoHandler
<1>2. handler'[r] = h /\ pool' = pool /\ handler[r].conn \in Conns
  BY <1>1, HandlerFields DEF Begun, PoolInv, PoolTypeOK, Consistent
<1>3. queue' = queue /\ queue' \in Seq(Requests) /\ pool' \subseteq Conns
  BY DEF Begun, PoolInv, PoolTypeOK
<1>4. QueueOfWaiting'
  BY <1>3, QueueKept DEF PoolInv, Begun
<1>5. handler[r].at # Len(Calls(handler[r].kind)) /\ handler[r].tx = NoConn
  <2>1. /\ handler[r].kind = "register" => handler[r].at = 2 /\ Len(Calls(handler[r].kind)) = 4
        /\ handler[r].kind = "apple" => handler[r].at = 3 /\ Len(Calls(handler[r].kind)) = 6
        /\ handler[r].kind \in {"register", "apple"}
    BY <1>1, CallAt DEF Begun
  <2>2. handler[r].at # Len(Calls(handler[r].kind))
    <3>1. 2 # 4 /\ 3 # 4 /\ 3 # 6 /\ 5 # 6
      OBVIOUS
    <3>. QED BY <2>1, <3>1, Zenon
  <2>. QED BY <1>1, <2>2, TxAt DEF Begun
<1>6. /\ h \in WorkingType
      /\ h.kind = handler[r].kind /\ h.at = handler[r].at + 1 /\ h.phase = "ready"
      /\ h.tx = handler[r].conn /\ h.conn = NoConn
      /\ h.at \in 1 .. Len(Calls(h.kind))
  BY <1>1, <1>2, <1>5, AdvancedFields DEF WorkingType
<1>7. h.kind = "apple" => r \in AppleRequests
  BY <1>1, <1>6, HandlerFields DEF PoolInv
<1>8. /\ pool' \cup ({h.tx, h.conn} \ {NoConn}) = pool \cup Holds(r)
      /\ pool' \cap ({h.tx, h.conn} \ {NoConn}) = {}
      /\ h.tx # h.conn \/ h.tx = NoConn
  BY <1>2, <1>5, <1>6, HeldApart, PoolAssumption DEF Holds
<1>9. InTx(h)
  BY <1>1, <1>6, HandlerFields, CallAt DEF PoolInv, InTx, Begun
<1>10. Consistent(r)'
  BY <1>2, <1>6, <1>9, PoolAssumption DEF Consistent, InTx
<1>. QED BY <1>3, <1>4, <1>6, <1>7, <1>8, <1>10, OneHandlerStep DEF Begun, HandlerType

LEMMA TxStatementKeeps ==
    ASSUME PoolInv, NEW r \in Requests, TxStatement(r)
    PROVE  PoolInv'
<1>. DEFINE h == Advanced(r)
<1>1. handler[r] # NoHandler
  BY DEF TxStatement, NoHandler
<1>2. handler'[r] = h /\ pool' = pool /\ handler[r].conn = NoConn
  BY <1>1, HandlerFields DEF TxStatement, PoolInv, PoolTypeOK, Consistent
<1>3. queue' = queue /\ queue' \in Seq(Requests) /\ pool' \subseteq Conns
  BY DEF TxStatement, PoolInv, PoolTypeOK
<1>4. QueueOfWaiting'
  BY <1>3, QueueKept DEF PoolInv, TxStatement
<1>5. /\ handler[r].at # Len(Calls(handler[r].kind)) /\ InTx(handler[r])
      /\ handler[r].kind \in {"register", "apple"}
      /\ handler[r].kind = "register" => handler[r].at = 3
      /\ handler[r].kind = "apple" => handler[r].at = 5
  <2>1. /\ handler[r].kind = "register" => handler[r].at = 3 /\ Len(Calls(handler[r].kind)) = 4
        /\ handler[r].kind = "apple" => handler[r].at = 5 /\ Len(Calls(handler[r].kind)) = 6
        /\ handler[r].kind \in {"register", "apple"}
    BY <1>1, CallAt DEF TxStatement
  <2>2. handler[r].at # Len(Calls(handler[r].kind))
    <3>1. 2 # 4 /\ 3 # 4 /\ 3 # 6 /\ 5 # 6
      OBVIOUS
    <3>. QED BY <2>1, <3>1, Zenon
  <2>. QED BY <1>1, <2>1, <2>2, TxAt DEF TxStatement
<1>6. /\ h \in WorkingType
      /\ h.kind = handler[r].kind /\ h.at = handler[r].at + 1 /\ h.phase = "ready"
      /\ h.tx = handler[r].tx /\ h.conn = NoConn
      /\ h.at \in 1 .. Len(Calls(h.kind))
  BY <1>1, <1>5, AdvancedFields
<1>7. h.kind = "apple" => r \in AppleRequests
  BY <1>1, <1>6, HandlerFields DEF PoolInv
<1>8. /\ pool' \cup ({h.tx, h.conn} \ {NoConn}) = pool \cup Holds(r)
      /\ pool' \cap ({h.tx, h.conn} \ {NoConn}) = {}
      /\ h.tx # h.conn \/ h.tx = NoConn
  BY <1>2, <1>6, HeldApart DEF Holds
<1>9. InTx(h)
  BY <1>5, <1>6 DEF InTx
<1>10. Consistent(r)'
  BY <1>1, <1>2, <1>5, <1>6, <1>9 DEF Consistent, InTx, PoolInv
<1>. QED BY <1>3, <1>4, <1>6, <1>7, <1>8, <1>10, OneHandlerStep DEF TxStatement, HandlerType

LEMMA CommittedKeeps ==
    ASSUME PoolInv, NEW r \in Requests, Committed(r)
    PROVE  PoolInv'
<1>1. handler[r] # NoHandler
  BY DEF Committed, NoHandler
<1>2. handler[r].conn = NoConn
  BY <1>1 DEF Committed, PoolInv, Consistent
<1>3. handler[r].tx # NoConn
  BY <1>1, TxAt DEF Committed
<1>4. GiveUp(r)
  BY <1>2, <1>3 DEF GiveUp, Committed, Holds
<1>5. queue' = queue /\ queue' \in Seq(Requests)
  BY DEF Committed, PoolInv, PoolTypeOK
<1>6. QueueOfWaiting'
  BY <1>5, QueueKept DEF Committed, PoolInv
<1>. QED BY <1>4, <1>5, <1>6, GiveUpKeeps

LEMMA FailKeeps ==
    ASSUME PoolInv, NEW r \in Requests, Fail(r)
    PROVE  PoolInv'
<1>1. queue' = queue /\ queue' \in Seq(Requests)
  BY DEF Fail, PoolInv, PoolTypeOK
<1>2. QueueOfWaiting'
  BY <1>1, QueueKept DEF Fail, GiveUp, PoolInv
<1>. QED BY <1>1, <1>2, GiveUpKeeps DEF Fail

\* An element of a concatenation.
LEMMA ConcatAt ==
    ASSUME NEW S, NEW s \in Seq(S), NEW t \in Seq(S), NEW j \in 1 .. Len(s) + Len(t)
    PROVE  (s \o t)[j] = IF j <= Len(s) THEN s[j] ELSE t[j - Len(s)]
OBVIOUS

LEMMA HangUpKeeps ==
    ASSUME PoolInv, NEW r \in Requests, HangUp(r)
    PROVE  PoolInv'
<1>0. GiveUp(r) /\ queue \in Seq(Requests)
  BY DEF HangUp, PoolInv, PoolTypeOK
<1>1. CASE handler[r].phase # "waiting" /\ UNCHANGED queue
  <2>1. QueueOfWaiting'
    BY <1>0, <1>1, QueueKept DEF GiveUp, PoolInv
  <2>. QED BY <1>0, <1>1, <2>1, GiveUpKeeps
<1>2. ASSUME NEW i \in DOMAIN queue, queue[i] = r,
             queue' = SubSeq(queue, 1, i - 1) \o SubSeq(queue, i + 1, Len(queue))
      PROVE  PoolInv'
  <2>. DEFINE Was(j) == IF j < i THEN j ELSE j + 1
  <2>1. i \in 1 .. Len(queue) /\ Len(queue) \in Nat /\ DOMAIN queue = 1 .. Len(queue)
    BY <1>0, <1>2
  <2>2. /\ SubSeq(queue, 1, i - 1) \in Seq(Requests)
        /\ Len(SubSeq(queue, 1, i - 1)) = i - 1
        /\ \A j \in 1 .. i - 1 : SubSeq(queue, 1, i - 1)[j] = queue[j]
    BY <1>0, <2>1
  <2>3. /\ SubSeq(queue, i + 1, Len(queue)) \in Seq(Requests)
        /\ Len(SubSeq(queue, i + 1, Len(queue))) = Len(queue) - i
        /\ \A j \in 1 .. Len(queue) - i : SubSeq(queue, i + 1, Len(queue))[j] = queue[i + j]
    BY <1>0, <2>1
  <2>4. /\ queue' \in Seq(Requests)
        /\ DOMAIN queue' = 1 .. Len(queue) - 1
        /\ \A j \in 1 .. Len(queue) - 1 : queue'[j] = queue[Was(j)]
    <3>1. /\ Len(queue') = Len(queue) - 1
          /\ queue' \in Seq(Requests)
      BY <1>2, <2>1, <2>2, <2>3
    <3>2. ASSUME NEW j \in 1 .. Len(queue) - 1 PROVE queue'[j] = queue[Was(j)]
      <4>1. CASE j < i
        <5>1. queue'[j] = SubSeq(queue, 1, i - 1)[j] /\ j \in 1 .. i - 1
          BY <1>2, <2>1, <2>2, <2>3, <4>1
        <5>. QED BY <2>2, <4>1, <5>1
      <4>2. CASE ~(j < i)
        <5>1. j - (i - 1) \in 1 .. Len(queue) - i /\ i + (j - (i - 1)) = j + 1
          BY <2>1, <4>2
        <5>2. queue'[j] = SubSeq(queue, i + 1, Len(queue))[j - (i - 1)]
          <6>. DEFINE s == SubSeq(queue, 1, i - 1)
                      t == SubSeq(queue, i + 1, Len(queue))
          <6>1. /\ s \in Seq(Requests) /\ t \in Seq(Requests)
                /\ Len(s) = i - 1 /\ Len(t) = Len(queue) - i /\ queue' = s \o t
            BY <1>2, <2>2, <2>3
          <6>. HIDE DEF s, t
          <6>2. j \in 1 .. Len(s) + Len(t) /\ ~(j <= Len(s))
            BY <2>1, <4>2, <6>1
          <6>3. (s \o t)[j] = t[j - Len(s)]
            BY <6>1, <6>2, ConcatAt
          <6>4. queue'[j] = t[j - (i - 1)]
            BY <6>1, <6>3
          <6>. QED BY <6>4 DEF t
        <5>3. SubSeq(queue, i + 1, Len(queue))[j - (i - 1)] = queue[j + 1]
          BY <2>3, <5>1
        <5>. QED BY <4>2, <5>2, <5>3
      <4>. QED BY <4>1, <4>2
    <3>3. DOMAIN queue' = 1 .. Len(queue) - 1
      BY <3>1
    <3>. QED BY <3>1, <3>2, <3>3
  <2>5. /\ \A j \in 1 .. Len(queue) - 1 : Was(j) \in DOMAIN queue /\ Was(j) # i
        /\ \A j, k \in 1 .. Len(queue) - 1 : Was(j) = Was(k) => j = k
    BY <2>1
  <2>. HIDE DEF Was
  <2>6. \A j \in DOMAIN queue' : handler'[queue'[j]].phase = "waiting"
    <3>. TAKE j \in DOMAIN queue'
    <3>1. queue'[j] = queue[Was(j)] /\ Was(j) \in DOMAIN queue /\ Was(j) # i
      BY <2>4, <2>5
    <3>2. queue[Was(j)] # r /\ queue[Was(j)] \in Requests
          /\ handler[queue[Was(j)]].phase = "waiting"
      BY <1>0, <1>2, <3>1 DEF PoolInv, QueueOfWaiting
    <3>. QED BY <1>0, <3>1, <3>2 DEF GiveUp, PoolInv, PoolTypeOK
  <2>7. \A j, k \in DOMAIN queue' : queue'[j] = queue'[k] => j = k
    BY <2>4, <2>5 DEF PoolInv, QueueOfWaiting
  <2>. QED BY <1>0, <2>4, <2>6, <2>7, GiveUpKeeps DEF QueueOfWaiting
<1>. QED BY <1>1, <1>2 DEF HangUp

LEMMA PoolStep ==
    PoolInv /\ [PoolNext]_poolVars => PoolInv'
<1>. SUFFICES ASSUME PoolInv, [PoolNext]_poolVars PROVE PoolInv'
  OBVIOUS
<1>1. ASSUME NEW r \in Requests, NEW kind \in {"plain", "register", "apple"}, Start(r, kind)
      PROVE  PoolInv'
  BY <1>1, StartKeeps
<1>2. ASSUME NEW r \in Requests, Work(r) PROVE PoolInv'
  BY <1>2, AcquireKeeps, UsedKeeps, BegunKeeps, TxStatementKeeps, CommittedKeeps DEF Work
<1>3. ASSUME NEW r \in Requests, NEW c \in Conns, Hand(r, c) PROVE PoolInv'
  BY <1>3, HandKeeps
<1>4. ASSUME NEW r \in Requests, Fail(r) \/ HangUp(r) PROVE PoolInv'
  BY <1>4, FailKeeps, HangUpKeeps
<1>5. CASE UNCHANGED poolVars
  BY <1>5 DEF PoolInv, PoolTypeOK, NoConnIsLost, Holds, Consistent, Call, QueueOfWaiting, poolVars
<1>. QED BY <1>1, <1>2, <1>3, <1>4, <1>5 DEF PoolNext

LEMMA PoolStart == PoolInit => PoolInv
<1>. SUFFICES ASSUME PoolInit PROVE PoolInv
  OBVIOUS
<1>1. \A r \in Requests : handler[r] = NoHandler
  BY DEF PoolInit
<1>2. \A r \in Requests : Holds(r) = {} /\ handler[r].tx = NoConn
  BY <1>1 DEF Holds, NoHandler
<1>3. NoConnIsLost
  BY <1>2, PoolAssumption DEF NoConnIsLost, PoolInit
<1>4. PoolTypeOK
  <2>1. NoHandler \in HandlerType /\ NoHandler.kind # "apple"
    BY DEF HandlerType, NoHandler
  <2>. QED BY <1>1, <2>1 DEF PoolTypeOK, PoolInit
<1>5. QueueOfWaiting
  BY DEF QueueOfWaiting, PoolInit
<1>. QED BY <1>1, <1>3, <1>4, <1>5 DEF PoolInv, Consistent

\* The invariant every theorem about the pool rests on.
THEOREM PoolInvariance == PoolSpec => []PoolInv
<1>1. PoolInit => PoolInv
  BY PoolStart
<1>2. PoolInv /\ [PoolNext]_poolVars => PoolInv'
  BY PoolStep
<1>. QED BY <1>1, <1>2, PTL DEF PoolSpec

\* A handler that waits for a connection while it keeps another is a first
\* Apple sign-in, and the connection it keeps is its transaction's.
LEMMA OnlyAppleWaitsHolding ==
    ASSUME PoolInv, NEW r \in Requests, NEW c \in Holds(r), r \notin Moving
    PROVE  r \in AppleRequests /\ handler[r].tx = c
<1>1. handler[r] # NoHandler
  BY DEF Holds, NoHandler
<1>2. handler[r].phase = "waiting"
  BY <1>1, HandlerFields DEF PoolInv, Moving
<1>3. handler[r].conn = NoConn /\ Call(r) \in {"use", "begin"}
  BY <1>1, <1>2 DEF PoolInv, Consistent
<1>4. handler[r].tx = c /\ handler[r].tx # NoConn
  BY <1>3 DEF Holds
<1>5. InTx(handler[r])
  BY <1>1, <1>4, TxAt
<1>6. Call(r) = "use"
  BY <1>1, <1>3, <1>5, TxAt
<1>7. handler[r].kind = "apple"
  <2>1. \/ handler[r].kind = "plain"
        \/ handler[r].kind = "register" /\ handler[r].at = 1
        \/ handler[r].kind = "apple"
    BY <1>1, <1>6, CallAt
  <2>2. 1 \notin {3, 4}
    OBVIOUS
  <2>. QED BY <1>5, <2>1, <2>2, Zenon DEF InTx
<1>. QED BY <1>1, <1>4, <1>7, HandlerFields DEF PoolInv

\* With every handler stuck each connection has an Apple sign-in of its own.
LEMMA PoolInvImpliesNeverJammed == PoolInv => NeverJammed
<1>. SUFFICES ASSUME PoolInv, Jammed
              PROVE  Cardinality(Conns) <= Cardinality(AppleRequests)
  <2>1. Cardinality(Conns) \in Nat /\ Cardinality(AppleRequests) \in Nat
    BY PoolAssumption, FS_CardinalityType
  <2>. QED BY <2>1 DEF NeverJammed
<1>. DEFINE Holder(c) == CHOOSE r \in Requests : c \in Holds(r)
<1>1. \A c \in Conns : Holder(c) \in Requests /\ c \in Holds(Holder(c))
  BY DEF PoolInv, NoConnIsLost, Jammed
<1>2. \A c \in Conns : Holder(c) \in AppleRequests /\ handler[Holder(c)].tx = c
  <2>. TAKE c \in Conns
  <2>. HIDE DEF Holder
  <2>1. Holder(c) \in Requests /\ c \in Holds(Holder(c)) /\ Holder(c) \notin Moving
    BY <1>1 DEF Jammed
  <2>. QED BY <2>1, OnlyAppleWaitsHolding
<1>. DEFINE f == [c \in Conns |-> Holder(c)]
<1>. HIDE DEF Holder
<1>3. f \in Injection(Conns, AppleRequests)
  BY <1>2 DEF Injection, IsInjective
<1>4. Cardinality(Conns) <= Cardinality(AppleRequests)
  BY <1>3, PoolAssumption, FS_Injection
<1>. QED BY <1>4

\* The pool, its queue and its handlers have the types they are given.
THEOREM PoolTypeCorrect == PoolSpec => []PoolTypeOK
<1>1. PoolInv => PoolTypeOK
  BY DEF PoolInv
<1>. QED BY <1>1, PoolInvariance, PTL

\* No path through a handler - an error, a hang-up, an early return - leaks a
\* connection or gives one back twice.
THEOREM ConnsAreConserved == PoolSpec => []NoConnIsLost
<1>1. PoolInv => NoConnIsLost
  BY DEF PoolInv
<1>. QED BY <1>1, PoolInvariance, PTL

\* A pool larger than the number of first Apple sign-ins at a time never jams.
THEOREM LargePoolsDoNotJam == PoolSpec => []NeverJammed
BY PoolInvariance, PoolInvImpliesNeverJammed, PTL

=============================================================================
