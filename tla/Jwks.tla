-------------------------------- MODULE Jwks --------------------------------
(***************************************************************************)
(* The cache of Apple's public keys, shared by every /auth/apple handler,  *)
(* and the verification of an identity token against it.  The mutex covers *)
(* one look-up or one store at a time, not the fetch between them, so that *)
(* handlers that miss the cache fetch side by side.  Apple publishes and   *)
(* withdraws keys when it likes.  Time is counted in ticks.                *)
(***************************************************************************)
EXTENDS Naturals

CONSTANTS
    Kids,       \* key ids Apple may use
    NoKid,      \* the kid of a token that has none
    Verifiers,  \* slots for verifications in progress
    TTL,        \* appleJWKSTTL, in ticks
    Timeout     \* of the HTTP client, in ticks

ASSUME JwksAssumption ==
    /\ NoKid \notin Kids
    /\ TTL \in Nat
    /\ Timeout \in Nat

VARIABLES
    published,     \* the keys Apple serves at the moment
    withdrawnFor,  \* how long each key has been absent from them
    cache,         \* the stored keys and the time since they were stored
    verifier       \* verifier[v]: one call of Verify

jwksVars == <<published, withdrawnFor, cache, verifier>>

\* Bounds: past these a time is only known to be longer.
Expired == TTL + 1
LongAgo == TTL + Timeout + 1

Free == [at |-> "free", kid |-> NoKid, sound |-> FALSE, served |-> {}, waited |-> 0]

JwksInit ==
    /\ published \in SUBSET Kids
    /\ withdrawnFor = [k \in Kids |-> IF k \in published THEN 0 ELSE LongAgo]
    /\ cache = [keys |-> {}, age |-> Expired]
    /\ verifier = [v \in Verifiers |-> Free]

\* A faulty variant: keys are kept until the next store.
CachedKeysForGood == cache.keys

CachedKeys == IF cache.age > TTL THEN {} ELSE cache.keys

StoredKeys(served) == [keys |-> served, age |-> 0]

Becomes(v, at) == verifier' = [verifier EXCEPT ![v].at = at]

\* The signature and the claims are checked once there is a key.
Judge(v) == Becomes(v, IF verifier[v].sound THEN "accepted" ELSE "refused")

-----------------------------------------------------------------------------
\* A token arrives.
Verify(v, kid, sound) ==
    /\ verifier[v] = Free
    /\ verifier' = [verifier EXCEPT ![v] =
           [at |-> "lookup", kid |-> kid, sound |-> sound, served |-> {}, waited |-> 0]]
    /\ UNCHANGED <<published, withdrawnFor, cache>>

LookUp(v) ==
    /\ verifier[v].at = "lookup"
    /\ \/ verifier[v].kid = NoKid /\ Becomes(v, "refused")
       \/ verifier[v].kid \in CachedKeys /\ Judge(v)
       \/ verifier[v].kid \in Kids \ CachedKeys /\ Becomes(v, "fetching")
    /\ UNCHANGED <<published, withdrawnFor, cache>>

\* Apple answers the request with the keys of that moment.
Serve(v) ==
    /\ verifier[v].at = "fetching"
    /\ verifier' = [verifier EXCEPT ![v] = [@ EXCEPT !.at = "served", !.served = published]]
    /\ UNCHANGED <<published, withdrawnFor, cache>>

\* The body is read and parsed: its keys replace the stored ones.
Store(v) ==
    /\ verifier[v].at = "served"
    /\ cache' = StoredKeys(verifier[v].served)
    /\ Becomes(v, "recheck")
    /\ UNCHANGED <<published, withdrawnFor>>

\* A faulty variant: a kid that is not found is fetched again.
LookAgainRetries(v) ==
    /\ verifier[v].at = "recheck"
    /\ \/ verifier[v].kid \in CachedKeys /\ Judge(v)
       \/ /\ verifier[v].kid \notin CachedKeys
          /\ verifier' = [verifier EXCEPT ![v].at = "fetching", ![v].waited = 0]
    /\ UNCHANGED <<published, withdrawnFor, cache>>

LookAgain(v) ==
    /\ verifier[v].at = "recheck"
    /\ \/ verifier[v].kid \in CachedKeys /\ Judge(v)
       \/ verifier[v].kid \notin CachedKeys /\ Becomes(v, "unknown kid")
    /\ UNCHANGED <<published, withdrawnFor, cache>>

\* No connection, a status other than 200, a body that does not parse, or a
\* client that hung up.  The stored keys stay.
FetchFails(v) ==
    /\ verifier[v].at \in {"fetching", "served"}
    /\ Becomes(v, "refused")
    /\ UNCHANGED <<published, withdrawnFor, cache>>

\* The HTTP client gives up on the request or on its body.
TimeOut(v) == verifier[v].waited = Timeout /\ FetchFails(v)

Return(v) ==
    /\ verifier[v].at \in {"accepted", "refused", "unknown kid"}
    /\ verifier' = [verifier EXCEPT ![v] = Free]
    /\ UNCHANGED <<published, withdrawnFor, cache>>

-----------------------------------------------------------------------------
\* Apple's side, and time.
Publish(k) ==
    /\ k \notin published
    /\ published' = published \cup {k}
    /\ withdrawnFor' = [withdrawnFor EXCEPT ![k] = 0]
    /\ UNCHANGED <<cache, verifier>>

Withdraw(k) ==
    /\ k \in published
    /\ published' = published \ {k}
    /\ UNCHANGED <<withdrawnFor, cache, verifier>>

Waiting(v) == verifier[v].at \in {"fetching", "served"}

Later(time, bound) == IF time < bound THEN time + 1 ELSE bound

\* A faulty variant: the HTTP client has no timeout.
TickPastTimeout ==
    /\ \A v \in Verifiers : verifier[v].at # "recheck"
    /\ withdrawnFor' = [k \in Kids |->
           IF k \in published THEN 0 ELSE Later(withdrawnFor[k], LongAgo)]
    /\ cache' = [cache EXCEPT !.age = Later(@, Expired)]
    /\ verifier' = [v \in Verifiers |->
           IF Waiting(v) THEN [verifier[v] EXCEPT !.waited = Later(@, Timeout + 1)]
                         ELSE verifier[v]]
    /\ UNCHANGED published

\* No request outlives the client's timeout, and a tick is long beside the
\* moment between a store and the look-up that follows it.
Tick ==
    /\ \A v \in Verifiers : Waiting(v) => verifier[v].waited < Timeout
    /\ \A v \in Verifiers : verifier[v].at # "recheck"
    /\ withdrawnFor' = [k \in Kids |->
           IF k \in published THEN 0 ELSE Later(withdrawnFor[k], LongAgo)]
    /\ cache' = [cache EXCEPT !.age = Later(@, Expired)]
    /\ verifier' = [v \in Verifiers |->
           IF Waiting(v) THEN [verifier[v] EXCEPT !.waited = @ + 1] ELSE verifier[v]]
    /\ UNCHANGED published

Apple == \E k \in Kids : Publish(k) \/ Withdraw(k)

JwksNext ==
    \/ \E v \in Verifiers :
         \/ \E kid \in Kids \cup {NoKid}, sound \in BOOLEAN : Verify(v, kid, sound)
         \/ LookUp(v) \/ Serve(v) \/ Store(v) \/ LookAgain(v)
         \/ FetchFails(v) \/ TimeOut(v) \/ Return(v)
    \/ Apple
    \/ Tick

JwksSpec == JwksInit /\ [][JwksNext]_jwksVars

\* Handlers run, the HTTP client keeps its timeout and time passes, however
\* often a handler is between two look-ups.  Nothing makes Apple answer.
JwksFairness ==
    /\ \A v \in Verifiers : WF_jwksVars(LookUp(v) \/ Store(v) \/ LookAgain(v) \/ TimeOut(v))
    /\ SF_jwksVars(Tick)

FairJwksSpec == JwksSpec /\ JwksFairness

-----------------------------------------------------------------------------
(* Properties *)

VerifierType ==
    [at : {"free", "lookup", "fetching", "served", "recheck", "accepted", "refused",
           "unknown kid"},
     kid : Kids \cup {NoKid}, sound : BOOLEAN, served : SUBSET Kids,
     waited : 0 .. Timeout]

\* Cache and verifications keep their shape; no request outlives the client's timeout.
JwksTypeOK ==
    /\ published \subseteq Kids
    /\ withdrawnFor \in [Kids -> 0 .. LongAgo]
    /\ cache \in [keys : SUBSET Kids, age : 0 .. Expired]
    /\ verifier \in [Verifiers -> VerifierType]

\* A key that Apple withdrew more than the cache's lifetime and one request's
\* timeout ago signs nobody in, however fetches overtake each other.
StaleKeysExpire ==
    [][\A v \in Verifiers :
         verifier[v].at # "accepted" /\ verifier'[v].at = "accepted" =>
             withdrawnFor[verifier[v].kid] <= TTL + Timeout]_jwksVars

\* Every verification ends, whether Apple answers or not.
VerificationsEnd == \A v \in Verifiers :
    verifier[v].at = "lookup" ~> verifier[v].at \in {"accepted", "refused", "unknown kid"}

=============================================================================
