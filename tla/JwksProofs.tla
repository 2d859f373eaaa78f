----------------------------- MODULE JwksProofs -----------------------------
(***************************************************************************)
(* For any set of keys, any number of verifications and any lifetime and   *)
(* timeout: a withdrawn key is soon of no use.  What a verification has    *)
(* fetched is as old as its wait, and what is stored as old as the store   *)
(* and one such wait.                                                      *)
(***************************************************************************)
EXTENDS Jwks, TLAPS

\* The keys a verification has fetched were published when its wait began or
\* later.
FetchedRecently == \A v \in Verifiers :
    verifier[v].at = "served" =>
        \A k \in verifier[v].served : withdrawnFor[k] <= verifier[v].waited

\* The stored keys were published one wait before they were stored, or later.
StoredRecently ==
    cache.age <= TTL => \A k \in cache.keys : withdrawnFor[k] <= cache.age + Timeout

JwksInv ==
    /\ JwksTypeOK
    /\ \A k \in published : withdrawnFor[k] = 0
    /\ FetchedRecently
    /\ StoredRecently

\* The fields of a verification.
LEMMA VerifierFields ==
    ASSUME JwksTypeOK, NEW v \in Verifiers
    PROVE  /\ verifier[v] \in VerifierType
           /\ verifier[v].served \subseteq Kids
           /\ verifier[v].waited \in Nat
           /\ verifier[v].waited <= Timeout
<1>1. verifier[v] \in VerifierType
  BY DEF JwksTypeOK
<1>2. verifier[v].served \in SUBSET Kids /\ verifier[v].waited \in 0 .. Timeout
  BY <1>1 DEF VerifierType
<1>. QED BY <1>1, <1>2, JwksAssumption

LEMMA JwksStart == JwksInit => JwksInv
<1>. SUFFICES ASSUME JwksInit PROVE JwksInv
  OBVIOUS
<1>1. published \subseteq Kids /\ withdrawnFor \in [Kids -> 0 .. LongAgo]
  BY JwksAssumption DEF JwksInit, LongAgo
<1>2. cache \in [keys : SUBSET Kids, age : 0 .. Expired] /\ cache.keys = {}
  BY JwksAssumption DEF JwksInit, Expired
<1>3. verifier \in [Verifiers -> VerifierType] /\ \A v \in Verifiers : verifier[v].at # "served"
  <2>1. Free \in VerifierType /\ Free.at # "served"
    BY JwksAssumption DEF Free, VerifierType
  <2>. QED BY <2>1 DEF JwksInit
<1>4. \A k \in published : withdrawnFor[k] = 0
  BY <1>1 DEF JwksInit
<1>. QED BY <1>1, <1>2, <1>3, <1>4 DEF JwksInv, JwksTypeOK, FetchedRecently, StoredRecently

\* A step that moves one verification on and leaves time and the cache alone.
LEMMA OneVerifierStep ==
    ASSUME JwksInv, NEW v \in Verifiers, NEW w \in VerifierType,
           verifier' = [verifier EXCEPT ![v] = w],
           w.at = "served" => \A k \in w.served : withdrawnFor[k] <= w.waited,
           UNCHANGED <<published, withdrawnFor, cache>>
    PROVE  JwksInv'
<1>1. JwksTypeOK'
  BY DEF JwksInv, JwksTypeOK
<1>2. FetchedRecently'
  BY DEF JwksInv, JwksTypeOK, FetchedRecently
<1>. QED BY <1>1, <1>2 DEF JwksInv, StoredRecently

\* The steps of a verification that do so.
LEMMA BecomesKeeps ==
    ASSUME JwksInv, NEW v \in Verifiers,
           NEW at \in {"fetching", "accepted", "refused", "unknown kid"}, Becomes(v, at),
           UNCHANGED <<published, withdrawnFor, cache>>
    PROVE  JwksInv'
<1>. DEFINE w == [verifier[v] EXCEPT !.at = at]
<1>1. w \in VerifierType /\ w.at # "served"
  BY DEF JwksInv, JwksTypeOK, VerifierType
<1>2. verifier' = [verifier EXCEPT ![v] = w]
  BY DEF Becomes
<1>. QED BY <1>1, <1>2, OneVerifierStep

LEMMA VerifyKeeps ==
    ASSUME JwksInv, NEW v \in Verifiers, NEW kid \in Kids \cup {NoKid}, NEW sound \in BOOLEAN,
           Verify(v, kid, sound)
    PROVE  JwksInv'
<1>. DEFINE w == [at |-> "lookup", kid |-> kid, sound |-> sound, served |-> {}, waited |-> 0]
<1>1. 0 \in 0 .. Timeout
  BY JwksAssumption
<1>2. w \in VerifierType /\ w.at = "lookup"
  BY <1>1 DEF VerifierType
<1>. QED BY <1>2, OneVerifierStep DEF Verify

LEMMA ReturnKeeps ==
    ASSUME JwksInv, NEW v \in Verifiers, Return(v)
    PROVE  JwksInv'
<1>1. Free \in VerifierType /\ Free.at # "served"
  BY JwksAssumption DEF Free, VerifierType
<1>. QED BY <1>1, OneVerifierStep DEF Return

LEMMA ServeKeeps ==
    ASSUME JwksInv, NEW v \in Verifiers, Serve(v)
    PROVE  JwksInv'
<1>. DEFINE w == [verifier[v] EXCEPT !.at = "served", !.served = published]
<1>1. verifier[v] \in VerifierType /\ verifier[v].waited \in Nat /\ published \subseteq Kids
  BY VerifierFields DEF JwksInv, JwksTypeOK
<1>2. w \in VerifierType /\ w.served = published /\ w.waited = verifier[v].waited
  BY <1>1 DEF VerifierType
<1>3. \A k \in w.served : withdrawnFor[k] <= w.waited
  BY <1>1, <1>2 DEF JwksInv
<1>4. verifier' = [verifier EXCEPT ![v] = w]
  BY DEF Serve
<1>. QED BY <1>2, <1>3, <1>4, OneVerifierStep DEF Serve

LEMMA StoreKeeps ==
    ASSUME JwksInv, NEW v \in Verifiers, Store(v)
    PROVE  JwksInv'
<1>1. /\ verifier[v] \in VerifierType /\ verifier[v].at = "served"
      /\ verifier[v].served \subseteq Kids
      /\ verifier[v].waited \in Nat /\ verifier[v].waited <= Timeout
  BY VerifierFields DEF JwksInv, Store
<1>2. cache' = [keys |-> verifier[v].served, age |-> 0]
  BY DEF Store, StoredKeys
<1>3. cache' \in [keys : SUBSET Kids, age : 0 .. Expired]
  BY <1>1, <1>2, JwksAssumption DEF Expired
<1>4. verifier' \in [Verifiers -> VerifierType]
      /\ \A u \in Verifiers : verifier'[u].at = "served" => u # v /\ verifier'[u] = verifier[u]
  BY <1>1 DEF Store, Becomes, JwksInv, JwksTypeOK, VerifierType
<1>5. JwksTypeOK'
  BY <1>3, <1>4 DEF JwksInv, JwksTypeOK, Store
<1>6. FetchedRecently'
  BY <1>4 DEF JwksInv, FetchedRecently, Store
<1>7. StoredRecently'
  <2>1. \A k \in verifier[v].served : k \in Kids /\ withdrawnFor[k] <= verifier[v].waited
    BY <1>1 DEF JwksInv, FetchedRecently
  <2>2. verifier[v].waited \in 0 .. Timeout
    BY <1>1
  <2>3. \A k \in verifier[v].served : withdrawnFor[k] <= Timeout
    BY <2>1, <2>2, JwksAssumption DEF JwksInv, JwksTypeOK, LongAgo
  <2>. QED BY <1>2, <2>3, JwksAssumption DEF StoredRecently, Store
<1>. QED BY <1>5, <1>6, <1>7 DEF JwksInv, Store

LEMMA PublishKeeps ==
    ASSUME JwksInv, NEW k \in Kids, Publish(k)
    PROVE  JwksInv'
<1>1. /\ withdrawnFor' \in [Kids -> 0 .. LongAgo]
      /\ \A l \in Kids : withdrawnFor'[l] <= withdrawnFor[l]
      /\ withdrawnFor'[k] = 0
      /\ \A l \in Kids \ {k} : withdrawnFor'[l] = withdrawnFor[l]
  BY JwksAssumption DEF Publish, JwksInv, JwksTypeOK, LongAgo
<1>2. JwksTypeOK'
  BY <1>1 DEF Publish, JwksInv, JwksTypeOK
<1>3. FetchedRecently'
  <2>. SUFFICES ASSUME NEW v \in Verifiers, verifier[v].at = "served",
                       NEW l \in verifier[v].served
                PROVE  withdrawnFor'[l] <= verifier[v].waited
    BY DEF FetchedRecently, Publish
  <2>1. l \in Kids /\ verifier[v].waited \in Nat /\ withdrawnFor[l] <= verifier[v].waited
    BY VerifierFields DEF JwksInv, FetchedRecently
  <2>. QED BY <1>1, <2>1, JwksAssumption DEF JwksInv, JwksTypeOK, LongAgo
<1>4. StoredRecently'
  <2>. SUFFICES ASSUME cache.age <= TTL, NEW l \in cache.keys
                PROVE  withdrawnFor'[l] <= cache.age + Timeout
    BY DEF StoredRecently, Publish
  <2>1. l \in Kids /\ cache.age \in Nat /\ withdrawnFor[l] <= cache.age + Timeout
    BY JwksAssumption DEF JwksInv, JwksTypeOK, StoredRecently
  <2>. QED BY <1>1, <2>1, JwksAssumption DEF JwksInv, JwksTypeOK, LongAgo
<1>5. \A l \in published' : withdrawnFor'[l] = 0
  BY <1>1 DEF Publish, JwksInv, JwksTypeOK
<1>. QED BY <1>2, <1>3, <1>4, <1>5 DEF JwksInv

LEMMA WithdrawKeeps ==
    ASSUME JwksInv, NEW k \in Kids, Withdraw(k)
    PROVE  JwksInv'
<1>1. JwksTypeOK'
  BY DEF Withdraw, JwksInv, JwksTypeOK
<1>2. FetchedRecently'
  BY DEF Withdraw, JwksInv, FetchedRecently
<1>. QED BY <1>1, <1>2 DEF Withdraw, JwksInv, StoredRecently

LEMMA TickKeeps ==
    ASSUME JwksInv, Tick
    PROVE  JwksInv'
<1>1. /\ withdrawnFor' \in [Kids -> 0 .. LongAgo]
      /\ \A k \in Kids : withdrawnFor'[k] <= withdrawnFor[k] + 1
      /\ \A k \in published : withdrawnFor'[k] = 0
  BY JwksAssumption DEF Tick, Later, JwksInv, JwksTypeOK, LongAgo
<1>2. /\ cache' \in [keys : SUBSET Kids, age : 0 .. Expired]
      /\ cache'.keys = cache.keys
      /\ cache'.age <= TTL => cache.age <= TTL /\ cache'.age = cache.age + 1
  <2>1. cache \in [keys : SUBSET Kids, age : 0 .. Expired]
    BY DEF JwksInv, JwksTypeOK
  <2>2. cache' = [cache EXCEPT !.age = Later(cache.age, Expired)]
    BY DEF Tick
  <2>3. /\ Later(cache.age, Expired) \in 0 .. Expired
        /\ Later(cache.age, Expired) <= TTL =>
             cache.age <= TTL /\ Later(cache.age, Expired) = cache.age + 1
    BY <2>1, JwksAssumption DEF Later, Expired
  <2>. QED BY <2>1, <2>2, <2>3
<1>3. \A v \in Verifiers :
        /\ verifier'[v] \in VerifierType
        /\ verifier'[v].at = verifier[v].at
        /\ verifier'[v].served = verifier[v].served
        /\ verifier[v].at = "served" => verifier'[v].waited = verifier[v].waited + 1
  <2>. TAKE v \in Verifiers
  <2>1. verifier[v] \in VerifierType
    BY DEF JwksInv, JwksTypeOK
  <2>2. CASE Waiting(v)
    <3>1. verifier'[v] = [verifier[v] EXCEPT !.waited = verifier[v].waited + 1]
      BY <2>2 DEF Tick
    <3>2. verifier[v].waited + 1 \in 0 .. Timeout
      <4>1. verifier[v].waited \in Nat /\ verifier[v].waited < Timeout
        BY <2>2, VerifierFields DEF Tick, JwksInv
      <4>. QED BY <4>1, JwksAssumption
    <3>. QED BY <2>1, <3>1, <3>2 DEF VerifierType
  <2>3. CASE ~Waiting(v)
    BY <2>1, <2>3 DEF Tick, Waiting
  <2>. QED BY <2>2, <2>3
<1>4. JwksTypeOK'
  BY <1>1, <1>2, <1>3 DEF Tick, JwksInv, JwksTypeOK
<1>5. FetchedRecently'
  <2>. SUFFICES ASSUME NEW v \in Verifiers, verifier'[v].at = "served",
                       NEW k \in verifier'[v].served
                PROVE  withdrawnFor'[k] <= verifier'[v].waited
    BY DEF FetchedRecently
  <2>1. /\ k \in Kids /\ verifier[v].waited \in Nat
        /\ withdrawnFor[k] <= verifier[v].waited
        /\ verifier'[v].waited = verifier[v].waited + 1
    BY <1>3, VerifierFields DEF JwksInv, FetchedRecently
  <2>2. withdrawnFor[k] \in Nat /\ withdrawnFor'[k] \in Nat
    BY <1>1, <2>1, JwksAssumption DEF JwksInv, JwksTypeOK, LongAgo
  <2>. QED BY <1>1, <2>1, <2>2
<1>6. StoredRecently'
  <2>. SUFFICES ASSUME cache'.age <= TTL, NEW k \in cache'.keys
                PROVE  withdrawnFor'[k] <= cache'.age + Timeout
    BY DEF StoredRecently
  <2>1. /\ k \in Kids /\ cache.age \in Nat
        /\ withdrawnFor[k] <= cache.age + Timeout
        /\ cache'.age = cache.age + 1
    BY <1>2, JwksAssumption DEF JwksInv, JwksTypeOK, StoredRecently
  <2>2. withdrawnFor[k] \in Nat /\ withdrawnFor'[k] \in Nat
    BY <1>1, <2>1, JwksAssumption DEF JwksInv, JwksTypeOK, LongAgo
  <2>. QED BY <1>1, <2>1, <2>2, JwksAssumption
<1>. QED BY <1>1, <1>4, <1>5, <1>6 DEF Tick, JwksInv

LEMMA LookUpKeeps ==
    ASSUME JwksInv, NEW v \in Verifiers, LookUp(v) \/ LookAgain(v) \/ FetchFails(v)
    PROVE  JwksInv'
BY BecomesKeeps DEF LookUp, LookAgain, FetchFails, Judge

LEMMA JwksStep ==
    JwksInv /\ [JwksNext]_jwksVars => JwksInv'
<1>. SUFFICES ASSUME JwksInv, [JwksNext]_jwksVars PROVE JwksInv'
  OBVIOUS
<1>1. ASSUME NEW v \in Verifiers, NEW kid \in Kids \cup {NoKid}, NEW sound \in BOOLEAN,
             Verify(v, kid, sound)
      PROVE  JwksInv'
  BY <1>1, VerifyKeeps
<1>2. ASSUME NEW v \in Verifiers,
             LookUp(v) \/ Serve(v) \/ Store(v) \/ LookAgain(v) \/ FetchFails(v) \/ TimeOut(v) \/ Return(v)
      PROVE  JwksInv'
  BY <1>2, LookUpKeeps, ServeKeeps, StoreKeeps, ReturnKeeps DEF TimeOut
<1>3. CASE Apple
  BY <1>3, PublishKeeps, WithdrawKeeps DEF Apple
<1>4. CASE Tick
  BY <1>4, TickKeeps
<1>5. CASE UNCHANGED jwksVars
  BY <1>5 DEF JwksInv, JwksTypeOK, FetchedRecently, StoredRecently, jwksVars
<1>. QED BY <1>1, <1>2, <1>3, <1>4, <1>5 DEF JwksNext

\* Fetched and stored keys are as recent as the waits allow.
THEOREM JwksInvariance == JwksSpec => []JwksInv
<1>1. JwksInit => JwksInv
  BY JwksStart
<1>2. JwksInv /\ [JwksNext]_jwksVars => JwksInv'
  BY JwksStep
<1>. QED BY <1>1, <1>2, PTL DEF JwksSpec

\* The keys, the cache and the verifications have the types they are given.
THEOREM JwksTypeCorrect == JwksSpec => []JwksTypeOK
<1>1. JwksInv => JwksTypeOK
  BY DEF JwksInv
<1>. QED BY <1>1, JwksInvariance, PTL

\* A verification accepts on a fresh cached key and on nothing else.
LEMMA AcceptedWhenCached ==
    ASSUME JwksInv, [JwksNext]_jwksVars, NEW v \in Verifiers,
           verifier[v].at # "accepted", verifier'[v].at = "accepted"
    PROVE  verifier[v].kid \in CachedKeys
<1>0. verifier \in [Verifiers -> VerifierType]
  BY DEF JwksInv, JwksTypeOK
<1>1. ASSUME NEW u \in Verifiers, NEW kid \in Kids \cup {NoKid}, NEW sound \in BOOLEAN,
             Verify(u, kid, sound)
      PROVE  FALSE
  <2>1. CASE u = v
    BY <1>0, <1>1, <2>1 DEF Verify
  <2>2. CASE u # v
    BY <1>0, <1>1, <2>2 DEF Verify
  <2>. QED BY <2>1, <2>2
<1>2. ASSUME NEW u \in Verifiers, LookUp(u) \/ LookAgain(u)
      PROVE  verifier[v].kid \in CachedKeys
  <2>1. \A at : Becomes(u, at) => u = v /\ verifier'[v].at = at
    <3>. SUFFICES ASSUME NEW at, Becomes(u, at) PROVE u = v /\ verifier'[v].at = at
      OBVIOUS
    <3>1. u = v
      BY <1>0 DEF Becomes
    <3>. QED BY <1>0, <3>1 DEF Becomes, VerifierType
  <2>2. "refused" # "accepted" /\ "fetching" # "accepted" /\ "unknown kid" # "accepted"
    OBVIOUS
  <2>. QED BY <1>2, <2>1, <2>2 DEF LookUp, LookAgain, Judge
<1>3. ASSUME NEW u \in Verifiers, Serve(u) \/ Store(u) \/ FetchFails(u) \/ TimeOut(u) \/ Return(u)
      PROVE  FALSE
  <2>1. u = v
    BY <1>0, <1>3 DEF Serve, Store, FetchFails, TimeOut, Return, Becomes
  <2>2. verifier'[v].at \in {"served", "recheck", "refused", "free"}
    <3>0. CASE Serve(u)
      <4>1. verifier'[v] = [verifier[v] EXCEPT !.at = "served", !.served = published]
        BY <1>0, <2>1, <3>0 DEF Serve
      <4>. QED BY <1>0, <4>1 DEF VerifierType
    <3>1. CASE Return(u)
      BY <1>0, <2>1, <3>1 DEF Return, Free
    <3>2. CASE Store(u) \/ FetchFails(u) \/ TimeOut(u)
      BY <1>0, <2>1, <3>2 DEF Store, FetchFails, TimeOut, Becomes, VerifierType
    <3>. QED BY <1>3, <3>0, <3>1, <3>2
  <2>. QED BY <2>2
<1>4. CASE Apple
  BY <1>0, <1>4 DEF Apple, Publish, Withdraw, VerifierType
<1>5. CASE Tick
  BY <1>0, <1>5 DEF Tick, VerifierType
<1>6. CASE UNCHANGED jwksVars
  BY <1>6 DEF jwksVars
<1>. QED BY <1>1, <1>2, <1>3, <1>4, <1>5, <1>6 DEF JwksNext

\* Whoever presents a token signed with a key that Apple withdrew longer ago
\* than the cache's lifetime and one timeout is refused.
THEOREM StaleKeysAreExpired == JwksSpec => StaleKeysExpire
<1>1. ASSUME JwksInv, [JwksNext]_jwksVars
      PROVE  [\A v \in Verifiers :
                verifier[v].at # "accepted" /\ verifier'[v].at = "accepted" =>
                    withdrawnFor[verifier[v].kid] <= TTL + Timeout]_jwksVars
  <2>. SUFFICES ASSUME NEW v \in Verifiers,
                       verifier[v].at # "accepted", verifier'[v].at = "accepted"
                PROVE  withdrawnFor[verifier[v].kid] <= TTL + Timeout
    OBVIOUS
  <2>1. verifier[v].kid \in CachedKeys
    BY <1>1, AcceptedWhenCached
  <2>2. /\ cache.age <= TTL /\ cache.age \in Nat
        /\ verifier[v].kid \in cache.keys /\ verifier[v].kid \in Kids
    BY <1>1, <2>1, JwksAssumption DEF CachedKeys, JwksInv, JwksTypeOK
  <2>3. withdrawnFor[verifier[v].kid] <= cache.age + Timeout
    BY <1>1, <2>2 DEF JwksInv, StoredRecently
  <2>. QED BY <1>1, <2>2, <2>3, JwksAssumption DEF JwksInv, JwksTypeOK, LongAgo
<1>. QED BY <1>1, JwksInvariance, PTL DEF JwksSpec, StaleKeysExpire

=============================================================================
