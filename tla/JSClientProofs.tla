--------------------------- MODULE JSClientProofs ---------------------------
(***************************************************************************)
(* For any number of calls in flight, keys and documents: what the         *)
(* JavaScript client accepts and where its requests go.  What is in the    *)
(* cache was ours at some time, what a call fetched was ours during that   *)
(* call, and no document gets past ReceiveDoc unchecked; the rest is that  *)
(* nothing another call does meanwhile takes any of this back.             *)
(***************************************************************************)
EXTENDS JSClient, TLAPS

\* Stages a verification alone can be at, and stages with a checked document.
Verifying == {"jwksSent", "jwksBody", "import", "accepted"}
HasDoc == {"haveDoc", "jwksSent", "jwksBody", "apiSent", "apiBody"}

CacheInv ==
  /\ discovery # NoDoc => discovery \in TrustedDocs
  /\ keys # NoKeys => \A k \in keys.kids : PublishedSince(k, 0)

CallInv(p) ==
  /\ since[p] <= clock
  /\ pc[p] \in Verifying => kid[p] \in Kids
  /\ pc[p] \in HasDoc => doc[p] \in TrustedDocs
  /\ pc[p] \in {"jwksBody", "import"} => \A k \in answer[p] : PublishedSince(k, since[p])
  /\ pc[p] = "import" => answer[p] \subseteq UsableKids
  /\ pc[p] = "accepted" => PublishedSince(kid[p], since[p])

Inv == TypeOK /\ CacheInv /\ \A p \in Calls : CallInv(p)

LEMMA StagesOK ==
  Verifying \cup HasDoc \cup AwaitHeaders \cup AwaitBody \cup Ended \cup {"idle"} \subseteq Stages
  BY DEF Verifying, HasDoc, Stages, AwaitHeaders, AwaitBody, Ended

LEMMA InitInvariant == ASSUME Init PROVE Inv
<1>1. TypeOK
  BY JSAssumption, ProviderAssumption
  DEF Init, TypeOK, ProviderInit, ProviderTypeOK, LongAgo, Stages, Never
<1>2. CacheInv /\ \A p \in Calls : CallInv(p)
  BY DEF Init, ProviderInit, CacheInv, CallInv, Verifying, HasDoc
<1> QED
  BY <1>1, <1>2 DEF Inv

-----------------------------------------------------------------------------
(* The clock and the provider.                                              *)

LEMMA PublishedStays ==
  ASSUME TypeOK, NEW k \in Kids, NEW t \in Nat, t <= clock,
         PublishedSince(k, t), Tick \/ Provider
  PROVE  PublishedSince(k, t)'
<1>1. CASE Tick
  BY <1>1 DEF Tick, PublishedSince, providerVars
<1>2. ASSUME NEW j \in Kids \ OtherKids, Publish(j) PROVE PublishedSince(k, t)'
  BY <1>2 DEF Publish, PublishedSince
<1>3. ASSUME NEW j \in Kids \ OtherKids, Withdraw(j) PROVE PublishedSince(k, t)'
  BY <1>3 DEF Withdraw, PublishedSince, TypeOK, ProviderTypeOK, Never
<1>4. ASSUME NEW d \in Docs, Redeploy(d) PROVE PublishedSince(k, t)'
  BY <1>4 DEF Redeploy, PublishedSince
<1> QED
  BY <1>1, <1>2, <1>3, <1>4 DEF Provider, ProviderNext

LEMMA EnvironmentKeeps == ASSUME Inv, Tick \/ Provider PROVE Inv'
<1>1. UNCHANGED <<cacheVars, callVars, history>>
  BY DEF Tick, Provider
<1>2. clock \in Nat /\ clock' \in Nat /\ clock <= clock'
  BY DEF Inv, TypeOK, ProviderTypeOK, Tick, Provider, ProviderNext, Publish, Withdraw, Redeploy
<1>3. ProviderTypeOK'
  <2>1. CASE Tick
    BY <2>1, <1>2 DEF Inv, TypeOK, ProviderTypeOK, Tick, providerVars
  <2>2. ASSUME NEW k \in Kids \ OtherKids, Publish(k) \/ Withdraw(k) PROVE ProviderTypeOK'
    BY <2>2 DEF Inv, TypeOK, ProviderTypeOK, Publish, Withdraw
  <2>3. ASSUME NEW d \in Docs, Redeploy(d) PROVE ProviderTypeOK'
    BY <2>3 DEF Inv, TypeOK, ProviderTypeOK, Redeploy
  <2> QED
    BY <2>1, <2>2, <2>3 DEF Provider, ProviderNext
<1>4. TypeOK'
  BY <1>1, <1>3 DEF Inv, TypeOK, cacheVars, callVars, history
<1>5. CacheInv'
  <2>1. keys # NoKeys => \A k \in keys.kids : k \in Kids
    BY ProviderAssumption DEF Inv, TypeOK, KeySets
  <2>2. 0 \in Nat /\ 0 <= clock
    BY <1>2
  <2>3. keys # NoKeys => \A k \in keys.kids : PublishedSince(k, 0)'
    BY <2>1, <2>2, PublishedStays DEF Inv, CacheInv
  <2> QED
    BY <1>1, <2>3 DEF Inv, CacheInv, cacheVars
<1>6. ASSUME NEW p \in Calls PROVE CallInv(p)'
  <2>1. /\ since[p] \in Nat /\ since[p] <= clock /\ answer[p] \in SUBSET Kids
        /\ UNCHANGED <<pc, kid, doc, sentAt, answer, since>> /\ CallInv(p)
    BY <1>1 DEF Inv, TypeOK, CallInv, callVars, history
  <2>2. \A k \in Kids : PublishedSince(k, since[p]) => PublishedSince(k, since[p])'
    <3> SUFFICES ASSUME NEW k \in Kids, PublishedSince(k, since[p])
                 PROVE  PublishedSince(k, since[p])'
      OBVIOUS
    <3>1. PublishedSince(k, since[p])' <=> (LET t == since[p] IN k \in published' \/
            (withdrawnAt'[k] # Never /\ withdrawnAt'[k] >= t))
      BY <2>1 DEF PublishedSince
    <3>2. ASSUME NEW t \in Nat, t = since[p] PROVE PublishedSince(k, t)'
      BY <2>1, <3>2, PublishedStays DEF Inv
    <3> QED
      BY <2>1, <3>1, <3>2 DEF PublishedSince
  <2> QED
    BY <1>2, <2>1, <2>2 DEF CallInv, Verifying
<1> QED
  BY <1>4, <1>5, <1>6 DEF Inv

-----------------------------------------------------------------------------
(* The calls.                                                               *)

\* What a step of call p leaves alone of any other call and of the provider.
Apart(p) ==
  /\ UNCHANGED <<clock, published, withdrawnAt, served, retiredAt>>
  /\ \A q \in Calls \ {p} :
       /\ pc'[q] = pc[q] /\ kid'[q] = kid[q] /\ doc'[q] = doc[q]
       /\ answer'[q] = answer[q] /\ since'[q] = since[q]

\* So a step of p has its own call and the cache to answer for.
LEMMA OwnStep ==
  ASSUME Inv, NEW p \in Calls, Apart(p), TypeOK', CacheInv', CallInv(p)'
  PROVE  Inv'
<1>1. ASSUME NEW q \in Calls \ {p} PROVE CallInv(q)'
  BY <1>1 DEF Inv, Apart, CallInv, PublishedSince
<1> QED
  BY <1>1 DEF Inv

\* A cache that is left alone stays good.
LEMMA SameCache ==
  ASSUME Inv, NEW p \in Calls, Apart(p), UNCHANGED cacheVars
  PROVE  CacheInv'
  BY DEF Inv, Apart, CacheInv, PublishedSince, cacheVars

LEMMA EndTypes ==
  ASSUME TypeOK, NEW p \in Calls, NEW v \in Stages, End(p, v)
  PROVE  /\ pc' \in [Calls -> Stages] /\ pc'[p] = v
         /\ doc' \in [Calls -> Docs \cup {NoDoc}]
         /\ sentAt' \in [Calls -> Nat]
         /\ answer' \in [Calls -> SUBSET Kids]
         /\ \A q \in Calls \ {p} :
              pc'[q] = pc[q] /\ doc'[q] = doc[q] /\ answer'[q] = answer[q]
  BY DEF TypeOK, End

LEMMA DiscoverTypes ==
  ASSUME Inv, NEW p \in Calls, Discover(p)
  PROVE  /\ pc' \in [Calls -> Stages] /\ pc'[p] \in {"haveDoc", "docSent"}
         /\ doc' \in [Calls -> Docs \cup {NoDoc}]
         /\ pc'[p] = "haveDoc" => doc'[p] \in TrustedDocs
         /\ sentAt' \in [Calls -> Nat]
         /\ UNCHANGED answer
         /\ \A q \in Calls \ {p} : pc'[q] = pc[q] /\ doc'[q] = doc[q]
<1> USE DEF Inv, TypeOK, Discover
<1>1. "haveDoc" \in Stages /\ "docSent" \in Stages
  BY DEF Stages, AwaitHeaders
<1>2. CASE /\ discovery # NoDoc
           /\ pc' = [pc EXCEPT ![p] = "haveDoc"] /\ doc' = [doc EXCEPT ![p] = discovery]
           /\ UNCHANGED <<sentAt, answer>>
  BY <1>1, <1>2 DEF CacheInv
<1>3. CASE Send(p, "docSent") /\ UNCHANGED <<doc, answer>>
  BY <1>1, <1>3 DEF Send, ProviderTypeOK
<1> QED
  BY <1>2, <1>3

LEMMA StartKeeps ==
  ASSUME Inv, NEW p \in Calls, StartCall(p) \/ \E k \in Kids : StartVerify(p, k)
  PROVE  Inv'
<1>1. CASE StartCall(p)
  <2>1. /\ Discover(p) /\ pc[p] = "idle"
        /\ UNCHANGED <<clock, providerVars, cacheVars, kid, history>>
    BY <1>1 DEF StartCall
  <2>2. TypeOK'
    BY <2>1, DiscoverTypes DEF Inv, TypeOK, ProviderTypeOK, providerVars, cacheVars, history
  <2>3. Apart(p)
    BY <2>1, DiscoverTypes DEF Apart, providerVars, history
  <2>4. CallInv(p)'
    BY <2>1, DiscoverTypes DEF Inv, CallInv, history, Verifying, HasDoc
  <2> QED
    BY <2>1, <2>2, <2>3, <2>4, OwnStep, SameCache
<1>2. ASSUME NEW k \in Kids, StartVerify(p, k) PROVE Inv'
  <2>1. /\ kid' = [kid EXCEPT ![p] = k]
        /\ since' = [since EXCEPT ![p] = IF Known(k) THEN 0 ELSE clock]
        /\ UNCHANGED <<clock, providerVars, cacheVars>>
        /\ clock \in Nat
    BY <1>2 DEF StartVerify, Inv, TypeOK, ProviderTypeOK
  <2>2. kid' \in [Calls -> Kids \cup {NoKid}] /\ since' \in [Calls -> Nat] /\ refetchedAt' \in Int
    BY <1>2, <2>1 DEF StartVerify, Inv, TypeOK
  <2>3. /\ kid'[p] = k /\ since'[p] <= clock
        /\ Known(k) => since'[p] = 0
        /\ \A q \in Calls \ {p} : kid'[q] = kid[q] /\ since'[q] = since[q]
    BY <2>1 DEF Inv, TypeOK
  <2>4. ASSUME NEW v \in {"accepted", "over"}, End(p, v), v = "accepted" => Known(k) PROVE Inv'
    <3>1. v \in Stages
      BY DEF Stages, Ended
    <3>2. TypeOK'
      BY <2>1, <2>2, <2>4, <3>1, EndTypes
      DEF Inv, TypeOK, ProviderTypeOK, providerVars, cacheVars
    <3>3. Apart(p) /\ pc'[p] = v
      BY <2>1, <2>3, <2>4, <3>1, EndTypes DEF Apart, providerVars, Inv
    <3>4. Known(k) => PublishedSince(k, 0)
      BY DEF Known, Inv, CacheInv
    <3>5. CallInv(p)'
      BY <2>1, <2>3, <2>4, <3>3, <3>4
      DEF CallInv, PublishedSince, Verifying, HasDoc, providerVars
    <3> QED
      BY <2>1, <3>2, <3>3, <3>5, OwnStep, SameCache
  <2>5. ASSUME Discover(p) PROVE Inv'
    <3>1. TypeOK'
      BY <2>1, <2>2, <2>5, DiscoverTypes
      DEF Inv, TypeOK, ProviderTypeOK, providerVars, cacheVars
    <3>2. Apart(p)
      BY <2>1, <2>3, <2>5, DiscoverTypes DEF Apart, providerVars
    <3>3. CallInv(p)'
      BY <2>1, <2>3, <2>5, DiscoverTypes DEF CallInv, Verifying, HasDoc
    <3> QED
      BY <2>1, <3>1, <3>2, <3>3, OwnStep, SameCache
  <2> QED
    BY <1>2, <2>4, <2>5 DEF StartVerify
<1> QED
  BY <1>1, <1>2

\* A call that ends without a verdict, for whatever reason, leaves nothing to
\* answer for.
LEMMA OverKeeps ==
  ASSUME Inv, NEW p \in Calls, End(p, "over"),
         UNCHANGED <<clock, providerVars, cacheVars, kid, history>>
  PROVE  Inv'
<1>1. "over" \in Stages
  BY DEF Stages, Ended
<1>2. TypeOK'
  BY <1>1, EndTypes DEF Inv, TypeOK, ProviderTypeOK, providerVars, cacheVars, history
<1>3. Apart(p) /\ pc'[p] = "over"
  BY <1>1, EndTypes DEF Inv, Apart, providerVars, history
<1>4. CallInv(p)'
  BY <1>3 DEF Inv, CallInv, history, Verifying, HasDoc
<1> QED
  BY <1>2, <1>3, <1>4, OwnStep, SameCache

LEMMA UseDocKeeps == ASSUME Inv, NEW p \in Calls, UseDoc(p) PROVE Inv'
<1>1. /\ pc[p] = "haveDoc" /\ UNCHANGED <<clock, providerVars, cacheVars, kid, history>>
  BY DEF UseDoc
<1>2. ASSUME NEW s \in {"jwksSent", "apiSent"}, Send(p, s), UNCHANGED <<doc, answer>>,
             s = "jwksSent" => kid[p] # NoKid
      PROVE  Inv'
  <2>1. s \in Stages
    BY DEF Stages, AwaitHeaders
  <2>2. TypeOK'
    BY <1>1, <1>2, <2>1
    DEF Send, Inv, TypeOK, ProviderTypeOK, providerVars, cacheVars, history
  <2>3. Apart(p) /\ pc'[p] = s
    BY <1>1, <1>2 DEF Send, Inv, TypeOK, Apart, providerVars, history
  <2>4. CallInv(p)'
    BY <1>1, <1>2, <2>3 DEF Inv, TypeOK, CallInv, history, Verifying, HasDoc
  <2> QED
    BY <1>1, <2>2, <2>3, <2>4, OwnStep, SameCache
<1> QED
  BY <1>1, <1>2, OverKeeps DEF UseDoc

\* The provider answers with the keys it publishes now, because the document
\* its jwks_uri was taken from is one that passed the checks.
LEMMA ServeKeeps == ASSUME Inv, NEW p \in Calls, Serve(p) PROVE Inv'
<1>1. /\ UNCHANGED <<clock, providerVars, cacheVars, kid, history>>
      /\ sentAt' = [sentAt EXCEPT ![p] = 0]
  BY DEF Serve
<1>2. {"docBody", "jwksBody", "apiBody"} \subseteq Stages
  BY DEF Stages, AwaitBody
<1>3. CASE /\ pc[p] = "docSent" /\ pc' = [pc EXCEPT ![p] = "docBody"]
           /\ doc' = [doc EXCEPT ![p] = served] /\ UNCHANGED answer
  <2>1. TypeOK' /\ Apart(p)
    BY <1>1, <1>2, <1>3
    DEF Inv, TypeOK, ProviderTypeOK, Apart, providerVars, cacheVars, history
  <2>2. CallInv(p)'
    BY <1>1, <1>3 DEF Inv, TypeOK, CallInv, history, Verifying, HasDoc
  <2> QED
    BY <1>1, <2>1, <2>2, OwnStep, SameCache
<1>4. CASE /\ pc[p] = "jwksSent" /\ pc' = [pc EXCEPT ![p] = "jwksBody"]
           /\ answer' = [answer EXCEPT ![p] = JwksOf(doc[p])] /\ UNCHANGED doc
  <2>1. doc[p] \in TrustedDocs /\ JwksOf(doc[p]) = published
    BY <1>4 DEF Inv, CallInv, HasDoc, JwksOf
  <2>2. TypeOK' /\ Apart(p)
    BY <1>1, <1>2, <1>4, <2>1
    DEF Inv, TypeOK, ProviderTypeOK, Apart, providerVars, cacheVars, history
  <2>3. CallInv(p)'
    BY <1>1, <1>4, <2>1
    DEF Inv, TypeOK, CallInv, history, Verifying, HasDoc, PublishedSince, providerVars
  <2> QED
    BY <1>1, <2>2, <2>3, OwnStep, SameCache
<1>5. CASE pc[p] = "apiSent" /\ pc' = [pc EXCEPT ![p] = "apiBody"] /\ UNCHANGED <<doc, answer>>
  <2>1. TypeOK' /\ Apart(p)
    BY <1>1, <1>2, <1>5
    DEF Inv, TypeOK, ProviderTypeOK, Apart, providerVars, cacheVars, history
  <2>2. CallInv(p)'
    BY <1>1, <1>5 DEF Inv, TypeOK, CallInv, history, Verifying, HasDoc
  <2> QED
    BY <1>1, <2>1, <2>2, OwnStep, SameCache
<1> QED
  BY <1>3, <1>4, <1>5 DEF Serve

LEMMA ReceiveDocKeeps == ASSUME Inv, NEW p \in Calls, ReceiveDoc(p) PROVE Inv'
<1>1. CASE doc[p] \in TrustedDocs
  <2>1. /\ pc' = [pc EXCEPT ![p] = "haveDoc"] /\ discovery' = doc[p] /\ discoveredAt' = clock
        /\ UNCHANGED <<doc, sentAt, answer, clock, providerVars, keys, kid, history>>
    BY <1>1 DEF ReceiveDoc
  <2>2. TypeOK' /\ Apart(p)
    BY <1>1, <2>1, ProviderAssumption
    DEF Inv, TypeOK, ProviderTypeOK, Apart, providerVars, history, Stages
  <2>3. CacheInv' /\ CallInv(p)'
    BY <1>1, <2>1
    DEF Inv, TypeOK, CacheInv, CallInv, history, Verifying, HasDoc, PublishedSince, providerVars
  <2> QED
    BY <2>2, <2>3, OwnStep
<1>2. CASE doc[p] \notin TrustedDocs
  BY <1>2, OverKeeps DEF ReceiveDoc, cacheVars
<1> QED
  BY <1>1, <1>2

LEMMA ReceiveJwksKeeps == ASSUME Inv, NEW p \in Calls, ReceiveJwks(p) PROVE Inv'
<1>1. /\ pc[p] = "jwksBody" /\ pc' = [pc EXCEPT ![p] = "import"]
      /\ answer' = [answer EXCEPT ![p] = answer[p] \cap UsableKids]
      /\ UNCHANGED <<clock, providerVars, cacheVars, kid, doc, sentAt, history>>
  BY DEF ReceiveJwks
<1>2. TypeOK' /\ Apart(p)
  BY <1>1 DEF Inv, TypeOK, ProviderTypeOK, Apart, providerVars, cacheVars, history, Stages
<1>3. CallInv(p)'
  BY <1>1 DEF Inv, TypeOK, CallInv, history, Verifying, HasDoc, PublishedSince, providerVars
<1> QED
  BY <1>1, <1>2, <1>3, OwnStep, SameCache

\* Several calls may store one after another; each vouches for its own set, and
\* takes its verdict from it, not from the cache.
LEMMA StoreKeysKeeps == ASSUME Inv, NEW p \in Calls, StoreKeys(p) PROVE Inv'
<1>1. CASE answer[p] = {}
  BY <1>1, OverKeeps DEF StoreKeys, cacheVars
<1>2. CASE answer[p] # {}
  <2>1. /\ pc[p] = "import" /\ keys' = [kids |-> answer[p], fetchedAt |-> clock]
        /\ UNCHANGED <<clock, providerVars, discovery, discoveredAt, kid, history>>
        /\ clock \in Nat
    BY <1>2 DEF StoreKeys, Inv, TypeOK, ProviderTypeOK
  <2>2. PICK v \in {"accepted", "over"} :
          End(p, v) /\ (v = "accepted" => kid[p] \in answer[p])
    BY <1>2 DEF StoreKeys
  <2>3. v \in Stages
    BY DEF Stages, Ended
  <2>4. keys' \in KeySets
    BY <1>2, <2>1 DEF KeySets, Inv, CallInv
  <2>5. TypeOK'
    BY <2>1, <2>2, <2>3, <2>4, EndTypes
    DEF Inv, TypeOK, ProviderTypeOK, providerVars, history
  <2>6. Apart(p) /\ pc'[p] = v
    BY <2>1, <2>2, <2>3, EndTypes DEF Inv, Apart, providerVars, history
  <2>7. /\ since[p] \in Nat /\ since[p] <= clock
        /\ \A k \in answer[p] : k \in Kids /\ PublishedSince(k, since[p])
    BY <2>1 DEF Inv, TypeOK, CallInv
  <2>8. \A k \in answer[p] : PublishedSince(k, 0)
    <3> SUFFICES ASSUME NEW k \in answer[p] PROVE PublishedSince(k, 0)
      OBVIOUS
    <3>1. withdrawnAt[k] \in Int
      BY <2>7 DEF Inv, TypeOK, ProviderTypeOK, Never
    <3>2. ASSUME NEW t \in Nat, PublishedSince(k, t) PROVE PublishedSince(k, 0)
      BY <3>1, <3>2 DEF PublishedSince
    <3> QED
      BY <2>7, <3>2
  <2>9. CacheInv'
    BY <2>1, <2>8 DEF Inv, CacheInv, PublishedSince, providerVars
  <2>10. CallInv(p)'
    BY <2>1, <2>2, <2>6, <2>7
    DEF Inv, CallInv, Verifying, HasDoc, PublishedSince, providerVars, history
  <2> QED
    BY <2>5, <2>6, <2>9, <2>10, OwnStep
<1> QED
  BY <1>1, <1>2

LEMMA ReturnKeeps == ASSUME Inv, NEW p \in Calls, Return(p) PROVE Inv'
<1>1. /\ End(p, "idle") /\ kid' = [kid EXCEPT ![p] = NoKid]
      /\ since' = [since EXCEPT ![p] = 0]
      /\ UNCHANGED <<clock, providerVars, cacheVars, refetchedAt>> /\ clock \in Nat
  BY DEF Return, Inv, TypeOK, ProviderTypeOK
<1>2. "idle" \in Stages
  BY DEF Stages
<1>3. TypeOK'
  BY <1>1, <1>2, EndTypes DEF Inv, TypeOK, ProviderTypeOK, providerVars, cacheVars
<1>4. Apart(p) /\ pc'[p] = "idle" /\ since'[p] = 0
  BY <1>1, <1>2, EndTypes DEF Inv, TypeOK, Apart, providerVars
<1>5. CallInv(p)'
  BY <1>1, <1>4 DEF CallInv, Verifying, HasDoc
<1> QED
  BY <1>1, <1>3, <1>4, <1>5, OwnStep, SameCache

LEMMA StepInvariant == ASSUME Inv, [Next]_vars PROVE Inv'
<1>1. CASE Tick \/ Provider
  BY <1>1, EnvironmentKeeps
<1>2. ASSUME NEW p \in Calls, ReceiveApi(p) \/ Abort(p) \/ FailBody(p) PROVE Inv'
  BY <1>2, OverKeeps DEF ReceiveApi, Abort, FailBody
<1>3. CASE UNCHANGED vars
  BY <1>3
  DEF vars, Inv, TypeOK, CacheInv, CallInv, ProviderTypeOK, PublishedSince, providerVars,
      cacheVars, callVars, history
<1> QED
  BY <1>1, <1>2, <1>3, StartKeeps, UseDocKeeps, ServeKeeps, ReceiveDocKeeps,
     ReceiveJwksKeeps, StoreKeysKeeps, ReturnKeeps
  DEF Next, Turn

LEMMA Invariant == Spec => []Inv
  BY InitInvariant, StepInvariant, PTL DEF Spec

-----------------------------------------------------------------------------
\* The client keeps its types: a set without a usable key never gets into the
\* cache, and nothing but a document does.
THEOREM TypeCorrect == Spec => []TypeOK
<1>1. Inv => TypeOK
  BY DEF Inv
<1> QED
  BY <1>1, Invariant, PTL

\* However many calls overlap: a key the cache did not hold when verifyIdToken
\* began is accepted only if the provider published it during that call.
THEOREM KeysWereOurs == Spec => []AcceptedKeysWereOurs
<1>1. Inv => AcceptedKeysWereOurs
  BY DEF Inv, CallInv, AcceptedKeysWereOurs
<1> QED
  BY <1>1, Invariant, PTL

\* No request goes to an endpoint of a document that was not checked, though
\* it was another call that fetched it.
THEOREM CheckedDocsOnly == Spec => []RequestsToCheckedDocs
<1>1. Inv => RequestsToCheckedDocs
  BY DEF Inv, CallInv, HasDoc, RequestsToCheckedDocs
<1> QED
  BY <1>1, Invariant, PTL
=============================================================================
