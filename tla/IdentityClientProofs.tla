------------------------ MODULE IdentityClientProofs ------------------------
(***************************************************************************)
(* What TLAPS proves of IdentityClient, for any number of callers, keys    *)
(* and documents and any values of the four durations.                     *)
(***************************************************************************)
EXTENDS IdentityClient, TLAPS

CallerStep(g) == Start(g) \/ Serve(g) \/ Progress(g)

LEMMA EndTypeOK ==
  ASSUME TypeOK, NEW g \in Callers, NEW v \in Stages, NEW t \in Nat, End(g, v, t)
  PROVE  /\ pc' \in [Callers -> Stages]
         /\ kid' \in [Callers -> Kids \cup {NoKid}]
         /\ seenKeys' \in [Callers -> KeySets \cup {NoKeys}]
         /\ seenAttempt' \in [Callers -> Int]
         /\ doc' \in [Callers -> Docs \cup {NoDoc}]
         /\ sentAt' \in [Callers -> Nat]
         /\ answer' \in [Callers -> SUBSET Kids]
         /\ asOf' \in [Callers -> Nat]
  BY ClientAssumption DEF TypeOK, End, LongAgo

LEMMA UseTypeOK ==
  ASSUME TypeOK, NEW g \in Callers, NEW d \in Docs, Use(g, d)
  PROVE  /\ pc' \in [Callers -> Stages]
         /\ kid' \in [Callers -> Kids \cup {NoKid}]
         /\ seenKeys' \in [Callers -> KeySets \cup {NoKeys}]
         /\ seenAttempt' \in [Callers -> Int]
         /\ doc' \in [Callers -> Docs \cup {NoDoc}]
         /\ sentAt' \in [Callers -> Nat]
         /\ answer' \in [Callers -> SUBSET Kids]
         /\ asOf' \in [Callers -> Nat]
<1>1. CASE \E s \in {"jwksSent", "apiSent"} : Send(g, s, d)
  BY <1>1 DEF Send, TypeOK, ProviderTypeOK, Stages, Waiting
<1>2. CASE End(g, "over", 0)
  BY <1>2, EndTypeOK DEF Stages, Ended
<1> QED BY <1>1, <1>2 DEF Use

LEMMA InitTypeOK == Init => TypeOK
  BY ClientAssumption, ProviderAssumption
     DEF Init, TypeOK, ProviderInit, ProviderTypeOK, LongAgo, Stages, Never

LEMMA StepTypeOK == TypeOK /\ [Next]_vars => TypeOK'
<1> SUFFICES ASSUME TypeOK, [Next]_vars PROVE TypeOK'
  OBVIOUS
<1>1. CASE Tick
  BY <1>1 DEF Tick, TypeOK, ProviderTypeOK, providerVars, cacheVars, callVars
<1>2. CASE Provider
  <2>1. ProviderTypeOK'
    <3>1. ASSUME NEW k \in Kids \ OtherKids, Publish(k) PROVE ProviderTypeOK'
      BY <3>1 DEF Publish, TypeOK, ProviderTypeOK
    <3>2. ASSUME NEW k \in Kids \ OtherKids, Withdraw(k) PROVE ProviderTypeOK'
      BY <3>2 DEF Withdraw, TypeOK, ProviderTypeOK
    <3>3. ASSUME NEW d \in Docs, Redeploy(d) PROVE ProviderTypeOK'
      BY <3>3 DEF Redeploy, TypeOK, ProviderTypeOK
    <3> QED BY <1>2, <3>1, <3>2, <3>3 DEF Provider, ProviderNext
  <2> QED BY <1>2, <2>1 DEF Provider, TypeOK, cacheVars, callVars
<1>3. ASSUME NEW g \in Callers, Start(g) PROVE TypeOK'
  <2>1. CASE StartCall(g)
    BY <2>1 DEF StartCall, TypeOK, ProviderTypeOK, Stages, providerVars, cacheVars
  <2>2. ASSUME NEW k \in Kids, StartVerify(g, k) PROVE TypeOK'
    BY <2>2 DEF StartVerify, TypeOK, ProviderTypeOK, Stages, providerVars, cacheVars
  <2> QED BY <1>3, <2>1, <2>2 DEF Start
<1>4. ASSUME NEW g \in Callers, Serve(g) PROVE TypeOK'
  <2>1. CASE ServeDoc(g)
    BY <2>1 DEF ServeDoc, TypeOK, ProviderTypeOK, Stages, Waiting, providerVars, cacheVars
  <2>2. CASE ServeJwks(g)
    <3>1. JwksOf(doc[g]) \subseteq Kids
      BY ProviderAssumption DEF JwksOf, TypeOK, ProviderTypeOK
    <3> QED
      BY <2>2, <3>1
         DEF ServeJwks, TypeOK, ProviderTypeOK, Stages, Waiting, providerVars, cacheVars
  <2> QED BY <1>4, <2>1, <2>2 DEF Serve
<1>5. ASSUME NEW g \in Callers, Progress(g) PROVE TypeOK'
  <2>1. CASE Decide(g)
    <3>1. CASE End(g, "accepted", clock) \/ End(g, "over", 0)
      <4>1. clock \in Nat
        BY DEF TypeOK, ProviderTypeOK
      <4> QED
        BY <2>1, <3>1, <4>1, EndTypeOK
           DEF Decide, TypeOK, ProviderTypeOK, Stages, Ended, providerVars, cacheVars
    <3>2. CASE pc' = [pc EXCEPT ![g] = "attempt"]
               /\ UNCHANGED <<kid, seenKeys, seenAttempt, doc, sentAt, answer, asOf>>
      BY <2>1, <3>2 DEF Decide, TypeOK, ProviderTypeOK, Stages, providerVars, cacheVars
    <3> QED BY <2>1, <3>1, <3>2 DEF Decide
  <2>2. CASE RecordAttempt(g)
    BY <2>2, ClientAssumption
       DEF RecordAttempt, TypeOK, ProviderTypeOK, Stages, providerVars, LongAgo
  <2>3. CASE DiscoverHit(g)
    <3>1. discovery \in Docs
      BY <2>3 DEF DiscoverHit, TypeOK
    <3> QED
      BY <2>3, <3>1, UseTypeOK DEF DiscoverHit, TypeOK, ProviderTypeOK, providerVars, cacheVars
  <2>4. CASE DiscoverMiss(g)
    BY <2>4 DEF DiscoverMiss, Send, TypeOK, ProviderTypeOK, Stages, Waiting, providerVars, cacheVars
  <2>5. CASE ReceiveDoc(g)
    <3>1. CASE doc[g] \notin TrustedDocs
      BY <2>5, <3>1, EndTypeOK
         DEF ReceiveDoc, TypeOK, ProviderTypeOK, Stages, Ended, providerVars
    <3>2. CASE doc[g] \in TrustedDocs
      <4>1. doc[g] \in Docs
        BY <3>2, ProviderAssumption
      <4> QED
        BY <2>5, <3>2, <4>1, UseTypeOK DEF ReceiveDoc, TypeOK, ProviderTypeOK, providerVars
    <3> QED BY <3>1, <3>2
  <2>6. CASE ReceiveJwks(g)
    <3>1. CASE End(g, "over", 0)
      BY <2>6, <3>1, EndTypeOK
         DEF ReceiveJwks, TypeOK, ProviderTypeOK, Stages, Ended, providerVars, cacheVars
    <3>2. CASE ~End(g, "over", 0)
      BY <2>6, <3>2 DEF ReceiveJwks, TypeOK, ProviderTypeOK, Stages, providerVars, cacheVars
    <3> QED BY <3>1, <3>2
  <2>7. CASE StoreKeys(g)
    <3>1. asOf[g] \in Nat /\ answer[g] \in SUBSET Kids
      BY DEF TypeOK
    <3>2. keys' \in KeySets
      BY <2>7, <3>1 DEF StoreKeys, KeySets
    <3> QED
      BY <2>7, <3>1, <3>2, EndTypeOK
         DEF StoreKeys, TypeOK, ProviderTypeOK, Stages, Ended, providerVars
  <2>8. CASE FinishApi(g) \/ Fail(g)
    BY <2>8, EndTypeOK
       DEF FinishApi, Fail, TypeOK, ProviderTypeOK, Stages, Ended, providerVars, cacheVars
  <2>9. CASE Return(g)
    BY <2>9 DEF Return, TypeOK, ProviderTypeOK, Stages, providerVars, cacheVars
  <2> QED BY <1>5, <2>1, <2>2, <2>3, <2>4, <2>5, <2>6, <2>7, <2>8, <2>9 DEF Progress
<1>6. CASE UNCHANGED vars
  BY <1>6 DEF vars, TypeOK, ProviderTypeOK, providerVars, cacheVars, callVars
<1> QED BY <1>1, <1>2, <1>3, <1>4, <1>5, <1>6 DEF Next

\* Every variable keeps its type, whatever calls overlap and whatever the
\* provider does between two critical sections of the client.
THEOREM TypeCorrect == Spec => []TypeOK
  BY InitTypeOK, StepTypeOK, PTL DEF Spec

-----------------------------------------------------------------------------
(* What the provider and the clock do to a fact about the past: nothing.    *)

LEMMA PublishedStays ==
  ASSUME TypeOK, NEW k \in Kids, NEW t \in Int, t <= clock,
         PublishedSince(k, t), Tick \/ Provider
  PROVE  PublishedSince(k, t)'
<1>1. CASE Tick
  BY <1>1 DEF Tick, PublishedSince, providerVars
<1>2. ASSUME NEW j \in Kids \ OtherKids, Publish(j) PROVE PublishedSince(k, t)'
  BY <1>2 DEF Publish, PublishedSince
<1>3. ASSUME NEW j \in Kids \ OtherKids, Withdraw(j) PROVE PublishedSince(k, t)'
  BY <1>3 DEF Withdraw, PublishedSince, TypeOK, ProviderTypeOK, Never
<1>4. ASSUME NEW d \in Docs, Redeploy(d) PROVE PublishedSince(k, t)'
  BY <1>4 DEF Redeploy, PublishedSince
<1> QED BY <1>1, <1>2, <1>3, <1>4 DEF Provider, ProviderNext

LEMMA ServedStays ==
  ASSUME TypeOK, NEW d \in Docs, NEW t \in Int, t <= clock,
         ServedSince(d, t), Tick \/ Provider
  PROVE  ServedSince(d, t)'
<1>1. CASE Tick
  BY <1>1 DEF Tick, ServedSince, providerVars
<1>2. ASSUME NEW j \in Kids \ OtherKids, Publish(j) \/ Withdraw(j) PROVE ServedSince(d, t)'
  BY <1>2 DEF Publish, Withdraw, ServedSince
<1>3. ASSUME NEW e \in Docs, Redeploy(e) PROVE ServedSince(d, t)'
  BY <1>3 DEF Redeploy, ServedSince, TypeOK, ProviderTypeOK, Never
<1> QED BY <1>1, <1>2, <1>3 DEF Provider, ProviderNext

LEMMA VouchedStays ==
  ASSUME TypeOK, NEW set \in KeySets \cup {NoKeys}, Vouched(set), Tick \/ Provider
  PROVE  set # NoKeys =>
           /\ set.fetchedAt <= clock'
           /\ \A k \in set.kids : PublishedSince(k, set.fetchedAt - Timeout)'
<1> SUFFICES ASSUME set # NoKeys
             PROVE  /\ set.fetchedAt <= clock'
                    /\ \A k \in set.kids : PublishedSince(k, set.fetchedAt - Timeout)'
  OBVIOUS
<1>1. set.fetchedAt \in Nat /\ set.kids \subseteq Kids
  BY DEF KeySets
<1>2. clock \in Nat /\ clock' \in Nat /\ clock <= clock'
  BY DEF TypeOK, ProviderTypeOK, Tick, Provider, ProviderNext, Publish, Withdraw, Redeploy
<1>3. set.fetchedAt <= clock'
  BY <1>1, <1>2 DEF Vouched
<1>4. ASSUME NEW k \in set.kids PROVE PublishedSince(k, set.fetchedAt - Timeout)'
  <2>1. set.fetchedAt - Timeout \in Int /\ set.fetchedAt - Timeout <= clock
    BY <1>1, <1>2, ClientAssumption DEF Vouched
  <2>2. k \in Kids /\ PublishedSince(k, set.fetchedAt - Timeout)
    BY <1>1, <1>4 DEF Vouched
  <2> QED BY <2>1, <2>2, PublishedStays
<1> QED BY <1>3, <1>4

LEMMA EnvironmentKeeps ==
  ASSUME TypeOK, IInv, Tick \/ Provider
  PROVE  IInv'
<1>1. UNCHANGED <<cacheVars, callVars, triedAt>>
  BY DEF Tick, Provider
<1>2. clock \in Nat /\ clock' \in Nat /\ clock <= clock'
  BY DEF TypeOK, ProviderTypeOK, Tick, Provider, ProviderNext, Publish, Withdraw, Redeploy
<1>3. CacheInv'
  <2>1. keys \in KeySets \cup {NoKeys} /\ Vouched(keys)
    BY DEF IInv, CacheInv, TypeOK
  <2>2. Vouched(keys)'
    BY <1>1, <2>1, VouchedStays DEF Vouched, cacheVars
  <2>3. ASSUME discovery # NoDoc
        PROVE  ServedSince(discovery, discoveredAt - Timeout)'
    <3>1. /\ discovery \in Docs
          /\ discoveredAt - Timeout \in Int
          /\ discoveredAt - Timeout <= clock
          /\ ServedSince(discovery, discoveredAt - Timeout)
      BY <1>2, <2>3, ClientAssumption DEF IInv, CacheInv, TypeOK
    <3> QED BY <1>1, <3>1, ServedStays DEF cacheVars, ServedSince
  <2> QED BY <1>1, <1>2, <2>2, <2>3 DEF IInv, CacheInv, TypeOK, cacheVars
<1>4. ASSUME NEW g \in Callers PROVE CallInv(g)'
  <2> USE DEF callVars, cacheVars
  <2>0. CallInv(g) /\ sentAt[g] \in Nat /\ asOf[g] \in Nat /\ answer[g] \subseteq Kids
    BY DEF IInv, TypeOK
  <2>1. Vouched(seenKeys[g])'
    BY <1>1, <2>0, VouchedStays DEF CallInv, Vouched, TypeOK
  <2>2. InTime(g)'
    BY <1>1, <1>2, <2>0, ClientAssumption
       DEF CallInv, InTime, Tick, Provider, ProviderNext, Publish, Withdraw, Redeploy
  <2>3. AnswersVouched(g)'
    <3>1. ASSUME pc[g] = "docServed" PROVE ServedSince(doc[g], sentAt[g])'
      <4>1. doc[g] \in Docs /\ sentAt[g] <= clock /\ ServedSince(doc[g], sentAt[g])
        BY <2>0, <3>1 DEF CallInv, AnswersVouched, InTime, Waiting
      <4> QED BY <1>1, <2>0, <4>1, ServedStays DEF ServedSince
    <3>2. ASSUME pc[g] = "jwksServed", NEW k \in answer[g] PROVE PublishedSince(k, sentAt[g])'
      <4>1. k \in Kids /\ sentAt[g] <= clock /\ PublishedSince(k, sentAt[g])
        BY <2>0, <3>2 DEF CallInv, AnswersVouched, InTime, Waiting
      <4> QED BY <1>1, <2>0, <4>1, PublishedStays DEF PublishedSince
    <3>3. ASSUME pc[g] = "store", NEW k \in answer[g] PROVE PublishedSince(k, asOf[g] - Timeout)'
      <4>1. /\ k \in Kids
            /\ asOf[g] - Timeout \in Int
            /\ asOf[g] - Timeout <= clock
            /\ PublishedSince(k, asOf[g] - Timeout)
        BY <1>2, <2>0, <3>3, ClientAssumption DEF CallInv, AnswersVouched
      <4> QED BY <1>1, <4>1, PublishedStays DEF PublishedSince
    <3> QED BY <1>1, <1>2, <2>0, <3>1, <3>2, <3>3 DEF CallInv, AnswersVouched
  <2>4. DocumentCurrent(g)'
    <3> SUFFICES ASSUME pc[g] \in {"jwksSent", "jwksServed", "apiSent"}
                 PROVE  DocumentCurrent(g)'
      BY <1>1 DEF DocumentCurrent
    <3>0. PICK t \in Int : t = sentAt[g] - (DiscoveryTTL + Timeout) + 1
      BY <2>0, ClientAssumption
    <3>1. doc[g] \in TrustedDocs /\ sentAt[g] <= clock /\ ServedSince(doc[g], t)
      BY <2>0, <3>0 DEF CallInv, DocumentCurrent, InTime, Waiting
    <3>2. t <= clock /\ doc[g] \in Docs
      BY <1>2, <2>0, <3>0, <3>1, ClientAssumption, ProviderAssumption
    <3>3. ServedSince(doc[g], t)'
      BY <1>1, <3>1, <3>2, ServedStays DEF ServedSince
    <3> QED BY <1>1, <3>0, <3>1, <3>3 DEF DocumentCurrent
  <2>5. AcceptedRecently(g)'
    <3> SUFFICES ASSUME pc[g] = "accepted"
                 PROVE  AcceptedRecently(g)'
      BY <1>1 DEF AcceptedRecently
    <3>0. PICK t \in Int : t = asOf[g] - Window + 1
      BY <2>0, ClientAssumption DEF Window
    <3>1. kid[g] \in Kids /\ asOf[g] <= clock /\ PublishedSince(kid[g], t)
      BY <2>0, <3>0 DEF CallInv, AcceptedRecently
    <3>2. t <= clock
      BY <1>2, <2>0, <3>0, <3>1, ClientAssumption DEF Window
    <3>3. PublishedSince(kid[g], t)'
      BY <1>1, <3>1, <3>2, PublishedStays DEF PublishedSince
    <3> QED BY <1>1, <1>2, <2>0, <3>0, <3>1, <3>3 DEF AcceptedRecently, Window
  <2>6. AttemptsRecorded(g)'
    BY <1>1, <1>2, <2>0, ClientAssumption DEF CallInv, AttemptsRecorded, TypeOK
  <2> QED BY <2>1, <2>2, <2>3, <2>4, <2>5, <2>6 DEF CallInv
<1> QED BY <1>3, <1>4 DEF IInv

-----------------------------------------------------------------------------
(* What a step of one caller does to the others, and to itself.             *)

\* No step of another caller was taken, as far as h can see.
Untouched(h) ==
  /\ pc'[h] = pc[h] /\ kid'[h] = kid[h]
  /\ seenKeys'[h] = seenKeys[h] /\ seenAttempt'[h] = seenAttempt[h]
  /\ doc'[h] = doc[h] /\ sentAt'[h] = sentAt[h]
  /\ answer'[h] = answer[h] /\ asOf'[h] = asOf[h]
  /\ triedAt'[h] = triedAt[h]

Quiet == UNCHANGED <<clock, published, withdrawnAt, served, retiredAt>>

LEMMA EndIsLocal ==
  ASSUME TypeOK, NEW g \in Callers, NEW h \in Callers \ {g}, NEW v, NEW t,
         End(g, v, t), UNCHANGED triedAt
  PROVE  Untouched(h)
  BY DEF End, Untouched, TypeOK

LEMMA UseIsLocal ==
  ASSUME TypeOK, NEW g \in Callers, NEW h \in Callers \ {g}, NEW d,
         Use(g, d), UNCHANGED triedAt
  PROVE  Untouched(h)
<1>1. ASSUME NEW s, Send(g, s, d) PROVE Untouched(h)
  BY <1>1 DEF Send, Untouched, TypeOK
<1> QED BY <1>1, EndIsLocal DEF Use

LEMMA StepIsLocal ==
  ASSUME TypeOK, NEW g \in Callers, CallerStep(g)
  PROVE  Quiet /\ \A h \in Callers \ {g} : Untouched(h)
<1> USE DEF Quiet, providerVars
<1> SUFFICES ASSUME NEW h \in Callers \ {g} PROVE Quiet /\ Untouched(h)
  <2>1. Quiet
    BY DEF CallerStep, Start, StartCall, StartVerify, Serve, ServeDoc, ServeJwks, Progress,
           Decide, RecordAttempt, DiscoverHit, DiscoverMiss, ReceiveDoc, ReceiveJwks,
           StoreKeys, FinishApi, Fail, Return
  <2> QED BY <2>1
<1>1. CASE Start(g)
  BY <1>1 DEF Start, StartCall, StartVerify, Untouched, TypeOK
<1>2. CASE Serve(g)
  BY <1>2 DEF Serve, ServeDoc, ServeJwks, Untouched, TypeOK
<1>3. CASE Progress(g)
  <2>1. CASE Decide(g)
    BY <2>1, EndIsLocal DEF Decide, Untouched, TypeOK
  <2>2. CASE RecordAttempt(g)
    BY <2>2 DEF RecordAttempt, Untouched, TypeOK
  <2>3. CASE DiscoverHit(g)
    BY <2>3, UseIsLocal DEF DiscoverHit
  <2>4. CASE DiscoverMiss(g)
    BY <2>4 DEF DiscoverMiss, Send, Untouched, TypeOK
  <2>5. CASE ReceiveDoc(g)
    BY <2>5, UseIsLocal, EndIsLocal DEF ReceiveDoc
  <2>6. CASE ReceiveJwks(g)
    <3>1. CASE End(g, "over", 0)
      BY <2>6, <3>1, EndIsLocal DEF ReceiveJwks
    <3>2. CASE ~End(g, "over", 0)
      BY <2>6, <3>2 DEF ReceiveJwks, Untouched, TypeOK
    <3> QED BY <3>1, <3>2
  <2>7. CASE StoreKeys(g)
    BY <2>7, EndIsLocal DEF StoreKeys
  <2>8. CASE FinishApi(g) \/ Fail(g)
    BY <2>8, EndIsLocal DEF FinishApi, Fail
  <2>9. CASE Return(g)
    BY <2>9 DEF Return, Untouched, TypeOK
  <2> QED BY <1>3, <2>1, <2>2, <2>3, <2>4, <2>5, <2>6, <2>7, <2>8, <2>9 DEF Progress
<1> QED BY <1>1, <1>2, <1>3 DEF CallerStep

LEMMA OthersKeep ==
  ASSUME TypeOK, TypeOK', NEW h \in Callers, CallInv(h), Quiet, Untouched(h),
         keyAttemptAt <= keyAttemptAt'
  PROVE  CallInv(h)'
<1> USE DEF Quiet, Untouched, PublishedSince, ServedSince
<1>1. Vouched(seenKeys[h])'
  BY DEF CallInv, Vouched
<1>2. InTime(h)'
  BY DEF CallInv, InTime
<1>3. AnswersVouched(h)'
  BY DEF CallInv, AnswersVouched
<1>4. DocumentCurrent(h)'
  BY DEF CallInv, DocumentCurrent
<1>5. AcceptedRecently(h)'
  BY DEF CallInv, AcceptedRecently
<1>6. AttemptsRecorded(h)'
  BY DEF CallInv, AttemptsRecorded, TypeOK
<1> QED BY <1>1, <1>2, <1>3, <1>4, <1>5, <1>6 DEF CallInv

\* A call that ends without a key has nothing left to vouch for.
LEMMA EndKeeps ==
  ASSUME TypeOK, NEW g \in Callers, CallInv(g), Quiet, End(g, "over", 0),
         UNCHANGED <<keyAttemptAt, triedAt>>
  PROVE  CallInv(g)'
<1>1. pc'[g] = "over" /\ seenKeys'[g] = NoKeys
  BY DEF End, TypeOK
<1> QED
  BY <1>1 DEF CallInv, Vouched, InTime, Waiting, AnswersVouched, DocumentCurrent,
              AcceptedRecently, AttemptsRecorded

\* The fact that signingKey returns a key on: the set it comes from vouches
\* for it, and is not too old.
LEMMA AcceptKeeps ==
  ASSUME TypeOK, NEW g \in Callers, CallInv(g), Quiet,
         NEW t \in Nat, t <= clock, End(g, "accepted", t), kid[g] \in Kids,
         NEW s \in Int, PublishedSince(kid[g], s), s >= t - Window + 1,
         UNCHANGED <<keyAttemptAt, triedAt>>
  PROVE  CallInv(g)'
<1>1. pc'[g] = "accepted" /\ asOf'[g] = t /\ kid'[g] = kid[g] /\ seenKeys'[g] = NoKeys
  BY DEF End, TypeOK
<1>2. PublishedSince(kid[g], t - Window + 1)
  BY ClientAssumption DEF PublishedSince, Window, TypeOK, ProviderTypeOK, Never
<1>3. AcceptedRecently(g)'
  BY <1>1, <1>2 DEF AcceptedRecently, Quiet, PublishedSince
<1> QED
  BY <1>1, <1>3 DEF CallInv, Vouched, InTime, Waiting, AnswersVouched, DocumentCurrent,
                    AttemptsRecorded

LEMMA SendKeeps ==
  ASSUME TypeOK, NEW g \in Callers, CallInv(g), Quiet,
         NEW stage \in {"docSent", "jwksSent", "apiSent"}, NEW d, Send(g, stage, d),
         stage # "docSent" =>
           d \in TrustedDocs /\ ServedSince(d, clock - (DiscoveryTTL + Timeout) + 1),
         UNCHANGED <<keyAttemptAt, triedAt>>
  PROVE  CallInv(g)'
<1> USE DEF Send, TypeOK
<1>1. pc'[g] = stage /\ sentAt'[g] = clock /\ doc'[g] = d /\ seenKeys'[g] = seenKeys[g]
  OBVIOUS
<1>2. Vouched(seenKeys[g])'
  BY <1>1 DEF CallInv, Vouched, Quiet, PublishedSince
<1>3. InTime(g)'
  BY <1>1, ClientAssumption DEF InTime, Quiet, ProviderTypeOK
<1>4. DocumentCurrent(g)'
  BY <1>1 DEF DocumentCurrent, Quiet, ServedSince
<1>5. AnswersVouched(g)' /\ AcceptedRecently(g)' /\ AttemptsRecorded(g)'
  BY <1>1 DEF CallInv, AnswersVouched, AcceptedRecently, AttemptsRecorded
<1> QED BY <1>2, <1>3, <1>4, <1>5 DEF CallInv

LEMMA UseKeeps ==
  ASSUME TypeOK, NEW g \in Callers, CallInv(g), Quiet,
         NEW d \in TrustedDocs, ServedSince(d, clock - (DiscoveryTTL + Timeout) + 1),
         Use(g, d), UNCHANGED <<keyAttemptAt, triedAt>>
  PROVE  CallInv(g)'
<1>1. CASE \E stage \in {"jwksSent", "apiSent"} : Send(g, stage, d)
  BY <1>1, SendKeeps
<1>2. CASE End(g, "over", 0)
  BY <1>2, EndKeeps
<1> QED BY <1>1, <1>2 DEF Use

\* The cache survives a step that leaves it alone.
LEMMA CacheKeeps ==
  ASSUME TypeOK, CacheInv, Quiet, UNCHANGED <<keys, discovery, discoveredAt>>,
         keyAttemptAt' <= clock
  PROVE  CacheInv'
  BY DEF CacheInv, Vouched, Quiet, PublishedSince, ServedSince

LEMMA CallerKeeps ==
  ASSUME TypeOK, TypeOK', IInv, NEW g \in Callers, CallerStep(g)
  PROVE  CacheInv' /\ CallInv(g)' /\ keyAttemptAt <= keyAttemptAt'
<1>1. Quiet
  BY StepIsLocal
<1>2. CacheInv /\ CallInv(g) /\ keyAttemptAt <= clock /\ keyAttemptAt \in Int /\ clock \in Nat
  BY DEF IInv, CacheInv, TypeOK, ProviderTypeOK
<1>3. ASSUME UNCHANGED cacheVars PROVE CacheInv' /\ keyAttemptAt <= keyAttemptAt'
  BY <1>1, <1>2, <1>3, CacheKeeps DEF cacheVars
<1>4. ASSUME StartCall(g) PROVE CacheInv' /\ CallInv(g)' /\ keyAttemptAt <= keyAttemptAt'
  <2>1. pc'[g] = "discover"
    BY <1>4 DEF StartCall, TypeOK
  <2>2. CallInv(g)'
    BY <1>1, <1>2, <1>4, <2>1
       DEF StartCall, cacheVars, CallInv, Vouched, PublishedSince, Quiet, InTime, Waiting,
           AnswersVouched, DocumentCurrent, AcceptedRecently, AttemptsRecorded
  <2> QED BY <1>3, <1>4, <2>2 DEF StartCall
<1>5. ASSUME NEW k \in Kids, StartVerify(g, k)
      PROVE  CacheInv' /\ CallInv(g)' /\ keyAttemptAt <= keyAttemptAt'
  <2>1. pc'[g] = "decide" /\ seenKeys'[g] = keys /\ seenAttempt'[g] = keyAttemptAt
    BY <1>5 DEF StartVerify, TypeOK
  <2>2. CallInv(g)'
    BY <1>1, <1>2, <1>5, <2>1
       DEF StartVerify, cacheVars, CacheInv, CallInv, Vouched, PublishedSince, Quiet, InTime,
           Waiting, AnswersVouched, DocumentCurrent, AcceptedRecently, AttemptsRecorded
  <2> QED BY <1>3, <1>5, <2>2 DEF StartVerify
<1>6. ASSUME ServeDoc(g) PROVE CacheInv' /\ CallInv(g)' /\ keyAttemptAt <= keyAttemptAt'
  <2>1. pc'[g] = "docServed" /\ doc'[g] = served /\ sentAt'[g] = sentAt[g] /\ served \in Docs
    BY <1>6 DEF ServeDoc, TypeOK, ProviderTypeOK
  <2>2. CallInv(g)'
    BY <1>1, <1>2, <1>6, <2>1
       DEF ServeDoc, cacheVars, CallInv, Vouched, PublishedSince, ServedSince, Quiet, InTime,
           Waiting, AnswersVouched, DocumentCurrent, AcceptedRecently, AttemptsRecorded
  <2> QED BY <1>3, <1>6, <2>2 DEF ServeDoc
<1>7. ASSUME ServeJwks(g) PROVE CacheInv' /\ CallInv(g)' /\ keyAttemptAt <= keyAttemptAt'
  <2>1. /\ pc'[g] = "jwksServed" /\ sentAt'[g] = sentAt[g] /\ doc[g] \in TrustedDocs
        /\ answer'[g] = published
    BY <1>2, <1>7 DEF ServeJwks, TypeOK, CallInv, DocumentCurrent, JwksOf
  <2>2. CallInv(g)'
    BY <1>1, <1>2, <1>7, <2>1
       DEF ServeJwks, cacheVars, CallInv, Vouched, PublishedSince, ServedSince, Quiet, InTime,
           Waiting, AnswersVouched, DocumentCurrent, AcceptedRecently, AttemptsRecorded
  <2> QED BY <1>3, <1>7, <2>2 DEF ServeJwks
<1>8. ASSUME Decide(g) PROVE CacheInv' /\ CallInv(g)' /\ keyAttemptAt <= keyAttemptAt'
  <2>1. CASE Known(g) /\ Fresh(g) /\ End(g, "accepted", clock)
    <3>1. /\ seenKeys[g] \in KeySets /\ seenKeys[g] # NoKeys
          /\ kid[g] \in seenKeys[g].kids /\ clock - seenKeys[g].fetchedAt < MaxAge
      BY <2>1 DEF Known, Fresh, TypeOK
    <3>2. seenKeys[g].fetchedAt \in Nat /\ kid[g] \in Kids
      BY <3>1 DEF KeySets
    <3>3. PICK s \in Int : s = seenKeys[g].fetchedAt - Timeout
      BY <3>2, ClientAssumption
    <3>4. PublishedSince(kid[g], s)
      BY <1>2, <3>1, <3>3 DEF CallInv, Vouched
    <3>5. s >= clock - Window + 1
      BY <1>2, <3>1, <3>2, <3>3, ClientAssumption DEF Window
    <3>6. CallInv(g)'
      BY <1>1, <1>2, <1>8, <2>1, <3>2, <3>4, <3>5, AcceptKeeps DEF Decide, cacheVars
    <3> QED BY <1>3, <1>8, <3>6 DEF Decide
  <2>2. CASE End(g, "over", 0)
    BY <1>1, <1>2, <1>3, <1>8, <2>2, EndKeeps DEF Decide, cacheVars
  <2>3. CASE /\ ~RateLimited(g)
             /\ pc' = [pc EXCEPT ![g] = "attempt"]
             /\ UNCHANGED <<kid, seenKeys, seenAttempt, doc, sentAt, answer, asOf>>
    <3>1. pc[g] = "decide" /\ pc'[g] = "attempt" /\ seenAttempt[g] \in Int
      BY <1>8, <2>3 DEF Decide, TypeOK
    <3>2. seenKeys[g] # NoKeys => clock - seenAttempt[g] >= RefetchInterval
      BY <1>2, <2>3, <3>1, ClientAssumption DEF RateLimited
    <3>3. AttemptsRecorded(g)'
      BY <1>1, <1>2, <1>8, <2>3, <3>1, <3>2
         DEF Decide, cacheVars, CallInv, AttemptsRecorded, Quiet
    <3>4. CallInv(g)'
      BY <1>1, <1>2, <2>3, <3>1, <3>3
         DEF CallInv, Vouched, PublishedSince, Quiet, InTime, Waiting, AnswersVouched,
             DocumentCurrent, AcceptedRecently
    <3> QED BY <1>3, <1>8, <3>4 DEF Decide
  <2> QED BY <1>8, <2>1, <2>2, <2>3 DEF Decide
<1>9. ASSUME RecordAttempt(g) PROVE CacheInv' /\ CallInv(g)' /\ keyAttemptAt <= keyAttemptAt'
  <2>1. /\ pc'[g] = "discover" /\ seenKeys'[g] = NoKeys
        /\ keyAttemptAt' = clock /\ triedAt'[g] = clock
    BY <1>9 DEF RecordAttempt, TypeOK
  <2>2. CallInv(g)'
    BY <1>2, <2>1
       DEF CallInv, Vouched, InTime, Waiting, AnswersVouched, DocumentCurrent,
           AcceptedRecently, AttemptsRecorded
  <2>3. CacheInv'
    BY <1>1, <1>2, <1>9, <2>1, CacheKeeps DEF RecordAttempt
  <2> QED BY <1>2, <2>1, <2>2, <2>3
<1>10. ASSUME DiscoverHit(g) PROVE CacheInv' /\ CallInv(g)' /\ keyAttemptAt <= keyAttemptAt'
  <2>1. /\ discovery \in TrustedDocs /\ discoveredAt \in Nat
        /\ clock - discoveredAt < DiscoveryTTL
        /\ ServedSince(discovery, discoveredAt - Timeout)
    BY <1>2, <1>10 DEF DiscoverHit, CacheInv, TypeOK
  <2>2. ServedSince(discovery, clock - (DiscoveryTTL + Timeout) + 1)
    BY <1>2, <2>1, ClientAssumption, ProviderAssumption
       DEF ServedSince, TypeOK, ProviderTypeOK, Never
  <2>3. CallInv(g)'
    BY <1>1, <1>2, <1>10, <2>1, <2>2, UseKeeps DEF DiscoverHit, cacheVars
  <2> QED BY <1>3, <1>10, <2>3 DEF DiscoverHit
<1>11. ASSUME DiscoverMiss(g) PROVE CacheInv' /\ CallInv(g)' /\ keyAttemptAt <= keyAttemptAt'
  <2>1. CallInv(g)'
    BY <1>1, <1>2, <1>11, SendKeeps DEF DiscoverMiss, cacheVars
  <2> QED BY <1>3, <1>11, <2>1 DEF DiscoverMiss
<1>12. ASSUME ReceiveDoc(g) PROVE CacheInv' /\ CallInv(g)' /\ keyAttemptAt <= keyAttemptAt'
  <2>1. CASE doc[g] \notin TrustedDocs
    BY <1>1, <1>2, <1>3, <1>12, <2>1, EndKeeps DEF ReceiveDoc, cacheVars
  <2>2. CASE doc[g] \in TrustedDocs
    <3>1. /\ ServedSince(doc[g], sentAt[g]) /\ sentAt[g] \in Nat
          /\ sentAt[g] <= clock /\ clock <= sentAt[g] + Timeout /\ doc[g] \in Docs
      BY <1>2, <1>12 DEF ReceiveDoc, CallInv, AnswersVouched, InTime, Waiting, TypeOK
    <3>2. ServedSince(doc[g], clock - Timeout)
      BY <1>2, <3>1, ClientAssumption DEF ServedSince, TypeOK, ProviderTypeOK, Never
    <3>3. ServedSince(doc[g], clock - (DiscoveryTTL + Timeout) + 1)
      BY <1>2, <3>1, <3>2, ClientAssumption DEF ServedSince, TypeOK, ProviderTypeOK, Never
    <3>4. CallInv(g)'
      BY <1>1, <1>2, <1>12, <2>2, <3>3, UseKeeps DEF ReceiveDoc
    <3>5. CacheInv'
      BY <1>1, <1>2, <1>12, <2>2, <3>2
         DEF ReceiveDoc, CacheInv, Vouched, PublishedSince, ServedSince, Quiet
    <3> QED BY <1>2, <1>12, <3>4, <3>5 DEF ReceiveDoc
  <2> QED BY <2>1, <2>2
<1>13. ASSUME ReceiveJwks(g) PROVE CacheInv' /\ CallInv(g)' /\ keyAttemptAt <= keyAttemptAt'
  <2>1. CASE End(g, "over", 0)
    BY <1>1, <1>2, <1>3, <1>13, <2>1, EndKeeps DEF ReceiveJwks, cacheVars
  <2>2. CASE ~End(g, "over", 0)
    <3>1. /\ pc'[g] = "store" /\ answer'[g] = answer[g] \cap UsableKids
          /\ asOf'[g] = clock /\ seenKeys'[g] = seenKeys[g]
      BY <1>13, <2>2 DEF ReceiveJwks, TypeOK
    <3>2. ASSUME NEW k \in answer[g] PROVE PublishedSince(k, clock - Timeout)
      <4>1. /\ k \in Kids /\ sentAt[g] \in Nat /\ clock <= sentAt[g] + Timeout
            /\ PublishedSince(k, sentAt[g])
        BY <1>2, <1>13, <3>2 DEF ReceiveJwks, CallInv, AnswersVouched, InTime, Waiting, TypeOK
      <4> QED
        BY <1>2, <4>1, ClientAssumption DEF PublishedSince, TypeOK, ProviderTypeOK, Never
    <3>3. AnswersVouched(g)'
      BY <1>1, <1>2, <3>1, <3>2 DEF AnswersVouched, Quiet, PublishedSince
    <3>4. Vouched(seenKeys[g])'
      BY <1>1, <1>2, <3>1 DEF CallInv, Vouched, Quiet, PublishedSince
    <3>5. InTime(g)' /\ DocumentCurrent(g)' /\ AcceptedRecently(g)' /\ AttemptsRecorded(g)'
      BY <1>2, <1>13, <3>1
         DEF ReceiveJwks, cacheVars, CallInv, InTime, Waiting, DocumentCurrent,
             AcceptedRecently, AttemptsRecorded
    <3> QED BY <1>3, <1>13, <3>3, <3>4, <3>5 DEF ReceiveJwks, CallInv
  <2> QED BY <2>1, <2>2
<1>14. ASSUME StoreKeys(g) PROVE CacheInv' /\ CallInv(g)' /\ keyAttemptAt <= keyAttemptAt'
  <2>1. /\ asOf[g] \in Nat /\ asOf[g] <= clock /\ answer[g] \subseteq Kids
        /\ \A k \in answer[g] : PublishedSince(k, asOf[g] - Timeout)
    BY <1>2, <1>14 DEF StoreKeys, CallInv, AnswersVouched, TypeOK
  <2>2. CacheInv'
    BY <1>1, <1>2, <1>14, <2>1
       DEF StoreKeys, CacheInv, Vouched, PublishedSince, ServedSince, Quiet
  <2>3. CASE kid[g] \in answer[g]
    <3>1. PICK s \in Int : s = asOf[g] - Timeout
      BY <2>1, ClientAssumption
    <3>2. s >= asOf[g] - Window + 1
      BY <2>1, <3>1, ClientAssumption DEF Window
    <3>3. CallInv(g)'
      BY <1>1, <1>2, <1>14, <2>1, <2>3, <3>1, <3>2, AcceptKeeps DEF StoreKeys
    <3> QED BY <1>2, <1>14, <2>2, <3>3 DEF StoreKeys
  <2>4. CASE kid[g] \notin answer[g]
    BY <1>1, <1>2, <1>14, <2>2, <2>4, EndKeeps DEF StoreKeys
  <2> QED BY <2>3, <2>4
<1>15. ASSUME FinishApi(g) \/ Fail(g)
       PROVE  CacheInv' /\ CallInv(g)' /\ keyAttemptAt <= keyAttemptAt'
  BY <1>1, <1>2, <1>3, <1>15, EndKeeps DEF FinishApi, Fail, cacheVars
<1>16. ASSUME Return(g) PROVE CacheInv' /\ CallInv(g)' /\ keyAttemptAt <= keyAttemptAt'
  <2>1. pc'[g] = "idle" /\ seenKeys'[g] = seenKeys[g]
    BY <1>16 DEF Return, TypeOK
  <2>2. CallInv(g)'
    BY <1>1, <1>2, <1>16, <2>1
       DEF Return, cacheVars, CallInv, Vouched, PublishedSince, Quiet, InTime, Waiting,
           AnswersVouched, DocumentCurrent, AcceptedRecently, AttemptsRecorded
  <2> QED BY <1>3, <1>16, <2>2 DEF Return
<1> QED
  BY <1>4, <1>5, <1>6, <1>7, <1>8, <1>9, <1>10, <1>11, <1>12, <1>13, <1>14, <1>15, <1>16
     DEF CallerStep, Start, Serve, Progress

LEMMA InitInvariant == Init => IInv
  BY ClientAssumption
     DEF Init, ProviderInit, IInv, CacheInv, Vouched, CallInv, InTime, Waiting, AnswersVouched,
         DocumentCurrent, AcceptedRecently, AttemptsRecorded, LongAgo

LEMMA StepInvariant == TypeOK /\ TypeOK' /\ IInv /\ [Next]_vars => IInv'
<1> SUFFICES ASSUME TypeOK, TypeOK', IInv, [Next]_vars PROVE IInv'
  OBVIOUS
<1>1. CASE Tick \/ Provider
  BY <1>1, EnvironmentKeeps
<1>2. ASSUME NEW g \in Callers, CallerStep(g) PROVE IInv'
  <2>1. CacheInv' /\ CallInv(g)' /\ keyAttemptAt <= keyAttemptAt'
    BY <1>2, CallerKeeps
  <2>2. ASSUME NEW h \in Callers \ {g} PROVE CallInv(h)'
    BY <1>2, <2>1, <2>2, StepIsLocal, OthersKeep DEF IInv
  <2> QED BY <2>1, <2>2 DEF IInv
<1>3. CASE UNCHANGED vars
  BY <1>3
     DEF vars, providerVars, cacheVars, callVars, IInv, CacheInv, Vouched, CallInv, InTime,
         AnswersVouched, DocumentCurrent, AcceptedRecently, AttemptsRecorded,
         PublishedSince, ServedSince
<1> QED BY <1>1, <1>2, <1>3 DEF Next, CallerStep

LEMMA Invariant == Spec => []IInv
<1>1. Spec => []TypeOK
  BY TypeCorrect
<1> QED BY <1>1, InitInvariant, StepInvariant, PTL DEF Spec

\* No token is ever verified with a key that the provider withdrew Window or
\* longer before, or that it never published: for any number of overlapping
\* calls to VerifyIDToken, and answers that overtake each other.
THEOREM KeysAreRecent == Spec => []AcceptedKeysAreRecent
<1>1. IInv => AcceptedKeysAreRecent
  BY DEF IInv, CallInv, AcceptedRecently, AcceptedKeysAreRecent
<1> QED BY <1>1, Invariant, PTL

\* No request leaves for an endpoint of a document that was not checked or
\* that has been out of service for DiscoveryTTL + Timeout.
THEOREM EndpointsCurrent == Spec => []EndpointsAreCurrent
<1>1. IInv => EndpointsAreCurrent
  BY DEF IInv, CallInv, DocumentCurrent, EndpointsAreCurrent
<1> QED BY <1>1, Invariant, PTL

\* The rate limit holds caller by caller once a key set is held, although the
\* limit is checked in one critical section and recorded in another.
THEOREM AttemptSpacing == Spec => OwnAttemptsSpaced
<1>1. ASSUME TypeOK, IInv, NEW g \in Callers, RecordAttempt(g), seenKeys[g] # NoKeys
      PROVE  clock - triedAt[g] >= RefetchInterval
  BY <1>1, ClientAssumption
     DEF IInv, CallInv, AttemptsRecorded, RecordAttempt, TypeOK, ProviderTypeOK
<1>2. TypeOK /\ IInv =>
        [\A g \in Callers : RecordAttempt(g) /\ seenKeys[g] # NoKeys =>
           clock - triedAt[g] >= RefetchInterval]_vars
  BY <1>1
<1> QED BY <1>2, TypeCorrect, Invariant, PTL DEF Spec, OwnAttemptsSpaced
=============================================================================
