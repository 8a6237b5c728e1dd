------------------- MODULE IdentityClientRefinementProofs -------------------
(***************************************************************************)
(* The concurrent, caching client implements KeyTrust, for any number of   *)
(* callers and any values of the durations.                                *)
(***************************************************************************)
EXTENDS IdentityClientRefinement, IdentityClientProofs

\* A verification has a kid from its first step to its last, and a call of
\* another kind never has one.
KidInv ==
  \A g \in Callers :
    /\ pc[g] \in {"idle", "apiSent"} => kid[g] = NoKid
    /\ pc[g] \in {"decide", "attempt", "jwksSent", "jwksServed", "store", "accepted"} =>
         kid[g] \in Kids

LEMMA KidInvInit == Init => KidInv
  BY DEF Init, KidInv

LEMMA KidInvStep == TypeOK /\ KidInv /\ [Next]_vars => KidInv'
<1> SUFFICES ASSUME TypeOK, KidInv, [Next]_vars PROVE KidInv'
  OBVIOUS
<1> USE DEF TypeOK, KidInv
<1>1. CASE Tick \/ Provider \/ UNCHANGED vars
  BY <1>1 DEF Tick, Provider, vars, callVars
<1>2. ASSUME NEW g \in Callers, Start(g) \/ Serve(g) PROVE KidInv'
  BY <1>2, ClientAssumption DEF Start, StartCall, StartVerify, Serve, ServeDoc, ServeJwks
<1>3. ASSUME NEW g \in Callers, Progress(g) PROVE KidInv'
  <2>1. ASSUME NEW v \in {"over"}, NEW t, End(g, v, t) PROVE KidInv'
    BY <2>1 DEF End
  <2>2. ASSUME NEW t, End(g, "accepted", t), kid[g] \in Kids PROVE KidInv'
    BY <2>2 DEF End
  <2>3. ASSUME NEW d, Use(g, d) PROVE KidInv'
    BY <2>1, <2>3 DEF Use, Send
  <2>4. CASE Decide(g)
    BY <2>1, <2>2, <2>4 DEF Decide
  <2>5. CASE RecordAttempt(g) \/ DiscoverMiss(g) \/ Return(g)
    BY <2>5 DEF RecordAttempt, DiscoverMiss, Send, Return
  <2>6. CASE DiscoverHit(g) \/ ReceiveDoc(g)
    BY <2>1, <2>3, <2>6 DEF DiscoverHit, ReceiveDoc
  <2>7. CASE ReceiveJwks(g)
    BY <2>1, <2>7 DEF ReceiveJwks
  <2>8. CASE StoreKeys(g) \/ FinishApi(g) \/ Fail(g)
    BY <2>1, <2>2, <2>8 DEF StoreKeys, FinishApi, Fail
  <2> QED BY <1>3, <2>4, <2>5, <2>6, <2>7, <2>8 DEF Progress
<1> QED BY <1>1, <1>2, <1>3 DEF Next

-----------------------------------------------------------------------------
(* The shapes a step of one caller can have in the abstract state.          *)

LEMMA InitRefines == Init => Trust!TrustInit
  BY DEF Init, Trust!TrustInit, ProviderInit, Trust!ProviderInit, Never, Trust!Never,
         askedOf, verdictOf, NoKid

LEMMA EnvironmentRefines ==
  ASSUME Tick \/ Provider
  PROVE  [Trust!TrustNext]_Trust!trustVars
<1>1. UNCHANGED <<askedOf, verdictOf>>
  BY DEF Tick, Provider, callVars, askedOf, verdictOf
<1>2. CASE Tick
  BY <1>1, <1>2
     DEF Tick, providerVars, Trust!providerVars, Trust!TrustNext, Trust!Environment
<1>3. CASE Provider
  <2>1. Trust!ProviderNext
    BY <1>3
       DEF Provider, ProviderNext, Publish, Withdraw, Redeploy, Trust!ProviderNext,
           Trust!Publish, Trust!Withdraw, Trust!Redeploy
  <2> QED BY <1>1, <2>1 DEF Trust!TrustNext, Trust!Environment
<1> QED BY <1>2, <1>3

\* The verdict of one caller, from its own variables.
verdictAt(g) ==
  IF kid[g] = NoKid THEN "none"
  ELSE IF pc[g] = "accepted" \/ (pc[g] = "store" /\ kid[g] \in answer[g]) THEN "accepted"
  ELSE IF pc[g] \in {"over", "store"} THEN "refused"
  ELSE "none"

\* A caller's step changes the abstract state only at the caller.
LEMMA AbstractIsLocal ==
  ASSUME TypeOK, NEW g \in Callers, CallerStep(g)
  PROVE  /\ askedOf' = [askedOf EXCEPT ![g] = kid'[g]]
         /\ verdictOf' = [verdictOf EXCEPT ![g] = verdictAt(g)']
         /\ UNCHANGED <<clock, Trust!providerVars>>
<1>1. Quiet /\ \A h \in Callers \ {g} : Untouched(h)
  BY StepIsLocal
<1>2. askedOf' = [askedOf EXCEPT ![g] = kid'[g]]
  BY <1>1 DEF askedOf, Untouched
<1>3. verdictOf = [h \in Callers |-> verdictAt(h)]
      /\ verdictOf' = [h \in Callers |-> verdictAt(h)']
  BY DEF verdictOf, verdictAt
<1>4. \A h \in Callers \ {g} : verdictAt(h)' = verdictAt(h)
  BY <1>1 DEF verdictAt, Untouched
<1> QED BY <1>1, <1>2, <1>3, <1>4 DEF Quiet, Trust!providerVars

\* Nothing visible happens when neither the kid nor the verdict changes.
LEMMA SilentRefines ==
  ASSUME TypeOK, NEW g \in Callers, CallerStep(g),
         kid'[g] = kid[g], verdictAt(g)' = verdictAt(g)
  PROVE  UNCHANGED Trust!trustVars
<1>1. askedOf' = askedOf
  BY AbstractIsLocal DEF askedOf
<1>2. verdictOf = [h \in Callers |-> verdictAt(h)]
  BY DEF verdictOf, verdictAt
<1>3. verdictOf' = [verdictOf EXCEPT ![g] = verdictAt(g)]
  BY AbstractIsLocal
<1>4. verdictOf' = verdictOf
  BY <1>2, <1>3
<1> QED BY <1>1, <1>4, AbstractIsLocal DEF Trust!trustVars

LEMMA JudgeRefines ==
  ASSUME TypeOK, NEW g \in Callers, CallerStep(g), kid[g] # NoKid, kid'[g] = kid[g],
         verdictAt(g) = "none", NEW v \in {"accepted", "refused"}, verdictAt(g)' = v,
         v = "accepted" => PublishedSince(kid[g], clock - Window + 1)
  PROVE  Trust!TrustNext
<1>1. askedOf[g] = kid[g] /\ verdictOf[g] = "none" /\ askedOf' = askedOf
  BY AbstractIsLocal DEF askedOf, verdictOf, verdictAt
<1>2. Trust!Judge(g, v)
  BY <1>1, AbstractIsLocal DEF Trust!Judge, PublishedSince, Trust!PublishedSince, NoKid,
     Never, Trust!Never
<1> QED BY <1>2 DEF Trust!TrustNext

\* A call that ends without a key either was a verification, which is
\* refused now, or was none, and nobody notices.
LEMMA EndRefines ==
  ASSUME TypeOK, NEW g \in Callers, CallerStep(g), End(g, "over", 0),
         pc[g] \notin {"store", "over", "accepted"}
  PROVE  [Trust!TrustNext]_Trust!trustVars
<1>1. pc'[g] = "over" /\ kid'[g] = kid[g]
  BY DEF End, TypeOK
<1>2. CASE kid[g] = NoKid
  BY <1>1, <1>2, SilentRefines DEF verdictAt
<1>3. CASE kid[g] # NoKid
  BY <1>1, <1>3, JudgeRefines DEF verdictAt
<1> QED BY <1>2, <1>3

LEMMA UseRefines ==
  ASSUME TypeOK, NEW g \in Callers, CallerStep(g), NEW d, Use(g, d),
         pc[g] \in {"discover", "docServed"}
  PROVE  [Trust!TrustNext]_Trust!trustVars
<1>1. ASSUME NEW s \in {"jwksSent", "apiSent"}, Send(g, s, d)
      PROVE  [Trust!TrustNext]_Trust!trustVars
  BY <1>1, SilentRefines DEF Send, verdictAt, TypeOK
<1> QED BY <1>1, EndRefines DEF Use

LEMMA CallerRefines ==
  ASSUME TypeOK, IInv, IInv', KidInv, NEW g \in Callers, CallerStep(g)
  PROVE  [Trust!TrustNext]_Trust!trustVars
<1> USE DEF verdictAt
<1>1. CASE StartCall(g) \/ RecordAttempt(g) \/ DiscoverMiss(g) \/ ServeDoc(g) \/ ServeJwks(g)
  BY <1>1, SilentRefines
     DEF StartCall, RecordAttempt, DiscoverMiss, Send, ServeDoc, ServeJwks, TypeOK
<1>2. ASSUME NEW k \in Kids, StartVerify(g, k) PROVE [Trust!TrustNext]_Trust!trustVars
  <2>1. kid[g] = NoKid /\ kid'[g] = k /\ pc'[g] = "decide"
    BY <1>2 DEF StartVerify, KidInv, TypeOK
  <2>2. askedOf[g] = "none" /\ verdictOf' = verdictOf
    BY <2>1, AbstractIsLocal DEF askedOf, verdictOf, NoKid
  <2>3. Trust!Ask(g, k)
    BY <2>1, <2>2, AbstractIsLocal DEF Trust!Ask
  <2> QED BY <2>3 DEF Trust!TrustNext
<1>3. CASE Decide(g)
  <2>1. pc[g] = "decide" /\ kid[g] # NoKid
    BY <1>3, ClientAssumption DEF Decide, KidInv
  <2>2. CASE End(g, "accepted", clock)
    <3>1. pc'[g] = "accepted" /\ asOf'[g] = clock /\ kid'[g] = kid[g]
      BY <2>2 DEF End, TypeOK
    <3>2. PublishedSince(kid[g], clock - Window + 1)
      <4>1. AcceptedRecently(g)' /\ Quiet
        BY StepIsLocal DEF IInv, CallInv
      <4> QED BY <3>1, <4>1 DEF AcceptedRecently, PublishedSince, Quiet, Window
    <3> QED BY <2>1, <3>1, <3>2, JudgeRefines
  <2>3. CASE End(g, "over", 0)
    BY <2>1, <2>3, EndRefines
  <2>4. CASE pc' = [pc EXCEPT ![g] = "attempt"] /\ UNCHANGED kid
    BY <2>1, <2>4, SilentRefines DEF TypeOK
  <2> QED BY <1>3, <2>2, <2>3, <2>4 DEF Decide
<1>4. CASE DiscoverHit(g) \/ ReceiveDoc(g)
  BY <1>4, UseRefines, EndRefines DEF DiscoverHit, ReceiveDoc
<1>5. CASE ReceiveJwks(g)
  <2>1. pc[g] = "jwksServed" /\ kid[g] # NoKid /\ kid[g] \in Kids
    BY <1>5, ClientAssumption DEF ReceiveJwks, KidInv
  <2>2. CASE End(g, "over", 0)
    BY <2>1, <2>2, EndRefines
  <2>3. CASE ~End(g, "over", 0)
    <3>1. pc'[g] = "store" /\ kid'[g] = kid[g] /\ asOf'[g] = clock /\ clock' = clock
      BY <1>5, <2>3 DEF ReceiveJwks, TypeOK
    <3>2. CASE kid[g] \in answer'[g]
      <4>1. PublishedSince(kid[g], clock - Timeout)
        BY <1>5, <3>1, <3>2
           DEF IInv, CallInv, AnswersVouched, PublishedSince, ReceiveJwks, providerVars
      <4>2. PublishedSince(kid[g], clock - Window + 1)
        BY <2>1, <4>1, ClientAssumption
           DEF PublishedSince, Window, TypeOK, ProviderTypeOK, Never
      <4> QED BY <2>1, <3>1, <3>2, <4>2, JudgeRefines
    <3>3. CASE kid[g] \notin answer'[g]
      BY <2>1, <3>1, <3>3, JudgeRefines
    <3> QED BY <3>2, <3>3
  <2> QED BY <2>2, <2>3
<1>6. CASE StoreKeys(g)
  <2>1. /\ pc[g] = "store" /\ kid'[g] = kid[g]
        /\ pc'[g] = IF kid[g] \in answer[g] THEN "accepted" ELSE "over"
    BY <1>6 DEF StoreKeys, End, TypeOK
  <2> QED BY <2>1, SilentRefines
<1>7. CASE FinishApi(g) \/ Fail(g)
  BY <1>7, EndRefines DEF FinishApi, Fail, Waiting
<1>8. CASE Return(g)
  <2>1. pc[g] \in Ended /\ pc'[g] = "idle" /\ kid'[g] = NoKid
    BY <1>8 DEF Return, TypeOK
  <2>2. CASE kid[g] = NoKid
    BY <2>1, <2>2, SilentRefines
  <2>3. CASE kid[g] # NoKid
    <3>1. verdictOf[g] # "none"
      BY <2>1, <2>3 DEF verdictOf, Ended
    <3>2. Trust!Forget(g)
      BY <2>1, <3>1, AbstractIsLocal DEF Trust!Forget, NoKid
    <3> QED BY <3>2 DEF Trust!TrustNext
  <2> QED BY <2>2, <2>3
<1> QED
  BY <1>1, <1>2, <1>3, <1>4, <1>5, <1>6, <1>7, <1>8 DEF CallerStep, Start, Serve, Progress

LEMMA StepRefines ==
  TypeOK /\ IInv /\ IInv' /\ KidInv /\ [Next]_vars => [Trust!TrustNext]_Trust!trustVars
<1> SUFFICES ASSUME TypeOK, IInv, IInv', KidInv, [Next]_vars
             PROVE  [Trust!TrustNext]_Trust!trustVars
  OBVIOUS
<1>1. CASE Tick \/ Provider
  BY <1>1, EnvironmentRefines
<1>2. ASSUME NEW g \in Callers, CallerStep(g) PROVE [Trust!TrustNext]_Trust!trustVars
  BY <1>2, CallerRefines
<1>3. CASE UNCHANGED vars
  BY <1>3
     DEF vars, callVars, providerVars, Trust!trustVars, Trust!providerVars, askedOf, verdictOf
<1> QED BY <1>1, <1>2, <1>3 DEF Next, CallerStep

\* Behind its two caches and its unlocked waits the client does no more than
\* KeyTrust allows: each verdict falls once, and an accepted key was published
\* less than Window before that moment.
THEOREM ClientImplementsKeyTrust == Spec => ImplementsKeyTrust
<1>1. Spec => []KidInv
  BY TypeCorrect, KidInvInit, KidInvStep, PTL DEF Spec
<1> QED
  BY <1>1, TypeCorrect, Invariant, InitRefines, StepRefines, PTL
     DEF Spec, ImplementsKeyTrust, Trust!TrustSpec
=============================================================================
