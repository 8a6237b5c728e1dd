--------------------------- MODULE IdentityClient ---------------------------
(***************************************************************************)
(* The Go identity.Client (go/identity/identity.go, idtoken.go) under      *)
(* concurrent use: its discovery cache, its signing-key cache, and the     *)
(* calls of several goroutines that read them under mu, release mu, talk   *)
(* to the provider, and take mu again to store what they got.              *)
(*                                                                         *)
(* An action is one critical section, or the stretch between two of them,  *)
(* up to the next point where another goroutine can be seen.  A request    *)
(* takes two steps, the moment the provider computes its answer and the    *)
(* moment the client has it, so that answers overtake each other.          *)
(***************************************************************************)
EXTENDS OIDCProvider

CONSTANTS
  Callers,         \* goroutines sharing the client
  DiscoveryTTL,    \* discoveryTTL
  MaxAge,          \* jwksMaxAge
  RefetchInterval, \* jwksRefetchInterval
  Timeout,         \* the transport's bound on one request (DefaultTimeout)
  NoDoc, NoKeys    \* the nil discovery document and the nil key set

KeySets == [kids : SUBSET Kids, fetchedAt : Nat]
NoKid == "none"

ASSUME ClientAssumption ==
  /\ DiscoveryTTL \in Nat \ {0}
  /\ MaxAge \in Nat \ {0}
  /\ RefetchInterval \in Nat
  /\ Timeout \in Nat
  /\ NoDoc \notin Docs
  /\ NoKeys \notin KeySets
  /\ NoKid \notin Kids

VARIABLES
  discovery,    \* c.discovery
  discoveredAt, \* c.fetchedAt
  keys,         \* c.keys
  keyAttemptAt, \* c.keyAttemptAt
  pc,           \* where each call is
  kid,          \* the kid of the token being verified, NoKid in other calls
  seenKeys,     \* signingKey's copy of c.keys
  seenAttempt,  \* signingKey's copy of c.keyAttemptAt
  doc,          \* the discovery document the call works with
  sentAt,       \* when the request in flight was sent
  answer,       \* kids in the JWKS answer made for this call
  asOf,         \* the clock reading the verdict rests on
  triedAt       \* history: when each caller last attempted a JWKS fetch

cacheVars == <<discovery, discoveredAt, keys, keyAttemptAt>>
callVars == <<pc, kid, seenKeys, seenAttempt, doc, sentAt, answer, asOf>>
vars == <<clock, providerVars, cacheVars, callVars, triedAt>>

\* A verification runs decide, attempt, discover, docSent, docServed,
\* jwksSent, jwksServed, store and may end after any of them; every other
\* operation runs discover, docSent, docServed, apiSent.  "accepted" is
\* signingKey returning a key, "over" every other end of a call.
Waiting == {"docSent", "docServed", "jwksSent", "jwksServed", "apiSent"}
Ended == {"accepted", "over"}
Stages == {"idle", "decide", "attempt", "discover", "store"} \cup Waiting \cup Ended

\* The zero time.Time: longer ago than any interval.
LongAgo == -RefetchInterval

TypeOK ==
  /\ ProviderTypeOK
  /\ discovery \in Docs \cup {NoDoc}
  /\ discoveredAt \in Nat
  /\ keys \in KeySets \cup {NoKeys}
  /\ keyAttemptAt \in Int
  /\ pc \in [Callers -> Stages]
  /\ kid \in [Callers -> Kids \cup {NoKid}]
  /\ seenKeys \in [Callers -> KeySets \cup {NoKeys}]
  /\ seenAttempt \in [Callers -> Int]
  /\ doc \in [Callers -> Docs \cup {NoDoc}]
  /\ sentAt \in [Callers -> Nat]
  /\ answer \in [Callers -> SUBSET Kids]
  /\ asOf \in [Callers -> Nat]
  /\ triedAt \in [Callers -> Int]

Init ==
  /\ ProviderInit
  /\ discovery = NoDoc
  /\ discoveredAt = 0
  /\ keys = NoKeys
  /\ keyAttemptAt = LongAgo
  /\ pc = [g \in Callers |-> "idle"]
  /\ kid = [g \in Callers |-> NoKid]
  /\ seenKeys = [g \in Callers |-> NoKeys]
  /\ seenAttempt = [g \in Callers |-> LongAgo]
  /\ doc = [g \in Callers |-> NoDoc]
  /\ sentAt = [g \in Callers |-> 0]
  /\ answer = [g \in Callers |-> {}]
  /\ asOf = [g \in Callers |-> 0]
  /\ triedAt = [g \in Callers |-> LongAgo]

\* Every local of g but its kid dies with the call; v is how the call ended,
\* t the clock reading an acceptance rests on.
End(g, v, t) ==
  /\ pc' = [pc EXCEPT ![g] = v]
  /\ asOf' = [asOf EXCEPT ![g] = t]
  /\ seenKeys' = [seenKeys EXCEPT ![g] = NoKeys]
  /\ seenAttempt' = [seenAttempt EXCEPT ![g] = LongAgo]
  /\ doc' = [doc EXCEPT ![g] = NoDoc]
  /\ sentAt' = [sentAt EXCEPT ![g] = 0]
  /\ answer' = [answer EXCEPT ![g] = {}]
  /\ UNCHANGED kid

-----------------------------------------------------------------------------
(* VerifyIDToken: signingKey and fetchJWKS.                                 *)

\* The critical section of signingKey.  The token's own shape and algorithm
\* were checked before; nothing shared is read there.
StartVerify(g, k) ==
  /\ pc[g] = "idle"
  /\ pc' = [pc EXCEPT ![g] = "decide"]
  /\ kid' = [kid EXCEPT ![g] = k]
  /\ seenKeys' = [seenKeys EXCEPT ![g] = keys]
  /\ seenAttempt' = [seenAttempt EXCEPT ![g] = keyAttemptAt]
  /\ UNCHANGED <<clock, providerVars, cacheVars, doc, sentAt, answer, asOf, triedAt>>

Known(g) == seenKeys[g] # NoKeys /\ kid[g] \in seenKeys[g].kids
\* Mutant: no jwksMaxAge at all.
FreshForEver(g) == TRUE
Fresh(g) == clock - seenKeys[g].fetchedAt < MaxAge
RateLimited(g) == seenKeys[g] # NoKeys /\ clock - seenAttempt[g] < RefetchInterval

\* What signingKey does with its copies, at the clock it reads after them.
Decide(g) ==
  /\ pc[g] = "decide"
  /\ \/ Known(g) /\ Fresh(g) /\ End(g, "accepted", clock)
     \/ ~(Known(g) /\ Fresh(g)) /\ RateLimited(g) /\ End(g, "over", 0)
     \/ /\ ~(Known(g) /\ Fresh(g)) /\ ~RateLimited(g)
        /\ pc' = [pc EXCEPT ![g] = "attempt"]
        /\ UNCHANGED <<kid, seenKeys, seenAttempt, doc, sentAt, answer, asOf>>
  /\ UNCHANGED <<clock, providerVars, cacheVars, triedAt>>

\* Mutant: the attempt is not recorded before it is made.
RecordNoAttempt(g) ==
  /\ pc[g] = "attempt"
  /\ pc' = [pc EXCEPT ![g] = "discover"]
  /\ triedAt' = [triedAt EXCEPT ![g] = clock]
  /\ seenKeys' = [seenKeys EXCEPT ![g] = NoKeys]
  /\ seenAttempt' = [seenAttempt EXCEPT ![g] = LongAgo]
  /\ UNCHANGED <<clock, providerVars, cacheVars, kid, doc, sentAt, answer, asOf>>

\* fetchJWKS's first critical section.
RecordAttempt(g) ==
  /\ pc[g] = "attempt"
  /\ pc' = [pc EXCEPT ![g] = "discover"]
  /\ keyAttemptAt' = clock
  /\ triedAt' = [triedAt EXCEPT ![g] = clock]
  /\ seenKeys' = [seenKeys EXCEPT ![g] = NoKeys]
  /\ seenAttempt' = [seenAttempt EXCEPT ![g] = LongAgo]
  /\ UNCHANGED <<clock, providerVars, discovery, discoveredAt, keys, kid,
                 doc, sentAt, answer, asOf>>

-----------------------------------------------------------------------------
(* Discover, and what its callers do with the document it returns.          *)

\* Exchange, Refresh, UserInfo, Introspect, Revoke, AuthorizeURL and
\* EndSessionURL: past their parameter checks they all begin with Discover.
StartCall(g) ==
  /\ pc[g] = "idle"
  /\ pc' = [pc EXCEPT ![g] = "discover"]
  /\ UNCHANGED <<clock, providerVars, cacheVars, kid, seenKeys, seenAttempt,
                 doc, sentAt, answer, asOf, triedAt>>

Send(g, stage, d) ==
  /\ pc' = [pc EXCEPT ![g] = stage]
  /\ doc' = [doc EXCEPT ![g] = d]
  /\ sentAt' = [sentAt EXCEPT ![g] = clock]
  /\ UNCHANGED <<kid, seenKeys, seenAttempt, answer, asOf>>

\* Discover returned d.  A verification asks its jwks_uri for the keys, which
\* fails when there is none; another call uses its endpoint of d, or ends
\* because d does not advertise it or the client has no credentials for it.
Use(g, d) ==
  \/ kid[g] # NoKid /\ d \notin NoJwksDocs /\ Send(g, "jwksSent", d)
  \/ kid[g] # NoKid /\ d \in NoJwksDocs /\ End(g, "over", 0)
  \/ kid[g] = NoKid /\ (Send(g, "apiSent", d) \/ End(g, "over", 0))

\* The critical section in which Discover looks at the cache.
DiscoverHit(g) ==
  /\ pc[g] = "discover"
  /\ discovery # NoDoc
  /\ clock - discoveredAt < DiscoveryTTL
  /\ Use(g, discovery)
  /\ UNCHANGED <<clock, providerVars, cacheVars, triedAt>>

DiscoverMiss(g) ==
  /\ pc[g] = "discover"
  /\ ~(discovery # NoDoc /\ clock - discoveredAt < DiscoveryTTL)
  /\ Send(g, "docSent", NoDoc)
  /\ UNCHANGED <<clock, providerVars, cacheVars, triedAt>>

ServeDoc(g) ==
  /\ pc[g] = "docSent"
  /\ pc' = [pc EXCEPT ![g] = "docServed"]
  /\ doc' = [doc EXCEPT ![g] = served]
  /\ UNCHANGED <<clock, providerVars, cacheVars, kid, seenKeys, seenAttempt,
                 sentAt, answer, asOf, triedAt>>

\* Mutant: the document is stored before it is checked.
ReceiveDocUnchecked(g) ==
  /\ pc[g] = "docServed"
  /\ discovery' = doc[g]
  /\ discoveredAt' = clock
  /\ IF doc[g] \in TrustedDocs THEN Use(g, doc[g]) ELSE End(g, "over", 0)
  /\ UNCHANGED <<clock, providerVars, keys, keyAttemptAt, triedAt>>

\* The answer is in: the issuer and origin checks, then the critical section
\* that stores the document, stamped with the clock read inside it.
ReceiveDoc(g) ==
  /\ pc[g] = "docServed"
  /\ \/ /\ doc[g] \notin TrustedDocs
        /\ End(g, "over", 0)
        /\ UNCHANGED <<discovery, discoveredAt>>
     \/ /\ doc[g] \in TrustedDocs
        /\ discovery' = doc[g]
        /\ discoveredAt' = clock
        /\ Use(g, doc[g])
  /\ UNCHANGED <<clock, providerVars, keys, keyAttemptAt, triedAt>>

-----------------------------------------------------------------------------
(* The rest of fetchJWKS, and the end of a call.                            *)

ServeJwks(g) ==
  /\ pc[g] = "jwksSent"
  /\ pc' = [pc EXCEPT ![g] = "jwksServed"]
  /\ answer' = [answer EXCEPT ![g] = JwksOf(doc[g])]
  /\ UNCHANGED <<clock, providerVars, cacheVars, kid, seenKeys, seenAttempt,
                 doc, sentAt, asOf, triedAt>>

\* The answer is in: it is stamped with the clock before it is stored, and
\* fails when it holds no usable key.
ReceiveJwks(g) ==
  /\ pc[g] = "jwksServed"
  /\ LET usable == answer[g] \cap UsableKids IN
     \/ usable = {} /\ End(g, "over", 0)
     \/ /\ usable # {}
        /\ pc' = [pc EXCEPT ![g] = "store"]
        /\ answer' = [answer EXCEPT ![g] = usable]
        /\ asOf' = [asOf EXCEPT ![g] = clock]
        /\ doc' = [doc EXCEPT ![g] = NoDoc]
        /\ sentAt' = [sentAt EXCEPT ![g] = 0]
        /\ UNCHANGED <<kid, seenKeys, seenAttempt>>
  /\ UNCHANGED <<clock, providerVars, cacheVars, triedAt>>

\* Mutant: the set is stamped when it is stored, not when it arrived.
StoreKeysStampedLate(g) ==
  /\ pc[g] = "store"
  /\ keys' = [kids |-> answer[g], fetchedAt |-> clock]
  /\ IF kid[g] \in answer[g] THEN End(g, "accepted", clock) ELSE End(g, "over", 0)
  /\ UNCHANGED <<clock, providerVars, discovery, discoveredAt, keyAttemptAt, triedAt>>

\* Mutant: the set is stamped with the oldest moment it could vouch for.
StoreKeysBackdated(g) ==
  /\ pc[g] = "store"
  /\ keys' = [kids |-> answer[g], fetchedAt |-> asOf[g] - MaxAge]
  /\ IF kid[g] \in answer[g] THEN End(g, "accepted", asOf[g]) ELSE End(g, "over", 0)
  /\ UNCHANGED <<clock, providerVars, discovery, discoveredAt, keyAttemptAt, triedAt>>

\* The last critical section of fetchJWKS, and signingKey's look at the set.
StoreKeys(g) ==
  /\ pc[g] = "store"
  /\ keys' = [kids |-> answer[g], fetchedAt |-> asOf[g]]
  /\ IF kid[g] \in answer[g] THEN End(g, "accepted", asOf[g]) ELSE End(g, "over", 0)
  /\ UNCHANGED <<clock, providerVars, discovery, discoveredAt, keyAttemptAt, triedAt>>

\* A request that was answered, or one that failed: no connection, timeout,
\* cancelled context, a status outside 2xx, an undecodable body.
FinishApi(g) ==
  /\ pc[g] = "apiSent"
  /\ End(g, "over", 0)
  /\ UNCHANGED <<clock, providerVars, cacheVars, triedAt>>

\* Mutant: the JWKS request has no timeout and cannot fail.
FailDiscoveryOnly(g) ==
  /\ pc[g] \in {"docSent", "docServed"}
  /\ End(g, "over", 0)
  /\ UNCHANGED <<clock, providerVars, cacheVars, triedAt>>

Fail(g) ==
  /\ pc[g] \in Waiting \ {"apiSent"}
  /\ End(g, "over", 0)
  /\ UNCHANGED <<clock, providerVars, cacheVars, triedAt>>

Return(g) ==
  /\ pc[g] \in Ended
  /\ pc' = [pc EXCEPT ![g] = "idle"]
  /\ kid' = [kid EXCEPT ![g] = NoKid]
  /\ asOf' = [asOf EXCEPT ![g] = 0]
  /\ UNCHANGED <<clock, providerVars, cacheVars, seenKeys, seenAttempt, doc,
                 sentAt, answer, triedAt>>

-----------------------------------------------------------------------------
\* Time passes, but no request outlives the transport's timeout.
Tick ==
  /\ clock < MaxClock
  /\ \A g \in Callers : pc[g] \in Waiting => clock < sentAt[g] + Timeout
  /\ clock' = clock + 1
  /\ UNCHANGED <<providerVars, cacheVars, callVars, triedAt>>

Provider == ProviderNext /\ UNCHANGED <<cacheVars, callVars, triedAt>>

\* What a call does by itself once it has begun.
Progress(g) ==
  \/ Decide(g) \/ RecordAttempt(g)
  \/ DiscoverHit(g) \/ DiscoverMiss(g) \/ ReceiveDoc(g)
  \/ ReceiveJwks(g) \/ StoreKeys(g)
  \/ FinishApi(g) \/ Fail(g) \/ Return(g)

Start(g) == StartCall(g) \/ \E k \in Kids : StartVerify(g, k)
Serve(g) == ServeDoc(g) \/ ServeJwks(g)

Next ==
  \/ Tick
  \/ Provider
  \/ \E g \in Callers : Start(g) \/ Serve(g) \/ Progress(g)

\* A call that has begun is run by the scheduler until it returns: a request
\* never blocks it for good, because the transport gives up after Timeout.
\* Nothing makes a caller call, the provider answer, or time pass.
Spec == Init /\ [][Next]_vars /\ \A g \in Callers : WF_vars(Progress(g))

-----------------------------------------------------------------------------
(* Properties.                                                              *)

\* The longest a withdrawn key may still be accepted: the set's age, plus the
\* time its answer spent on the wire before fetchJWKS stamped it.
Window == MaxAge + Timeout

\* A key signingKey hands out was in this provider's JWKS less than Window
\* before the clock reading the decision rests on: neither a key of another
\* provider nor one withdrawn longer ago than that verifies a token, whichever
\* of several overlapping fetches filled the cache.
AcceptedKeysAreRecent ==
  \A g \in Callers :
    pc[g] = "accepted" => PublishedSince(kid[g], asOf[g] - Window + 1)

\* Every request for keys or to an API endpoint goes to an endpoint of a
\* document that passed the issuer and origin checks and that the provider
\* still served less than DiscoveryTTL + Timeout before the request was sent.
EndpointsAreCurrent ==
  \A g \in Callers :
    pc[g] \in {"jwksSent", "jwksServed", "apiSent"} =>
      /\ doc[g] \in TrustedDocs
      /\ ServedSince(doc[g], sentAt[g] - (DiscoveryTTL + Timeout) + 1)

\* While a key set is held, one caller attempts a fetch at most once in a
\* RefetchInterval, failed attempts included: the rate limit of signingKey is
\* on attempts, so n callers make at most n of them in an interval.
OwnAttemptsSpaced ==
  [][\A g \in Callers :
       RecordAttempt(g) /\ seenKeys[g] # NoKeys => clock - triedAt[g] >= RefetchInterval]_vars

\* No call waits for ever, and none retries for ever: whatever the provider
\* serves, a call that has begun comes back.
CallsReturn == \A g \in Callers : pc[g] # "idle" ~> pc[g] = "idle"

(* What the comment of jwksRefetchInterval says, and the code does not do.  *)

\* "jwksRefetchInterval bounds how often a JWKS fetch may be attempted."
AttemptsSpaced ==
  [][\A g \in Callers : RecordAttempt(g) => clock - keyAttemptAt >= RefetchInterval]_vars

-----------------------------------------------------------------------------
(* The inductive invariant behind these properties.  A set, in the cache or *)
(* copied out of it, vouches for each of its kids up to Timeout before its  *)
(* stamp; a document vouches for itself likewise; an answer on the wire     *)
(* vouches from the moment its request was sent.                            *)

Vouched(set) ==
  set # NoKeys =>
    /\ set.fetchedAt <= clock
    /\ \A k \in set.kids : PublishedSince(k, set.fetchedAt - Timeout)

CacheInv ==
  /\ Vouched(keys)
  /\ discovery # NoDoc =>
       /\ discovery \in TrustedDocs
       /\ discoveredAt <= clock
       /\ ServedSince(discovery, discoveredAt - Timeout)
  /\ keyAttemptAt <= clock

InTime(g) == pc[g] \in Waiting => sentAt[g] <= clock /\ clock <= sentAt[g] + Timeout

AnswersVouched(g) ==
  /\ pc[g] = "docServed" => doc[g] \in Docs /\ ServedSince(doc[g], sentAt[g])
  /\ pc[g] = "jwksServed" => \A k \in answer[g] : PublishedSince(k, sentAt[g])
  /\ pc[g] = "store" =>
       /\ asOf[g] <= clock
       /\ \A k \in answer[g] : PublishedSince(k, asOf[g] - Timeout)

DocumentCurrent(g) ==
  pc[g] \in {"jwksSent", "jwksServed", "apiSent"} =>
    /\ doc[g] \in TrustedDocs
    /\ ServedSince(doc[g], sentAt[g] - (DiscoveryTTL + Timeout) + 1)

AcceptedRecently(g) ==
  pc[g] = "accepted" =>
    /\ kid[g] \in Kids
    /\ asOf[g] <= clock
    /\ PublishedSince(kid[g], asOf[g] - Window + 1)

AttemptsRecorded(g) ==
  /\ triedAt[g] <= keyAttemptAt
  /\ pc[g] \in {"decide", "attempt"} => triedAt[g] <= seenAttempt[g]
  /\ pc[g] = "attempt" /\ seenKeys[g] # NoKeys => clock - seenAttempt[g] >= RefetchInterval

CallInv(g) ==
  /\ Vouched(seenKeys[g])
  /\ InTime(g)
  /\ AnswersVouched(g)
  /\ DocumentCurrent(g)
  /\ AcceptedRecently(g)
  /\ AttemptsRecorded(g)

IInv == CacheInv /\ \A g \in Callers : CallInv(g)
=============================================================================
