------------------------------ MODULE JSClient ------------------------------
(***************************************************************************)
(* OIDCClient of js/src/identity.js: one event loop, any number of calls   *)
(* in flight.  An action runs from one await to the next; the cache is     *)
(* read and written between them, and another call may run at each await.  *)
(*                                                                         *)
(* It differs from the Go client in what it promises: a known kid is       *)
(* answered from the cache whatever its age, the rate limit counts from    *)
(* the last successful fetch, and the timeout of a request is over when    *)
(* its headers are there, so that a body may take for ever.                *)
(***************************************************************************)
EXTENDS OIDCProvider

CONSTANTS
  Calls,           \* calls that can be in flight at once
  DiscoveryTTL,    \* DISCOVERY_TTL_MS
  RefetchInterval, \* JWKS_REFETCH_INTERVAL_MS
  Timeout,         \* timeoutMs
  NoDoc, NoKeys    \* null

KeySets == [kids : (SUBSET UsableKids) \ {{}}, fetchedAt : Nat]
NoKid == "none"

ASSUME JSAssumption ==
  /\ DiscoveryTTL \in Nat /\ RefetchInterval \in Nat /\ Timeout \in Nat
  /\ NoDoc \notin Docs /\ NoKeys \notin KeySets /\ NoKid \notin Kids

VARIABLES
  discovery,    \* #discovery
  discoveredAt, \* #discoveredAt
  keys,         \* #keys
  pc, kid,      \* of each call; kid is NoKid unless it verifies a token
  doc,          \* the document discover() gave or is about to give the call
  sentAt,       \* when the request in flight was sent
  answer,       \* the kids in the JWKS answer made for the call
  since,        \* history: when an unknown kid was asked about, 0 for a known one
  refetchedAt   \* history: the last JWKS fetch an unknown kid caused

cacheVars == <<discovery, discoveredAt, keys>>
callVars == <<pc, kid, doc, sentAt, answer>>
history == <<since, refetchedAt>>
vars == <<clock, providerVars, cacheVars, callVars, history>>

AwaitHeaders == {"docSent", "jwksSent", "apiSent"}
AwaitBody == {"docBody", "jwksBody", "apiBody"}
Ended == {"accepted", "over"}
Stages == {"idle", "haveDoc", "import"} \cup AwaitHeaders \cup AwaitBody \cup Ended

LongAgo == -RefetchInterval

TypeOK ==
  /\ ProviderTypeOK
  /\ discovery \in Docs \cup {NoDoc}
  /\ discoveredAt \in Nat
  /\ keys \in KeySets \cup {NoKeys}
  /\ pc \in [Calls -> Stages]
  /\ kid \in [Calls -> Kids \cup {NoKid}]
  /\ doc \in [Calls -> Docs \cup {NoDoc}]
  /\ sentAt \in [Calls -> Nat]
  /\ answer \in [Calls -> SUBSET Kids]
  /\ since \in [Calls -> Nat]
  /\ refetchedAt \in Int

Init ==
  /\ ProviderInit
  /\ discovery = NoDoc /\ discoveredAt = 0 /\ keys = NoKeys
  /\ pc = [p \in Calls |-> "idle"]
  /\ kid = [p \in Calls |-> NoKid]
  /\ doc = [p \in Calls |-> NoDoc]
  /\ sentAt = [p \in Calls |-> 0]
  /\ answer = [p \in Calls |-> {}]
  /\ since = [p \in Calls |-> 0]
  /\ refetchedAt = LongAgo

End(p, v) ==
  /\ pc' = [pc EXCEPT ![p] = v]
  /\ doc' = [doc EXCEPT ![p] = NoDoc]
  /\ sentAt' = [sentAt EXCEPT ![p] = 0]
  /\ answer' = [answer EXCEPT ![p] = {}]

Send(p, stage) ==
  /\ pc' = [pc EXCEPT ![p] = stage]
  /\ sentAt' = [sentAt EXCEPT ![p] = clock]

\* discover() up to its first await: a cached document, or a request for one.
Discover(p) ==
  LET fresh == discovery # NoDoc /\ clock - discoveredAt < DiscoveryTTL IN
  /\ \/ fresh
        /\ pc' = [pc EXCEPT ![p] = "haveDoc"]
        /\ doc' = [doc EXCEPT ![p] = discovery]
        /\ UNCHANGED sentAt
     \/ ~fresh /\ Send(p, "docSent") /\ UNCHANGED doc
  /\ UNCHANGED answer

Known(k) == keys # NoKeys /\ k \in keys.kids
RateLimited == keys # NoKeys /\ clock - keys.fetchedAt < RefetchInterval

\* verifyIdToken, #signingKey, #fetchJWKS and discover up to the first await
\* that waits for somebody.
StartVerify(p, k) ==
  /\ pc[p] = "idle"
  /\ kid' = [kid EXCEPT ![p] = k]
  /\ since' = [since EXCEPT ![p] = IF Known(k) THEN 0 ELSE clock]
  /\ \/ Known(k) /\ End(p, "accepted") /\ UNCHANGED refetchedAt
     \/ ~Known(k) /\ RateLimited /\ End(p, "over") /\ UNCHANGED refetchedAt
     \/ /\ ~Known(k) /\ ~RateLimited
        /\ Discover(p)
        /\ refetchedAt' = IF keys = NoKeys THEN refetchedAt ELSE clock
  /\ UNCHANGED <<clock, providerVars, cacheVars>>

\* exchange, refresh, userInfo, introspect, revoke, authorizeURL and
\* endSessionURL, past their parameter checks.
StartCall(p) ==
  /\ pc[p] = "idle"
  /\ Discover(p)
  /\ UNCHANGED <<clock, providerVars, cacheVars, kid, history>>

\* discover()'s promise is resolved: the caller uses its endpoint, builds a
\* URL from it, or fails because the document does not advertise it.
UseDoc(p) ==
  /\ pc[p] = "haveDoc"
  /\ \/ kid[p] # NoKid /\ doc[p] \notin NoJwksDocs /\ Send(p, "jwksSent")
        /\ UNCHANGED <<doc, answer>>
     \/ kid[p] # NoKid /\ doc[p] \in NoJwksDocs /\ End(p, "over")
     \/ kid[p] = NoKid /\ Send(p, "apiSent") /\ UNCHANGED <<doc, answer>>
     \/ kid[p] = NoKid /\ End(p, "over")
  /\ UNCHANGED <<clock, providerVars, cacheVars, kid, history>>

\* The provider makes its answer and the headers arrive: the timer is cleared.
Serve(p) ==
  /\ \/ pc[p] = "docSent" /\ pc' = [pc EXCEPT ![p] = "docBody"]
        /\ doc' = [doc EXCEPT ![p] = served] /\ UNCHANGED answer
     \/ pc[p] = "jwksSent" /\ pc' = [pc EXCEPT ![p] = "jwksBody"]
        /\ answer' = [answer EXCEPT ![p] = JwksOf(doc[p])] /\ UNCHANGED doc
     \/ pc[p] = "apiSent" /\ pc' = [pc EXCEPT ![p] = "apiBody"] /\ UNCHANGED <<doc, answer>>
  /\ sentAt' = [sentAt EXCEPT ![p] = 0]
  /\ UNCHANGED <<clock, providerVars, cacheVars, kid, history>>

\* (A mutant: the document is cached before it is checked.)
ReceiveDocCachedFirst(p) ==
  /\ pc[p] = "docBody"
  /\ discovery' = doc[p]
  /\ discoveredAt' = clock
  /\ \/ doc[p] \in TrustedDocs /\ pc' = [pc EXCEPT ![p] = "haveDoc"]
        /\ UNCHANGED <<doc, sentAt, answer>>
     \/ doc[p] \notin TrustedDocs /\ End(p, "over")
  /\ UNCHANGED <<clock, providerVars, keys, kid, history>>

\* The body is in: the issuer and origin checks, then the cache.
ReceiveDoc(p) ==
  /\ pc[p] = "docBody"
  /\ \/ /\ doc[p] \in TrustedDocs
        /\ discovery' = doc[p]
        /\ discoveredAt' = clock
        /\ pc' = [pc EXCEPT ![p] = "haveDoc"]
        /\ UNCHANGED <<doc, sentAt, answer>>
     \/ doc[p] \notin TrustedDocs /\ End(p, "over") /\ UNCHANGED <<discovery, discoveredAt>>
  /\ UNCHANGED <<clock, providerVars, keys, kid, history>>

\* Keys that are no verification keys of the algorithm are left out.
ReceiveJwks(p) ==
  /\ pc[p] = "jwksBody"
  /\ pc' = [pc EXCEPT ![p] = "import"]
  /\ answer' = [answer EXCEPT ![p] = answer[p] \cap UsableKids]
  /\ UNCHANGED <<clock, providerVars, cacheVars, kid, doc, sentAt, history>>

\* (A mutant: the keys fetched are merged into the set that is there.)
StoreKeysMerged(p) ==
  /\ pc[p] = "import"
  /\ LET kept == IF keys = NoKeys THEN answer[p] ELSE keys.kids \cup answer[p] IN
     /\ keys' = [kids |-> kept, fetchedAt |-> clock]
     /\ IF kid[p] \in kept THEN End(p, "accepted") ELSE End(p, "over")
  /\ UNCHANGED <<clock, providerVars, discovery, discoveredAt, kid, history>>

\* (A mutant: a set without a single usable key is stored like any other.)
StoreKeysEvenNone(p) ==
  /\ pc[p] = "import"
  /\ keys' = [kids |-> answer[p], fetchedAt |-> clock]
  /\ IF kid[p] \in answer[p] THEN End(p, "accepted") ELSE End(p, "over")
  /\ UNCHANGED <<clock, providerVars, discovery, discoveredAt, kid, history>>

\* The last importKey is done: the set is stamped and stored in one turn.
StoreKeys(p) ==
  /\ pc[p] = "import"
  /\ \/ answer[p] = {} /\ End(p, "over") /\ UNCHANGED keys
     \/ /\ answer[p] # {}
        /\ keys' = [kids |-> answer[p], fetchedAt |-> clock]
        /\ IF kid[p] \in answer[p] THEN End(p, "accepted") ELSE End(p, "over")
  /\ UNCHANGED <<clock, providerVars, discovery, discoveredAt, kid, history>>

ReceiveApi(p) ==
  /\ pc[p] = "apiBody"
  /\ End(p, "over")
  /\ UNCHANGED <<clock, providerVars, cacheVars, kid, history>>

\* (A mutant: only GET requests are given the abort signal.)
AbortGetsOnly(p) ==
  /\ pc[p] \in AwaitHeaders \ {"apiSent"}
  /\ End(p, "over")
  /\ UNCHANGED <<clock, providerVars, cacheVars, kid, history>>

\* The timer aborts the request, or it fails before its headers are there.
Abort(p) ==
  /\ pc[p] \in AwaitHeaders
  /\ End(p, "over")
  /\ UNCHANGED <<clock, providerVars, cacheVars, kid, history>>

\* The connection breaks under the body, the status is an error, or the text
\* is no JSON.
FailBody(p) ==
  /\ pc[p] \in {"docBody", "jwksBody"}
  /\ End(p, "over")
  /\ UNCHANGED <<clock, providerVars, cacheVars, kid, history>>

Return(p) ==
  /\ pc[p] \in Ended
  /\ End(p, "idle")
  /\ kid' = [kid EXCEPT ![p] = NoKid]
  /\ since' = [since EXCEPT ![p] = 0]
  /\ UNCHANGED <<clock, providerVars, cacheVars, refetchedAt>>

Tick ==
  /\ clock < MaxClock
  /\ \A p \in Calls : pc[p] \in AwaitHeaders => clock < sentAt[p] + Timeout
  /\ clock' = clock + 1
  /\ UNCHANGED <<providerVars, cacheVars, callVars, history>>

Provider == ProviderNext /\ UNCHANGED <<cacheVars, callVars, history>>

\* What the event loop does without anybody's help.
Turn(p) == UseDoc(p) \/ StoreKeys(p) \/ Abort(p) \/ Return(p)

Next ==
  \/ Tick \/ Provider
  \/ \E p \in Calls :
       \/ StartCall(p) \/ \E k \in Kids : StartVerify(p, k)
       \/ Serve(p) \/ ReceiveDoc(p) \/ ReceiveJwks(p) \/ ReceiveApi(p) \/ FailBody(p)
       \/ Turn(p)

\* The event loop runs what is ready, and a timer that was set goes off.
\* Nobody makes the provider answer, or end a body it has begun.
Spec == Init /\ [][Next]_vars /\ \A p \in Calls : WF_vars(Turn(p))

-----------------------------------------------------------------------------
(* Properties.                                                              *)

\* A token is accepted under a key this provider published: a key the cache
\* did not hold when verifyIdToken began was published during that very call,
\* whatever other calls put into the cache meanwhile.  How old a key from the
\* cache may be is not bounded, because a known kid never leaves it by age.
AcceptedKeysWereOurs ==
  \A p \in Calls : pc[p] = "accepted" => PublishedSince(kid[p], since[p])

\* Every request but the one for the document goes to an endpoint of a
\* document that passed the checks, whichever call fetched and cached it.
RequestsToCheckedDocs ==
  \A p \in Calls :
    pc[p] \in {"haveDoc", "jwksSent", "jwksBody", "apiSent", "apiBody"} => doc[p] \in TrustedDocs

\* A call that never returns has the headers of an answer and waits for its
\* body: no timer guards that, and nothing else keeps a call for ever.
OnlyBodiesHang ==
  \A p \in Calls : <>[](pc[p] \in AwaitBody) \/ []<>(pc[p] \in {"idle"} \cup Ended)

(* What the comment of JWKS_REFETCH_INTERVAL_MS says.                       *)

\* It is "the shortest interval between JWKS refetches caused by unknown kids".
RefetchesSpaced ==
  [][refetchedAt' # refetchedAt => clock - refetchedAt >= RefetchInterval]_vars
=============================================================================
