---------------------------- MODULE OIDCProvider ----------------------------
(***************************************************************************)
(* The provider an identity client talks to, and the time both live in.    *)
(* It is not part of the repository: it is modelled from what the clients  *)
(* in go/identity and js/src expect of it.  It serves one discovery        *)
(* document at a time and publishes a set of signing keys; an operator may *)
(* redeploy it, add a key and withdraw one at any moment.  What it did in  *)
(* the past is kept (withdrawnAt, retiredAt) so that a property can say    *)
(* how old an answer a client still acts on.                               *)
(***************************************************************************)
EXTENDS Integers

CONSTANTS
  Kids,        \* key identifiers a token may name; a kid stands for one key
  OtherKids,   \* the kids some other provider publishes
  UsableKids,  \* the kids of RSA signing keys
  Docs,        \* discovery documents, told apart by the endpoints they name
  TrustedDocs, \* documents naming our issuer, every endpoint on its origin
  NoJwksDocs,  \* documents that advertise no jwks_uri
  MaxClock     \* bound: the clock stops here

ASSUME ProviderAssumption ==
  /\ OtherKids \subseteq Kids
  /\ UsableKids \subseteq Kids
  /\ TrustedDocs \subseteq Docs
  /\ NoJwksDocs \subseteq Docs
  /\ MaxClock \in Nat

VARIABLES
  clock,        \* the one clock, read by time.Now() and Date.now()
  published,    \* kids in the JWKS document right now
  withdrawnAt,  \* when a kid was last withdrawn, Never before that
  served,       \* the discovery document served right now
  retiredAt     \* when a document was last replaced, Never before that

providerVars == <<published, withdrawnAt, served, retiredAt>>

Never == -1

ProviderTypeOK ==
  /\ clock \in Nat
  /\ published \subseteq Kids \ OtherKids
  /\ withdrawnAt \in [Kids -> Nat \cup {Never}]
  /\ served \in Docs
  /\ retiredAt \in [Docs -> Nat \cup {Never}]

ProviderInit ==
  /\ clock = 0
  /\ published \in SUBSET (Kids \ OtherKids)
  /\ withdrawnAt = [k \in Kids |-> Never]
  /\ served \in Docs
  /\ retiredAt = [d \in Docs |-> Never]

Publish(k) ==
  /\ k \notin published
  /\ published' = published \cup {k}
  /\ UNCHANGED <<clock, withdrawnAt, served, retiredAt>>

Withdraw(k) ==
  /\ k \in published
  /\ published' = published \ {k}
  /\ withdrawnAt' = [withdrawnAt EXCEPT ![k] = clock]
  /\ UNCHANGED <<clock, served, retiredAt>>

\* The deployment changes shape, or a proxy starts serving somebody else's
\* document at our address.
Redeploy(d) ==
  /\ d # served
  /\ served' = d
  /\ retiredAt' = [retiredAt EXCEPT ![served] = clock]
  /\ UNCHANGED <<clock, published, withdrawnAt>>

ProviderNext ==
  \/ \E k \in Kids \ OtherKids : Publish(k) \/ Withdraw(k)
  \/ \E d \in Docs : Redeploy(d)

\* What the jwks_uri of document d answers: our own keys when the document is
\* ours, the other provider's keys when it is not.
JwksOf(d) == IF d \in TrustedDocs THEN published ELSE OtherKids

-----------------------------------------------------------------------------
\* k was in our JWKS at some moment at or after t.
PublishedSince(k, t) ==
  k \in published \/ (withdrawnAt[k] # Never /\ withdrawnAt[k] >= t)

\* d was the served document at some moment at or after t.
ServedSince(d, t) ==
  d = served \/ (retiredAt[d] # Never /\ retiredAt[d] >= t)
=============================================================================
