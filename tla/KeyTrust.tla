------------------------------ MODULE KeyTrust ------------------------------
(***************************************************************************)
(* What VerifyIDToken promises about signing keys, with no caches, no      *)
(* requests and no locks: a verification is asked for, and some time later *)
(* it is judged.  A key may be accepted only if the provider published it  *)
(* less than Window before the moment of judgement; any token may be       *)
(* refused at any time.                                                    *)
(***************************************************************************)
EXTENDS OIDCProvider

CONSTANTS
  Callers, \* whoever verifies tokens
  Window   \* how long after its withdrawal a key may still be accepted

VARIABLES
  asked,   \* asked[g]: the kid g wants verified, "none" when it wants nothing
  verdict  \* verdict[g]: "none" until judged, then "accepted" or "refused"

trustVars == <<clock, providerVars, asked, verdict>>

TrustInit ==
  /\ ProviderInit
  /\ asked = [g \in Callers |-> "none"]
  /\ verdict = [g \in Callers |-> "none"]

Ask(g, k) ==
  /\ asked[g] = "none"
  /\ asked' = [asked EXCEPT ![g] = k]
  /\ UNCHANGED <<clock, providerVars, verdict>>

Judge(g, v) ==
  /\ asked[g] # "none" /\ verdict[g] = "none"
  /\ v = "accepted" => PublishedSince(asked[g], clock - Window + 1)
  /\ verdict' = [verdict EXCEPT ![g] = v]
  /\ UNCHANGED <<clock, providerVars, asked>>

Forget(g) ==
  /\ verdict[g] # "none"
  /\ asked' = [asked EXCEPT ![g] = "none"]
  /\ verdict' = [verdict EXCEPT ![g] = "none"]
  /\ UNCHANGED <<clock, providerVars>>

Environment ==
  /\ \/ ProviderNext
     \/ clock' = clock + 1 /\ UNCHANGED providerVars
  /\ UNCHANGED <<asked, verdict>>

TrustNext ==
  \/ Environment
  \/ \E g \in Callers :
       \/ \E k \in Kids : Ask(g, k)
       \/ \E v \in {"accepted", "refused"} : Judge(g, v)
       \/ Forget(g)

TrustSpec == TrustInit /\ [][TrustNext]_trustVars
=============================================================================
