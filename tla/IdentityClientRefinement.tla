---------------------- MODULE IdentityClientRefinement ----------------------
(***************************************************************************)
(* The caching, concurrent client implements KeyTrust: the abstract        *)
(* verdict falls when signingKey reads the clock and finds a fresh cached  *)
(* key, or when fetchJWKS stamps the answer it has just received, and not  *)
(* when the call later stores that answer or returns.                      *)
(***************************************************************************)
EXTENDS IdentityClient

\* Only verifications are visible; a call of another kind asks for no key.
askedOf == [g \in Callers |-> kid[g]]

verdictOf ==
  [g \in Callers |->
     IF kid[g] = NoKid THEN "none"
     ELSE IF pc[g] = "accepted" \/ (pc[g] = "store" /\ kid[g] \in answer[g]) THEN "accepted"
     ELSE IF pc[g] \in {"over", "store"} THEN "refused"
     ELSE "none"]

Trust == INSTANCE KeyTrust WITH asked <- askedOf, verdict <- verdictOf

\* Every behaviour of the client is a behaviour of KeyTrust: each verdict is
\* reached once, at a moment when the key it accepts was published less than
\* Window before, and never changes after that, whatever else is in flight.
ImplementsKeyTrust == Trust!TrustSpec
=============================================================================
