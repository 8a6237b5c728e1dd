-------------------------- MODULE MCIdentityClient --------------------------
(* Small instances of IdentityClient for TLC.                               *)
EXTENDS IdentityClientRefinement, TLC

CONSTANTS g1, g2, k1, x, own, bare, foreign

\* Goroutines are interchangeable.  (Not used where liveness is checked.)
CallerSymmetry == Permutations(Callers)
=============================================================================
