----------------------------- MODULE MCJSClient -----------------------------
(* Small instances of JSClient for TLC.                                     *)
EXTENDS JSClient

CONSTANTS p1, p2, k1, x, own, bare, foreign

\* Every variable but retiredAt, which nothing in JSClient reads: states that
\* differ in it alone have the same behaviours.
WithoutRetiredAt ==
  <<clock, published, withdrawnAt, served, cacheVars, callVars, history>>
=============================================================================
