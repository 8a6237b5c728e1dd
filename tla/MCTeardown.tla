----------------------------- MODULE MCTeardown -----------------------------
(* Small instances of Teardown for TLC: the .cfg files give the values.     *)
EXTENDS Teardown
=============================================================================
