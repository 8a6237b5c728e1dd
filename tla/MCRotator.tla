------------------------------ MODULE MCRotator ------------------------------
(* Small instances of Rotator for TLC: the .cfg files give the values.      *)
EXTENDS Rotator
=============================================================================
