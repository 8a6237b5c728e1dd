----------------------------- MODULE MCLogLevels -----------------------------
(* Small instances of LogLevels for TLC: the .cfg files give the values.    *)
EXTENDS LogLevels
=============================================================================
