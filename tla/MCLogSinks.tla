----------------------------- MODULE MCLogSinks -----------------------------
(* Small instances of LogSinks for TLC: the .cfg files give the values.     *)
EXTENDS LogSinks
=============================================================================
