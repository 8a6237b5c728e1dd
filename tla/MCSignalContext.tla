--------------------------- MODULE MCSignalContext ---------------------------
(* Small instances of SignalContext for TLC.                                *)
EXTENDS SignalContext

CONSTANTS int, term, r1, r2
=============================================================================
