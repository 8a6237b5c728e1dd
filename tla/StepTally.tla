------------------------------ MODULE StepTally ------------------------------
(***************************************************************************)
(* What the record of a shutdown promises to count, without counters or a  *)
(* mutex: a teardown step ends once, well or badly, and the one summary    *)
(* gives the numbers of those that have ended by then, and no others.      *)
(***************************************************************************)
EXTENDS Naturals, FiniteSets

CONSTANT Steps

VARIABLES
  ended,   \* the steps that have ended
  bad,     \* those of them that failed
  summary  \* {} until it is made, then the set of the one summary

vars == <<ended, bad, summary>>

Init == ended = {} /\ bad = {} /\ summary = {}

\* A step ends, in one instant, however many others are about to.
End(t) ==
  /\ t \notin ended
  /\ ended' = ended \cup {t}
  /\ bad' \in {bad, bad \cup {t}}
  /\ UNCHANGED summary

\* The summary is made of what has ended.
SumUp ==
  /\ summary = {}
  /\ summary' = {[steps |-> Cardinality(ended), failed |-> Cardinality(bad)]}
  /\ UNCHANGED <<ended, bad>>

Next == SumUp \/ \E t \in Steps : End(t)

Spec == Init /\ [][Next]_vars
=============================================================================
