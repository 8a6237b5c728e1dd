----------------------------- MODULE ServiceLog -----------------------------
(***************************************************************************)
(* What a log with a retention window and no cap promises, without files:  *)
(* lines are added at the end and each is kept; a line is forgotten only   *)
(* when it is older than the window, and no line comes back.               *)
(***************************************************************************)
EXTENDS Integers, FiniteSets

CONSTANT Window \* how long a line is kept at least; 0 is for ever

VARIABLES
  clock,
  stamp, \* stamp[n] is the time line n bears
  kept   \* the lines still to be found

vars == <<clock, stamp, kept>>

lines == DOMAIN stamp

Init ==
  /\ clock \in Nat
  /\ lines = {}
  /\ kept = {}

\* The next line is written; it bears a time that has come.
Append ==
  /\ \E t \in 0..clock :
       LET n == Cardinality(lines) + 1 IN
       /\ \A m \in lines : stamp[m] <= t
       /\ stamp' = [m \in lines \cup {n} |-> IF m = n THEN t ELSE stamp[m]]
       /\ kept' = kept \cup {n}
  /\ UNCHANGED clock

Forget ==
  /\ Window > 0
  /\ \E old \in SUBSET kept :
       /\ \A n \in old : stamp[n] < clock - Window
       /\ kept' = kept \ old
  /\ UNCHANGED <<clock, stamp>>

Tick == clock' > clock /\ clock' \in Nat /\ UNCHANGED <<stamp, kept>>

Next == Append \/ Forget \/ Tick

Spec == Init /\ [][Next]_vars
=============================================================================
