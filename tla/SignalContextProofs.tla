------------------------- MODULE SignalContextProofs -------------------------
(***************************************************************************)
(* For every set of signals and readers and every number of signals sent:  *)
(* the first signal is the one remembered, and readers agree on it.        *)
(***************************************************************************)
EXTENDS SignalContext, TLAPS

\* Where the first signal is, for each place the goroutine can be at: in the
\* channel, taken out of it, remembered, or given up for another cause.
FirstSignalKept ==
  /\ waiter = "select" => ch = firstSent /\ sig = NoSignal
  /\ waiter = "took" => taken = firstSent /\ taken # NoSignal /\ sig = NoSignal
  /\ waiter = "cancel" => sig = firstSent /\ sig # NoSignal
  /\ sig # NoSignal => sig = firstSent

\* Only the goroutine cancels by a signal, and it is gone when it has.
CancelledLast == doneBy = "signal" => waiter = "gone" /\ sig # NoSignal

\* Nobody is told before the context is done, nor anything but the signal
\* once it was the cause.
ToldTheSame ==
  \A r \in Readers :
    /\ doneBy = "nothing" => told[r] = "waiting"
    /\ doneBy = "signal" => told[r] \in {"waiting", sig}

IInv == TypeOK /\ FirstSignalKept /\ CancelledLast /\ ToldTheSame

LEMMA InitInvariant == ASSUME Init PROVE IInv
  BY SignalAssumption DEF Init, IInv, TypeOK, FirstSignalKept, CancelledLast, ToldTheSame

\* Every step of the goroutine, the runtime, the parent, the stop function and
\* the readers keeps the invariant.
LEMMA StepInvariant == ASSUME IInv, [Next]_vars PROVE IInv'
<1> USE SignalAssumption
<1> USE DEF IInv, FirstSignalKept, CancelledLast, ToldTheSame
<1>1. CASE TakeSignal
  BY <1>1 DEF TakeSignal, TypeOK
<1>2. CASE SeeDone
  BY <1>2 DEF SeeDone, TypeOK
<1>3. CASE Remember
  BY <1>3 DEF Remember, TypeOK
<1>4. CASE CancelBySignal
  BY <1>4 DEF CancelBySignal, cancel, TypeOK
<1>5. ASSUME NEW s \in Signals, Send(s) PROVE IInv'
  BY <1>5 DEF Send, TypeOK
<1>6. CASE ParentDone
  BY <1>6 DEF ParentDone, cancel, TypeOK
<1>7. CASE StopWatching
  BY <1>7 DEF StopWatching, TypeOK
<1>8. CASE StopCancel
  BY <1>8 DEF StopCancel, cancel, TypeOK
<1>9. ASSUME NEW r \in Readers, AskSignal(r) PROVE IInv'
  BY <1>9 DEF AskSignal, TypeOK
<1>10. CASE UNCHANGED vars
  BY <1>10 DEF vars, TypeOK
<1> QED
  BY <1>1, <1>2, <1>3, <1>4, <1>5, <1>6, <1>7, <1>8, <1>9, <1>10 DEF Next, Waiter, Down

LEMMA Invariant == Spec => []IInv
  BY InitInvariant, StepInvariant, PTL DEF Spec

\* The signal that cancelled the context is remembered, it is the first one
\* that was sent, and no later one takes its place.
THEOREM CauseRemembered == Spec => []CauseIsRemembered
<1>1. IInv => CauseIsRemembered
  BY DEF IInv, FirstSignalKept, CancelledLast, CauseIsRemembered
<1> QED
  BY <1>1, Invariant, PTL

\* However many goroutines the signal wakes, Signal() tells all of them the same.
THEOREM ReadersAgreeAlways == Spec => []ReadersAgree
<1>1. IInv => ReadersAgree
  BY DEF IInv, ToldTheSame, ReadersAgree
<1> QED
  BY <1>1, Invariant, PTL
=============================================================================
