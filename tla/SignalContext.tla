---------------------------- MODULE SignalContext ----------------------------
(***************************************************************************)
(* NotifySignals of go/kit/lifecycle/signal.go: a context cancelled by the *)
(* first signal, by its parent or by the stop function, the goroutine that *)
(* waits for either, and the service that reads Signal() once the context  *)
(* is done.  The Go runtime delivers signals without blocking into a       *)
(* channel of one place.                                                   *)
(***************************************************************************)
CONSTANTS
  Signals,  \* the signals watched
  Readers,  \* goroutines that wait for the context and then ask Signal()
  NoSignal  \* the nil os.Signal

ASSUME SignalAssumption == NoSignal \notin Signals

VARIABLES
  watching,  \* the channel is registered with signal.Notify
  ch,        \* what is in the channel, NoSignal when it is empty
  sig,       \* sc.sig
  doneBy,    \* what cancelled the context first, "nothing" while it is live
  waiter,    \* the goroutine: "select", "took", "cancel" or "gone"
  taken,     \* the signal the goroutine took from the channel
  stopper,   \* the stop function: "uncalled", "cancel" or "returned"
  told,      \* what Signal() answered each reader, "waiting" before that
  firstSent  \* history: the first signal sent while the channel was watched

vars == <<watching, ch, sig, doneBy, waiter, taken, stopper, told, firstSent>>

TypeOK ==
  /\ watching \in BOOLEAN
  /\ ch \in Signals \cup {NoSignal}
  /\ sig \in Signals \cup {NoSignal}
  /\ doneBy \in {"nothing", "signal", "parent", "stop"}
  /\ waiter \in {"select", "took", "cancel", "gone"}
  /\ taken \in Signals \cup {NoSignal}
  /\ stopper \in {"uncalled", "cancel", "returned"}
  /\ told \in [Readers -> Signals \cup {NoSignal, "waiting"}]
  /\ firstSent \in Signals \cup {NoSignal}

\* NotifySignals has returned.
Init ==
  /\ watching = TRUE
  /\ ch = NoSignal /\ sig = NoSignal /\ taken = NoSignal
  /\ doneBy = "nothing"
  /\ waiter = "select"
  /\ stopper = "uncalled"
  /\ told = [r \in Readers |-> "waiting"]
  /\ firstSent = NoSignal

\* A context is cancelled once; what comes later changes nothing.
cancel(cause) == doneBy' = IF doneBy = "nothing" THEN cause ELSE doneBy

\* The process is sent s, any number of times: the runtime drops it when the
\* channel is full or no longer registered.
Send(s) ==
  /\ ch' = IF watching /\ ch = NoSignal THEN s ELSE ch
  /\ firstSent' = IF watching /\ firstSent = NoSignal THEN s ELSE firstSent
  /\ UNCHANGED <<watching, sig, doneBy, waiter, taken, stopper, told>>

\* The two branches of the select; when both are ready either may be taken.
TakeSignal ==
  /\ waiter = "select" /\ ch # NoSignal
  /\ waiter' = "took"
  /\ taken' = ch
  /\ ch' = NoSignal
  /\ UNCHANGED <<watching, sig, doneBy, stopper, told, firstSent>>

\* (A mutant: the goroutine waits for the signal alone.)
SeeDoneNever == FALSE /\ UNCHANGED vars

SeeDone ==
  /\ waiter = "select" /\ doneBy # "nothing"
  /\ waiter' = "gone"
  /\ UNCHANGED <<watching, ch, sig, doneBy, taken, stopper, told, firstSent>>

\* (A mutant: every signal still in the channel is taken for the answer.)
RememberLatest ==
  /\ waiter = "took"
  /\ waiter' = "cancel"
  /\ sig' = IF ch # NoSignal THEN ch ELSE taken
  /\ UNCHANGED <<watching, ch, doneBy, taken, stopper, told, firstSent>>

\* (Half of a mutant: the context is cancelled before the signal is remembered.)
RememberAfterCancel ==
  /\ waiter = "took"
  /\ waiter' = "cancel"
  /\ cancel("signal")
  /\ UNCHANGED <<watching, ch, sig, taken, stopper, told, firstSent>>

Remember ==
  /\ waiter = "took"
  /\ waiter' = "cancel"
  /\ sig' = taken
  /\ UNCHANGED <<watching, ch, doneBy, taken, stopper, told, firstSent>>

\* (The other half of that swapped order.)
CancelThenRemember ==
  /\ waiter = "cancel"
  /\ waiter' = "gone"
  /\ sig' = taken
  /\ cancel("signal")
  /\ UNCHANGED <<watching, ch, taken, stopper, told, firstSent>>

\* (A mutant: the goroutine remembers the signal and leaves it at that.)
CancelForgotten ==
  /\ waiter = "cancel"
  /\ waiter' = "gone"
  /\ UNCHANGED <<watching, ch, sig, doneBy, taken, stopper, told, firstSent>>

CancelBySignal ==
  /\ waiter = "cancel"
  /\ waiter' = "gone"
  /\ cancel("signal")
  /\ UNCHANGED <<watching, ch, sig, taken, stopper, told, firstSent>>

ParentDone ==
  /\ doneBy = "nothing"
  /\ cancel("parent")
  /\ UNCHANGED <<watching, ch, sig, waiter, taken, stopper, told, firstSent>>

\* The stop function: signal.Stop, then cancel.
StopWatching ==
  /\ stopper = "uncalled"
  /\ stopper' = "cancel"
  /\ watching' = FALSE
  /\ UNCHANGED <<ch, sig, doneBy, waiter, taken, told, firstSent>>

StopCancel ==
  /\ stopper = "cancel"
  /\ stopper' = "returned"
  /\ cancel("stop")
  /\ UNCHANGED <<watching, ch, sig, waiter, taken, told, firstSent>>

\* A reader woken by Done() asks which signal it was.
AskSignal(r) ==
  /\ doneBy # "nothing" /\ told[r] = "waiting"
  /\ told' = [told EXCEPT ![r] = sig]
  /\ UNCHANGED <<watching, ch, sig, doneBy, waiter, taken, stopper, firstSent>>

\* (A mutant: the two steps after the receive, in the other order.)
WaiterSwapped == TakeSignal \/ SeeDone \/ RememberAfterCancel \/ CancelThenRemember

Waiter == TakeSignal \/ SeeDone \/ Remember \/ CancelBySignal

\* The service has come down; whether the goroutine is gone does not hold it up.
Down == doneBy # "nothing" /\ (\A r \in Readers : told[r] # "waiting") /\ UNCHANGED vars

Next ==
  \/ Waiter
  \/ \E s \in Signals : Send(s)
  \/ ParentDone \/ StopWatching \/ StopCancel
  \/ \E r \in Readers : AskSignal(r)
  \/ Down

\* The goroutine and a stop function already called are scheduled; nobody has
\* to send a signal, cancel the parent or call stop.
Spec == Init /\ [][Next]_vars /\ WF_vars(Waiter) /\ WF_vars(StopCancel)

-----------------------------------------------------------------------------
(* Properties.                                                              *)

\* A service that finds its context cancelled by a signal learns which one,
\* and learns the one that came first: Signal() is never nil to a reader the
\* signal woke, and no later signal takes the first one's place.
CauseIsRemembered ==
  /\ doneBy = "signal" => sig = firstSent /\ sig # NoSignal
  /\ sig # NoSignal => sig = firstSent

\* Readers woken by a signal agree on it.
ReadersAgree ==
  doneBy = "signal" =>
    \A r, s \in Readers : told[r] # "waiting" /\ told[s] # "waiting" => told[r] = told[s]

\* A signal that arrived while watched ends the context, however the race
\* with the parent and the stop function goes.
SignalCancels == firstSent # NoSignal ~> doneBy # "nothing"

\* The goroutine does not outlive the context.
NoLeak == doneBy # "nothing" ~> waiter = "gone"

(* What the comment of Signal says, and the code does not do.               *)

\* "Signal is the signal that cancelled the context, or nil if something else
\* did."
SignalIsTheCause ==
  \A r \in Readers : told[r] \in Signals => doneBy = "signal"
=============================================================================
