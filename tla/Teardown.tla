------------------------------ MODULE Teardown ------------------------------
(***************************************************************************)
(* How a service comes down: main waits for the context of NotifySignals   *)
(* and opens the shutdown record with the name of the signal, or opens it  *)
(* with the error that forces it to stop; the steps and Done follow, while *)
(* signals, the parent and the stop function go on racing.                 *)
(***************************************************************************)
EXTENDS SignalContext, Shutdown

CONSTANT Main \* the reader that begins the shutdown

ASSUME TeardownAssumption == Main \in Readers

allVars == <<vars, shutdownVars>>

TeardownTypeOK ==
  /\ TypeOK
  /\ ShutdownTypeOK
  /\ reason \in Signals \cup {NoSignal, "failure"}

TeardownInit == Init /\ ShutdownInit(NoSignal)

\* "<-sigctx.Done(); BeginShutdown(logger, sigctx.SignalName())".
BeginOrderly ==
  /\ told[Main] # "waiting"
  /\ Begin(told[Main], FALSE)
  /\ UNCHANGED vars

\* A listener or a dependency fails first: BeginFailure(logger, reason, err).
BeginForced == Begin("failure", TRUE) /\ UNCHANGED vars

\* "defer stop()": the stop function is called when main returns.
Stop == done = "returned" /\ StopWatching /\ UNCHANGED shutdownVars

Context ==
  \/ Waiter
  \/ \E s \in Signals : Send(s)
  \/ ParentDone \/ StopCancel
  \/ \E r \in Readers : AskSignal(r)
  \/ Down

TeardownNext ==
  \/ Context /\ UNCHANGED shutdownVars
  \/ BeginOrderly \/ BeginForced \/ Stop
  \/ (\E t \in Steps : Call(t) \/ Goroutine(t)) /\ UNCHANGED vars
  \/ (Copy \/ Summarise) /\ UNCHANGED vars

\* As in SignalContext, and the goroutine of a Step that was called is scheduled;
\* whether a shutdown begins, whether a step comes to an end and whether main
\* calls Done are left open.
TeardownSpec ==
  /\ TeardownInit /\ [][TeardownNext]_allVars
  /\ WF_allVars(Waiter /\ UNCHANGED shutdownVars)
  /\ WF_allVars(StopCancel /\ UNCHANGED shutdownVars)
  /\ \A t \in Steps : WF_allVars(Goroutine(t) /\ UNCHANGED vars)

\* An orderly shutdown that a signal brought on names in its record the signal
\* that came first, not a later one and not none, although main reads it only
\* after the context has let it go.
ReasonIsTheSignal ==
  begun /\ ~caused /\ doneBy = "signal" => reason = firstSent

Tally == INSTANCE StepTally WITH
  ended <- Counted,
  bad <- FailedOf(Counted),
  summary <- IF done = "uncalled" THEN {} ELSE {copied}

\* Behind its counters, its mutex and its copies the record counts as if each
\* step ended in one instant and the summary were taken in another: no step is
\* counted twice or taken back, and the two numbers belong to one moment.
ImplementsStepTally == Tally!Spec
=============================================================================
