------------------------------ MODULE Shutdown ------------------------------
(***************************************************************************)
(* Shutdown of go/kit/lifecycle/shutdown.go: the record of a teardown.     *)
(* BeginShutdown and BeginFailure announce it, Step counts and tells what  *)
(* became of one teardown step, Done sums up.  Steps may run on goroutines *)
(* of their own and may come late; the counters are under a mutex, the     *)
(* lines are not.  The lines are kept with their levels: what a deployment *)
(* sees of them is what its level lets through.                            *)
(***************************************************************************)
EXTENDS Naturals, Sequences, FiniteSets

CONSTANTS
  Steps,    \* the teardown steps, each on a goroutine of its own
  Nobody    \* holds the mutex when it is free

Debug == 0  Info == 1  Warn == 2  Error == 3

ASSUME ShutdownAssumption == IsFiniteSet(Steps) /\ Nobody \notin Steps

VARIABLES
  begun,     \* BeginShutdown or BeginFailure has returned
  caused,    \* s.caused
  reason,    \* s.reason
  mu,        \* the holder of s.mu
  steps,     \* s.steps
  failed,    \* s.failed
  step,      \* where each Step call is
  err,       \* whether its err is not nil
  loaded,    \* the counters as it read them
  done,      \* Done: "uncalled", "copied" or "returned"
  copied,    \* Done's copy of the counters
  out,       \* the lines given to the logger
  before     \* history: the steps that had returned when Done was called

record == <<begun, caused, reason>>
counters == <<mu, steps, failed, step, err, loaded>>
closing == <<done, copied, before>>
shutdownVars == <<record, counters, closing, out>>

Summaries == {"stopped with errors", "stopped after a failure", "stopped cleanly"}
Lines == {"shutting down", "step failed", "step done"} \cup Summaries

Count == [steps : 0..Cardinality(Steps), failed : 0..Cardinality(Steps)]
NoCount == [steps |-> 0, failed |-> 0]

ShutdownTypeOK ==
  /\ begun \in BOOLEAN /\ caused \in BOOLEAN
  /\ mu \in Steps \cup {Nobody}
  /\ [steps |-> steps, failed |-> failed] \in Count
  /\ step \in [Steps -> {"ahead", "called", "counting", "counted", "returned"}]
  /\ err \in [Steps -> BOOLEAN]
  /\ loaded \in [Steps -> Count]
  /\ done \in {"uncalled", "copied", "returned"}
  /\ copied \in Count
  /\ \A i \in DOMAIN out : out[i].msg \in Lines /\ out[i].level \in Debug..Error
  /\ before \in SUBSET Steps

ShutdownInit(noReason) ==
  /\ begun = FALSE /\ caused = FALSE /\ reason = noReason
  /\ mu = Nobody /\ steps = 0 /\ failed = 0
  /\ step = [t \in Steps |-> "ahead"]
  /\ err = [t \in Steps |-> FALSE]
  /\ loaded = [t \in Steps |-> NoCount]
  /\ done = "uncalled" /\ copied = NoCount
  /\ out = <<>> /\ before = {}

\* One call of the logger; "of" is what the line is about.
Say(level, msg, of) == out' = Append(out, [level |-> level, msg |-> msg, of |-> of])

\* (A mutant: a shutdown that was not forced goes unannounced.)
BeginUnannounced(why, forced) ==
  /\ ~begun
  /\ begun' = TRUE /\ reason' = why /\ caused' = forced
  /\ IF forced THEN Say(Error, "shutting down", why) ELSE UNCHANGED out
  /\ UNCHANGED <<counters, closing>>

\* BeginFailure(why, err) with an err, and BeginShutdown(why), which is also
\* what BeginFailure does when its err is nil.
Begin(why, forced) ==
  /\ ~begun
  /\ begun' = TRUE /\ reason' = why /\ caused' = forced
  /\ Say(IF forced THEN Error ELSE Info, "shutting down", why)
  /\ UNCHANGED <<counters, closing>>

\* Step is called with what became of the step.
Call(t) ==
  /\ begun /\ step[t] = "ahead"
  /\ step' = [step EXCEPT ![t] = "called"]
  /\ \E failure \in BOOLEAN : err' = [err EXCEPT ![t] = failure]
  /\ UNCHANGED <<mu, steps, failed, loaded, record, closing, out>>

\* (A mutant: Step counts without the mutex.)
EnterUnlocked(t) ==
  /\ step[t] = "called"
  /\ loaded' = [loaded EXCEPT ![t] = [steps |-> steps, failed |-> failed]]
  /\ step' = [step EXCEPT ![t] = "counting"]
  /\ UNCHANGED <<mu, steps, failed, err, record, closing, out>>

\* The mutex is taken and the counters are read.
Enter(t) ==
  /\ step[t] = "called" /\ mu = Nobody
  /\ mu' = t
  /\ loaded' = [loaded EXCEPT ![t] = [steps |-> steps, failed |-> failed]]
  /\ step' = [step EXCEPT ![t] = "counting"]
  /\ UNCHANGED <<steps, failed, err, record, closing, out>>

\* (A mutant: a step that failed leaves the mutex locked.)
LeaveLocked(t) ==
  /\ step[t] = "counting"
  /\ steps' = loaded[t].steps + 1
  /\ failed' = loaded[t].failed + IF err[t] THEN 1 ELSE 0
  /\ mu' = IF err[t] THEN mu ELSE Nobody
  /\ step' = [step EXCEPT ![t] = "counted"]
  /\ UNCHANGED <<err, loaded, record, closing, out>>

\* The counters are written and the mutex is given up.
Leave(t) ==
  /\ step[t] = "counting"
  /\ steps' = loaded[t].steps + 1
  /\ failed' = loaded[t].failed + IF err[t] THEN 1 ELSE 0
  /\ mu' = Nobody
  /\ loaded' = [loaded EXCEPT ![t] = NoCount]
  /\ step' = [step EXCEPT ![t] = "counted"]
  /\ UNCHANGED <<err, record, closing, out>>

\* (A mutant: a step is recorded again when it has been told.)
TellAgain(t) ==
  /\ step[t] = "counted"
  /\ step' = [step EXCEPT ![t] = "called"]
  /\ IF err[t] THEN Say(Error, "step failed", t) ELSE Say(Debug, "step done", t)
  /\ UNCHANGED <<mu, steps, failed, err, loaded, record, closing>>

\* The step's own line, written after the mutex is given up.
Tell(t) ==
  /\ step[t] = "counted"
  /\ step' = [step EXCEPT ![t] = "returned"]
  /\ IF err[t] THEN Say(Error, "step failed", t) ELSE Say(Debug, "step done", t)
  /\ UNCHANGED <<mu, steps, failed, err, loaded, record, closing>>

\* Done: the copy under the mutex, and the summary.
Copy ==
  /\ begun /\ done = "uncalled" /\ mu = Nobody
  /\ done' = "copied"
  /\ copied' = [steps |-> steps, failed |-> failed]
  /\ before' = {t \in Steps : step[t] = "returned"}
  /\ UNCHANGED <<record, counters, out>>

\* (A mutant: what forced the shutdown is forgotten when all steps went well.)
SummariseSteps ==
  /\ done = "copied"
  /\ done' = "returned"
  /\ IF copied.failed > 0 THEN Say(Warn, "stopped with errors", reason)
     ELSE Say(Info, "stopped cleanly", reason)
  /\ UNCHANGED <<record, counters, copied, before>>

Summarise ==
  /\ done = "copied"
  /\ done' = "returned"
  /\ IF copied.failed > 0 THEN Say(Warn, "stopped with errors", reason)
     ELSE IF caused THEN Say(Warn, "stopped after a failure", reason)
     ELSE Say(Info, "stopped cleanly", reason)
  /\ UNCHANGED <<record, counters, copied, before>>

\* What is left of a Step once it is called.
Goroutine(t) == Enter(t) \/ Leave(t) \/ Tell(t)

-----------------------------------------------------------------------------
(* Properties.                                                              *)

FailedOf(S) == {t \in S : err[t]}
Counted == {t \in Steps : step[t] \in {"counted", "returned"}}

\* The summary misses no step that had returned when Done was called, however
\* many of them counted at once, and counts none that never came.
SummaryCounts ==
  done # "uncalled" =>
    /\ copied.steps >= Cardinality(before)
    /\ copied.failed >= Cardinality(FailedOf(before))
    /\ copied.steps <= Cardinality(Counted)

\* "A cause at the top, one line per step, and a summary": the announcement
\* comes first and once, and the lines of the steps that had returned when Done
\* was called stand before the summary.
RecordInOrder ==
  begun =>
    /\ \A i \in DOMAIN out : out[i].msg = "shutting down" <=> i = 1
    /\ done = "returned" =>
         \E i \in DOMAIN out :
           /\ out[i].msg \in Summaries
           /\ \A t \in before : \E j \in 1..(i - 1) : out[j].of = t

\* What a deployment running at warn sees: of a shutdown that something forced
\* or that went wrong, a cause or the failed steps and a summary that does not
\* call it clean; of an orderly one not a line.
AudibleAtWarn ==
  LET seen == {i \in DOMAIN out : out[i].level >= Warn}
      Said(msg) == \E i \in seen : out[i].msg = msg
  IN  begun =>
        /\ caused => Said("shutting down")
        /\ done = "returned" /\ (caused \/ FailedOf(before) # {}) =>
             Said("stopped with errors") \/ Said("stopped after a failure")
        /\ ~caused /\ FailedOf(Steps) = {} => seen = {}

\* Every teardown step that failed tells so, even one that is late for the
\* summary, and whatever becomes of the others.
FailuresAreTold ==
  \A t \in Steps : step[t] # "ahead" /\ err[t] ~>
    \E i \in DOMAIN out : out[i].of = t /\ out[i].level = Error
=============================================================================
