--------------------------- MODULE TeardownProofs ---------------------------
(***************************************************************************)
(* For every set of signals, readers and steps: what the record of a       *)
(* shutdown says is right.  Its reason is the signal that ended the        *)
(* service, its summary counts every step that was there to be counted,    *)
(* its lines are in order and what went wrong can be heard at warn.  The   *)
(* first rests on the invariant of SignalContextProofs, which the service  *)
(* inherits because each of its steps is a step of the context or leaves   *)
(* it alone; the second on the mutex of the counters; the others on the    *)
(* second, and on a Step writing its line before it returns.  The types    *)
(* and the refinement of StepTally come last.                              *)
(***************************************************************************)
EXTENDS Teardown, SignalContextProofs, FiniteSetTheorems

-----------------------------------------------------------------------------
(* The context inside the service.                                          *)

\* Whatever the service does, the context takes a step of its own or none.
LEMMA ContextSteps == ASSUME [TeardownNext]_allVars PROVE [Next]_vars
<1>1. CASE Context
  BY <1>1 DEF Context, Next
<1>2. CASE BeginOrderly \/ BeginForced
  BY <1>2 DEF BeginOrderly, BeginForced
<1>3. CASE Stop
  BY <1>3 DEF Stop, Next
<1>4. CASE UNCHANGED vars
  BY <1>4
<1> QED
  BY <1>1, <1>2, <1>3, <1>4 DEF TeardownNext, allVars

LEMMA ContextInvariant == TeardownSpec => []IInv
<1>1. TeardownInit => IInv
  BY InitInvariant DEF TeardownInit
<1>2. IInv /\ [TeardownNext]_allVars => IInv'
  BY ContextSteps, StepInvariant
<1> QED
  BY <1>1, <1>2, PTL DEF TeardownSpec

\* A service that came down for a signal remembers the first one, whatever
\* else its shutdown does meanwhile.
THEOREM ServiceRemembersTheCause == TeardownSpec => []CauseIsRemembered
<1>1. IInv => CauseIsRemembered
  BY DEF IInv, FirstSignalKept, CancelledLast, CauseIsRemembered
<1> QED
  BY <1>1, ContextInvariant, PTL

-----------------------------------------------------------------------------
(* The reason in the record.                                                *)

\* An orderly shutdown is begun with what Signal() told main.
ReasonWasTold ==
  /\ begun \in BOOLEAN
  /\ begun /\ ~caused => reason = told[Main] /\ told[Main] # "waiting"

LEMMA ReasonKept == TeardownSpec => []ReasonWasTold
<1> USE DEF ReasonWasTold
<1>1. TeardownInit => ReasonWasTold
  BY DEF TeardownInit, ShutdownInit
<1>2. ASSUME ReasonWasTold, TypeOK, [TeardownNext]_allVars PROVE ReasonWasTold'
  <2>1. CASE Context /\ UNCHANGED shutdownVars
    <3>1. told[Main] # "waiting" => told'[Main] = told[Main]
      BY <2>1, <1>2, TeardownAssumption
      DEF Context, Waiter, TakeSignal, SeeDone, Remember, CancelBySignal, Send, ParentDone,
          StopCancel, AskSignal, Down, vars, TypeOK
    <3> QED
      BY <3>1, <2>1, <1>2 DEF shutdownVars, record
  <2>2. CASE BeginOrderly
    BY <2>2, <1>2 DEF BeginOrderly, Begin, vars
  <2>3. CASE BeginForced
    BY <2>3, <1>2 DEF BeginForced, Begin
  <2>4. CASE Stop
    BY <2>4, <1>2 DEF Stop, StopWatching, shutdownVars, record
  <2>5. CASE UNCHANGED <<record, told>>
    BY <2>5, <1>2 DEF record
  <2>6. ASSUME NEW t \in Steps, Call(t) \/ Goroutine(t), UNCHANGED vars PROVE ReasonWasTold'
    BY <2>5, <2>6 DEF Call, Goroutine, Enter, Leave, Tell, vars
  <2>7. CASE (Copy \/ Summarise) /\ UNCHANGED vars
    BY <2>5, <2>7 DEF Copy, Summarise, vars
  <2>8. CASE UNCHANGED allVars
    BY <2>5, <2>8 DEF allVars, vars, shutdownVars
  <2> QED
    BY <1>2, <2>1, <2>2, <2>3, <2>4, <2>6, <2>7, <2>8 DEF TeardownNext
<1>3. IInv => TypeOK
  BY DEF IInv
<1> QED
  BY <1>1, <1>2, <1>3, ContextInvariant, PTL DEF TeardownSpec

\* The record of an orderly shutdown names the signal that came first, however
\* late main asks for it and whatever arrives meanwhile.
THEOREM ReasonIsTheFirstSignal == TeardownSpec => []ReasonIsTheSignal
<1>1. ReasonWasTold /\ IInv => ReasonIsTheSignal
  BY TeardownAssumption
  DEF ReasonWasTold, IInv, FirstSignalKept, CancelledLast, ToldTheSame, ReasonIsTheSignal
<1> QED
  BY <1>1, ReasonKept, ContextInvariant, PTL

-----------------------------------------------------------------------------
(* The summary.                                                             *)

\* The mutex is with the one step that is counting, and what that step has read
\* is what the counters still hold; so they count the steps that have left it.
Counting ==
  /\ \A t \in Steps : step[t] = "counting" <=> mu = t
  /\ \A t \in Steps : step[t] = "counting" => loaded[t] = [steps |-> steps, failed |-> failed]
  /\ steps = Cardinality(Counted)
  /\ failed = Cardinality(FailedOf(Counted))

Functions ==
  /\ begun \in BOOLEAN
  /\ step \in [Steps -> {"ahead", "called", "counting", "counted", "returned"}]
  /\ err \in [Steps -> BOOLEAN]
  /\ loaded \in [Steps -> Count]

\* What Done took for its summary, and that no step goes back.
Summed ==
  /\ \A t \in before : t \in Steps /\ step[t] = "returned"
  /\ copied.steps \in Nat /\ copied.failed \in Nat
  /\ SummaryCounts

CountInv == Functions /\ Counting /\ Summed

\* One step more in a set of steps is one more in its count.
LEMMA OneMore ==
  ASSUME NEW S \in SUBSET Steps, NEW t \in Steps \ S
  PROVE  /\ Cardinality(S \cup {t}) = Cardinality(S) + 1
         /\ Cardinality(S) \in Nat
  BY ShutdownAssumption, FS_Subset, FS_AddElement, FS_CardinalityType

LEMMA NotMore ==
  ASSUME NEW S \in SUBSET Steps, NEW T \in SUBSET S
  PROVE  Cardinality(T) \in Nat /\ Cardinality(S) \in Nat /\ Cardinality(T) <= Cardinality(S)
<1>1. IsFiniteSet(S) /\ IsFiniteSet(T)
  BY ShutdownAssumption, FS_Subset
<1> QED
  BY <1>1, FS_Subset, FS_CardinalityType

\* A step that neither counts nor sums up leaves the invariant alone.
LEMMA Elsewhere ==
  ASSUME CountInv, UNCHANGED <<counters, closing>>, begun' \in BOOLEAN
  PROVE  CountInv'
  BY DEF CountInv, Functions, Counting, Summed, SummaryCounts, Counted, FailedOf,
         counters, closing

\* As long as no step is told, counted or given another err, what has been
\* summed up stays right.
LEMMA SummaryStays ==
  ASSUME CountInv, UNCHANGED closing, Counted \subseteq Counted',
         \A t \in before : step'[t] = "returned" /\ err'[t] = err[t]
  PROVE  Summed'
<1>1. Cardinality(Counted) \in Nat /\ Cardinality(Counted') \in Nat
      /\ Cardinality(Counted) <= Cardinality(Counted')
  BY NotMore DEF Counted
<1>2. FailedOf(before)' = FailedOf(before)
  BY DEF FailedOf, closing
<1>3. done # "uncalled" => copied.steps <= Cardinality(Counted')
  BY <1>1 DEF CountInv, Summed, SummaryCounts, Counted
<1> QED
  BY <1>2, <1>3 DEF CountInv, Summed, SummaryCounts, Counted, closing

LEMMA CallCounts == ASSUME CountInv, NEW t \in Steps, Call(t) PROVE CountInv'
<1> USE DEF CountInv, Functions
<1>1. Counted' = Counted /\ \A u \in Counted : err'[u] = err[u]
  BY DEF Call, Counted
<1>2. FailedOf(Counted)' = FailedOf(Counted)
  BY <1>1 DEF FailedOf, Counted
<1>3. Counting' /\ Functions'
  BY <1>1, <1>2 DEF Counting, Call, record
<1>4. Summed'
  <2>1. \A u \in before : step'[u] = "returned" /\ err'[u] = err[u]
    BY DEF Call, Summed
  <2> QED
    BY <1>1, <2>1, SummaryStays DEF Call
<1> QED
  BY <1>3, <1>4

LEMMA EnterCounts == ASSUME CountInv, NEW t \in Steps, Enter(t) PROVE CountInv'
<1> USE DEF CountInv, Functions
<1>1. Counted' = Counted /\ FailedOf(Counted)' = FailedOf(Counted)
  BY DEF Enter, Counted, FailedOf
<1>2. steps \in 0..Cardinality(Steps) /\ failed \in 0..Cardinality(Steps)
  <2>1. /\ Cardinality(Counted) \in Nat /\ Cardinality(Steps) \in Nat
        /\ Cardinality(Counted) <= Cardinality(Steps)
    BY NotMore DEF Counted
  <2>2. /\ Cardinality(FailedOf(Counted)) \in Nat
        /\ Cardinality(FailedOf(Counted)) <= Cardinality(Steps)
    <3>1. FailedOf(Counted) \in SUBSET Steps
      BY DEF FailedOf, Counted
    <3> QED
      BY <3>1, NotMore
  <2> QED
    BY <2>1, <2>2 DEF Counting
<1>3. [steps |-> steps, failed |-> failed] \in Count
  BY <1>2 DEF Count
<1>4. Functions'
  BY <1>3 DEF Enter, record
<1>5. Counting'
  BY <1>1, ShutdownAssumption DEF Counting, Enter
<1>6. Summed'
  BY <1>1, SummaryStays DEF Enter, Summed
<1> QED
  BY <1>4, <1>5, <1>6

\* The one place where the counters move: the step that leaves the mutex is
\* the one that joins those that are counted.
LEMMA LeaveCounts == ASSUME CountInv, NEW t \in Steps, Leave(t) PROVE CountInv'
<1> USE DEF CountInv, Functions
<1>1. Counted \in SUBSET Steps /\ t \in Steps \ Counted /\ Counted' = Counted \cup {t}
  BY DEF Leave, Counted
<1>2. Cardinality(Counted') = Cardinality(Counted) + 1
  BY <1>1, OneMore
<1>3. Cardinality(FailedOf(Counted)')
        = Cardinality(FailedOf(Counted)) + IF err[t] THEN 1 ELSE 0
  <2>1. FailedOf(Counted) \in SUBSET Steps /\ t \in Steps \ FailedOf(Counted)
    BY <1>1 DEF FailedOf
  <2>2. Cardinality(FailedOf(Counted)) \in Nat
    BY <2>1, OneMore
  <2>3. CASE err[t]
    <3>1. FailedOf(Counted)' = FailedOf(Counted) \cup {t}
      BY <1>1, <2>3 DEF FailedOf, Leave
    <3> QED
      BY <2>1, <2>3, <3>1, OneMore
  <2>4. CASE ~err[t]
    <3>1. FailedOf(Counted)' = FailedOf(Counted)
      BY <1>1, <2>4 DEF FailedOf, Leave
    <3> QED
      BY <2>2, <2>4, <3>1
  <2> QED
    BY <2>3, <2>4
<1>4. steps' = steps + 1 /\ failed' = failed + IF err[t] THEN 1 ELSE 0
  BY DEF Leave, Counting
<1>5. Counting'
  BY <1>2, <1>3, <1>4, ShutdownAssumption DEF Counting, Leave
<1>6. Functions'
  <2>1. NoCount \in Count
    <3>1. Cardinality(Steps) \in Nat
      BY ShutdownAssumption, FS_CardinalityType
    <3> QED
      BY <3>1 DEF NoCount, Count
  <2> QED
    BY <2>1 DEF Leave, record
<1>7. Summed'
  BY <1>1, SummaryStays DEF Leave, Summed
<1> QED
  BY <1>5, <1>6, <1>7

LEMMA TellCounts == ASSUME CountInv, NEW t \in Steps, Tell(t) PROVE CountInv'
<1> USE DEF CountInv, Functions
<1>1. Counted' = Counted /\ FailedOf(Counted)' = FailedOf(Counted)
  BY DEF Tell, Counted, FailedOf
<1>2. Functions'
  BY DEF Tell, record
<1>3. Counting'
  BY <1>1 DEF Counting, Tell
<1>4. Summed'
  BY <1>1, SummaryStays DEF Tell, Summed
<1> QED
  BY <1>2, <1>3, <1>4

\* Done copies the counters while nobody holds the mutex: every step that has
\* returned is in them.
LEMMA CopyCounts == ASSUME CountInv, Copy PROVE CountInv'
<1> USE DEF CountInv, Functions
<1>1. Functions' /\ Counting' /\ Counted' = Counted
  BY DEF Copy, counters, record, Counting, Counted, FailedOf
<1>2. before' \in SUBSET Counted
  BY DEF Copy, Counted
<1>3. /\ Cardinality(before') <= Cardinality(Counted) /\ Cardinality(Counted) \in Nat
      /\ Cardinality(before') \in Nat
  BY <1>2, NotMore DEF Counted
<1>4. /\ Cardinality(FailedOf(before)') <= Cardinality(FailedOf(Counted))
      /\ Cardinality(FailedOf(Counted)) \in Nat
  <2>1. FailedOf(before)' \in SUBSET FailedOf(Counted) /\ FailedOf(Counted) \in SUBSET Steps
    BY <1>2 DEF FailedOf, Copy, counters, Counted
  <2> QED
    BY <2>1, NotMore
<1>5. copied'.steps = steps /\ copied'.failed = failed
  BY DEF Copy
<1>6. Summed'
  BY <1>1, <1>3, <1>4, <1>5 DEF Summed, SummaryCounts, Counting, Counted, Copy, counters
<1> QED
  BY <1>1, <1>6

LEMMA SummariseCounts == ASSUME CountInv, Summarise PROVE CountInv'
<1> USE DEF CountInv, Functions
<1>1. done # "uncalled" /\ Counted' = Counted
  BY DEF Summarise, counters, Counted
<1>2. Functions' /\ Counting' /\ Summed'
  BY <1>1 DEF Summarise, counters, record, Counting, Counted, FailedOf, Summed, SummaryCounts
<1> QED
  BY <1>2

\* What the shutdown does inside the service, and all the service does besides.
LEMMA CountStep == ASSUME CountInv, [TeardownNext]_allVars PROVE CountInv'
<1>1. CASE UNCHANGED shutdownVars
  BY <1>1, Elsewhere DEF shutdownVars, record, CountInv, Functions
<1>2. CASE BeginOrderly \/ BeginForced
  BY <1>2, Elsewhere DEF BeginOrderly, BeginForced, Begin
<1>3. ASSUME NEW t \in Steps, Call(t) \/ Goroutine(t) PROVE CountInv'
  BY <1>3, CallCounts, EnterCounts, LeaveCounts, TellCounts DEF Goroutine
<1>4. CASE Copy \/ Summarise
  BY <1>4, CopyCounts, SummariseCounts
<1> QED
  BY <1>1, <1>2, <1>3, <1>4 DEF TeardownNext, Stop, allVars

LEMMA CountInit == ASSUME TeardownInit PROVE CountInv
<1>1. Counted = {} /\ FailedOf(Counted) = {}
  BY DEF TeardownInit, ShutdownInit, Counted, FailedOf
<1>2. Cardinality({}) = 0
  BY FS_EmptySet
<1>3. NoCount \in Count
  <2>1. Cardinality(Steps) \in Nat
    BY ShutdownAssumption, FS_CardinalityType
  <2> QED
    BY <2>1 DEF NoCount, Count
<1> QED
  BY <1>1, <1>2, <1>3, ShutdownAssumption
  DEF TeardownInit, ShutdownInit, CountInv, Functions, Counting, Summed, SummaryCounts, NoCount

\* However many steps run at once, each is counted once and with its outcome:
\* the summary misses none that had returned, and counts none that never came.
THEOREM SummaryIsRight == TeardownSpec => []SummaryCounts
<1>1. CountInv => SummaryCounts
  BY DEF CountInv, Summed
<1> QED
  BY <1>1, CountInit, CountStep, PTL DEF TeardownSpec

-----------------------------------------------------------------------------
(* The lines.                                                               *)

Reasons == Signals \cup {NoSignal, "failure"}
Line == [level : Debug..Error, msg : Lines, of : Steps \cup Reasons]

\* The announcement is the first line, and the only one of its kind.
Announced ==
  /\ out \in Seq(Line)
  /\ caused \in BOOLEAN
  /\ ~begun => Len(out) = 0 /\ done = "uncalled" /\ \A t \in Steps : step[t] = "ahead"
  /\ begun =>
       /\ reason \in Reasons
       /\ Len(out) > 0 /\ \A i \in DOMAIN out : out[i].msg = "shutting down" <=> i = 1
       /\ caused => out[1].level = Error

ToldBefore(t, i) == \E j \in 1..(i - 1) : out[j].of = t

\* A step that has returned has a line, and one that is ahead has not failed.
StepsTold ==
  \A t \in Steps :
    /\ step[t] = "returned" => \E j \in DOMAIN out : out[j].of = t
    /\ step[t] = "ahead" => ~err[t]

Closed ==
  done = "returned" =>
    \E i \in DOMAIN out :
      /\ out[i].msg \in Summaries
      /\ \A t \in before : ToldBefore(t, i)
      /\ caused \/ copied.failed > 0 =>
           out[i].msg \in {"stopped with errors", "stopped after a failure"} /\ out[i].level = Warn

\* What is said at warn or above has a reason.
Quiet ==
  /\ copied.failed > 0 => FailedOf(Steps) # {}
  /\ ~caused /\ FailedOf(Steps) = {} => \A i \in DOMAIN out : out[i].level < Warn

LineInv == Announced /\ StepsTold /\ Closed /\ Quiet

\* One line more.
LEMMA Said ==
  ASSUME out \in Seq(Line), NEW line \in Line, out' = Append(out, line), NEW n, n = Len(out) + 1
  PROVE  /\ out' \in Seq(Line) /\ Len(out') > 0
         /\ DOMAIN out' = DOMAIN out \cup {n} /\ n \notin DOMAIN out /\ 1..(n - 1) = DOMAIN out
         /\ \A i \in DOMAIN out : out'[i] = out[i] /\ 1..(i - 1) \subseteq DOMAIN out
         /\ out'[n] = line
         /\ IF Len(out) > 0 THEN 1 \in DOMAIN out /\ n # 1 ELSE DOMAIN out = {} /\ n = 1
<1>1. Len(out) \in Nat /\ DOMAIN out = 1..Len(out)
  OBVIOUS
<1>2. out' \in Seq(Line) /\ DOMAIN out' = 1..n /\ Len(out') = n
  OBVIOUS
<1>3. (\A i \in 1..Len(out) : out'[i] = out[i]) /\ out'[n] = line
  OBVIOUS
<1>4. 1..n = 1..Len(out) \cup {n} /\ n \notin 1..Len(out) /\ n - 1 = Len(out)
  BY <1>1
<1>5. \A i \in 1..Len(out) : 1..(i - 1) \subseteq 1..Len(out)
  BY <1>1
<1> QED
  BY <1>1, <1>2, <1>3, <1>4, <1>5

LEMMA LineInit == ASSUME TeardownInit PROVE LineInv
<1>1. out \in Seq(Line) /\ Len(out) = 0 /\ DOMAIN out = {}
  BY DEF TeardownInit, ShutdownInit
<1>2. Announced /\ StepsTold /\ Closed
  BY <1>1 DEF TeardownInit, ShutdownInit, Announced, StepsTold, Closed
<1>3. Quiet
  BY <1>1 DEF TeardownInit, ShutdownInit, Quiet, NoCount
<1> QED
  BY <1>2, <1>3 DEF LineInv

\* A step that says nothing, or lets a Step of its own begin.
LEMMA SilentLines ==
  ASSUME CountInv, LineInv, UNCHANGED <<out, begun, caused, reason>>,
         \A t \in Steps : step'[t] = "returned" <=> step[t] = "returned",
         \A t \in Steps : step'[t] = "ahead" => step[t] = "ahead" /\ err'[t] = err[t],
         FailedOf(Steps) \subseteq FailedOf(Steps)',
         ~begun => UNCHANGED <<done, step>>,
         done' = "returned" => done = "returned" /\ UNCHANGED <<copied, before>>,
         copied'.failed > 0 => copied.failed > 0 \/ FailedOf(Steps) # {}
  PROVE  LineInv'
<1>1. Announced'
  BY DEF LineInv, Announced
<1>2. StepsTold'
  BY DEF LineInv, StepsTold
<1>3. Closed'
  BY DEF LineInv, Closed, ToldBefore
<1>4. Quiet'
  BY DEF LineInv, Quiet
<1> QED
  BY <1>1, <1>2, <1>3, <1>4 DEF LineInv

LEMMA BeginLines ==
  ASSUME CountInv, LineInv, NEW why \in Reasons, NEW forced \in BOOLEAN, Begin(why, forced)
  PROVE  LineInv'
<1> DEFINE line == [level |-> IF forced THEN Error ELSE Info, msg |-> "shutting down", of |-> why]
<1>1. /\ ~begun /\ begun' = TRUE /\ reason' = why /\ caused' = forced
      /\ out' = Append(out, line) /\ UNCHANGED <<step, err, done, copied, before>>
  BY DEF Begin, Say, counters, closing
<1>2. line \in Line
  BY DEF Line, Lines, Error, Info, Debug
<1>3. Len(out) = 0 /\ done = "uncalled" /\ \A t \in Steps : step[t] = "ahead"
  BY <1>1 DEF LineInv, Announced
<1>4. out' \in Seq(Line) /\ Len(out') > 0 /\ DOMAIN out' = {1} /\ out'[1] = line
  <2> HIDE DEF line
  <2>1. 0 + 1 = 1 /\ ~(0 > 0)
    OBVIOUS
  <2> QED
    BY <1>1, <1>2, <1>3, <2>1, Said DEF LineInv, Announced
<1>5. Announced'
  <2>1. line.msg = "shutting down" /\ (forced => line.level = Error)
    OBVIOUS
  <2> HIDE DEF line
  <2> QED
    BY <1>1, <1>4, <2>1 DEF Announced
<1>6. StepsTold' /\ Closed'
  BY <1>1, <1>3 DEF LineInv, StepsTold, Closed
<1>7. Quiet'
  <2>1. FailedOf(Steps)' = FailedOf(Steps)
    BY <1>1 DEF FailedOf
  <2>2. ~forced => line.level < Warn
    BY DEF Info, Warn
  <2> HIDE DEF line
  <2> QED
    BY <1>1, <1>4, <2>1, <2>2 DEF LineInv, Quiet
<1> QED
  BY <1>5, <1>6, <1>7 DEF LineInv

LEMMA TellLines ==
  ASSUME CountInv, LineInv, NEW t \in Steps, Tell(t)
  PROVE  LineInv'
<1> DEFINE line == IF err[t] THEN [level |-> Error, msg |-> "step failed", of |-> t]
                   ELSE [level |-> Debug, msg |-> "step done", of |-> t]
<1>1. /\ step[t] = "counted" /\ step' = [step EXCEPT ![t] = "returned"]
      /\ out' = Append(out, line) /\ UNCHANGED <<err, begun, caused, reason, done, copied, before>>
  BY DEF Tell, Say, record, closing
<1>2. line \in Line /\ line.of = t /\ line.msg # "shutting down"
      /\ (~err[t] => line.level < Warn)
  BY DEF Line, Lines, Error, Debug, Warn
<1> HIDE DEF line
<1>3. begun /\ step \in [Steps -> {"ahead", "called", "counting", "counted", "returned"}]
  BY <1>1 DEF LineInv, Announced, CountInv, Functions
<1> DEFINE n == Len(out) + 1
<1> HIDE DEF n
<1>4. /\ out' \in Seq(Line) /\ Len(out') > 0
      /\ DOMAIN out' = DOMAIN out \cup {n} /\ n \notin DOMAIN out /\ 1..(n - 1) = DOMAIN out
      /\ \A i \in DOMAIN out : out'[i] = out[i] /\ 1..(i - 1) \subseteq DOMAIN out
      /\ out'[n] = line
      /\ 1 \in DOMAIN out /\ n # 1
  BY <1>1, <1>2, <1>3, Said DEF LineInv, Announced, n
<1>5. Announced'
  <2>1. /\ Len(out) > 0 /\ reason \in Reasons /\ caused \in BOOLEAN
        /\ \A i \in DOMAIN out : out[i].msg = "shutting down" <=> i = 1
        /\ caused => out[1].level = Error
    BY <1>3, <1>4 DEF LineInv, Announced
  <2>2. \A i \in DOMAIN out' : out'[i].msg = "shutting down" <=> i = 1
    BY <1>2, <1>4, <2>1
  <2>3. out'[1] = out[1]
    BY <1>4, <2>1
  <2> QED
    BY <1>1, <1>3, <1>4, <2>1, <2>2, <2>3 DEF Announced
<1>6. StepsTold'
  <2>1. \A u \in Steps : step[u] = "returned" => \E j \in DOMAIN out : out'[j].of = u
    BY <1>4 DEF LineInv, StepsTold
  <2>2. ASSUME NEW u \in Steps, step'[u] = "returned"
        PROVE  \E j \in DOMAIN out' : out'[j].of = u
    <3>1. CASE u = t
      BY <1>2, <1>4, <3>1
    <3>2. CASE u # t
      BY <1>1, <1>3, <1>4, <2>1, <2>2, <3>2
    <3> QED
      BY <3>1, <3>2
  <2>3. \A u \in Steps : step'[u] = "ahead" => ~err'[u]
    BY <1>1, <1>3 DEF LineInv, StepsTold
  <2> QED
    BY <2>2, <2>3 DEF StepsTold
<1>7. Closed'
  <2> SUFFICES ASSUME done = "returned" PROVE Closed'
    BY <1>1 DEF Closed
  <2>1. PICK i \in DOMAIN out :
          /\ out[i].msg \in Summaries
          /\ \A u \in before : ToldBefore(u, i)
          /\ caused \/ copied.failed > 0 =>
               out[i].msg \in {"stopped with errors", "stopped after a failure"} /\ out[i].level = Warn
    BY <1>4 DEF LineInv, Closed
  <2>2. out'[i] = out[i] /\ i \in DOMAIN out' /\ \A j \in 1..(i - 1) : out'[j] = out[j]
    BY <1>4
  <2>3. \A u \in before : \E j \in 1..(i - 1) : out'[j].of = u
    BY <2>1, <2>2 DEF ToldBefore
  <2> QED
    BY <1>1, <2>1, <2>2, <2>3 DEF Closed, ToldBefore
<1>8. Quiet'
  <2>1. FailedOf(Steps)' = FailedOf(Steps)
    BY <1>1 DEF FailedOf
  <2>2. FailedOf(Steps) = {} => ~err[t]
    BY DEF FailedOf
  <2>3. ~caused /\ FailedOf(Steps) = {} => \A i \in DOMAIN out' : out'[i].level < Warn
    BY <1>2, <1>4, <2>2 DEF LineInv, Quiet
  <2> QED
    BY <1>1, <1>4, <2>1, <2>3 DEF LineInv, Quiet
<1> QED
  BY <1>5, <1>6, <1>7, <1>8 DEF LineInv

LEMMA SummaryLines ==
  ASSUME CountInv, LineInv, Summarise
  PROVE  LineInv'
<1> DEFINE line ==
      IF copied.failed > 0 THEN [level |-> Warn, msg |-> "stopped with errors", of |-> reason]
      ELSE IF caused THEN [level |-> Warn, msg |-> "stopped after a failure", of |-> reason]
      ELSE [level |-> Info, msg |-> "stopped cleanly", of |-> reason]
<1>1. /\ done = "copied" /\ done' = "returned" /\ out' = Append(out, line)
      /\ UNCHANGED <<step, err, begun, caused, reason, copied, before>>
  BY DEF Summarise, Say, record, counters
<1>2. begun /\ reason \in Reasons
  BY <1>1 DEF LineInv, Announced
<1>3. line \in Line /\ line.msg \in Summaries /\ line.msg # "shutting down"
      /\ (caused \/ copied.failed > 0 =>
            line.msg \in {"stopped with errors", "stopped after a failure"} /\ line.level = Warn)
      /\ (~caused /\ ~(copied.failed > 0) => line.level < Warn)
  BY <1>2 DEF Line, Lines, Summaries, Warn, Info, Debug, Error
<1> HIDE DEF line
<1> DEFINE n == Len(out) + 1
<1> HIDE DEF n
<1>4. /\ out' \in Seq(Line) /\ Len(out') > 0
      /\ DOMAIN out' = DOMAIN out \cup {n} /\ n \notin DOMAIN out /\ 1..(n - 1) = DOMAIN out
      /\ \A i \in DOMAIN out : out'[i] = out[i] /\ 1..(i - 1) \subseteq DOMAIN out
      /\ out'[n] = line
      /\ 1 \in DOMAIN out /\ n # 1
  BY <1>1, <1>2, <1>3, Said DEF LineInv, Announced, n
<1>5. Announced'
  <2>1. /\ Len(out) > 0 /\ caused \in BOOLEAN
        /\ \A i \in DOMAIN out : out[i].msg = "shutting down" <=> i = 1
        /\ caused => out[1].level = Error
    BY <1>2, <1>4 DEF LineInv, Announced
  <2>2. \A i \in DOMAIN out' : out'[i].msg = "shutting down" <=> i = 1
    BY <1>3, <1>4, <2>1
  <2>3. out'[1] = out[1]
    BY <1>4, <2>1
  <2> QED
    BY <1>1, <1>2, <1>4, <2>1, <2>2, <2>3 DEF Announced
<1>6. StepsTold'
  BY <1>1, <1>4 DEF LineInv, StepsTold
<1>7. Closed'
  <2>1. \A t \in before : \E j \in DOMAIN out : out[j].of = t
    BY DEF CountInv, Summed, LineInv, StepsTold
  <2>2. \A t \in before' : \E j \in 1..(n - 1) : out'[j].of = t
    BY <1>1, <1>4, <2>1
  <2> QED
    BY <1>1, <1>3, <1>4, <2>2 DEF Closed, ToldBefore
<1>8. Quiet'
  <2>1. FailedOf(Steps)' = FailedOf(Steps)
    BY <1>1 DEF FailedOf
  <2>2. ~caused /\ FailedOf(Steps) = {} => \A i \in DOMAIN out' : out'[i].level < Warn
    BY <1>3, <1>4 DEF LineInv, Quiet
  <2> QED
    BY <1>1, <1>4, <2>1, <2>2 DEF LineInv, Quiet
<1> QED
  BY <1>5, <1>6, <1>7, <1>8 DEF LineInv

LEMMA LineStep ==
  ASSUME IInv, CountInv, LineInv, [TeardownNext]_allVars
  PROVE  LineInv'
<1>1. CASE UNCHANGED shutdownVars
  <2>1. UNCHANGED <<out, begun, caused, reason, step, err, done, copied, before>>
    BY <1>1 DEF shutdownVars, record, counters, closing
  <2>2. /\ \A t \in Steps : step'[t] = "returned" <=> step[t] = "returned"
        /\ \A t \in Steps : step'[t] = "ahead" => step[t] = "ahead" /\ err'[t] = err[t]
        /\ FailedOf(Steps) \subseteq FailedOf(Steps)'
    BY <2>1 DEF FailedOf
  <2> QED
    BY <2>1, <2>2, SilentLines
<1>2. CASE BeginOrderly
  <2>1. told[Main] \in Reasons
    BY <1>2, TeardownAssumption DEF BeginOrderly, IInv, TypeOK, Reasons
  <2> QED
    BY <1>2, <2>1, BeginLines DEF BeginOrderly
<1>3. CASE BeginForced
  <2>1. "failure" \in Reasons
    BY DEF Reasons
  <2> QED
    BY <1>3, <2>1, BeginLines DEF BeginForced
<1>4. ASSUME NEW t \in Steps, Call(t) \/ Enter(t) \/ Leave(t) PROVE LineInv'
  <2>1. begun /\ step[t] # "returned"
    BY <1>4 DEF Call, Enter, Leave, LineInv, Announced
  <2>2. /\ step' = [step EXCEPT ![t] = step'[t]] /\ step'[t] \in {"called", "counting", "counted"}
        /\ \A u \in Steps : u # t => err'[u] = err[u]
        /\ UNCHANGED <<out, begun, caused, reason, done, copied, before>>
    BY <1>4 DEF Call, Enter, Leave, record, closing, CountInv, Functions
  <2>3. err[t] => err'[t]
    BY <1>4 DEF Call, Enter, Leave, LineInv, StepsTold
  <2>4. \A u \in Steps : u # t => step'[u] = step[u]
    BY <2>2 DEF CountInv, Functions
  <2>5. /\ \A u \in Steps : step'[u] = "returned" <=> step[u] = "returned"
        /\ \A u \in Steps : step'[u] = "ahead" => step[u] = "ahead" /\ err'[u] = err[u]
    BY <2>1, <2>2, <2>4
  <2>6. FailedOf(Steps) \subseteq FailedOf(Steps)'
    BY <2>2, <2>3 DEF FailedOf
  <2> QED
    BY <2>1, <2>2, <2>5, <2>6, SilentLines
<1>5. ASSUME NEW t \in Steps, Tell(t) PROVE LineInv'
  BY <1>5, TellLines
<1>6. CASE Copy
  <2>1. copied'.failed > 0 => FailedOf(Steps) # {}
    <3>1. copied'.failed = Cardinality(FailedOf(Counted))
      BY <1>6 DEF Copy, CountInv, Counting
    <3>2. FailedOf(Counted) \subseteq FailedOf(Steps)
      BY DEF FailedOf, Counted
    <3>3. FailedOf(Counted) = {} => ~(copied'.failed > 0)
      BY <3>1, FS_EmptySet
    <3> QED
      BY <3>2, <3>3
  <2> QED
    BY <1>6, <2>1, SilentLines DEF Copy, record, counters, FailedOf
<1>7. CASE Summarise
  BY <1>7, SummaryLines
<1> QED
  BY <1>1, <1>2, <1>3, <1>4, <1>5, <1>6, <1>7 DEF TeardownNext, Goroutine, Stop, allVars

LEMMA LinesStand == TeardownSpec => [](CountInv /\ LineInv)
<1>1. TeardownInit => CountInv /\ LineInv
  BY CountInit, LineInit
<1>2. IInv /\ CountInv /\ LineInv /\ [TeardownNext]_allVars => CountInv' /\ LineInv'
  BY CountStep, LineStep
<1> QED
  BY <1>1, <1>2, ContextInvariant, PTL DEF TeardownSpec

\* The announcement comes first and once, and no summary overtakes the line of a
\* step that had returned, although lines are written outside the mutex.
THEOREM RecordIsInOrder == TeardownSpec => []RecordInOrder
<1>1. LineInv => RecordInOrder
  BY DEF LineInv, Announced, Closed, ToldBefore, RecordInOrder
<1> QED
  BY <1>1, LinesStand, PTL

\* What went wrong can be heard at warn, and nothing else can, for any number of
\* steps and in whatever order they end.
THEOREM TroubleIsAudible == TeardownSpec => []AudibleAtWarn
<1>1. ASSUME CountInv, LineInv PROVE AudibleAtWarn
  <2>1. begun /\ caused => \E i \in DOMAIN out : out[i].level >= Warn /\ out[i].msg = "shutting down"
    <3>1. begun /\ caused => 1 \in DOMAIN out
      <4>1. out \in Seq(Line) /\ (begun => Len(out) > 0)
        BY <1>1 DEF LineInv, Announced
      <4> QED
        BY <4>1
    <3>2. begun /\ caused => out[1].level = Error /\ out[1].msg = "shutting down"
      BY <1>1, <3>1 DEF LineInv, Announced
    <3>3. Error >= Warn
      BY DEF Error, Warn
    <3> QED
      BY <3>1, <3>2, <3>3
  <2>2. ASSUME done = "returned", caused \/ FailedOf(before) # {}
        PROVE  \E i \in DOMAIN out :
                 /\ out[i].level >= Warn
                 /\ out[i].msg \in {"stopped with errors", "stopped after a failure"}
    <3>1. caused \/ copied.failed > 0
      <4>1. FailedOf(before) # {} => Cardinality(FailedOf(before)) > 0
        <5>1. FailedOf(before) \subseteq Steps
          BY <1>1 DEF FailedOf, CountInv, Summed
        <5> QED
          BY <5>1, ShutdownAssumption, FS_Subset, FS_EmptySet, FS_CardinalityType
      <4>2. Cardinality(FailedOf(before)) \in Nat
        <5>1. FailedOf(before) \subseteq Steps
          BY <1>1 DEF FailedOf, CountInv, Summed
        <5> QED
          BY <5>1, ShutdownAssumption, FS_Subset, FS_CardinalityType
      <4> QED
        BY <1>1, <2>2, <4>1, <4>2 DEF CountInv, Summed, SummaryCounts
    <3>2. Warn >= Warn
      BY DEF Warn
    <3>3. PICK i \in DOMAIN out :
            out[i].msg \in {"stopped with errors", "stopped after a failure"} /\ out[i].level = Warn
      BY <1>1, <2>2, <3>1 DEF LineInv, Closed
    <3> QED
      BY <3>2, <3>3
  <2>3. ~caused /\ FailedOf(Steps) = {} => \A i \in DOMAIN out : ~(out[i].level >= Warn)
    <3>1. \A i \in DOMAIN out : out[i].level \in Debug..Error
      <4>1. out \in Seq(Line)
        BY <1>1 DEF LineInv, Announced
      <4>2. \A i \in DOMAIN out : out[i] \in Line
        BY <4>1
      <4> QED
        BY <4>2 DEF Line
    <3> QED
      BY <1>1, <3>1 DEF LineInv, Quiet, Warn, Debug, Error
  <2> QED
    BY <2>1, <2>2, <2>3 DEF AudibleAtWarn
<1> QED
  BY <1>1, LinesStand, PTL

-----------------------------------------------------------------------------
(* Types.                                                                   *)

\* What the other invariants leave open.
RestTypes ==
  /\ mu \in Steps \cup {Nobody}
  /\ done \in {"uncalled", "copied", "returned"}
  /\ copied \in Count
  /\ before \in SUBSET Steps
  /\ reason \in Reasons

\* The counters never pass the number of steps.
LEMMA CountersFit == ASSUME CountInv PROVE [steps |-> steps, failed |-> failed] \in Count
<1>1. /\ Cardinality(Counted) \in Nat /\ Cardinality(Steps) \in Nat
      /\ Cardinality(Counted) <= Cardinality(Steps)
  BY NotMore DEF Counted
<1>2. /\ Cardinality(FailedOf(Counted)) \in Nat
      /\ Cardinality(FailedOf(Counted)) <= Cardinality(Steps)
  <2>1. FailedOf(Counted) \in SUBSET Steps
    BY DEF FailedOf, Counted
  <2> QED
    BY <2>1, NotMore
<1> QED
  BY <1>1, <1>2 DEF CountInv, Counting, Count

LEMMA RestStep ==
  ASSUME IInv, CountInv, RestTypes, [TeardownNext]_allVars
  PROVE  RestTypes'
<1>1. CASE UNCHANGED shutdownVars
  BY <1>1 DEF RestTypes, shutdownVars, record, counters, closing
<1>2. CASE BeginOrderly
  <2>1. told[Main] \in Reasons
    BY <1>2, TeardownAssumption DEF BeginOrderly, IInv, TypeOK, Reasons
  <2> QED
    BY <1>2, <2>1 DEF BeginOrderly, Begin, RestTypes, counters, closing
<1>3. CASE BeginForced
  BY <1>3 DEF BeginForced, Begin, RestTypes, Reasons, counters, closing
<1>4. ASSUME NEW t \in Steps, Call(t) \/ Goroutine(t) PROVE RestTypes'
  BY <1>4 DEF Call, Goroutine, Enter, Leave, Tell, RestTypes, record, closing
<1>5. CASE Copy
  BY <1>5, CountersFit DEF Copy, RestTypes, record, counters
<1>6. CASE Summarise
  BY <1>6 DEF Summarise, RestTypes, record, counters
<1> QED
  BY <1>1, <1>2, <1>3, <1>4, <1>5, <1>6 DEF TeardownNext, Stop, allVars

\* The types of the context, the record, its counters and its lines; that the
\* counters stay within the number of steps is the mutex's doing.
THEOREM TeardownTyped == TeardownSpec => []TeardownTypeOK
<1>1. TeardownInit => RestTypes
  BY CountInit, CountersFit
  DEF TeardownInit, ShutdownInit, RestTypes, Reasons, NoCount
<1>2. IInv /\ CountInv /\ RestTypes /\ [TeardownNext]_allVars => RestTypes'
  BY RestStep
<1>3. IInv /\ CountInv /\ LineInv /\ RestTypes => TeardownTypeOK
  <2>1. LineInv => \A i \in DOMAIN out : out[i].msg \in Lines /\ out[i].level \in Debug..Error
    <3>1. ASSUME out \in Seq(Line), NEW i \in DOMAIN out PROVE out[i] \in Line
      BY <3>1
    <3> QED
      BY <3>1 DEF LineInv, Announced, Line
  <2> QED
    BY <2>1, CountersFit
    DEF IInv, CountInv, Functions, LineInv, Announced, RestTypes, Reasons, TeardownTypeOK, ShutdownTypeOK
<1> QED
  BY <1>1, <1>2, <1>3, ContextInvariant, LinesStand, PTL DEF TeardownSpec

-----------------------------------------------------------------------------
(* The counters implement StepTally.                                        *)

LEMMA TallyInit == ASSUME TeardownInit PROVE Tally!Init
  BY DEF TeardownInit, ShutdownInit, Counted, FailedOf, Tally!Init

\* A step ends for the reader of the record when it leaves the mutex, and the
\* summary is made when Done takes its copy; nothing else shows.
LEMMA TallyStep ==
  ASSUME CountInv, [TeardownNext]_allVars
  PROVE  [Tally!Next]_(Tally!vars)
<1> USE DEF CountInv, Functions
<1>1. ASSUME Counted' = Counted, FailedOf(Counted)' = FailedOf(Counted), copied' = copied,
             done' = "uncalled" <=> done = "uncalled"
      PROVE  UNCHANGED Tally!vars
  BY <1>1 DEF Tally!vars
<1>2. ASSUME NEW t \in Steps, Leave(t) PROVE Tally!End(t)
  <2>1. t \notin Counted /\ Counted' = Counted \cup {t} /\ UNCHANGED <<done, copied>>
    BY <1>2 DEF Leave, Counted, closing
  <2>2. FailedOf(Counted)' = IF err[t] THEN FailedOf(Counted) \cup {t} ELSE FailedOf(Counted)
    <3>1. \A u \in Steps : err'[u] = err[u]
      BY <1>2 DEF Leave
    <3> QED
      BY <2>1, <3>1 DEF FailedOf, Counted
  <2> QED
    BY <2>1, <2>2 DEF Tally!End
<1>3. CASE Copy
  <2>1. Counted' = Counted /\ FailedOf(Counted)' = FailedOf(Counted)
    BY <1>3 DEF Copy, counters, Counted, FailedOf
  <2>2. /\ done = "uncalled" /\ done' = "copied"
        /\ copied' = [steps |-> Cardinality(Counted), failed |-> Cardinality(FailedOf(Counted))]
    BY <1>3 DEF Copy, Counting
  <2>3. \A S : Tally!Cardinality(S) = Cardinality(S)
    BY DEF Tally!Cardinality, Tally!IsFiniteSet, Cardinality, IsFiniteSet
  <2>4. Tally!SumUp
    BY <2>1, <2>2, <2>3 DEF Tally!SumUp
  <2> QED
    BY <2>4 DEF Tally!Next
<1>4. ASSUME NEW t \in Steps, Call(t) \/ Enter(t) \/ Tell(t) PROVE UNCHANGED Tally!vars
  <2>1. Counted' = Counted /\ \A u \in Counted : err'[u] = err[u]
    BY <1>4 DEF Call, Enter, Tell, Counted
  <2>2. FailedOf(Counted)' = FailedOf(Counted)
    BY <2>1 DEF FailedOf
  <2> QED
    BY <1>1, <1>4, <2>1, <2>2 DEF Call, Enter, Tell, closing
<1>5. CASE Summarise
  BY <1>1, <1>5 DEF Summarise, counters, Counted, FailedOf
<1>6. CASE BeginOrderly \/ BeginForced \/ UNCHANGED shutdownVars
  BY <1>1, <1>6
  DEF BeginOrderly, BeginForced, Begin, shutdownVars, counters, closing, Counted, FailedOf
<1> QED
  BY <1>2, <1>3, <1>4, <1>5, <1>6 DEF TeardownNext, Goroutine, Stop, allVars, Tally!Next

\* Steps that run at once and a Done in between count as if each had ended in
\* one instant, for any number of steps.
THEOREM RecordImplementsStepTally == TeardownSpec => ImplementsStepTally
<1>1. CountInv /\ [TeardownNext]_allVars => [Tally!Next]_(Tally!vars)
  BY TallyStep
<1> QED
  BY <1>1, TallyInit, CountInit, CountStep, PTL DEF TeardownSpec, ImplementsStepTally, Tally!Spec
=============================================================================
