------------------------------ MODULE LogLevels ------------------------------
(***************************************************************************)
(* The volume of the log while a service runs: SetDebug and SetLevel of    *)
(* go/kit/logging/logging.go, the process-wide accessors of process.go     *)
(* that address them to whichever logger is installed, and Setup, which    *)
(* installs one in steps.  Operators call from goroutines of their own,    *)
(* before, during and after Setup.                                         *)
(*                                                                         *)
(* Of a Logger the level and the level that leaving debug mode returns to  *)
(* are kept; the flag "debug" is written by the code but never read.       *)
(***************************************************************************)
EXTENDS Integers

CONSTANTS
  Operators,    \* goroutines that turn the volume
  Settable,     \* levels they ask for
  Configurable, \* levels the configuration may name
  NoLogger,     \* the nil *Logger
  Nobody        \* holds a mutex that is free

Debug == 0  Info == 1  Warn == 2  Error == 3
Silent == Error + 1

ASSUME LevelsAssumption ==
  /\ Settable \subseteq Int /\ Configurable \subseteq Debug..Error
  /\ Nobody \notin Operators
  /\ NoLogger \notin {"discard", "ours"}

\* The fallback that current makes, and the logger that Setup builds.
Loggers == {"discard", "ours"}

VARIABLES
  process,     \* the variable process
  slogDefault, \* the default logger of slog: Go's own or ours
  setup,       \* Setup: "uncalled", "built", "default", "returned" or "failed"
  level,       \* l.level of each logger
  configured,  \* l.configured
  holder,      \* the holder of l.mu
  pc,          \* where each operator is: "idle", "called", "resolved", "setting"
  call,        \* what he calls
  target,      \* the logger current() gave him
  next,        \* the level he is about to store
  late,        \* history: his call began after Setup had returned
  wanted,      \* history: the level a logger was last asked to have,
  standing     \* history: and what leaving debug mode has to return to

installed == <<process, slogDefault, setup>>
loggers == <<level, configured, holder>>
operators == <<pc, call, target, next, late>>
asked == <<wanted, standing>>
vars == <<installed, loggers, operators, asked>>

Levels == Settable \cup (Debug..Silent)
Calls == [op : {"SetDebug"}, on : BOOLEAN, to : {Debug}]
           \cup [op : {"SetLevel"}, on : {FALSE}, to : Settable]
Look == [op |-> "Level", on |-> FALSE, to |-> Debug]

TypeOK ==
  /\ process \in Loggers \cup {NoLogger}
  /\ slogDefault \in {"go", "ours"}
  /\ setup \in {"uncalled", "built", "default", "returned", "failed"}
  /\ level \in [Loggers -> Levels] /\ configured \in [Loggers -> Levels]
  /\ holder \in [Loggers -> Operators \cup {Nobody}]
  /\ pc \in [Operators -> {"idle", "called", "resolved", "setting"}]
  /\ call \in [Operators -> Calls \cup {Look}]
  /\ target \in [Operators -> Loggers]
  /\ next \in [Operators -> Levels]
  /\ late \in [Operators -> BOOLEAN]
  /\ wanted \in [Loggers -> Levels] /\ standing \in [Loggers -> Levels]

\* The process has started; no logger is built yet, and a fallback, when it
\* comes, is silent.
Init ==
  /\ process = NoLogger /\ slogDefault = "go" /\ setup = "uncalled"
  /\ level = [l \in Loggers |-> Silent]
  /\ configured = [l \in Loggers |-> Silent]
  /\ holder = [l \in Loggers |-> Nobody]
  /\ pc = [o \in Operators |-> "idle"]
  /\ call = [o \in Operators |-> Look]
  /\ target = [o \in Operators |-> "discard"]
  /\ next = [o \in Operators |-> Debug]
  /\ late = [o \in Operators |-> FALSE]
  /\ wanted = level /\ standing = configured

-----------------------------------------------------------------------------
(* Setup, called once by main.                                              *)

\* New: it fails, on its options or on the log file, or builds a logger.
New ==
  /\ setup = "uncalled"
  /\ \/ setup' = "failed" /\ UNCHANGED <<level, configured, asked>>
     \/ \E c \in Configurable, debug \in BOOLEAN :
          LET l == IF debug THEN Debug ELSE c IN
          /\ setup' = "built"
          /\ configured' = [configured EXCEPT !["ours"] = c]
          /\ level' = [level EXCEPT !["ours"] = l]
          /\ wanted' = [wanted EXCEPT !["ours"] = l]
          /\ standing' = [standing EXCEPT !["ours"] = c]
  /\ UNCHANGED <<process, slogDefault, holder, operators>>

SetDefault ==
  /\ setup = "built"
  /\ setup' = "default"
  /\ slogDefault' = "ours"
  /\ UNCHANGED <<process, loggers, operators, asked>>

\* (A mutant: a fallback somebody already uses is not replaced.)
setProcessUnlessMade ==
  /\ setup = "default"
  /\ setup' = "returned"
  /\ process' = IF process = NoLogger THEN "ours" ELSE process
  /\ UNCHANGED <<slogDefault, loggers, operators, asked>>

setProcess ==
  /\ setup = "default"
  /\ setup' = "returned"
  /\ process' = "ours"
  /\ UNCHANGED <<slogDefault, loggers, operators, asked>>

-----------------------------------------------------------------------------
(* The accessors.                                                           *)

Call(o) ==
  /\ pc[o] = "idle"
  /\ pc' = [pc EXCEPT ![o] = "called"]
  /\ \E c \in Calls \cup {Look} : call' = [call EXCEPT ![o] = c]
  /\ late' = [late EXCEPT ![o] = setup = "returned"]
  /\ UNCHANGED <<installed, loggers, target, next, asked>>

Return(o) ==
  /\ pc' = [pc EXCEPT ![o] = "idle"]
  /\ call' = [call EXCEPT ![o] = Look]
  /\ late' = [late EXCEPT ![o] = FALSE]
  /\ target' = [target EXCEPT ![o] = "discard"]
  /\ next' = [next EXCEPT ![o] = Debug]

\* (A mutant: before Setup there is no logger to be had.)
currentNil(o) ==
  /\ pc[o] = "called"
  /\ IF call[o].op = "Level" THEN Return(o)
     ELSE /\ pc' = [pc EXCEPT ![o] = "resolved"]
          /\ target' = [target EXCEPT ![o] = process]
          /\ UNCHANGED <<call, next, late>>
  /\ UNCHANGED <<installed, loggers, asked>>

\* current, under processMu: the fallback is made once and kept.  A call that
\* only reads the level ends here.
current(o) ==
  /\ pc[o] = "called"
  /\ process' = IF process = NoLogger THEN "discard" ELSE process
  /\ IF call[o].op = "Level" THEN Return(o)
     ELSE /\ pc' = [pc EXCEPT ![o] = "resolved"]
          /\ target' = [target EXCEPT ![o] = process']
          /\ UNCHANGED <<call, next, late>>
  /\ UNCHANGED <<slogDefault, setup, loggers, asked>>

\* The level that SetLevel or SetDebug is going to store.
levelTo(o) ==
  IF call[o].op = "SetLevel" THEN call[o].to
  ELSE IF call[o].on THEN Debug ELSE configured[target[o]]

\* (A mutant: the fields are written without the mutex.)
EnterUnlocked(o) ==
  /\ pc[o] = "resolved"
  /\ pc' = [pc EXCEPT ![o] = "setting"]
  /\ next' = [next EXCEPT ![o] = levelTo(o)]
  /\ configured' = IF call[o].op = "SetLevel"
                   THEN [configured EXCEPT ![target[o]] = call[o].to] ELSE configured
  /\ UNCHANGED <<installed, level, holder, call, target, late, asked>>

\* l.mu is taken and the plain fields are read and written.
Enter(o) ==
  /\ pc[o] = "resolved" /\ holder[target[o]] = Nobody
  /\ pc' = [pc EXCEPT ![o] = "setting"]
  /\ holder' = [holder EXCEPT ![target[o]] = o]
  /\ next' = [next EXCEPT ![o] = levelTo(o)]
  /\ configured' = IF call[o].op = "SetLevel"
                   THEN [configured EXCEPT ![target[o]] = call[o].to] ELSE configured
  /\ UNCHANGED <<installed, level, call, target, late, asked>>

\* (A mutant: the early return of SetDebug(true) keeps the mutex.)
unlockAtTheEnd(o) ==
  holder' = IF call[o].op = "SetDebug" /\ call[o].on THEN holder
            ELSE [holder EXCEPT ![target[o]] = Nobody]

unlock(o) == holder' = [holder EXCEPT ![target[o]] = Nobody]

\* The level is stored and l.mu given up.  A call that began after Setup
\* returned is meant for the logger every package of the service logs to.
Leave(o) ==
  LET l == IF late[o] THEN slogDefault ELSE target[o] IN
  /\ pc[o] = "setting"
  /\ level' = [level EXCEPT ![target[o]] = next[o]]
  /\ unlock(o)
  /\ standing' = IF call[o].op = "SetLevel" THEN [standing EXCEPT ![l] = call[o].to]
                 ELSE standing
  /\ wanted' = [wanted EXCEPT ![l] = IF call[o].op = "SetDebug" /\ call[o].on THEN Debug
                                     ELSE standing'[l]]
  /\ Return(o)
  /\ UNCHANGED <<installed, configured>>

Operator(o) == current(o) \/ Enter(o) \/ Leave(o)

\* A package that logs looks at the level and changes nothing.
Log == UNCHANGED vars

Next ==
  \/ New \/ SetDefault \/ setProcess
  \/ \E o \in Operators : Call(o) \/ Operator(o)
  \/ Log

\* A call that was made is scheduled, and a mutex that is given up again and
\* again is got in the end: Go's mutexes do not starve a waiter.
Spec ==
  /\ Init /\ [][Next]_vars
  /\ \A o \in Operators :
       WF_vars(current(o)) /\ SF_vars(Enter(o)) /\ WF_vars(Leave(o))

-----------------------------------------------------------------------------
(* Properties.                                                              *)

\* The volume is what was last asked of the log, the calls taken one after the
\* other: debug while debug mode is on, and after it the level that was
\* configured or set last, not info and not a level set aside meanwhile.  It
\* holds of the fallback, where what was set can be read back, and of the
\* installed logger, which no call made after Setup misses.
LevelIsAsAsked ==
  \A l \in Loggers : holder[l] = Nobody => level[l] = wanted[l]

\* Every call comes back, whoever else is turning the volume.
CallsReturn == \A o \in Operators : pc[o] = "called" ~> pc[o] = "idle"
=============================================================================
