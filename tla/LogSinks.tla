------------------------------ MODULE LogSinks ------------------------------
(***************************************************************************)
(* The way of a record to its sinks: the logger that New builds in         *)
(* go/kit/logging/logging.go with a file and the console, the teeSink that *)
(* writes both, and the rotator behind it.  slog's handler holds a mutex   *)
(* around each write, so there is one record at a time.                    *)
(***************************************************************************)
EXTENDS Rotator

CONSTANT Stderr \* Options.Stderr: the console is kept beside the file

ASSUME SinksAssumption == Stderr \in BOOLEAN

VARIABLES
  sink,    \* where the record is: "none", "console" (about to go there), "file",
           \* or "report" (the file's error is in hand)
  once,    \* teeSink.once has been used
  reports, \* history: reports on standard error in this life of the process
  trouble  \* history: a write of the file has failed in this life

sinks == <<sink, once, reports, trouble>>
sinkVars == <<vars, sinks>>

SinksInit ==
  /\ Init
  /\ sink = "none" /\ once = FALSE /\ reports = 0 /\ trouble = FALSE

\* A record is logged.
Log ==
  /\ sink = "none" /\ pc = "idle"
  /\ Cardinality(lines) < MaxLines
  /\ sink' = IF Stderr THEN "console" ELSE "file"
  /\ UNCHANGED <<vars, once, reports, trouble>>

\* (A mutant: as io.MultiWriter, which stops at the first sink that errors.)
ConsoleFirst ==
  /\ sink = "console"
  /\ sink' \in {"file", "none"}
  /\ UNCHANGED <<vars, once, reports, trouble>>

\* teeSink.Write: the console, which may fail at any record or at every one.
\* The file is written whatever has become of it.
Console ==
  /\ sink = "console"
  /\ sink' = "file"
  /\ UNCHANGED <<vars, once, reports, trouble>>

\* A step of rotator.Write; it is over when the rotator is idle again, and it
\* has failed when the line is not in the file.
File ==
  LET over == pc' = "idle"
      failed == over /\ lines' = lines
  IN  /\ sink = "file"
      /\ Write
      /\ sink' = IF ~over THEN "file" ELSE IF failed /\ Stderr THEN "report" ELSE "none"
      /\ trouble' = (trouble \/ failed)
      /\ UNCHANGED <<once, reports>>

\* (A mutant: every failure is reported.)
ReportEach ==
  /\ sink = "report"
  /\ sink' = "none"
  /\ once' = TRUE
  /\ reports' = reports + 1
  /\ UNCHANGED <<vars, trouble>>

\* "Once only: a failing disk fails on every record".
Report ==
  /\ sink = "report"
  /\ sink' = "none"
  /\ once' = TRUE
  /\ reports' = IF once THEN reports ELSE reports + 1
  /\ UNCHANGED <<vars, trouble>>

\* The process dies; the next one has a logger of its own.
Die ==
  /\ Crash
  /\ sink' = "none" /\ once' = FALSE /\ reports' = 0 /\ trouble' = FALSE

Work == Log \/ Console \/ File \/ Report \/ (newRotator /\ UNCHANGED sinks)

\* Logger.Close is the rotator's; it may come between the two sinks.
SinksNext ==
  \/ Work \/ Die
  \/ (Close \/ Tick \/ PutBack) /\ UNCHANGED sinks
  \/ Exhausted /\ sink = "none" /\ UNCHANGED sinks

SinksSpec == SinksInit /\ [][SinksNext]_sinkVars /\ WF_sinkVars(Work)

-----------------------------------------------------------------------------
(* Properties.                                                              *)

\* "Disk errors are reported once on standard error and then tolerated": not
\* once per record, and not never, whichever step of a write or a roll failed.
TroubleReportedOnce ==
  pc # "down" /\ sink = "none" => reports = IF trouble THEN 1 ELSE 0

\* The name of an archive drops less than a second of its roll's time, and
\* prune compares it with a time in full: a line may go that much early.
Promise == INSTANCE ServiceLog WITH
  Window <- IF RetainDays = 0 THEN 0 ELSE RetainDays * Day - Second + 1,
  stamp <- asked,
  kept <- UNION {file.lines : file \in AllFiles}

\* Behind all its files the logger keeps what a log promises.
ImplementsServiceLog == Promise!Spec
=============================================================================
