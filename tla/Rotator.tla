------------------------------- MODULE Rotator -------------------------------
(***************************************************************************)
(* The log file rotator of go/kit/logging/file.go: Write under its mutex,  *)
(* the roll and the prune it may bring on, Close, and newRotator.  The     *)
(* mutex keeps calls apart, so there is one Write at a time; it is cut at  *)
(* every system call, because each may fail, the clock may move on between *)
(* two of them, and the process may die there and be started again.  Two   *)
(* loops are a step each: rolledName's search for a free name, and prune's *)
(* removals, which the process's death may still cut short.                *)
(*                                                                         *)
(* The clock counts ticks, finer than the seconds that archives are named  *)
(* for.  A line is a number, given in the order of writing; a file is the  *)
(* set of lines it holds whole, its size, how many writes made it, its     *)
(* modification time, and whether midnight ever passed between Write's     *)
(* reading of the clock and the bytes' reaching it.                        *)
(***************************************************************************)
EXTENDS Integers, FiniteSets

CONSTANTS
  Second,     \* ticks in a second, the resolution of an archive's name
  Day,        \* ticks in a day
  MaxSize,    \* Options.MaxSizeMB, in units of line length; 0 is no limit
  RetainDays, \* Options.RetainDays; 0 keeps archives of any age
  MaxFiles,   \* Options.MaxFiles; 0 keeps any number of archives
  NameLimit,  \* names rolledName tries within one second (1000)
  Lengths,    \* how long a line can be
  Faults,     \* system calls that may fail now and then
  Broken,     \* system calls that fail every time
  MaxFaults,  \* bound: failures of Faults in one behaviour, and steps back of
              \* the clock when "clock" is among them
  MaxCrashes, \* bound: crashes in one behaviour
  MaxLines,   \* bound: lines written in one behaviour
  MaxClock,   \* bound: the clock stops here
  NoFile      \* the live file does not exist

\* ("stat" is open's, of the file in hand; "lookup" is rolledName's, of a name.)
SystemCalls == {"open", "stat", "close", "lookup", "rename", "write", "remove"}

ASSUME RotatorAssumption ==
  /\ Second \in Nat \ {0} /\ Day \in Nat \ {0} /\ Second <= Day
  /\ MaxSize \in Nat /\ RetainDays \in Nat /\ MaxFiles \in Nat
  /\ NameLimit \in 1..1000
  /\ Lengths \subseteq Nat \ {0}
  /\ Faults \subseteq SystemCalls \cup {"clock"} /\ Broken \subseteq SystemCalls
  /\ MaxFaults \in Nat /\ MaxCrashes \in Nat /\ MaxLines \in Nat /\ MaxClock \in Nat

VARIABLES
  clock,
  live,     \* the file at Options.File
  archives, \* the rolled-aside files, by name
  handle,   \* r.file: "nil", "open", or "broken" (not nil, but closed)
  size,     \* r.size
  day,      \* r.day, NoDay for the zero time
  pc,       \* the system call Write or newRotator is at
  now,      \* Write's reading of the clock
  len,      \* the length of the line being written
  asked,    \* history: asked[n] is Write's reading of the clock for line n
  pruned,   \* history: lines whose archive prune removed
  faults, crashes  \* how much of the bounds is spent

vars == <<clock, live, archives, handle, size, day, pc, now, len, asked,
          pruned, faults, crashes>>

NoDay == -1
DayOf(t) == t \div Day

\* The name of an archive drops what is less than a second.
Stamp(t) == (t \div Second) * Second

Files == [lines : SUBSET (1..MaxLines), size : Nat, writes : Nat, mtime : Nat, crossed : BOOLEAN]
EmptyFile == [lines |-> {}, size |-> 0, writes |-> 0, mtime |-> 0, crossed |-> FALSE]

ASSUME FileAssumption == NoFile \notin Files

\* An archive is named for the second of its roll and, within that second, by
\* a number: "app.log.20260102T150405" is 0, "...-1" is 1.
Names == [at : Nat, i : 0..(NameLimit - 1)]
NamesOf(s) == [at : {s}, i : 0..(NameLimit - 1)]

lines == DOMAIN asked

Stages == {"down", "launchPrune", "idle", "reopen", "check", "close", "rename",
           "keep", "fresh", "rollPrune", "append"}

TypeOK ==
  /\ clock \in Nat
  /\ live \in Files \cup {NoFile}
  /\ DOMAIN archives \subseteq Names /\ \A n \in DOMAIN archives : archives[n] \in Files
  /\ handle \in {"nil", "open", "broken"}
  /\ size \in Nat
  /\ day \in Nat \cup {NoDay}
  /\ pc \in Stages
  /\ now \in Nat
  /\ len \in Lengths \cup {0}
  /\ lines \subseteq 1..MaxLines
  /\ \A n \in lines : asked[n] \in Nat
  /\ pruned \subseteq lines
  /\ faults \in 0..MaxFaults
  /\ crashes \in 0..MaxCrashes

\* The service is about to be started for the first time.
Init ==
  /\ clock = 0
  /\ live = NoFile
  /\ archives = [n \in {} |-> EmptyFile]
  /\ handle = "nil" /\ size = 0 /\ day = NoDay
  /\ pc = "down" /\ now = 0 /\ len = 0
  /\ asked = [n \in {} |-> 0]
  /\ pruned = {}
  /\ faults = 0 /\ crashes = 0

Works(call) == call \notin Broken /\ UNCHANGED faults
Fails(call) ==
  \/ call \in Broken /\ UNCHANGED faults
  \/ call \in Faults \ Broken /\ faults < MaxFaults /\ faults' = faults + 1

\* Control reaches stage s; a call that is over forgets its locals.
Goto(s) ==
  /\ pc' = s
  /\ IF s = "idle" THEN now' = 0 /\ len' = 0 ELSE UNCHANGED <<now, len>>

disk == <<live, archives, asked, pruned>>
rotator == <<handle, size, day>>

-----------------------------------------------------------------------------
(* open, rolledName, prune.                                                 *)

\* open, once OpenFile has succeeded: a file that was there keeps its content
\* and its day; one whose Stat fails counts as empty.
Opened ==
  /\ handle' = "open"
  /\ live' = IF live = NoFile THEN EmptyFile ELSE live
  /\ \/ /\ Works("open")
        /\ size' = live'.size
        /\ day' = IF live'.size > 0 THEN DayOf(live'.mtime) ELSE NoDay
     \/ /\ "open" \notin Broken /\ Fails("stat")
        /\ size' = 0
        /\ day' = NoDay
  /\ UNCHANGED <<archives, asked, pruned>>

NotOpened == Fails("open") /\ UNCHANGED <<disk, rotator>>

\* (A mutant: the name is not made unique.)
rolledNamePlain(s) == [at |-> s, i |-> 0]

\* (A mutant: the search for a free name runs down from the last one.)
rolledNameDownwards(s) ==
  CHOOSE n \in NamesOf(s) :
    /\ n \notin DOMAIN archives \/ n.i = 0
    /\ \A j \in (n.i + 1)..(NameLimit - 1) : [at |-> s, i |-> j] \in DOMAIN archives

\* The first free name of the second s, or the last one, free or not.
rolledName(s) ==
  CHOOSE n \in NamesOf(s) :
    /\ n \notin DOMAIN archives \/ n.i = NameLimit - 1
    /\ \A j \in 0..(n.i - 1) : [at |-> s, i |-> j] \in DOMAIN archives

\* A name whose lookup fails counts as taken, and the last one is not looked up.
rolledNameBlind(s) ==
  {n \in NamesOf(s) :
     n.i = NameLimit - 1 \/ ("lookup" \notin Broken /\ n \notin DOMAIN archives)}

\* The order of names in a directory puts "-10" between "-1" and "-2".
DirBefore(i, j) ==
  LET lead(k) == IF k < 10 THEN 100 * k ELSE IF k < 100 THEN 10 * k ELSE k
  IN  lead(i) < lead(j) \/ (lead(i) = lead(j) /\ i < j)

\* rolls() sorts by the second alone: what is level stays in the order of the
\* directory as long as the sort is an insertion sort, up to twelve archives.
MayPrecede(m, n) ==
  \/ m.at < n.at
  \/ m.at = n.at /\ (Cardinality(DOMAIN archives) > 12 \/ DirBefore(m.i, n.i))

\* The first k archives of rolls().
Fronts(k) ==
  {names \in SUBSET DOMAIN archives :
     /\ Cardinality(names) = k
     /\ \A m \in names, n \in DOMAIN archives \ names : MayPrecede(m, n)}

\* (A mutant: the retention is reckoned in the wrong unit.)
ExpiredWithinTheDay ==
  {n \in DOMAIN archives : RetainDays > 0 /\ n.at < clock - RetainDays}

Expired == {n \in DOMAIN archives : RetainDays > 0 /\ n.at < clock - RetainDays * Day}

found == Cardinality(DOMAIN archives \ Expired)

\* (Two mutants: one archive too many is kept, and one too few.)
ExcessKeepsOneMore == IF MaxFiles > 0 /\ found > MaxFiles + 1 THEN found - MaxFiles - 1 ELSE 0
ExcessKeepsOneLess == IF MaxFiles > 0 /\ found >= MaxFiles THEN found - MaxFiles + 1 ELSE 0

Excess == IF MaxFiles > 0 /\ found > MaxFiles THEN found - MaxFiles ELSE 0

\* (A mutant: the excess is taken from the back of the sorted list.)
DoomedFromTheBack ==
  {Expired \cup (DOMAIN archives \ names) : names \in Fronts(Cardinality(DOMAIN archives) - Excess)}

\* What prune goes about to remove: those that are expired, which are the
\* oldest, and the oldest of the rest.
Doomed == Fronts(Cardinality(Expired) + Excess)

Remove(names) ==
  /\ archives' = [n \in DOMAIN archives \ names |-> archives[n]]
  /\ pruned' = pruned \cup UNION {archives[n].lines : n \in names}

\* prune ignores every error: when a call fails, some of the files stay.
prune ==
  /\ \E names \in Doomed :
       \/ Works("remove") /\ Remove(names)
       \/ Fails("remove") /\ \E gone \in SUBSET names : Remove(gone)
  /\ UNCHANGED <<live, asked, rotator>>

\* The process dies in prune, which has come some way, the oldest first.
pruneCut ==
  /\ "remove" \notin Broken
  /\ \E k \in 0..(Cardinality(Expired) + Excess) : \E names \in Fronts(k) : Remove(names)

-----------------------------------------------------------------------------
(* newRotator, and the steps of Write.                                      *)

Launch ==
  /\ pc = "down"
  /\ \/ Opened /\ Goto("launchPrune")
     \/ NotOpened /\ Goto("down")
  /\ UNCHANGED <<clock, crashes>>

\* (A mutant: newRotator leaves the pruning to the first roll.)
LaunchUnpruned ==
  /\ pc = "launchPrune"
  /\ Goto("idle")
  /\ UNCHANGED <<clock, disk, rotator, faults, crashes>>

LaunchPrune ==
  /\ pc = "launchPrune"
  /\ prune
  /\ Goto("idle")
  /\ UNCHANGED <<clock, crashes>>

BeginWrite(l) ==
  /\ pc = "idle"
  /\ Cardinality(lines) < MaxLines
  /\ pc' = IF handle = "nil" THEN "reopen" ELSE "check"
  /\ len' = l
  /\ UNCHANGED <<clock, disk, rotator, now, faults, crashes>>

Reopen ==
  /\ pc = "reopen"
  /\ \/ Opened /\ Goto("check")
     \/ NotOpened /\ Goto("idle")
  /\ UNCHANGED <<clock, crashes>>

\* (A mutant: the limit is compared with the size before the write.)
overSizeBefore == MaxSize > 0 /\ size > MaxSize

overSize == MaxSize > 0 /\ size > 0 /\ size + len > MaxSize
\* (A mutant: only the size makes a file roll.)
dayTurnedNever == FALSE

dayTurned == size > 0 /\ day # NoDay /\ DayOf(clock) # day

\* (A mutant: the archive is named for the day it covers, not the roll.)
CheckNamesDayBefore ==
  /\ pc = "check"
  /\ now' = clock - Day
  /\ pc' = IF overSize \/ dayTurned THEN "close" ELSE "append"
  /\ UNCHANGED <<clock, disk, rotator, len, faults, crashes>>

Check ==
  /\ pc = "check"
  /\ now' = clock
  /\ pc' = IF overSize \/ dayTurned THEN "close" ELSE "append"
  /\ UNCHANGED <<clock, disk, rotator, len, faults, crashes>>

\* Closing a file that is closed already fails, whatever the system does.
CloseToRoll ==
  /\ pc = "close"
  /\ \/ handle = "open" /\ Works("close") /\ handle' = "nil" /\ Goto("rename")
     \/ handle = "open" /\ Fails("close") /\ handle' = "broken" /\ Goto("idle")
     \/ handle = "broken" /\ UNCHANGED <<handle, faults>> /\ Goto("idle")
  /\ UNCHANGED <<clock, disk, size, day, crashes>>

Rename ==
  /\ pc = "rename"
  /\ \/ /\ "rename" \notin Broken
        /\ \E name \in NamesOf(Stamp(now)) :
             /\ \/ Works("lookup") /\ name = rolledName(Stamp(now))
                \/ Fails("lookup") /\ name \in rolledNameBlind(Stamp(now))
             /\ archives' = [n \in DOMAIN archives \cup {name} |->
                               IF n = name THEN live ELSE archives[n]]
        /\ live' = NoFile
        /\ Goto("fresh")
     \/ /\ Fails("rename")
        /\ Goto("keep")
        /\ UNCHANGED <<live, archives>>
  /\ UNCHANGED <<clock, rotator, asked, pruned, crashes>>

\* After a failed rename: roll reopens the file and returns the error, and
\* Write returns it without having written.
Keep ==
  /\ pc = "keep"
  /\ Opened \/ NotOpened
  /\ Goto("idle")
  /\ UNCHANGED <<clock, crashes>>

\* (A mutant: the closed file stays in r.file when no new one can be opened.)
OpenFreshKeepsClosed ==
  /\ pc = "fresh"
  /\ \/ Opened /\ Goto("rollPrune")
     \/ Fails("open") /\ handle' = "broken" /\ UNCHANGED <<disk, size, day>> /\ Goto("idle")
  /\ UNCHANGED <<clock, crashes>>

OpenFresh ==
  /\ pc = "fresh"
  /\ \/ Opened /\ Goto("rollPrune")
     \/ NotOpened /\ Goto("idle")
  /\ UNCHANGED <<clock, crashes>>

RollPrune ==
  /\ pc = "rollPrune"
  /\ prune
  /\ Goto("append")
  /\ UNCHANGED <<clock, crashes>>

\* n bytes reach the file; only all of them make a line.
Put(n) ==
  /\ live' = [live EXCEPT !.size = @ + n,
                          !.writes = IF n > 0 THEN @ + 1 ELSE @,
                          !.mtime = IF n > 0 THEN clock ELSE @,
                          !.crossed = @ \/ (n > 0 /\ DayOf(clock) # DayOf(now)),
                          !.lines = IF n = len THEN @ \cup {Cardinality(lines) + 1} ELSE @]
  /\ size' = size + n
  /\ day' = IF day = NoDay THEN DayOf(now) ELSE day

Append ==
  /\ pc = "append"
  /\ LET id == Cardinality(lines) + 1 IN
     \/ /\ handle = "open" /\ Works("write") /\ Put(len)
        /\ asked' = [n \in lines \cup {id} |-> IF n = id THEN now ELSE asked[n]]
     \/ /\ handle = "open" /\ Fails("write") /\ \E n \in 0..(len - 1) : Put(n)
        /\ UNCHANGED asked
     \/ /\ handle = "broken"
        /\ day' = IF day = NoDay THEN DayOf(now) ELSE day
        /\ UNCHANGED <<live, size, asked, faults>>
  /\ Goto("idle")
  /\ UNCHANGED <<clock, archives, handle, pruned, crashes>>

-----------------------------------------------------------------------------
Close ==
  /\ pc = "idle" /\ handle # "nil"
  /\ handle' = "nil"
  /\ UNCHANGED <<clock, disk, size, day, pc, now, len, faults, crashes>>

\* The process dies; what the kernel was given stays.
Crash ==
  /\ pc # "down" /\ crashes < MaxCrashes
  /\ crashes' = crashes + 1
  /\ handle' = "nil" /\ size' = 0 /\ day' = NoDay
  /\ pc' = "down" /\ now' = 0 /\ len' = 0
  /\ \/ pc \in {"launchPrune", "rollPrune"} /\ pruneCut
     \/ UNCHANGED <<archives, pruned>>
  /\ UNCHANGED <<clock, live, asked, faults>>

Tick ==
  /\ clock < MaxClock
  /\ clock' = clock + 1
  /\ UNCHANGED <<disk, rotator, pc, now, len, faults, crashes>>

\* Somebody, or NTP, puts the clock back.
PutBack ==
  /\ "clock" \in Faults /\ faults < MaxFaults
  /\ faults' = faults + 1
  /\ clock' \in 0..(clock - 1)
  /\ UNCHANGED <<disk, rotator, pc, now, len, crashes>>

\* The service has no more lines to write.
Exhausted == Cardinality(lines) = MaxLines /\ pc = "idle" /\ UNCHANGED vars

newRotator == Launch \/ LaunchPrune

Write ==
  \/ \E l \in Lengths : BeginWrite(l)
  \/ Reopen \/ Check \/ CloseToRoll \/ Rename \/ Keep \/ OpenFresh \/ RollPrune \/ Append

Step == newRotator \/ Write

Next == Step \/ Close \/ Crash \/ Tick \/ PutBack \/ Exhausted

\* The service is restarted when it dies, goes on logging, and is scheduled.
Spec == Init /\ [][Next]_vars /\ WF_vars(Step)

-----------------------------------------------------------------------------
(* Properties.                                                              *)

Newer(m, n) == m.at > n.at \/ (m.at = n.at /\ m.i > n.i)

Holds(file) == IF file = NoFile THEN {} ELSE file.lines
AllFiles == {archives[n] : n \in DOMAIN archives} \cup ({live} \ {NoFile})

\* Every line that was written is in the live file or in an archive, unless
\* prune removed it: no roll, failed roll, crash or restart overwrites or
\* truncates a file, and no line is in two of them.
NothingLost ==
  /\ lines = pruned \cup UNION {file.lines : file \in AllFiles}
  /\ \A n \in DOMAIN archives : archives[n].lines \cap Holds(live) = {}
  /\ \A m, n \in DOMAIN archives : m # n => archives[m].lines \cap archives[n].lines = {}

\* The history reads in the order of the names, by the second and then by the
\* number (a directory lists "-10" before "-2"), and the live file comes last.
HistoryInOrder ==
  /\ \A m, n \in DOMAIN archives : Newer(m, n) =>
       \A x \in archives[m].lines, y \in archives[n].lines : x > y
  /\ \A n \in DOMAIN archives : \A x \in Holds(live), y \in archives[n].lines : x > y

\* No file accumulates two days, whether the day turned while the service ran
\* or while it was down.  The day of a line is the one Write read from the
\* clock; a file is exempt once midnight passed between that reading and the
\* write, because a restart takes its day from the modification time.
OneDayPerFile ==
  \A file \in AllFiles : ~file.crossed =>
    \A x, y \in file.lines : DayOf(asked[x]) = DayOf(asked[y])

\* No file outgrows the limit, except by a single write that is longer.
SizeBound ==
  MaxSize > 0 => \A file \in AllFiles : file.size > MaxSize => file.writes = 1

\* Between calls a running service keeps at most MaxFiles archives.
CapHonoured ==
  MaxFiles > 0 /\ pc \in {"idle", "check", "append"} => Cardinality(DOMAIN archives) <= MaxFiles

\* An archive within the retention window is only removed when, counting those
\* that stay, MaxFiles are left.
WindowHonoured ==
  [][\A n \in DOMAIN archives : n \notin DOMAIN archives' =>
       \/ RetainDays > 0 /\ n.at < clock - RetainDays * Day
       \/ MaxFiles > 0 /\ Cardinality(DOMAIN archives') >= MaxFiles]_vars

\* As long as nothing has failed, the archives of a running service are named
\* for times no further apart than the window: a roll, or the start after a
\* death between a roll and its prune, takes what the new archive has outlived.
HistorySpansTheWindow ==
  RetainDays > 0 /\ faults = 0 /\ pc \in {"idle", "check", "append"} =>
    \A m, n \in DOMAIN archives : m.at - n.at <= RetainDays * Day

\* A roll comes in a later second than every archive is named for.
RollsLater == pc = "rename" => \A n \in DOMAIN archives : n.at < Stamp(now)

\* Behind a line that is kept none is missing.
KeptIsTheTail ==
  LET kept == UNION {file.lines : file \in AllFiles} IN
  \A x \in kept, y \in lines : y > x => y \in kept

\* Pruning cuts the history at one point and makes no hole in it, even with a
\* clock put back, as long as each roll comes in a later second than those
\* before.  (Within one second a roll may take the name that a prune has just
\* freed, and then passes for older than the archives behind that name.)
NoHoles == []RollsLater => []KeptIsTheTail

\* One open, rename, write or removal that fails, or a crash, does not stop the
\* logging for good.  (A close that fails does: the file stays in r.file.)  "A
\* rename that fails must not take the service's logging with it."
LoggingGoesOn == <>(Cardinality(lines) = MaxLines)
=============================================================================
