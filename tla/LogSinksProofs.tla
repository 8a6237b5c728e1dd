--------------------------- MODULE LogSinksProofs ---------------------------
(***************************************************************************)
(* The log files, for every limit, window, line and failure: types, the    *)
(* size of a file, that nothing is lost, that a file keeps to one day,     *)
(* that the history reads in order, that the files implement ServiceLog,   *)
(* what prune leaves and takes (however a directory orders the names of    *)
(* one second, and wherever a crash cuts it), and what standard error is   *)
(* told.  Each step of LogSinks is a step of the rotator or leaves it      *)
(* alone, so what is shown of the rotator's steps holds behind the tee.    *)
(***************************************************************************)
EXTENDS LogSinks, FiniteSetTheorems, WellFoundedInduction, TLAPS

\* Stages at which a line is being written.
Writing == {"reopen", "check", "close", "rename", "keep", "fresh", "rollPrune", "append"}

\* Lines are numbered without a gap, and there is room for the one at hand.
Numbered ==
  /\ IsFiniteSet(lines) /\ lines = 1..Cardinality(lines)
  /\ Cardinality(lines) <= MaxLines
  /\ pc \in Writing => Cardinality(lines) < MaxLines /\ len \in Lengths

\* What handle and live are at each stage.
Control ==
  /\ pc \in {"down", "reopen", "rename", "keep", "fresh"} => handle = "nil"
  /\ pc \in {"launchPrune", "rollPrune"} => handle = "open"
  /\ pc \in {"check", "close", "append"} => handle # "nil"
  /\ handle = "open" \/ pc = "rename" => live # NoFile
  /\ pc = "fresh" => live = NoFile

Written ==
  /\ live # NoFile => live.lines \subseteq lines
  /\ \A n \in DOMAIN archives : archives[n].lines \subseteq lines

FiniteArchives == IsFiniteSet(DOMAIN archives)

TInv == TypeOK /\ Numbered /\ Control /\ Written /\ FiniteArchives

\* A step is the rotator's or none.
LEMMA SinksSteps == ASSUME [SinksNext]_sinkVars PROVE [Next]_vars
  BY DEF SinksNext, Work, Log, Console, File, Report, Die, sinkVars, Next, Step, Exhausted

LEMMA EmptyFileType == EmptyFile \in Files
  BY DEF EmptyFile, Files

LEMMA TInit == ASSUME Init PROVE TInv
<1>1. lines = {} /\ IsFiniteSet({}) /\ Cardinality({}) = 0
  BY FS_EmptySet DEF Init, lines
<1>2. lines = 1..0
  BY <1>1
<1> QED
  BY <1>1, <1>2, RotatorAssumption
  DEF Init, TInv, TypeOK, Numbered, Control, Written, FiniteArchives, Writing, Stages, NoDay,
      Names

\* The calendar.
LEMMA Days ==
  /\ \A t \in Nat : DayOf(t) \in Nat
  /\ \A s, t \in Nat : s <= t => DayOf(s) <= DayOf(t)
<1>1. ASSUME NEW d \in Nat \ {0}, NEW t \in Nat PROVE t \div d \in Nat
  BY <1>1
<1>2. ASSUME NEW d \in Nat \ {0}, NEW s \in Nat, NEW t \in Nat, s <= t
      PROVE s \div d <= t \div d
  BY <1>2
<1> QED
  BY <1>1, <1>2, RotatorAssumption DEF DayOf

LEMMA Stamps ==
  /\ \A t \in Nat : Stamp(t) \in Nat /\ Stamp(t) <= t /\ t < Stamp(t) + Second
  /\ \A s, t \in Nat : s <= t => Stamp(s) <= Stamp(t)
<1>1. ASSUME NEW d \in Nat \ {0}, NEW t \in Nat
      PROVE  t \div d \in Nat /\ (t \div d) * d <= t /\ t < (t \div d) * d + d
  BY <1>1
<1>2. ASSUME NEW d \in Nat \ {0}, NEW a \in Nat, NEW b \in Nat, a <= b PROVE a * d <= b * d
  BY <1>2
<1>3. ASSUME NEW d \in Nat \ {0}, NEW s \in Nat, NEW t \in Nat, s <= t
      PROVE s \div d <= t \div d
  BY <1>3
<1>4. ASSUME NEW a \in Nat, NEW d \in Nat PROVE a * d \in Nat
  BY <1>4
<1>5. Second \in Nat \ {0}
  BY RotatorAssumption
<1>6. ASSUME NEW t \in Nat PROVE Stamp(t) \in Nat /\ Stamp(t) <= t /\ t < Stamp(t) + Second
  BY <1>1, <1>4, <1>5 DEF Stamp
<1>7. ASSUME NEW s \in Nat, NEW t \in Nat, s <= t PROVE Stamp(s) <= Stamp(t)
  BY <1>1, <1>2, <1>3, <1>5, <1>7 DEF Stamp
<1> QED
  BY <1>6, <1>7

\* Opened finds the file or makes one.
LEMMA OpenedTypes ==
  ASSUME TypeOK, Opened
  PROVE  /\ handle' = "open" /\ live' \in Files /\ live' # NoFile
         /\ live # NoFile => live' = live
         /\ live = NoFile => live' = EmptyFile
         /\ size' \in Nat /\ day' \in Nat \cup {NoDay} /\ faults' \in 0..MaxFaults
         /\ UNCHANGED <<archives, asked, pruned>>
<1>1. live' \in Files /\ live' # NoFile
  BY EmptyFileType, FileAssumption DEF Opened, TypeOK
<1>2. live'.size \in Nat /\ live'.mtime \in Nat
  BY <1>1 DEF Files
<1>3. size' \in Nat /\ day' \in Nat \cup {NoDay}
  BY <1>2, Days DEF Opened
<1>4. faults' \in 0..MaxFaults
  BY RotatorAssumption DEF Opened, Works, Fails, TypeOK
<1> QED
  BY <1>1, <1>3, <1>4 DEF Opened

\* Where a step of newRotator or Write leaves a file that could not be opened.
LEMMA OpenKeeps ==
  ASSUME TInv, Opened \/ NotOpened, UNCHANGED <<clock, crashes>>,
         NEW s \in {"launchPrune", "check", "idle", "rollPrune"},
         NEW f \in {"down", "idle"},
         pc \in {"down", "reopen", "keep", "fresh"},
         s \in {"check", "rollPrune"} => pc \in Writing,
         \/ Opened /\ Goto(s)
         \/ NotOpened /\ Goto(f)
  PROVE  TInv'
<1>1. CASE Opened /\ Goto(s)
  <2>1. /\ handle' = "open" /\ live' \in Files /\ live' # NoFile
        /\ size' \in Nat /\ day' \in Nat \cup {NoDay} /\ faults' \in 0..MaxFaults
        /\ UNCHANGED <<archives, asked, pruned>>
    BY <1>1, OpenedTypes DEF TInv
  <2>2. UNCHANGED lines
    BY <2>1 DEF lines
  <2>3. pc' = s /\ now' \in Nat /\ len' \in Lengths \cup {0} /\ (s # "idle" => len' = len)
    BY <1>1 DEF Goto, TInv, TypeOK
  <2>4. TypeOK'
    BY <2>1, <2>2, <2>3 DEF TInv, TypeOK, Stages
  <2>5. Numbered'
    BY <2>2, <2>3 DEF TInv, Numbered, Writing
  <2>6. Control'
    BY <2>1, <2>3 DEF Control
  <2>7. Written'
    BY <1>1, <2>2, OpenedTypes DEF TInv, Written, EmptyFile
  <2> QED
    BY <2>1, <2>4, <2>5, <2>6, <2>7 DEF TInv, FiniteArchives
<1>2. CASE NotOpened /\ Goto(f)
  <2>1. UNCHANGED <<live, archives, asked, pruned, handle, size, day>> /\ faults' \in 0..MaxFaults
    BY <1>2, RotatorAssumption DEF NotOpened, Fails, disk, rotator, TInv, TypeOK
  <2>2. UNCHANGED lines
    BY <2>1 DEF lines
  <2>3. pc' = f /\ now' \in Nat /\ len' \in Lengths \cup {0}
    BY <1>2 DEF Goto, TInv, TypeOK
  <2>4. TypeOK' /\ Numbered'
    BY <2>1, <2>2, <2>3 DEF TInv, TypeOK, Stages, Numbered, Writing
  <2>5. Control' /\ Written'
    BY <2>1, <2>2, <2>3 DEF TInv, Control, Written
  <2> QED
    BY <2>1, <2>4, <2>5 DEF TInv, FiniteArchives
<1> QED
  BY <1>1, <1>2

-----------------------------------------------------------------------------
(* Removing archives, by a prune or by one that is cut short.               *)

\* The system calls that a hypothesis names never fail.
OpenWorks == "open" \notin Faults \cup Broken
RemoveWorks == "remove" \notin Faults \cup Broken

\* Some of the first archives of rolls() go, and all of those that are reached
\* if a removal cannot fail.
Takes(names, gone) ==
  /\ \A m \in names, n \in DOMAIN archives \ names : MayPrecede(m, n)
  /\ \/ Cardinality(names) = Cardinality(Expired) + Excess
     \/ Cardinality(names) \in 0..(Cardinality(Expired) + Excess)
  /\ gone \subseteq names /\ (RemoveWorks => gone = names)
  /\ Remove(gone)

Removal == \E names, gone \in SUBSET DOMAIN archives : Takes(names, gone)

LEMMA PruneRemoves ==
  ASSUME TypeOK, prune
  PROVE  Removal /\ UNCHANGED <<live, asked, handle, size, day>> /\ faults' \in 0..MaxFaults
<1>1. PICK names \in Doomed :
        \/ Works("remove") /\ Remove(names)
        \/ Fails("remove") /\ \E gone \in SUBSET names : Remove(gone)
  BY DEF prune
<1>2. PICK gone \in SUBSET names : Remove(gone) /\ (RemoveWorks => gone = names)
  BY <1>1 DEF Works, Fails, RemoveWorks
<1>3. /\ names \in SUBSET DOMAIN archives
      /\ Cardinality(names) = Cardinality(Expired) + Excess
      /\ \A m \in names, n \in DOMAIN archives \ names : MayPrecede(m, n)
  BY <1>1 DEF Doomed, Fronts
<1>4. Removal
  BY <1>2, <1>3 DEF Removal, Takes
<1>5. UNCHANGED <<live, asked, handle, size, day>>
  BY DEF prune, rotator
<1>6. faults' \in 0..MaxFaults
  BY <1>1, RotatorAssumption DEF Works, Fails, TypeOK
<1> QED
  BY <1>4, <1>5, <1>6

LEMMA CrashRemoves ==
  ASSUME Crash
  PROVE  /\ UNCHANGED <<clock, live, asked, faults>>
         /\ handle' = "nil" /\ size' = 0 /\ day' = NoDay
         /\ pc' = "down" /\ now' = 0 /\ len' = 0
         /\ \/ pc \in {"launchPrune", "rollPrune"} /\ Removal
            \/ UNCHANGED <<archives, pruned>>
<1>1. ASSUME pruneCut PROVE Removal
  <2>1. PICK k \in 0..(Cardinality(Expired) + Excess) : \E names \in Fronts(k) : Remove(names)
    BY <1>1 DEF pruneCut
  <2>2. PICK names \in Fronts(k) : Remove(names)
    BY <2>1
  <2>3. Takes(names, names) /\ names \in SUBSET DOMAIN archives
    BY <2>1, <2>2 DEF Fronts, Takes
  <2> QED
    BY <2>3 DEF Removal
<1> QED
  BY <1>1 DEF Crash

LEMMA RemovalTypes ==
  ASSUME Removal
  PROVE  /\ DOMAIN archives' \subseteq DOMAIN archives
         /\ \A n \in DOMAIN archives' : archives'[n] = archives[n]
         /\ pruned \subseteq pruned'
         /\ \A n \in DOMAIN archives : archives[n].lines \subseteq pruned' \/ n \in DOMAIN archives'
         /\ \A x \in pruned' : x \in pruned \/ \E n \in DOMAIN archives \ DOMAIN archives' :
                                                 x \in archives[n].lines
<1>1. PICK gone \in SUBSET DOMAIN archives : Remove(gone)
  BY DEF Removal, Takes
<1>2. /\ DOMAIN archives' = DOMAIN archives \ gone
      /\ \A n \in DOMAIN archives' : archives'[n] = archives[n]
  BY <1>1 DEF Remove
<1>3. pruned' = pruned \cup UNION {archives[n].lines : n \in gone}
  BY <1>1 DEF Remove
<1>4. \A n \in gone : archives[n].lines \subseteq pruned'
  BY <1>3
<1>5. \A x \in pruned' : x \in pruned \/ \E n \in DOMAIN archives \ DOMAIN archives' :
                                            x \in archives[n].lines
  BY <1>1, <1>2, <1>3
<1> QED
  BY <1>1, <1>2, <1>3, <1>4, <1>5

LEMMA Counts ==
  ASSUME FiniteArchives, NEW names \in SUBSET DOMAIN archives
  PROVE  /\ IsFiniteSet(names) /\ Cardinality(names) \in Nat /\ Cardinality(DOMAIN archives) \in Nat
         /\ IsFiniteSet(DOMAIN archives \ names) /\ Cardinality(DOMAIN archives \ names) \in Nat
         /\ Cardinality(DOMAIN archives \ names) = Cardinality(DOMAIN archives) - Cardinality(names)
<1>1. DOMAIN archives \cap names = names
  OBVIOUS
<1> QED
  <2>1. IsFiniteSet(DOMAIN archives) /\ IsFiniteSet(names)
    BY FS_Subset DEF FiniteArchives
  <2>2. /\ IsFiniteSet(DOMAIN archives \ names)
        /\ Cardinality(DOMAIN archives \ names) =
             Cardinality(DOMAIN archives) - Cardinality(DOMAIN archives \cap names)
    BY <2>1, FS_Difference
  <2>3. /\ Cardinality(names) \in Nat /\ Cardinality(DOMAIN archives) \in Nat
        /\ Cardinality(DOMAIN archives \ names) \in Nat
    BY <2>1, <2>2, FS_CardinalityType
  <2> QED
    BY <1>1, <2>1, <2>2, <2>3

LEMMA ExcessCount ==
  ASSUME FiniteArchives
  PROVE  /\ Expired \in SUBSET DOMAIN archives /\ MaxFiles \in Nat
         /\ found \in Nat /\ found = Cardinality(DOMAIN archives) - Cardinality(Expired)
         /\ Excess \in Nat
<1>1. Expired \in SUBSET DOMAIN archives
  BY DEF Expired
<1>2. found \in Nat /\ found = Cardinality(DOMAIN archives) - Cardinality(Expired)
  BY <1>1, Counts DEF found
<1> QED
  BY <1>1, <1>2, RotatorAssumption DEF Excess

\* What may precede an expired archive is expired itself.
LEMMA ExpiredFirst ==
  ASSUME TypeOK, NEW e \in Expired, NEW n \in DOMAIN archives, MayPrecede(n, e)
  PROVE  n \in Expired
<1>1. e \in DOMAIN archives /\ RetainDays > 0 /\ e.at < clock - RetainDays * Day
  BY DEF Expired
<1>2. n.at \in Nat /\ e.at \in Nat /\ clock \in Nat /\ RetainDays * Day \in Nat
  BY <1>1, RotatorAssumption DEF TypeOK, Names
<1>3. n.at <= e.at
  BY <1>2 DEF MayPrecede
<1> QED
  BY <1>1, <1>2, <1>3 DEF Expired

\* What prune goes about to remove is all that is expired, and leaves no more
\* than MaxFiles.
LEMMA DoomedCount ==
  ASSUME TypeOK, FiniteArchives, NEW names \in Doomed
  PROVE  /\ Expired \subseteq names
         /\ MaxFiles > 0 => Cardinality(DOMAIN archives \ names) <= MaxFiles
<1>1. /\ names \in SUBSET DOMAIN archives
      /\ Cardinality(names) = Cardinality(Expired) + Excess
      /\ \A m \in names, n \in DOMAIN archives \ names : MayPrecede(m, n)
  BY DEF Doomed, Fronts
<1>2. /\ Expired \in SUBSET DOMAIN archives /\ Cardinality(Expired) \in Nat
      /\ found \in Nat /\ found = Cardinality(DOMAIN archives) - Cardinality(Expired)
      /\ Excess \in Nat /\ MaxFiles \in Nat
  BY ExcessCount, Counts
<1>3. /\ IsFiniteSet(names) /\ Cardinality(names) \in Nat /\ Cardinality(DOMAIN archives) \in Nat
      /\ Cardinality(DOMAIN archives \ names) = Cardinality(DOMAIN archives) - Cardinality(names)
  BY <1>1, Counts
<1>4. Expired \subseteq names
  <2> SUFFICES ASSUME NEW e \in Expired, e \notin names PROVE FALSE
    OBVIOUS
  <2>1. names \in SUBSET Expired /\ names # Expired
    BY <1>1, <1>2, ExpiredFirst
  <2>2. IsFiniteSet(Expired)
    BY <1>2, Counts
  <2>3. Cardinality(names) <= Cardinality(Expired) /\ Cardinality(names) # Cardinality(Expired)
    BY <2>1, <2>2, FS_Subset
  <2> QED
    BY <1>1, <1>2, <1>3, <2>3
<1>5. MaxFiles > 0 => found - Excess <= MaxFiles
  BY <1>2 DEF Excess
<1> QED
  BY <1>1, <1>2, <1>3, <1>4, <1>5

\* What is removed is expired, or MaxFiles archives stay.
LEMMA RemovalSpares ==
  ASSUME TypeOK, FiniteArchives, Removal, NEW n \in DOMAIN archives, n \notin DOMAIN archives'
  PROVE  n \in Expired \/ (MaxFiles > 0 /\ Cardinality(DOMAIN archives') >= MaxFiles)
<1> SUFFICES ASSUME n \notin Expired
             PROVE  MaxFiles > 0 /\ Cardinality(DOMAIN archives') >= MaxFiles
  OBVIOUS
<1>1. PICK names, gone \in SUBSET DOMAIN archives : Takes(names, gone)
  BY DEF Removal
<1>2. /\ DOMAIN archives' = DOMAIN archives \ gone /\ n \in names
      /\ DOMAIN archives \ names \in SUBSET DOMAIN archives'
  BY <1>1 DEF Takes, Remove
<1>3. /\ Expired \in SUBSET DOMAIN archives /\ IsFiniteSet(Expired) /\ Cardinality(Expired) \in Nat
      /\ found \in Nat /\ found = Cardinality(DOMAIN archives) - Cardinality(Expired)
      /\ Excess \in Nat /\ MaxFiles \in Nat
  BY ExcessCount, Counts
<1>4. /\ IsFiniteSet(names) /\ Cardinality(names) \in Nat /\ Cardinality(DOMAIN archives) \in Nat
      /\ Cardinality(DOMAIN archives \ names) = Cardinality(DOMAIN archives) - Cardinality(names)
  BY <1>1, Counts
<1>5. Cardinality(names) > Cardinality(Expired)
  <2>1. Expired \subseteq names
    BY <1>1, <1>2, <1>3, ExpiredFirst DEF Takes
  <2>2. Expired \in SUBSET names /\ names # Expired
    BY <1>2, <2>1
  <2>3. Cardinality(Expired) <= Cardinality(names) /\ Cardinality(names) # Cardinality(Expired)
    BY <1>4, <2>2, FS_Subset
  <2> QED
    BY <1>3, <1>4, <2>3
<1>6. Cardinality(names) <= Cardinality(Expired) + Excess
  BY <1>1, <1>3, <1>4 DEF Takes
<1>7. MaxFiles > 0 /\ Excess = found - MaxFiles
  BY <1>3, <1>4, <1>5, <1>6 DEF Excess
<1>8. /\ Cardinality(DOMAIN archives \ names) <= Cardinality(DOMAIN archives')
      /\ Cardinality(DOMAIN archives') \in Nat
  <2>1. IsFiniteSet(DOMAIN archives') /\ Cardinality(DOMAIN archives') \in Nat
    BY <1>1, <1>2, Counts
  <2> QED
    BY <1>2, <2>1, FS_Subset
<1> QED
  BY <1>3, <1>4, <1>6, <1>7, <1>8

LEMMA RemovalKeeps ==
  ASSUME TInv, Removal, UNCHANGED <<live, asked>>
  PROVE  /\ DOMAIN archives' \subseteq Names /\ \A n \in DOMAIN archives' : archives'[n] \in Files
         /\ UNCHANGED lines /\ pruned' \subseteq lines'
         /\ Written' /\ FiniteArchives'
<1>1. /\ DOMAIN archives' \subseteq DOMAIN archives
      /\ \A n \in DOMAIN archives' : archives'[n] = archives[n]
      /\ \A x \in pruned' : x \in pruned \/ \E n \in DOMAIN archives : x \in archives[n].lines
  BY RemovalTypes
<1>2. pruned' \subseteq lines /\ UNCHANGED lines
  BY <1>1 DEF TInv, TypeOK, Written, lines
<1>3. Written'
  BY <1>1, <1>2 DEF TInv, Written
<1>4. FiniteArchives'
  BY <1>1, FS_Subset DEF TInv, FiniteArchives
<1> QED
  BY <1>1, <1>2, <1>3, <1>4 DEF TInv, TypeOK

LEMMA PruneKeeps ==
  ASSUME TInv, prune, NEW s \in {"idle", "append"}, Goto(s), UNCHANGED <<clock, crashes>>,
         pc = IF s = "idle" THEN "launchPrune" ELSE "rollPrune"
  PROVE  TInv'
<1>1. /\ UNCHANGED <<live, asked, handle, size, day>> /\ faults' \in 0..MaxFaults
      /\ DOMAIN archives' \subseteq Names /\ \A n \in DOMAIN archives' : archives'[n] \in Files
      /\ UNCHANGED lines /\ pruned' \subseteq lines' /\ Written' /\ FiniteArchives'
  BY PruneRemoves, RemovalKeeps DEF TInv
<1>2. pc' = s /\ now' \in Nat /\ len' \in Lengths \cup {0} /\ (s # "idle" => len' = len)
  BY DEF Goto, TInv, TypeOK
<1>3. TypeOK'
  BY <1>1, <1>2 DEF TInv, TypeOK, Stages
<1>4. Numbered'
  BY <1>1, <1>2 DEF TInv, Numbered, Writing
<1>5. Control'
  BY <1>1, <1>2 DEF TInv, Control
<1> QED
  BY <1>1, <1>3, <1>4, <1>5 DEF TInv

LEMMA CrashKeeps == ASSUME TInv, Crash PROVE TInv'
<1>1. /\ UNCHANGED <<clock, live, asked, faults>>
      /\ handle' = "nil" /\ size' = 0 /\ day' = NoDay
      /\ pc' = "down" /\ now' = 0 /\ len' = 0
      /\ Removal \/ UNCHANGED <<archives, pruned>>
  BY CrashRemoves
<1>2. /\ DOMAIN archives' \subseteq Names /\ \A n \in DOMAIN archives' : archives'[n] \in Files
      /\ UNCHANGED lines /\ pruned' \subseteq lines' /\ Written' /\ FiniteArchives'
  <2>1. CASE Removal
    BY <1>1, <2>1, RemovalKeeps
  <2>2. CASE UNCHANGED <<archives, pruned>>
    BY <1>1, <2>2 DEF TInv, TypeOK, Written, FiniteArchives, lines
  <2> QED
    BY <1>1, <2>1, <2>2
<1>3. crashes' \in 0..MaxCrashes
  BY RotatorAssumption DEF Crash, TInv, TypeOK
<1>4. TypeOK'
  BY <1>1, <1>2, <1>3 DEF TInv, TypeOK, Stages
<1>5. Numbered' /\ Control'
  BY <1>1, <1>2 DEF TInv, Numbered, Control, Writing
<1> QED
  BY <1>2, <1>4, <1>5 DEF TInv

-----------------------------------------------------------------------------
(* Rolling a file aside.                                                    *)

LookupWorks == "lookup" \notin Faults \cup Broken

\* A free name is left within the second of the roll; where the search for it
\* can fail, that is the last one.
NamesLast ==
  pc = "rename" =>
    IF LookupWorks THEN \E i \in 0..(NameLimit - 1) : [at |-> Stamp(now), i |-> i] \notin DOMAIN archives
    ELSE [at |-> Stamp(now), i |-> NameLimit - 1] \notin DOMAIN archives

\* rolledName gives a name of that second, a free one if there is one, and none
\* above a free one.
LEMMA NameFound ==
  ASSUME NEW s \in Nat
  PROVE  /\ rolledName(s) \in Names /\ rolledName(s).at = s
         /\ (\E i \in 0..(NameLimit - 1) : [at |-> s, i |-> i] \notin DOMAIN archives)
              => rolledName(s) \notin DOMAIN archives
         /\ \A j \in 0..(rolledName(s).i - 1) : [at |-> s, i |-> j] \in DOMAIN archives
<1> DEFINE Taken(i) == [at |-> s, i |-> i] \in DOMAIN archives
           T == {i \in 0..(NameLimit - 1) : ~Taken(i) \/ i = NameLimit - 1}
           Fits(n) == /\ n \notin DOMAIN archives \/ n.i = NameLimit - 1
                      /\ \A j \in 0..(n.i - 1) : [at |-> s, i |-> j] \in DOMAIN archives
<1>1. T \subseteq Nat /\ NameLimit - 1 \in T
  BY RotatorAssumption
<1>2. PICK x \in T : \A y \in T : <<y, x>> \notin OpToRel(<, Nat)
  <2> HIDE DEF T
  <2> QED
    BY <1>1, WFMin, NatLessThanWellFounded
<1>3. \A y \in T : ~(y < x)
  BY <1>1, <1>2 DEF OpToRel
<1>4. \A j \in 0..(x - 1) : Taken(j)
  BY <1>1, <1>3, RotatorAssumption
<1> DEFINE w == [at |-> s, i |-> x]
<1>5. w \in NamesOf(s) /\ Fits(w)
  BY <1>4 DEF NamesOf
<1>6. rolledName(s) \in NamesOf(s) /\ Fits(rolledName(s))
  <2> HIDE DEF w
  <2> QED
    BY <1>5 DEF rolledName
<1>7. ASSUME NEW i \in 0..(NameLimit - 1), ~Taken(i), rolledName(s) \in DOMAIN archives
      PROVE  FALSE
  <2>1. rolledName(s).i = NameLimit - 1 /\ rolledName(s) = [at |-> s, i |-> NameLimit - 1]
    BY <1>6, <1>7 DEF NamesOf
  <2>2. i \notin 0..(rolledName(s).i - 1)
    BY <1>6, <1>7
  <2>3. i = NameLimit - 1
    BY <2>1, <2>2, RotatorAssumption
  <2> QED
    BY <2>1, <2>3, <1>7
<1>8. rolledName(s) \in Names /\ rolledName(s).at = s
  BY <1>6 DEF Names, NamesOf
<1>9. \A j \in 0..(rolledName(s).i - 1) : Taken(j)
  BY <1>6
<1> QED
  BY <1>7, <1>8, <1>9

\* What a roll that succeeds does to the files.
Rolled(name) ==
  /\ pc = "rename" /\ pc' = "fresh" /\ name \in Names /\ name.at = Stamp(now)
  /\ live # NoFile /\ live' = NoFile
  /\ DOMAIN archives' = DOMAIN archives \cup {name}
  /\ \A n \in DOMAIN archives' : archives'[n] = IF n = name THEN live ELSE archives[n]
  /\ NamesLast => name \notin DOMAIN archives
  /\ LookupWorks => \A j \in 0..(name.i - 1) : [at |-> Stamp(now), i |-> j] \in DOMAIN archives
  /\ faults' \in 0..MaxFaults
  /\ UNCHANGED <<clock, handle, size, day, asked, pruned, now, len, crashes>>

LEMMA RolledAside == ASSUME TInv, Rename, pc' # "keep" PROVE \E name : Rolled(name)
<1>1. pc = "rename" /\ now \in Nat /\ Stamp(now) \in Nat /\ NameLimit \in Nat \ {0}
  <2>1. pc = "rename" /\ now \in Nat
    BY DEF Rename, TInv, TypeOK
  <2>2. NameLimit \in Nat \ {0}
    BY RotatorAssumption
  <2> QED
    BY <2>1, <2>2, Stamps
<1>2. /\ Goto("fresh") /\ live' = NoFile /\ UNCHANGED <<clock, rotator, asked, pruned, crashes>>
      /\ \E name \in NamesOf(Stamp(now)) :
           /\ \/ Works("lookup") /\ name = rolledName(Stamp(now))
              \/ Fails("lookup") /\ name \in rolledNameBlind(Stamp(now))
           /\ archives' = [n \in DOMAIN archives \cup {name} |->
                             IF n = name THEN live ELSE archives[n]]
  BY DEF Rename, Goto
<1>3. PICK name \in NamesOf(Stamp(now)) :
        /\ \/ Works("lookup") /\ name = rolledName(Stamp(now))
           \/ Fails("lookup") /\ name \in rolledNameBlind(Stamp(now))
        /\ archives' = [n \in DOMAIN archives \cup {name} |->
                          IF n = name THEN live ELSE archives[n]]
  BY <1>2
<1>4. name \in Names /\ name.at = Stamp(now) /\ name = [at |-> Stamp(now), i |-> name.i]
  BY <1>1, <1>3 DEF Names, NamesOf
<1>5. ASSUME NamesLast PROVE name \notin DOMAIN archives
  <2>1. \E i \in 0..(NameLimit - 1) : [at |-> Stamp(now), i |-> i] \notin DOMAIN archives
    BY <1>1, <1>5 DEF NamesLast
  <2>2. CASE name = rolledName(Stamp(now))
    BY <1>1, <2>1, <2>2, NameFound
  <2>3. CASE Fails("lookup") /\ name \in rolledNameBlind(Stamp(now))
    BY <1>1, <1>4, <1>5, <2>3 DEF NamesLast, LookupWorks, Fails, rolledNameBlind
  <2> QED
    BY <1>3, <2>2, <2>3
<1>6. LookupWorks => \A j \in 0..(name.i - 1) : [at |-> Stamp(now), i |-> j] \in DOMAIN archives
  BY <1>1, <1>3, NameFound DEF LookupWorks, Fails
<1>7. faults' \in 0..MaxFaults
  BY <1>3, RotatorAssumption DEF Works, Fails, TInv, TypeOK
<1>8. pc' = "fresh" /\ UNCHANGED <<now, len, handle, size, day>>
  BY <1>2 DEF Goto, rotator
<1>9. live # NoFile
  BY <1>1 DEF TInv, Control
<1>10. /\ DOMAIN archives' = DOMAIN archives \cup {name}
       /\ \A n \in DOMAIN archives' : archives'[n] = IF n = name THEN live ELSE archives[n]
  BY <1>3
<1> QED
  BY <1>1, <1>2, <1>4, <1>5, <1>6, <1>7, <1>8, <1>9, <1>10 DEF Rolled

LEMMA RenameTypes == ASSUME TInv, Rename PROVE TInv'
<1>1. CASE pc' = "keep"
  <2>1. /\ UNCHANGED <<live, archives, clock, handle, size, day, asked, pruned, now, len, crashes>>
        /\ pc = "rename" /\ faults' \in 0..MaxFaults
    BY <1>1, RotatorAssumption DEF Rename, Goto, Fails, rotator, TInv, TypeOK
  <2>2. UNCHANGED lines
    BY <2>1 DEF lines
  <2> QED
    BY <1>1, <2>1, <2>2
    DEF TInv, TypeOK, Numbered, Control, Written, FiniteArchives, Writing, Stages
<1>2. CASE pc' # "keep"
  <2>0. PICK name : Rolled(name)
    BY <1>2, RolledAside
  <2>1. /\ pc = "rename" /\ pc' = "fresh" /\ name \in Names
        /\ live # NoFile /\ live' = NoFile
        /\ DOMAIN archives' = DOMAIN archives \cup {name}
        /\ \A n \in DOMAIN archives' :
             archives'[n] = IF n = name THEN live ELSE archives[n]
        /\ UNCHANGED <<clock, handle, size, day, asked, pruned, now, len, crashes>>
        /\ faults' \in 0..MaxFaults
    BY <2>0 DEF Rolled
  <2>2. UNCHANGED lines
    BY <2>1 DEF lines
  <2>3. live \in Files /\ live.lines \subseteq lines
    BY <2>1 DEF TInv, TypeOK, Written
  <2>4. TypeOK'
    BY <2>1, <2>2, <2>3 DEF TInv, TypeOK, Stages
  <2>5. Numbered' /\ Control' /\ Written'
    BY <2>1, <2>2, <2>3 DEF TInv, Numbered, Control, Written, Writing
  <2>6. FiniteArchives'
    BY <2>1, FS_AddElement DEF TInv, FiniteArchives
  <2> QED
    BY <2>4, <2>5, <2>6 DEF TInv
<1> QED
  BY <1>1, <1>2

-----------------------------------------------------------------------------
(* Bytes reach the live file.                                               *)

\* What Append does: n bytes of the line are written, all of them or fewer.
Wrote(n) ==
  /\ live' = [live EXCEPT !.size = @ + n,
                          !.writes = IF n > 0 THEN @ + 1 ELSE @,
                          !.mtime = IF n > 0 THEN clock ELSE @,
                          !.crossed = @ \/ (n > 0 /\ DayOf(clock) # DayOf(now)),
                          !.lines = IF n = len THEN @ \cup {Cardinality(lines) + 1} ELSE @]
  /\ size' = size + n
  /\ asked' = IF n = len THEN [x \in lines \cup {Cardinality(lines) + 1} |->
                                 IF x = Cardinality(lines) + 1 THEN now ELSE asked[x]]
              ELSE asked

LEMMA AppendEffect ==
  ASSUME TInv, Append
  PROVE  /\ UNCHANGED <<clock, archives, handle, pruned, crashes>>
         /\ faults' \in 0..MaxFaults /\ pc = "append" /\ pc' = "idle" /\ now' = 0 /\ len' = 0
         /\ day' = IF day = NoDay THEN DayOf(now) ELSE day
         /\ now \in Nat /\ len \in Nat \ {0}
         /\ \/ handle = "broken" /\ UNCHANGED <<live, size, asked>>
            \/ handle = "open" /\ live # NoFile /\ live \in Files /\ \E n \in 0..len : Wrote(n)
<1>1. pc = "append" /\ len \in Nat \ {0} /\ now \in Nat
  BY RotatorAssumption DEF Append, TInv, Numbered, Writing, TypeOK
<1>2. faults' \in 0..MaxFaults
  BY RotatorAssumption DEF Append, Works, Fails, TInv, TypeOK
<1>3. UNCHANGED <<clock, archives, handle, pruned, crashes>> /\ Goto("idle")
  BY DEF Append
<1>4. handle = "open" => live # NoFile /\ live \in Files
  BY DEF TInv, Control, TypeOK
<1>5. CASE handle = "open" /\ Works("write") /\ Put(len) /\
           asked' = [x \in lines \cup {Cardinality(lines) + 1} |->
                       IF x = Cardinality(lines) + 1 THEN now ELSE asked[x]]
  <2>1. Wrote(len) /\ len \in 0..len
    BY <1>1, <1>5 DEF Put, Wrote
  <2> QED
    BY <1>1, <1>2, <1>3, <1>4, <1>5, <2>1 DEF Put, Goto
<1>6. ASSUME handle = "open", NEW n \in 0..(len - 1), Put(n), UNCHANGED asked
      PROVE  Wrote(n) /\ n \in 0..len /\ day' = IF day = NoDay THEN DayOf(now) ELSE day
  BY <1>1, <1>6 DEF Put, Wrote
<1>7. CASE handle = "broken" /\ UNCHANGED <<live, size, asked, faults>>
           /\ day' = IF day = NoDay THEN DayOf(now) ELSE day
  BY <1>1, <1>2, <1>3, <1>7 DEF Goto
<1>8. \/ handle = "open" /\ Works("write") /\ Put(len) /\
           asked' = [x \in lines \cup {Cardinality(lines) + 1} |->
                       IF x = Cardinality(lines) + 1 THEN now ELSE asked[x]]
      \/ handle = "open" /\ UNCHANGED asked /\ \E n \in 0..(len - 1) : Put(n)
      \/ handle = "broken" /\ UNCHANGED <<live, size, asked, faults>>
           /\ day' = IF day = NoDay THEN DayOf(now) ELSE day
  BY DEF Append
<1>9. CASE handle = "open" /\ UNCHANGED asked /\ \E n \in 0..(len - 1) : Put(n)
  BY <1>1, <1>2, <1>3, <1>4, <1>6, <1>9 DEF Goto
<1> QED
  BY <1>5, <1>7, <1>8, <1>9

\* The file, and the lines there are, after n bytes.
LEMMA WroteEffect ==
  ASSUME TInv, NEW n \in 0..len, Wrote(n), live \in Files, now \in Nat, len \in Nat \ {0},
         pc = "append"
  PROVE  /\ live' \in Files
         /\ live'.size = live.size + n
         /\ live'.writes = IF n > 0 THEN live.writes + 1 ELSE live.writes
         /\ live'.mtime = IF n > 0 THEN clock ELSE live.mtime
         /\ live'.crossed = (live.crossed \/ (n > 0 /\ DayOf(clock) # DayOf(now)))
         /\ size' = size + n
         /\ n # len => UNCHANGED <<asked, lines>> /\ live'.lines = live.lines
         /\ LET id == Cardinality(lines) + 1 IN
            n = len =>
              /\ id \notin lines /\ lines' = lines \cup {id} /\ live'.lines = live.lines \cup {id}
              /\ asked' = [x \in lines \cup {id} |-> IF x = id THEN now ELSE asked[x]]
              /\ IsFiniteSet(lines') /\ Cardinality(lines') = id /\ lines' = 1..id
              /\ id <= MaxLines
<1> DEFINE id == Cardinality(lines) + 1
<1>1. /\ IsFiniteSet(lines) /\ lines = 1..Cardinality(lines) /\ Cardinality(lines) \in Nat
      /\ Cardinality(lines) < MaxLines /\ MaxLines \in Nat
  BY FS_CardinalityType, RotatorAssumption DEF TInv, Numbered, Writing
<1>2. id \in 1..MaxLines /\ id \notin lines /\ lines \cup {id} = 1..id
  BY <1>1
<1>3. IsFiniteSet(lines \cup {id}) /\ Cardinality(lines \cup {id}) = id
  BY <1>1, <1>2, FS_AddElement
<1>4. clock \in Nat
  BY DEF TInv, TypeOK
<1> HIDE DEF id
<1>5. /\ live'.size = live.size + n
      /\ live'.writes = IF n > 0 THEN live.writes + 1 ELSE live.writes
      /\ live'.mtime = IF n > 0 THEN clock ELSE live.mtime
      /\ live'.crossed = (live.crossed \/ (n > 0 /\ DayOf(clock) # DayOf(now)))
      /\ live'.lines = IF n = len THEN live.lines \cup {id} ELSE live.lines
  BY DEF Wrote, Files, id
<1>6. live' \in Files
  <2> DEFINE crossing == n > 0 /\ DayOf(clock) # DayOf(now)
  <2>1. /\ live.size + n \in Nat
        /\ (IF n > 0 THEN live.writes + 1 ELSE live.writes) \in Nat
        /\ (IF n > 0 THEN clock ELSE live.mtime) \in Nat
    BY <1>4 DEF Files
  <2>2. (live.crossed \/ crossing) \in BOOLEAN
    OBVIOUS
  <2>3. (IF n = len THEN live.lines \cup {id} ELSE live.lines) \in SUBSET (1..MaxLines)
    BY <1>2 DEF Files, id
  <2>4. live' = [live EXCEPT !.size = @ + n,
                             !.writes = IF n > 0 THEN @ + 1 ELSE @,
                             !.mtime = IF n > 0 THEN clock ELSE @,
                             !.crossed = @ \/ crossing,
                             !.lines = IF n = len THEN @ \cup {id} ELSE @]
    BY DEF Wrote, id
  <2> HIDE DEF crossing
  <2> QED
    BY <2>1, <2>2, <2>3, <2>4 DEF Files
<1>7. n # len => UNCHANGED <<asked, lines>>
  BY DEF Wrote, lines
<1>8. n = len => /\ lines' = lines \cup {id}
                 /\ asked' = [x \in lines \cup {id} |-> IF x = id THEN now ELSE asked[x]]
  BY DEF Wrote, lines, id
<1>9. size' = size + n
  BY DEF Wrote
<1>10. n = len =>
         /\ id \notin lines /\ lines' = lines \cup {id} /\ live'.lines = live.lines \cup {id}
         /\ asked' = [x \in lines \cup {id} |-> IF x = id THEN now ELSE asked[x]]
         /\ IsFiniteSet(lines') /\ Cardinality(lines') = id /\ lines' = 1..id
         /\ id <= MaxLines
  <2>1. id <= MaxLines
    BY <1>2, <1>1
  <2> QED
    BY <1>2, <1>3, <1>5, <1>8, <2>1
<1>11. n # len => UNCHANGED <<asked, lines>> /\ live'.lines = live.lines
  BY <1>5, <1>7
<1> USE DEF id
<1> QED
  BY <1>5, <1>6, <1>9, <1>10, <1>11, Zenon

LEMMA AppendTypes == ASSUME TInv, Append PROVE TInv'
<1>1. /\ UNCHANGED <<clock, archives, handle, pruned, crashes>>
      /\ faults' \in 0..MaxFaults /\ pc = "append" /\ pc' = "idle" /\ now' = 0 /\ len' = 0
      /\ day' = IF day = NoDay THEN DayOf(now) ELSE day
      /\ now \in Nat /\ len \in Nat \ {0} /\ day' \in Nat \cup {NoDay}
  BY AppendEffect, Days DEF TInv, TypeOK
<1>2. CASE handle = "broken" /\ UNCHANGED <<live, size, asked>>
  <2>1. UNCHANGED lines
    BY <1>2 DEF lines
  <2> QED
    BY <1>1, <1>2, <2>1
    DEF TInv, TypeOK, Numbered, Control, Written, FiniteArchives, Writing, Stages
<1>3. ASSUME handle = "open", live \in Files, NEW n \in 0..len, Wrote(n) PROVE TInv'
  <2>1. /\ live' \in Files /\ size' = size + n /\ live' # NoFile
        /\ n # len => UNCHANGED <<asked, lines>> /\ live'.lines = live.lines
    BY <1>1, <1>3, WroteEffect, FileAssumption
  <2>2. size' \in Nat
    BY <1>1, <2>1 DEF TInv, TypeOK
  <2>3. live.lines \subseteq lines
    BY <1>3 DEF TInv, Control, Written
  <2>4. Control'
    BY <1>1, <1>3, <2>1 DEF Control
  <2>5. CASE n # len
    BY <1>1, <2>1, <2>2, <2>3, <2>4, <2>5
    DEF TInv, TypeOK, Numbered, Written, FiniteArchives, Writing, Stages
  <2>6. CASE n = len
    <3> DEFINE id == Cardinality(lines) + 1
    <3>1. /\ lines' = lines \cup {id} /\ live'.lines = live.lines \cup {id}
          /\ asked' = [x \in lines \cup {id} |-> IF x = id THEN now ELSE asked[x]]
          /\ IsFiniteSet(lines') /\ Cardinality(lines') = id /\ lines' = 1..id
          /\ id <= MaxLines
      BY <1>1, <1>3, <2>6, WroteEffect
    <3> HIDE DEF id
    <3>2. \A x \in lines' : asked'[x] \in Nat
      BY <1>1, <3>1 DEF TInv, TypeOK
    <3>3. lines' \subseteq 1..MaxLines
      BY <3>1, RotatorAssumption, FS_CardinalityType
    <3>4. TypeOK'
      BY <1>1, <2>1, <2>2, <3>1, <3>2, <3>3 DEF TInv, TypeOK, Stages
    <3>5. Numbered' /\ Written' /\ FiniteArchives'
      BY <1>1, <2>1, <2>3, <3>1 DEF TInv, Numbered, Written, FiniteArchives, Writing
    <3> QED
      BY <2>4, <3>4, <3>5 DEF TInv
  <2> QED
    BY <2>5, <2>6
<1> QED
  BY <1>2, <1>3, AppendEffect

-----------------------------------------------------------------------------
(* Types.                                                                   *)

\* Calls that only move control.
LEMMA QuietTypes ==
  ASSUME TInv, \/ \E l \in Lengths : BeginWrite(l)
               \/ Check \/ CloseToRoll \/ Close \/ Tick \/ PutBack
  PROVE  TInv'
<1>1. UNCHANGED disk
  BY DEF BeginWrite, Check, CloseToRoll, Close, Tick, PutBack, disk
<1>2. UNCHANGED lines
  BY <1>1 DEF disk, lines
<1> USE <1>1, <1>2, RotatorAssumption DEF disk, FiniteArchives
<1>3. CASE \E l \in Lengths : BeginWrite(l)
  BY <1>3 DEF BeginWrite, rotator, TInv, TypeOK, Numbered, Control, Written, Writing, Stages
<1>4. CASE Check
  BY <1>4 DEF Check, rotator, TInv, TypeOK, Numbered, Control, Written, Writing, Stages
<1>5. CASE CloseToRoll
  <2>1. faults' \in 0..MaxFaults
    BY <1>5 DEF CloseToRoll, Works, Fails, TInv, TypeOK
  <2> QED
    BY <1>5, <2>1
    DEF CloseToRoll, Goto, TInv, TypeOK, Numbered, Control, Written, Writing, Stages
<1>6. CASE Close
  BY <1>6 DEF Close, TInv, TypeOK, Numbered, Control, Written, Writing, Stages
<1>8. CASE Tick
  BY <1>8 DEF Tick, rotator, TInv, TypeOK, Numbered, Control, Written, Writing, Stages
<1>9. CASE PutBack
  BY <1>9 DEF PutBack, rotator, TInv, TypeOK, Numbered, Control, Written, Writing, Stages
<1> QED
  BY <1>3, <1>4, <1>5, <1>6, <1>8, <1>9

LEMMA TStep == ASSUME TInv, [Next]_vars PROVE TInv'
<1>1. CASE Launch
  BY <1>1, OpenKeeps DEF Launch
<1>2. CASE Reopen
  BY <1>2, OpenKeeps DEF Reopen, Writing
<1>3. CASE Keep
  <2>1. (Opened /\ Goto("idle")) \/ (NotOpened /\ Goto("idle"))
    BY <1>3 DEF Keep
  <2> QED
    BY <1>3, <2>1, OpenKeeps DEF Keep
<1>4. CASE OpenFresh
  BY <1>4, OpenKeeps DEF OpenFresh, Writing
<1>5. CASE LaunchPrune
  BY <1>5, PruneKeeps DEF LaunchPrune
<1>6. CASE RollPrune
  BY <1>6, PruneKeeps DEF RollPrune
<1>7. CASE UNCHANGED vars
  BY <1>7 DEF vars, lines, TInv, TypeOK, Numbered, Control, Written, FiniteArchives
<1>8. CASE Exhausted
  BY <1>7, <1>8 DEF Exhausted
<1> QED
  BY <1>1, <1>2, <1>3, <1>4, <1>5, <1>6, <1>7, <1>8, QuietTypes, RenameTypes, AppendTypes, CrashKeeps
  DEF Next, Step, newRotator, Write

LEMMA Typed == SinksSpec => []TInv
<1>1. SinksInit => TInv
  BY TInit DEF SinksInit
<1>2. TInv /\ [SinksNext]_sinkVars => TInv'
  BY TStep, SinksSteps
<1> QED
  BY <1>1, <1>2, PTL DEF SinksSpec

\* Whatever fails and whenever the process dies, the rotator's variables and
\* the files keep their types.
THEOREM TypeCorrect == SinksSpec => []TypeOK
<1>1. TInv => TypeOK
  BY DEF TInv
<1> QED
  BY <1>1, Typed, PTL

-----------------------------------------------------------------------------
(* The size of a file, as long as a file's size can be asked for.           *)

StatWorks == "stat" \notin Faults \cup Broken

Fits(file) ==
  /\ file.size = 0 => file.writes = 0
  /\ MaxSize > 0 /\ file.size > MaxSize => file.writes = 1

\* r.size is the size of the live file, and a line is only appended to a file
\* that is empty or has room for it.
SizeInv ==
  /\ handle = "open" => size = live.size
  /\ live # NoFile => Fits(live)
  /\ \A n \in DOMAIN archives : Fits(archives[n])
  /\ pc = "rollPrune" => live.size = 0
  /\ pc = "append" /\ handle = "open" =>
       MaxSize = 0 \/ live.size = 0 \/ live.size + len <= MaxSize

LEMMA SizeStep == ASSUME TInv, SizeInv, StatWorks, [Next]_vars PROVE SizeInv'
<1>1. ASSUME Opened,
             \/ pc' \in {"launchPrune", "check", "idle"}
             \/ pc' = "rollPrune" /\ live = NoFile
      PROVE  SizeInv'
  <2>1. /\ handle' = "open" /\ live' # NoFile /\ UNCHANGED archives
        /\ live # NoFile => live' = live
        /\ live = NoFile => live' = EmptyFile
    BY <1>1, OpenedTypes DEF TInv
  <2>2. size' = live'.size
    BY <1>1 DEF Opened, StatWorks, Fails
  <2>3. EmptyFile.size = 0 /\ Fits(EmptyFile)
    BY RotatorAssumption DEF Fits, EmptyFile
  <2>4. Fits(live')
    BY <2>1, <2>3 DEF SizeInv
  <2>5. \A n \in DOMAIN archives' : Fits(archives'[n])
    BY <2>1 DEF SizeInv
  <2> QED
    BY <1>1, <2>1, <2>2, <2>3, <2>4, <2>5 DEF SizeInv, Fits
<1>2. ASSUME NotOpened, handle # "open", pc' \in {"down", "idle"} PROVE SizeInv'
  BY <1>2 DEF NotOpened, disk, rotator, SizeInv, Fits
<1>3. CASE Launch
  BY <1>1, <1>2, <1>3 DEF Launch, Goto, TInv, Control
<1>4. CASE Reopen
  BY <1>1, <1>2, <1>4 DEF Reopen, Goto, TInv, Control
<1>5. CASE Keep
  BY <1>1, <1>2, <1>5 DEF Keep, Goto, TInv, Control
<1>6. CASE OpenFresh
  BY <1>1, <1>2, <1>6 DEF OpenFresh, Goto, TInv, Control
<1>7. CASE LaunchPrune \/ RollPrune
  <2>1. prune
    BY <1>7 DEF LaunchPrune, RollPrune
  <2>2. /\ UNCHANGED <<live, handle, size>>
        /\ DOMAIN archives' \subseteq DOMAIN archives
        /\ \A n \in DOMAIN archives' : archives'[n] = archives[n]
    BY <2>1, PruneRemoves, RemovalTypes DEF TInv
  <2>3. pc' = "idle" \/ (pc = "rollPrune" /\ pc' = "append")
    BY <1>7 DEF LaunchPrune, RollPrune, Goto
  <2> QED
    BY <2>2, <2>3 DEF SizeInv, Fits
<1>8. CASE Rename
  <2>1. CASE pc' = "keep"
    BY <1>8, <2>1 DEF Rename, Goto, rotator, SizeInv, Fits
  <2>2. CASE pc' # "keep"
    <3>0. PICK name : Rolled(name)
      BY <1>8, <2>2, RolledAside
    <3>1. /\ pc' = "fresh" /\ live # NoFile /\ live' = NoFile
          /\ DOMAIN archives' = DOMAIN archives \cup {name}
          /\ \A n \in DOMAIN archives' :
               archives'[n] = IF n = name THEN live ELSE archives[n]
          /\ handle = "nil" /\ UNCHANGED handle
      BY <3>0 DEF Rolled, TInv, Control
    <3> QED
      BY <3>1 DEF SizeInv, Fits
  <2> QED
    BY <2>1, <2>2
<1>9. CASE Append
  <2>1. /\ UNCHANGED <<archives, handle>> /\ pc = "append" /\ pc' = "idle"
        /\ now \in Nat /\ len \in Nat \ {0}
        /\ \/ handle = "broken" /\ UNCHANGED <<live, size, asked>>
           \/ handle = "open" /\ live # NoFile /\ live \in Files /\ \E n \in 0..len : Wrote(n)
    BY <1>9, AppendEffect
  <2>2. CASE handle = "broken" /\ UNCHANGED <<live, size>>
    BY <2>1, <2>2 DEF SizeInv, Fits
  <2>3. ASSUME handle = "open", live # NoFile, live \in Files, NEW n \in 0..len, Wrote(n)
        PROVE  SizeInv'
    <3>1. /\ live'.size = live.size + n /\ size' = size + n
          /\ live'.writes = IF n > 0 THEN live.writes + 1 ELSE live.writes
      BY <2>1, <2>3, WroteEffect
    <3>2. live.size \in Nat /\ live.writes \in Nat /\ MaxSize \in Nat
      BY <2>3, RotatorAssumption DEF Files
    <3>3. Fits(live)'
      BY <2>1, <2>3, <3>1, <3>2 DEF SizeInv, Fits
    <3> QED
      BY <2>1, <2>3, <3>1, <3>3 DEF SizeInv, Fits
  <2> QED
    BY <2>1, <2>2, <2>3
<1>10. CASE \E l \in Lengths : BeginWrite(l)
  BY <1>10 DEF BeginWrite, disk, rotator, SizeInv, Fits
<1>11. CASE Check
  <2>1. /\ UNCHANGED <<live, archives, handle, size, len>> /\ len \in Nat
        /\ pc' \in {"close", "append"} /\ (pc' = "append" => ~overSize)
    BY <1>11, RotatorAssumption DEF Check, disk, rotator, TInv, Numbered, Writing
  <2>2. handle = "open" => live.size \in Nat
    BY DEF TInv, Control, TypeOK, Files
  <2> QED
    BY <2>1, <2>2, RotatorAssumption DEF SizeInv, Fits, overSize
<1>12. CASE CloseToRoll
  BY <1>12 DEF CloseToRoll, Goto, disk, SizeInv, Fits
<1>13. CASE Close
  BY <1>13 DEF Close, disk, SizeInv, Fits
<1>14. CASE Crash
  <2>1. /\ UNCHANGED live /\ handle' = "nil" /\ pc' = "down"
        /\ DOMAIN archives' \subseteq DOMAIN archives
        /\ \A n \in DOMAIN archives' : archives'[n] = archives[n]
    BY <1>14, CrashRemoves, RemovalTypes
  <2> QED
    BY <2>1 DEF SizeInv, Fits
<1>15. CASE Tick \/ PutBack
  BY <1>15 DEF Tick, PutBack, disk, rotator, SizeInv, Fits
<1>16. CASE UNCHANGED vars
  BY <1>16 DEF vars, SizeInv, Fits
<1> QED
  BY <1>3, <1>4, <1>5, <1>6, <1>7, <1>8, <1>9, <1>10, <1>11, <1>12, <1>13, <1>14, <1>15, <1>16
  DEF Next, Step, newRotator, Write, Exhausted

\* No file outgrows the limit but by one line that is longer, whatever call but
\* Stat fails and whenever the process dies and comes back.
THEOREM SizeIsBounded == ASSUME StatWorks PROVE SinksSpec => []SizeBound
<1>1. SinksInit => SizeInv
  BY DEF SinksInit, Init, SizeInv
<1>2. TInv /\ SizeInv /\ [SinksNext]_sinkVars => SizeInv'
  BY SizeStep, SinksSteps
<1>3. SizeInv => SizeBound
  BY DEF SizeInv, Fits, SizeBound, AllFiles
<1> QED
  BY <1>1, <1>2, <1>3, Typed, PTL DEF SinksSpec

-----------------------------------------------------------------------------
(* The lines that are kept, as long as there are names.                     *)

Kept == UNION {file.lines : file \in AllFiles}

Found ==
  \A x : x \in Kept <=> x \in Holds(live) \/ \E n \in DOMAIN archives : x \in archives[n].lines

LEMMA KeptWhere == Found
<1>1. \A n \in DOMAIN archives : archives[n] \in AllFiles
  BY DEF AllFiles
<1>2. ASSUME NEW x, x \in Kept
      PROVE  x \in Holds(live) \/ \E n \in DOMAIN archives : x \in archives[n].lines
  <2>1. PICK file \in AllFiles : x \in file.lines
    BY <1>2 DEF Kept
  <2> QED
    BY <2>1 DEF AllFiles, Holds
<1>3. ASSUME NEW x, x \in Holds(live) PROVE x \in Kept
  <2>1. live \in AllFiles /\ x \in live.lines
    BY <1>3 DEF AllFiles, Holds
  <2> QED
    BY <2>1 DEF Kept
<1>4. ASSUME NEW x, NEW n \in DOMAIN archives, x \in archives[n].lines PROVE x \in Kept
  BY <1>1, <1>4 DEF Kept
<1> QED
  BY <1>2, <1>3, <1>4 DEF Found

LEMMA KeptNext == Found'
  BY KeptWhere, PTL

Apart ==
  /\ \A n \in DOMAIN archives : archives[n].lines \cap Holds(live) = {}
  /\ \A m, n \in DOMAIN archives : m # n => archives[m].lines \cap archives[n].lines = {}

\* A line is added, or lines are pruned, or every line stays; what is apart
\* stays apart.
Added ==
  LET id == Cardinality(lines) + 1 IN
  /\ pc = "append" /\ UNCHANGED <<clock, pruned>>
  /\ id \notin lines /\ lines' = lines \cup {id} /\ Kept' = Kept \cup {id}
  /\ asked' = [x \in lines \cup {id} |-> IF x = id THEN now ELSE asked[x]]

Pruned ==
  /\ Removal /\ UNCHANGED <<clock, asked, lines, live>> /\ Kept' \subseteq Kept
  /\ Kept \subseteq Kept' \cup pruned'
  /\ pruned \subseteq pruned' /\ pruned' \subseteq pruned \cup Kept
  /\ \A x \in Kept \ Kept' :
       \E n \in DOMAIN archives \ DOMAIN archives' : x \in archives[n].lines

Stayed == UNCHANGED <<asked, pruned, lines>> /\ Kept' = Kept

LEMMA Moved ==
  ASSUME UNCHANGED <<asked, pruned>>, NEW name,
         NamesLast => name \notin DOMAIN archives, NamesLast,
         live # NoFile, live' = NoFile,
         DOMAIN archives' = DOMAIN archives \cup {name},
         \A n \in DOMAIN archives' : archives'[n] = IF n = name THEN live ELSE archives[n]
  PROVE  Stayed /\ (Apart => Apart')
<1>1. Holds(live) = live.lines /\ Holds(live)' = {}
  BY DEF Holds
<1>2. \A x : x \in Kept' <=> x \in Kept
  BY <1>1, KeptWhere, KeptNext DEF Found
<1>3. Kept' = Kept
  <2> HIDE DEF Kept
  <2> QED
    BY <1>2
<1>4. Apart => Apart'
  BY <1>1 DEF Apart
<1> QED
  BY <1>3, <1>4 DEF Stayed, lines

\* An operation that leaves the files, or opens the live one.
LEMMA Untouched ==
  ASSUME UNCHANGED <<asked, pruned, archives>>, Holds(live)' = Holds(live)
  PROVE  Stayed /\ (Apart => Apart')
<1>1. \A x : x \in Kept' <=> x \in Kept
  BY KeptWhere, KeptNext DEF Found
<1>2. Kept' = Kept
  <2> HIDE DEF Kept
  <2> QED
    BY <1>1
<1>3. Apart => Apart'
  BY DEF Apart
<1> QED
  BY <1>2, <1>3 DEF Stayed, lines

LEMMA OpenStays ==
  ASSUME TInv, Opened \/ NotOpened
  PROVE  Stayed /\ (Apart => Apart')
<1>1. CASE Opened
  BY <1>1, OpenedTypes, Untouched DEF TInv, Holds, EmptyFile
<1>2. CASE NotOpened
  BY <1>2, Untouched DEF NotOpened, disk, Holds
<1> QED
  BY <1>1, <1>2

LEMMA RemovalTakes ==
  ASSUME TInv, Removal, UNCHANGED <<clock, live, asked>>
  PROVE  Pruned /\ (Apart => Apart')
<1>1. /\ DOMAIN archives' \subseteq DOMAIN archives
      /\ \A n \in DOMAIN archives' : archives'[n] = archives[n]
      /\ pruned \subseteq pruned'
      /\ \A n \in DOMAIN archives : archives[n].lines \subseteq pruned' \/ n \in DOMAIN archives'
      /\ \A x \in pruned' : x \in pruned \/ \E n \in DOMAIN archives : x \in archives[n].lines
  BY RemovalTypes
<1>2. UNCHANGED <<lines, Holds(live)>>
  BY DEF lines, Holds
<1> USE KeptWhere, KeptNext DEF Found
<1> HIDE DEF Kept
<1>3. \A x \in Kept' : x \in Kept
  BY <1>1, <1>2
<1>4. \A x \in Kept : x \in Kept' \cup pruned'
  BY <1>1, <1>2
<1>5. \A x \in pruned' : x \in pruned \cup Kept
  BY <1>1
<1>6. \A x \in Kept \ Kept' :
        \E n \in DOMAIN archives \ DOMAIN archives' : x \in archives[n].lines
  BY <1>1, <1>2
<1>7. Apart => Apart'
  BY <1>1, <1>2 DEF Apart
<1> QED
  BY <1>1, <1>2, <1>3, <1>4, <1>5, <1>6, <1>7 DEF Pruned

LEMMA AppendAdds ==
  ASSUME TInv, Append
  PROVE  (Added \/ Stayed) /\ (Apart => Apart')
<1>1. /\ UNCHANGED <<clock, archives, pruned>> /\ pc = "append"
      /\ now \in Nat /\ len \in Nat \ {0}
      /\ \/ handle = "broken" /\ UNCHANGED <<live, size, asked>>
         \/ handle = "open" /\ live # NoFile /\ live \in Files /\ \E n \in 0..len : Wrote(n)
  BY AppendEffect
<1>2. CASE UNCHANGED <<live, asked>>
  BY <1>1, <1>2, Untouched DEF Holds
<1>3. ASSUME live # NoFile, live \in Files, NEW n \in 0..len, Wrote(n)
      PROVE  (Added \/ Stayed) /\ (Apart => Apart')
  <2>1. live' # NoFile
    BY <1>1, <1>3, WroteEffect, FileAssumption
  <2>2. CASE n # len
    <3>1. UNCHANGED asked /\ live'.lines = live.lines
      BY <1>1, <1>3, <2>2, WroteEffect
    <3> QED
      BY <1>1, <1>3, <2>1, <3>1, Untouched DEF Holds
  <2>3. CASE n = len
    <3> DEFINE id == Cardinality(lines) + 1
    <3>1. /\ id \notin lines /\ lines' = lines \cup {id}
          /\ live'.lines = live.lines \cup {id}
          /\ asked' = [x \in lines \cup {id} |-> IF x = id THEN now ELSE asked[x]]
      BY <1>1, <1>3, <2>3, WroteEffect
    <3> HIDE DEF id
    <3>2. Holds(live) = live.lines /\ Holds(live)' = live.lines \cup {id}
      BY <1>3, <2>1, <3>1 DEF Holds
    <3>3. \A x : x \in Kept' <=> x \in Kept \cup {id}
      BY <1>1, <3>2, KeptWhere, KeptNext DEF Found
    <3>4. Kept' = Kept \cup {id}
      <4> HIDE DEF Kept
      <4> QED
        BY <3>3
    <3>5. Apart => Apart'
      BY <1>1, <3>1, <3>2 DEF Apart, TInv, Written
    <3> QED
      BY <1>1, <3>1, <3>4, <3>5 DEF Added, id
  <2> QED
    BY <2>2, <2>3
<1> QED
  BY <1>1, <1>2, <1>3

LEMMA KeptStep ==
  ASSUME TInv, NamesLast, [Next]_vars
  PROVE  (Added \/ Pruned \/ Stayed) /\ (Apart => Apart')
<1>1. CASE Launch \/ Reopen \/ Keep \/ OpenFresh
  BY <1>1, OpenStays DEF Launch, Reopen, Keep, OpenFresh
<1>2. CASE LaunchPrune \/ RollPrune
  BY <1>2, PruneRemoves, RemovalTakes DEF LaunchPrune, RollPrune, TInv
<1>3. CASE Rename
  <2>1. CASE pc' = "keep"
    BY <1>3, <2>1, Untouched DEF Rename, Goto, Holds
  <2>2. CASE pc' # "keep"
    <3>0. PICK name : Rolled(name)
      BY <1>3, <2>2, RolledAside
    <3>1. /\ live # NoFile /\ live' = NoFile /\ UNCHANGED <<asked, pruned>>
          /\ DOMAIN archives' = DOMAIN archives \cup {name}
          /\ \A n \in DOMAIN archives' :
               archives'[n] = IF n = name THEN live ELSE archives[n]
          /\ NamesLast => name \notin DOMAIN archives
      BY <3>0 DEF Rolled
    <3> QED
      BY <3>1, Moved
  <2> QED
    BY <2>1, <2>2
<1>4. CASE UNCHANGED disk
  BY <1>4, Untouched DEF disk, Holds
<1>5. CASE \/ \E l \in Lengths : BeginWrite(l)
           \/ Check \/ CloseToRoll \/ Close \/ Tick \/ PutBack
           \/ UNCHANGED vars
  BY <1>4, <1>5 DEF BeginWrite, Check, CloseToRoll, Close, Tick, PutBack, vars, disk
<1>6. CASE Crash
  <2>1. UNCHANGED <<clock, live, asked>> /\ (Removal \/ UNCHANGED <<archives, pruned>>)
    BY <1>6, CrashRemoves
  <2> QED
    BY <1>4, <2>1, RemovalTakes DEF disk
<1> QED
  BY <1>1, <1>2, <1>3, <1>5, <1>6, AppendAdds DEF Next, Step, newRotator, Write, Exhausted

\* As long as there are names, no failure, crash or restart costs a line that
\* was written: it is in exactly one file until prune takes it.
THEOREM NothingIsLost == SinksSpec /\ []NamesLast => []NothingLost
<1>1. SinksInit => NothingLost
  BY DEF SinksInit, Init, NothingLost, AllFiles, lines
<1>2. NothingLost <=> Apart /\ lines = pruned \cup Kept
  BY DEF NothingLost, Apart, Kept
<1>3. NothingLost' <=> Apart' /\ lines' = pruned' \cup Kept'
  BY DEF NothingLost, Apart, Kept
<1>4. ASSUME TInv, NamesLast, NothingLost, [SinksNext]_sinkVars PROVE NothingLost'
  <2>1. (Added \/ Pruned \/ Stayed) /\ Apart'
    BY <1>2, <1>4, KeptStep, SinksSteps
  <2> HIDE DEF Kept
  <2>2. lines' = pruned' \cup Kept'
    BY <1>2, <1>4, <2>1 DEF Added, Pruned, Stayed
  <2> QED
    BY <1>3, <2>1, <2>2
<1> QED
  BY <1>1, <1>4, Typed, PTL DEF SinksSpec

-----------------------------------------------------------------------------
(* The log a reader is promised, as long as the clock is not put back.      *)

ClockSteady == "clock" \notin Faults

Dated == {"close", "rename", "keep", "fresh", "rollPrune", "append"}

\* No line is younger than the clock or than the line at hand, nor than the
\* second that the archive it is in is named for.
TimesInv ==
  /\ \A x \in lines : asked[x] <= clock
  /\ pc \in Dated => now <= clock /\ \A x \in lines : asked[x] <= now
  /\ \A n \in DOMAIN archives : \A x \in archives[n].lines : asked[x] < n.at + Second

\* Names of archives that were there stay the names of the same files, but for
\* the name of a roll.
LEMMA ArchivesStep ==
  ASSUME TInv, [Next]_vars
  PROVE  \A n \in DOMAIN archives' :
           \/ n \in DOMAIN archives /\ archives'[n] = archives[n]
           \/ Rename /\ n.at = Stamp(now) /\ live # NoFile /\ archives'[n] = live
<1>1. CASE Launch \/ Reopen \/ Keep \/ OpenFresh
  BY <1>1, OpenedTypes DEF Launch, Reopen, Keep, OpenFresh, NotOpened, disk, TInv
<1>2. CASE LaunchPrune \/ RollPrune
  BY <1>2, PruneRemoves, RemovalTypes DEF LaunchPrune, RollPrune, TInv
<1>3. CASE Rename
  <2>1. CASE pc' = "keep"
    BY <1>3, <2>1 DEF Rename, Goto
  <2>2. CASE pc' # "keep"
    <3>0. PICK name : Rolled(name)
      BY <1>3, <2>2, RolledAside
    <3>1. /\ live # NoFile /\ name.at = Stamp(now)
          /\ DOMAIN archives' = DOMAIN archives \cup {name}
          /\ \A n \in DOMAIN archives' :
               archives'[n] = IF n = name THEN live ELSE archives[n]
      BY <3>0 DEF Rolled
    <3> QED
      BY <1>3, <3>1
  <2> QED
    BY <2>1, <2>2
<1>4. CASE Append
  BY <1>4, AppendEffect
<1>5. CASE UNCHANGED archives
  BY <1>5
<1>6. CASE \/ \E l \in Lengths : BeginWrite(l)
           \/ Check \/ CloseToRoll \/ Close \/ Tick \/ PutBack
           \/ UNCHANGED vars
  BY <1>5, <1>6 DEF BeginWrite, Check, CloseToRoll, Close, Tick, PutBack, vars, disk
<1>7. CASE Crash
  BY <1>7, CrashRemoves, RemovalTypes
<1> QED
  BY <1>1, <1>2, <1>3, <1>4, <1>6, <1>7 DEF Next, Step, newRotator, Write, Exhausted

\* The clock and the reading of it.
LEMMA ClockStep ==
  ASSUME TInv, ClockSteady \/ faults' = faults, [Next]_vars
  PROVE  /\ clock \in Nat /\ clock' \in Nat /\ clock <= clock'
         /\ pc' \in Dated => \/ pc \in Dated /\ now' = now
                             \/ now' = clock' /\ UNCHANGED <<asked, clock>>
         /\ clock' # clock => Tick
<1>1. CASE PutBack
  BY <1>1 DEF PutBack, ClockSteady, TInv, TypeOK
<1>2. CASE Tick
  BY <1>2 DEF Tick, TInv, TypeOK
<1>3. CASE Check
  BY <1>3 DEF Check, disk, TInv, TypeOK
<1>4. CASE newRotator
  BY <1>4 DEF newRotator, Launch, LaunchPrune, Goto, Dated, TInv, TypeOK
<1>5. CASE (\E l \in Lengths : BeginWrite(l)) \/ Reopen \/ Keep \/ Close \/ Crash
  BY <1>5 DEF BeginWrite, Reopen, Keep, Close, Crash, Goto, Dated, TInv, TypeOK
<1>6. CASE CloseToRoll \/ Rename \/ OpenFresh \/ RollPrune \/ Append
  BY <1>6 DEF CloseToRoll, Rename, OpenFresh, RollPrune, Append, Goto, Dated, TInv, TypeOK
<1>7. CASE UNCHANGED vars
  BY <1>7 DEF vars, TInv, TypeOK
<1> QED
  BY <1>1, <1>2, <1>3, <1>4, <1>5, <1>6, <1>7 DEF Next, Step, Write, Exhausted

LEMMA TimesStep ==
  ASSUME TInv, NamesLast, ClockSteady, TimesInv, [Next]_vars
  PROVE  TimesInv'
<1>1. /\ clock \in Nat /\ clock' \in Nat /\ clock <= clock'
      /\ pc' \in Dated => \/ pc \in Dated /\ now' = now
                          \/ now' = clock' /\ UNCHANGED <<asked, clock>>
  BY ClockStep
<1>2. now \in Nat /\ \A x \in lines : asked[x] \in Nat
  BY DEF TInv, TypeOK
<1>3. \/ UNCHANGED <<asked, lines>>
      \/ /\ pc = "append" /\ pc' = "idle"
         /\ \E id : /\ id \notin lines /\ lines' = lines \cup {id}
                    /\ asked' = [x \in lines \cup {id} |-> IF x = id THEN now ELSE asked[x]]
  <2>1. Added => pc' = "idle" \/ UNCHANGED <<asked, lines>>
    <3>1. CASE Append
      BY <3>1, AppendEffect
    <3>2. ASSUME pc = "append", ~Append PROVE UNCHANGED asked
      BY <3>2 DEF Next, Step, newRotator, Launch, LaunchPrune, Write, BeginWrite, Reopen, Check,
         CloseToRoll, Rename, Keep, OpenFresh, RollPrune, Close, Crash, Tick, PutBack,
         Exhausted, vars, disk
    <3> QED
      BY <3>1, <3>2 DEF Added, lines
  <2> QED
    BY <2>1, KeptStep DEF Added, Pruned, Stayed
<1>4. \A x \in lines' : asked'[x] <= clock'
  <2>1. CASE UNCHANGED <<asked, lines>>
    BY <1>1, <1>2, <2>1 DEF TimesInv
  <2>2. ASSUME pc = "append",
               NEW id, lines' = lines \cup {id},
               asked' = [x \in lines \cup {id} |-> IF x = id THEN now ELSE asked[x]]
        PROVE  \A x \in lines' : asked'[x] <= clock'
    <3>1. now <= clock /\ \A x \in lines : asked[x] <= clock
      BY <2>2 DEF TimesInv, Dated
    <3>2. now <= clock' /\ \A x \in lines : asked[x] <= clock'
      BY <1>1, <1>2, <3>1
    <3>3. \A x \in lines' : asked'[x] = IF x = id THEN now ELSE asked[x]
      BY <2>2
    <3> QED
      BY <2>2, <3>2, <3>3
  <2> QED
    BY <1>3, <2>1, <2>2
<1>5. pc' \in Dated => now' <= clock' /\ \A x \in lines' : asked'[x] <= now'
  <2>1. CASE UNCHANGED <<asked, lines>>
    BY <1>1, <1>2, <2>1 DEF TimesInv
  <2>2. CASE pc' = "idle"
    BY <2>2 DEF Dated
  <2> QED
    BY <1>3, <2>1, <2>2
<1>6. ASSUME NEW n \in DOMAIN archives', NEW x \in archives'[n].lines
      PROVE  asked'[x] < n.at + Second
  <2>1. CASE n \in DOMAIN archives /\ archives'[n] = archives[n]
    <3>1. x \in lines /\ asked[x] < n.at + Second
      BY <1>6, <2>1 DEF TInv, Written, TimesInv
    <3> QED
      BY <1>3, <3>1
  <2>2. CASE Rename /\ n.at = Stamp(now) /\ live # NoFile /\ archives'[n] = live
    <3>1. x \in lines /\ UNCHANGED asked /\ pc \in Dated
      BY <1>6, <2>2 DEF TInv, Written, Rename, Dated
    <3>2. asked[x] <= now /\ asked[x] \in Nat /\ Stamp(now) \in Nat /\ now < Stamp(now) + Second
      BY <1>2, <3>1, Stamps DEF TimesInv
    <3>3. Second \in Nat
      BY RotatorAssumption
    <3> QED
      BY <1>2, <2>2, <3>1, <3>2, <3>3
  <2> QED
    BY <2>1, <2>2, ArchivesStep
<1> QED
  BY <1>4, <1>5, <1>6 DEF TimesInv

LEMMA InitImplements ==
  ASSUME SinksInit PROVE Promise!Init /\ TimesInv
<1>1. Kept = {}
  BY DEF SinksInit, Init, Kept, AllFiles
<1> QED
  BY <1>1 DEF SinksInit, Init, Promise!Init, Promise!lines, Kept, TimesInv, lines, Dated

LEMMA StepImplements ==
  ASSUME TInv, NamesLast, ClockSteady, MaxFiles = 0, TimesInv, [Next]_vars
  PROVE  [Promise!Next]_(Promise!vars)
<1> DEFINE W == IF RetainDays = 0 THEN 0 ELSE RetainDays * Day - Second + 1
<1>1. W \in Nat /\ (RetainDays > 0 => W > 0 /\ W = RetainDays * Day - Second + 1)
      /\ Second \in Nat /\ RetainDays * Day \in Nat
  <2>1. RetainDays \in Nat /\ Day \in Nat \ {0} /\ Second \in Nat \ {0} /\ Second <= Day
    BY RotatorAssumption
  <2>2. ASSUME NEW r \in Nat, NEW d \in Nat, r > 0 PROVE r * d \in Nat /\ r * d >= d
    BY <2>2
  <2>3. RetainDays > 0 => RetainDays * Day \in Nat /\ RetainDays * Day >= Day
    BY <2>1, <2>2
  <2>4. RetainDays * Day \in Nat
    BY <2>1
  <2> QED
    BY <2>1, <2>3, <2>4
<1>2. clock \in Nat /\ clock' \in Nat /\ clock <= clock' /\ (clock' # clock => Tick)
  BY ClockStep
<1>3. CASE Tick
  <2>1. UNCHANGED disk /\ clock' > clock
    BY <1>2, <1>3 DEF Tick
  <2>2. Kept' = Kept
    BY <2>1 DEF disk, Kept, AllFiles
  <2> QED
    BY <1>2, <2>1, <2>2 DEF Promise!Next, Promise!Tick, Promise!vars, disk, Kept
<1>4. CASE UNCHANGED clock /\ Added
  <2>1. now \in 0..clock /\ \A x \in lines : asked[x] <= now
    BY <1>2, <1>4 DEF Added, TimesInv, Dated, TInv, TypeOK
  <2>2. Promise!Append
    <3> DEFINE id == Cardinality(lines) + 1
    <3>1. /\ asked' = [x \in lines \cup {id} |-> IF x = id THEN now ELSE asked[x]]
          /\ Kept' = Kept \cup {id}
      BY <1>4 DEF Added
    <3>2. Promise!lines = lines
      BY DEF Promise!lines, lines
    <3>3. \E t \in 0..clock :
            /\ \A m \in lines : asked[m] <= t
            /\ asked' = [x \in lines \cup {id} |-> IF x = id THEN t ELSE asked[x]]
            /\ Kept' = Kept \cup {id}
      <4> HIDE DEF id
      <4> QED
        BY <2>1, <3>1
    <3>4. Promise!Cardinality(lines) = Cardinality(lines)
      BY DEF Promise!Cardinality, Promise!IsFiniteSet, Cardinality, IsFiniteSet
    <3> QED
      BY <1>4, <3>2, <3>3, <3>4 DEF Promise!Append, Kept
  <2> QED
    BY <2>2 DEF Promise!Next
<1>5. CASE UNCHANGED clock /\ Pruned
  <2>2. ASSUME NEW x \in Kept \ Kept' PROVE RetainDays > 0 /\ asked[x] < clock - W
    <3>1. PICK n \in DOMAIN archives : n \in Expired /\ x \in archives[n].lines
      BY <1>5, RemovalSpares DEF Pruned, TInv
    <3>2. asked[x] < n.at + Second /\ n.at < clock - RetainDays * Day /\ RetainDays > 0
      BY <3>1 DEF TimesInv, Expired
    <3>3. x \in lines /\ asked[x] \in Nat /\ n.at \in Nat
      BY <3>1 DEF TInv, Written, TypeOK, Names
    <3> QED
      BY <1>1, <1>2, <3>2, <3>3
  <2> HIDE DEF W
  <2>3. CASE Kept' = Kept
    BY <1>5, <2>3 DEF Pruned, Promise!vars, Kept
  <2>4. CASE Kept' # Kept
    <3>1. W > 0
      BY <1>1, <1>5, <2>2, <2>4 DEF Pruned
    <3>2. Promise!Forget
      <4> DEFINE old == Kept \ Kept'
      <4>1. old \in SUBSET Kept /\ Kept' = Kept \ old /\ \A x \in old : asked[x] < clock - W
        BY <1>5, <2>2 DEF Pruned
      <4> HIDE DEF old
      <4> QED
        BY <1>5, <3>1, <4>1 DEF Pruned, Promise!Forget, Kept, W
    <3> QED
      BY <3>2 DEF Promise!Next
  <2> QED
    BY <2>3, <2>4
<1>6. CASE UNCHANGED clock /\ Stayed
  BY <1>6 DEF Stayed, Promise!vars, Kept
<1> QED
  BY <1>2, <1>3, <1>4, <1>5, <1>6, KeptStep

\* Behind all its files the logger keeps what a log promises: lines are added in
\* the order of their times, and only prune forgets, and only what is older than
\* the window; whatever fails, as long as names last and no cap is set.
THEOREM LogImplementsServiceLog ==
  ASSUME ClockSteady, MaxFiles = 0
  PROVE  SinksSpec /\ []NamesLast => ImplementsServiceLog
<1>1. SinksInit => Promise!Init /\ TimesInv
  BY InitImplements
<1>2. TInv /\ NamesLast /\ TimesInv /\ [SinksNext]_sinkVars
        => TimesInv' /\ [Promise!Next]_(Promise!vars)
  BY TimesStep, StepImplements, SinksSteps
<1> QED
  BY <1>1, <1>2, Typed, PTL DEF SinksSpec, ImplementsServiceLog, Promise!Spec

-----------------------------------------------------------------------------
(* One day to a file, as long as the clock is not put back and a file's day *)
(* can be asked for.                                                        *)

OneDay(file) ==
  /\ file.size = 0 => file.lines = {}
  /\ ~file.crossed => \A x \in file.lines : DayOf(asked[x]) = DayOf(file.mtime)

\* r.day may lag behind the live file's day, which is what a failed write to an
\* empty file leaves; then the file is rolled too soon, never too late.
DayInv ==
  /\ pc \in Dated => now <= clock
  /\ day <= DayOf(clock)
  /\ live # NoFile =>
       OneDay(live) /\ live.mtime <= clock /\ (pc \in Dated => live.mtime <= now)
  /\ \A n \in DOMAIN archives : OneDay(archives[n])
  /\ handle = "open" /\ live.size > 0 => day # NoDay /\ day <= DayOf(live.mtime)
  /\ pc = "append" /\ handle = "open" /\ live.size > 0 => day = DayOf(now)

LEMMA AppendDays ==
  ASSUME TInv, SizeInv, DayInv, Append
  PROVE  DayInv'
<1>1. /\ UNCHANGED <<clock, archives, handle>> /\ pc = "append" /\ pc' = "idle"
      /\ day' = IF day = NoDay THEN DayOf(now) ELSE day
      /\ now \in Nat /\ len \in Nat \ {0}
      /\ \/ handle = "broken" /\ UNCHANGED <<live, size, asked>>
         \/ handle = "open" /\ live # NoFile /\ live \in Files /\ \E n \in 0..len : Wrote(n)
  BY AppendEffect
<1>2. clock \in Nat /\ now <= clock
  BY <1>1 DEF TInv, TypeOK, DayInv, Dated
<1>3. DayOf(now) \in Nat /\ DayOf(clock) \in Nat /\ DayOf(now) <= DayOf(clock)
  BY <1>1, <1>2, Days
<1>4. day \in Nat \cup {NoDay} /\ NoDay = -1
  BY DEF TInv, TypeOK, NoDay
<1>5. day' \in Nat /\ day' <= DayOf(clock') /\ (day # NoDay => day' = day)
  BY <1>1, <1>3, <1>4 DEF DayInv
<1>6. CASE handle = "broken" /\ UNCHANGED <<live, size, asked>>
  <2>1. \A n \in DOMAIN archives' : OneDay(archives[n])'
    BY <1>1, <1>6 DEF DayInv, OneDay
  <2>2. live' # NoFile => OneDay(live)'
    BY <1>6 DEF DayInv, OneDay
  <2> QED
    BY <1>1, <1>5, <1>6, <2>1, <2>2 DEF DayInv, Dated
<1>7. ASSUME handle = "open", live # NoFile, live \in Files, NEW n \in 0..len, Wrote(n)
      PROVE  DayInv'
  <2> DEFINE id == Cardinality(lines) + 1
  <2>1. /\ live' \in Files
        /\ live'.size = live.size + n
        /\ live'.mtime = IF n > 0 THEN clock ELSE live.mtime
        /\ live'.crossed = (live.crossed \/ (n > 0 /\ DayOf(clock) # DayOf(now)))
        /\ n # len => UNCHANGED <<asked, lines>> /\ live'.lines = live.lines
        /\ n = len =>
             /\ id \notin lines /\ lines' = lines \cup {id} /\ live'.lines = live.lines \cup {id}
             /\ asked' = [x \in lines \cup {id} |-> IF x = id THEN now ELSE asked[x]]
    BY <1>1, <1>7, WroteEffect
  <2> HIDE DEF id
  <2>2. live.size \in Nat /\ live.mtime \in Nat /\ live'.size \in Nat /\ n \in Nat
    BY <1>1, <1>7, <2>1 DEF Files
  <2>3. \A x \in lines : asked'[x] = asked[x]
    BY <2>1
  <2>4. live.lines \subseteq lines /\ \A m \in DOMAIN archives : archives[m].lines \subseteq lines
    BY <1>7 DEF TInv, Written
  <2>5. \A m \in DOMAIN archives' : OneDay(archives[m])'
    BY <1>1, <2>3, <2>4 DEF DayInv, OneDay
  <2>6. OneDay(live) /\ live.mtime <= clock /\ live.mtime <= now
    BY <1>1, <1>7 DEF DayInv, Dated
  <2>7. live.size > 0 => day # NoDay /\ day = DayOf(now) /\ DayOf(live.mtime) = DayOf(now)
    <3>1. DayOf(live.mtime) \in Nat /\ DayOf(live.mtime) <= DayOf(now)
      BY <1>1, <2>2, <2>6, Days
    <3> QED
      BY <1>1, <1>3, <1>7, <3>1 DEF DayInv
  <2>8. OneDay(live)'
    <3>1. CASE n = 0
      <4>1. n # len /\ UNCHANGED asked
        BY <1>1, <2>1, <3>1
      <4>2. ~live'.crossed => ~live.crossed
        BY <2>1
      <4>3. live'.size = live.size /\ live'.mtime = live.mtime /\ live'.lines = live.lines
        BY <2>1, <2>2, <3>1, <4>1
      <4> QED
        BY <2>6, <4>1, <4>2, <4>3 DEF OneDay
    <3>2. CASE n > 0
      <4>1. live'.size # 0 /\ live'.mtime = clock
        BY <2>1, <2>2, <3>2
      <4>2. ASSUME ~live'.crossed, NEW x \in live'.lines
            PROVE  DayOf(asked'[x]) = DayOf(clock)
        <5>1. ~live.crossed /\ DayOf(clock) = DayOf(now)
          BY <2>1, <3>2, <4>2
        <5>2. CASE x \in live.lines
          <6>1. live.size > 0
            BY <2>2, <2>6, <5>2 DEF OneDay
          <6>2. DayOf(asked[x]) = DayOf(live.mtime)
            BY <2>6, <5>1, <5>2 DEF OneDay
          <6> QED
            BY <2>3, <2>4, <2>7, <5>1, <5>2, <6>1, <6>2
        <5>3. CASE x \notin live.lines
          BY <2>1, <4>2, <5>1, <5>3
        <5> QED
          BY <5>2, <5>3
      <4> QED
        BY <4>1, <4>2 DEF OneDay
    <3> QED
      BY <2>2, <3>1, <3>2
  <2>9. live'.mtime <= clock'
    BY <1>1, <1>2, <2>1, <2>6
  <2>10. live'.size > 0 => day' # NoDay /\ day' <= DayOf(live'.mtime)
    BY <1>1, <1>3, <1>4, <1>5, <2>1, <2>2, <2>7
  <2> QED
    BY <1>1, <1>5, <2>5, <2>8, <2>9, <2>10 DEF DayInv, Dated
<1> QED
  BY <1>1, <1>6, <1>7

LEMMA DayStep ==
  ASSUME TInv, SizeInv, StatWorks, ClockSteady, DayInv, [Next]_vars
  PROVE  DayInv'
<1>1. /\ clock \in Nat /\ clock' \in Nat /\ clock <= clock' /\ now \in Nat
      /\ pc' \in Dated => \/ pc \in Dated /\ now' = now
                          \/ now' = clock' /\ UNCHANGED <<asked, clock>>
  BY ClockStep DEF TInv, TypeOK
<1>2. DayOf(clock) \in Nat /\ DayOf(clock') \in Nat /\ DayOf(clock) <= DayOf(clock')
  BY <1>1, Days
<1>3. day \in Nat \cup {NoDay} /\ NoDay = -1 /\ (live # NoFile => live.mtime \in Nat /\ live.size \in Nat)
  BY DEF TInv, TypeOK, Files, NoDay
<1>4. pc' \in Dated => now' <= clock'
  BY <1>1 DEF DayInv
<1>5. live # NoFile /\ live' = live => live.mtime <= clock' /\ (pc' \in Dated => live.mtime <= now')
  BY <1>1, <1>3 DEF DayInv
<1>6. UNCHANGED asked => \A n \in DOMAIN archives : OneDay(archives[n])'
        \/ ~(n \in DOMAIN archives' /\ archives'[n] = archives[n])
  BY DEF DayInv, OneDay
<1>7. ASSUME Opened, pc # "append", pc' # "append",
             pc' \in Dated => live = NoFile
      PROVE  DayInv'
  <2>1. /\ handle' = "open" /\ live' # NoFile /\ UNCHANGED <<archives, asked>>
        /\ live # NoFile => live' = live
        /\ live = NoFile => live' = EmptyFile
    BY <1>7, OpenedTypes DEF TInv
  <2>2. size' = live'.size /\ day' = IF live'.size > 0 THEN DayOf(live'.mtime) ELSE NoDay
    BY <1>7 DEF Opened, StatWorks, Fails
  <2>3. OneDay(live)' /\ live'.mtime \in Nat /\ live'.mtime <= clock'
        /\ (pc' \in Dated => live'.mtime <= now')
    <3>1. CASE live # NoFile
      BY <1>3, <1>5, <2>1, <3>1 DEF DayInv, OneDay
    <3>2. CASE live = NoFile
      BY <1>1, <2>1, <3>2 DEF EmptyFile, OneDay
    <3> QED
      BY <3>1, <3>2
  <2>4. DayOf(live'.mtime) \in Nat /\ DayOf(live'.mtime) <= DayOf(clock')
    BY <1>1, <2>3, Days
  <2>5. day' <= DayOf(clock') /\ (live'.size > 0 => day' # NoDay /\ day' <= DayOf(live'.mtime))
    BY <1>2, <1>3, <2>2, <2>4
  <2>6. \A n \in DOMAIN archives' : OneDay(archives[n])'
    BY <2>1 DEF DayInv, OneDay
  <2> QED
    BY <1>4, <1>7, <2>1, <2>3, <2>5, <2>6 DEF DayInv
<1>8. ASSUME UNCHANGED <<live, asked, day>>,
             \A n \in DOMAIN archives' : n \in DOMAIN archives /\ archives'[n] = archives[n],
             handle' = "open" => handle = "open",
             pc' = "append" /\ handle' = "open" /\ live.size > 0 => day = DayOf(now')
      PROVE  DayInv'
  <2>1. day' <= DayOf(clock')
    BY <1>2, <1>3, <1>8 DEF DayInv
  <2>2. \A n \in DOMAIN archives' : OneDay(archives[n])'
    BY <1>8 DEF DayInv, OneDay
  <2>3. live' # NoFile => OneDay(live)'
    BY <1>8 DEF DayInv, OneDay
  <2> QED
    BY <1>4, <1>5, <1>8, <2>1, <2>2, <2>3 DEF DayInv
<1>9. CASE Launch \/ Reopen \/ Keep
  BY <1>7, <1>8, <1>9 DEF Launch, Reopen, Keep, Goto, NotOpened, disk, rotator, Dated
<1>10. CASE OpenFresh
  BY <1>7, <1>8, <1>10 DEF OpenFresh, Goto, NotOpened, disk, rotator, Dated, TInv, Control
<1>11. CASE LaunchPrune \/ RollPrune
  <2>1. /\ UNCHANGED <<live, asked, handle, day>>
        /\ \A n \in DOMAIN archives' : n \in DOMAIN archives /\ archives'[n] = archives[n]
    BY <1>11, PruneRemoves, RemovalTypes DEF LaunchPrune, RollPrune, TInv
  <2>2. pc' = "append" /\ handle' = "open" => live.size = 0
    BY <1>11, <2>1 DEF LaunchPrune, RollPrune, Goto, SizeInv
  <2> QED
    BY <1>8, <2>1, <2>2
<1>12. CASE Rename
  <2>1. CASE pc' = "keep"
    BY <1>8, <1>12, <2>1 DEF Rename, Goto, rotator
  <2>2. CASE pc' # "keep"
    <3>0. PICK name : Rolled(name)
      BY <1>12, <2>2, RolledAside
    <3>1. /\ pc' = "fresh" /\ live # NoFile /\ live' = NoFile
          /\ DOMAIN archives' = DOMAIN archives \cup {name}
          /\ \A n \in DOMAIN archives' :
               archives'[n] = IF n = name THEN live ELSE archives[n]
          /\ handle = "nil" /\ UNCHANGED <<handle, asked, day, clock>>
      BY <3>0 DEF Rolled, TInv, Control
    <3>2. \A n \in DOMAIN archives' : OneDay(archives[n])'
      BY <3>1 DEF DayInv, OneDay
    <3> QED
      BY <1>4, <3>1, <3>2 DEF DayInv
  <2> QED
    BY <2>1, <2>2
<1>13. CASE Append
  BY <1>13, AppendDays
<1>14. CASE Check
  <2>1. /\ UNCHANGED <<live, asked, day, archives, handle, size>> /\ now' = clock
        /\ pc' = "append" => ~dayTurned
    BY <1>14 DEF Check, disk, rotator
  <2>2. pc' = "append" /\ handle' = "open" /\ live.size > 0 => day = DayOf(now')
    BY <2>1 DEF dayTurned, SizeInv, DayInv
  <2> QED
    BY <1>8, <2>1, <2>2
<1>15. CASE \E l \in Lengths : BeginWrite(l)
  BY <1>8, <1>15 DEF BeginWrite, disk, rotator
<1>16. CASE CloseToRoll \/ Close
  BY <1>8, <1>16 DEF CloseToRoll, Close, Goto, disk
<1>17. CASE Crash
  <2>1. /\ UNCHANGED <<live, asked, clock>> /\ handle' = "nil" /\ day' = NoDay
        /\ pc' = "down"
        /\ DOMAIN archives' \subseteq DOMAIN archives
        /\ \A n \in DOMAIN archives' : archives'[n] = archives[n]
    BY <1>17, CrashRemoves, RemovalTypes
  <2>2. \A n \in DOMAIN archives' : OneDay(archives[n])'
    BY <2>1 DEF DayInv, OneDay
  <2>3. live' # NoFile => OneDay(live)'
    BY <2>1 DEF DayInv, OneDay
  <2> QED
    BY <1>2, <1>3, <1>4, <1>5, <2>1, <2>2, <2>3 DEF DayInv
<1>18. CASE Tick \/ PutBack
  BY <1>8, <1>18 DEF Tick, PutBack, disk, rotator, DayInv
<1>19. CASE UNCHANGED vars
  BY <1>8, <1>19 DEF vars, DayInv
<1> QED
  BY <1>9, <1>10, <1>11, <1>12, <1>13, <1>14, <1>15, <1>16, <1>17, <1>18, <1>19
  DEF Next, Step, newRotator, Write, Exhausted

\* No file accumulates two days, over rolls that fail, restarts and days that
\* turn while the service is down.
THEOREM FilesKeepOneDay ==
  ASSUME StatWorks, ClockSteady
  PROVE  SinksSpec => []OneDayPerFile
<1>1. SinksInit => SizeInv /\ DayInv
  BY Days DEF SinksInit, Init, SizeInv, DayInv, Dated, NoDay
<1>2. TInv /\ SizeInv /\ DayInv /\ [SinksNext]_sinkVars => SizeInv' /\ DayInv'
  BY SizeStep, DayStep, SinksSteps
<1>3. DayInv => OneDayPerFile
  BY DEF DayInv, OneDay, OneDayPerFile, AllFiles
<1> QED
  BY <1>1, <1>2, <1>3, Typed, PTL DEF SinksSpec

-----------------------------------------------------------------------------
(* The history reads in order, as long as names last, the clock is not put  *)
(* back and no cap frees a name within the second of a roll.                *)

\* The earliest second that the next archive can be named for.
Soonest == Stamp(IF pc \in {"close", "rename"} THEN now ELSE clock)

\* In that second names are taken without a gap, so the next one is the last.
\* (Earlier seconds may have gaps, which a prune that half fails leaves.)
NamesInv ==
  \A n \in DOMAIN archives :
    /\ n.at <= Soonest
    /\ n.at = Soonest => \A j \in 0..(n.i - 1) : [at |-> n.at, i |-> j] \in DOMAIN archives

LEMMA SoonStep ==
  ASSUME TInv, TimesInv, ClockSteady, [Next]_vars
  PROVE  Soonest \in Nat /\ Soonest' \in Nat /\ Soonest <= Soonest'
<1>1. clock \in Nat /\ clock' \in Nat /\ clock <= clock' /\ now \in Nat
  BY ClockStep DEF TInv, TypeOK
<1>2. pc' \in {"close", "rename"} =>
        \/ pc \in {"close", "rename"} /\ now' = now
        \/ pc = "check" /\ now' = clock
  <2>1. CASE newRotator
    BY <2>1 DEF newRotator, Launch, LaunchPrune, Goto
  <2>2. CASE (\E l \in Lengths : BeginWrite(l)) \/ Reopen \/ Keep \/ Close \/ Crash
    BY <2>2 DEF BeginWrite, Reopen, Keep, Close, Crash, Goto
  <2>3. CASE Check \/ Tick \/ PutBack
    BY <2>3 DEF Check, Tick, PutBack
  <2>4. CASE CloseToRoll \/ Rename \/ OpenFresh \/ RollPrune \/ Append
    BY <2>4 DEF CloseToRoll, Rename, OpenFresh, RollPrune, Append, Goto
  <2>5. CASE UNCHANGED vars
    BY <2>5 DEF vars
  <2> QED
    BY <2>1, <2>2, <2>3, <2>4, <2>5 DEF Next, Step, Write, Exhausted
<1>3. pc \in {"close", "rename"} => now <= clock
  BY DEF TimesInv, Dated
<1> DEFINE read == IF pc \in {"close", "rename"} THEN now ELSE clock
<1>4. read \in Nat /\ read' \in Nat /\ read <= read'
  BY <1>1, <1>2, <1>3
<1> HIDE DEF read
<1>5. Soonest = Stamp(read) /\ Soonest' = Stamp(read')
  BY DEF Soonest, read, Stamp
<1> QED
  BY <1>4, <1>5, Stamps

\* A step that rolls no file and writes no line.
LEMMA SameOrder ==
  ASSUME TInv, HistoryInOrder, NamesInv,
         Soonest \in Nat, Soonest' \in Nat, Soonest <= Soonest',
         UNCHANGED archives, Holds(live)' = Holds(live)
  PROVE  HistoryInOrder' /\ NamesInv'
<1>1. \A n \in DOMAIN archives : n.at \in Nat
  BY DEF TInv, TypeOK, Names
<1>2. \A n \in DOMAIN archives : n.at <= Soonest' /\ (n.at = Soonest' => n.at = Soonest)
  BY <1>1 DEF NamesInv
<1> QED
  BY <1>2 DEF HistoryInOrder, NamesInv, Newer

\* Without a cap prune takes only names of seconds that are over.
LEMMA RemovalOrder ==
  ASSUME TInv, HistoryInOrder, NamesInv, MaxFiles = 0, Removal, UNCHANGED live,
         Soonest = Stamp(clock), Soonest' = Stamp(clock)
  PROVE  HistoryInOrder' /\ NamesInv'
<1>1. /\ DOMAIN archives' \subseteq DOMAIN archives
      /\ \A n \in DOMAIN archives' : archives'[n] = archives[n]
      /\ \A n \in DOMAIN archives : n \notin DOMAIN archives' => n \in Expired
  BY RemovalTypes, RemovalSpares DEF TInv
<1>2. \A n \in DOMAIN archives : n.at = Stamp(clock) => n \notin Expired
  <2>1. RetainDays > 0 => Second <= RetainDays * Day
    <3>1. ASSUME NEW r \in Nat, NEW d \in Nat, r > 0 PROVE r * d \in Nat /\ r * d >= d
      BY <3>1
    <3> QED
      BY <3>1, RotatorAssumption
  <2>2. /\ RetainDays * Day \in Nat /\ clock \in Nat /\ Second \in Nat
        /\ Stamp(clock) \in Nat /\ clock < Stamp(clock) + Second
    BY Stamps, RotatorAssumption DEF TInv, TypeOK
  <2> QED
    BY <2>1, <2>2 DEF Expired
<1>3. HistoryInOrder'
  BY <1>1 DEF HistoryInOrder, Newer, Holds
<1>4. NamesInv'
  <2> SUFFICES ASSUME NEW n \in DOMAIN archives', n.at = Stamp(clock), NEW j \in 0..(n.i - 1)
               PROVE  [at |-> n.at, i |-> j] \in DOMAIN archives'
    BY <1>1 DEF NamesInv
  <2>1. [at |-> n.at, i |-> j] \in DOMAIN archives
    BY <1>1 DEF NamesInv
  <2>2. [at |-> n.at, i |-> j].at = Stamp(clock)
    OBVIOUS
  <2> QED
    BY <1>1, <1>2, <2>1, <2>2
<1> QED
  BY <1>3, <1>4

\* A roll gives the live file the last name of all.
LEMMA RollOrder ==
  ASSUME TInv, HistoryInOrder, NamesInv, TimesInv, NamesLast, LookupWorks, Rename, pc' # "keep"
  PROVE  HistoryInOrder' /\ NamesInv'
<1>0. PICK name : Rolled(name)
  BY RolledAside
<1>1. /\ pc = "rename" /\ pc' = "fresh" /\ name \in Names /\ name.at = Stamp(now)
      /\ live # NoFile /\ live' = NoFile
      /\ DOMAIN archives' = DOMAIN archives \cup {name}
      /\ \A n \in DOMAIN archives' :
           archives'[n] = IF n = name THEN live ELSE archives[n]
      /\ name \notin DOMAIN archives /\ UNCHANGED clock
  BY <1>0 DEF Rolled
<1> DEFINE s == Stamp(now)
<1>2. /\ s \in Nat /\ name.at = s
      /\ \A j \in 0..(name.i - 1) : [at |-> s, i |-> j] \in DOMAIN archives
  BY <1>0, Stamps DEF Rolled, TInv, TypeOK
<1>3. Soonest = s /\ Soonest' = Stamp(clock) /\ s <= Stamp(clock) /\ Stamp(clock) \in Nat
  <2>1. now \in Nat /\ clock \in Nat /\ now <= clock
    BY <1>1 DEF TimesInv, Dated, TInv, TypeOK
  <2>2. Soonest = s
    BY <1>1 DEF Soonest
  <2>3. Soonest' = Stamp(clock)
    BY <1>1 DEF Soonest, Stamp
  <2> QED
    BY <2>1, <2>2, <2>3, Stamps
<1> HIDE DEF s
<1>4. \A n \in DOMAIN archives : n \in Names /\ n.at <= s
  BY <1>3 DEF NamesInv, TInv, TypeOK
<1>5. ASSUME NEW n \in DOMAIN archives, n.at = s PROVE n.i < name.i
  <2>1. n.i \in Nat /\ name.i \in Nat
    BY <1>1, <1>4, RotatorAssumption DEF Names
  <2>2. name = [at |-> s, i |-> name.i] /\ n = [at |-> s, i |-> n.i]
    BY <1>1, <1>2, <1>4, <1>5 DEF Names
  <2>3. n.i # name.i
    BY <1>1, <2>2
  <2>4. ~(name.i < n.i)
    <3>1. name.i < n.i => name.i \in 0..(n.i - 1)
      BY <2>1
    <3>2. \A j \in 0..(n.i - 1) : [at |-> n.at, i |-> j] \in DOMAIN archives
      BY <1>3, <1>5 DEF NamesInv
    <3> QED
      BY <1>1, <1>5, <2>2, <3>1, <3>2
  <2> QED
    BY <2>1, <2>3, <2>4
<1>6. \A n \in DOMAIN archives : ~Newer(n, name)
  <2> TAKE n \in DOMAIN archives
  <2>1. n.at \in Nat /\ n.i \in Nat /\ name.i \in Nat /\ n.at <= s /\ (n.at = s => n.i < name.i)
    BY <1>1, <1>4, <1>5, RotatorAssumption DEF Names
  <2> QED
    BY <1>1, <1>2, <2>1 DEF Newer
<1>7. ~Newer(name, name)
  BY <1>1, <1>2, RotatorAssumption DEF Newer, Names
<1>8. \A m, n \in DOMAIN archives' : Newer(m, n) =>
        \A x \in archives'[m].lines, y \in archives'[n].lines : x > y
  <2> TAKE m, n \in DOMAIN archives'
  <2> HAVE Newer(m, n)
  <2>1. n # name /\ n \in DOMAIN archives /\ archives'[n] = archives[n]
    BY <1>1, <1>6, <1>7
  <2>2. CASE m = name
    BY <1>1, <2>1, <2>2 DEF HistoryInOrder, Holds
  <2>3. CASE m # name
    BY <1>1, <2>1, <2>3 DEF HistoryInOrder
  <2> QED
    BY <2>2, <2>3
<1>9. HistoryInOrder'
  BY <1>1, <1>8 DEF HistoryInOrder, Holds, Newer
<1>10. NamesInv'
  <2> SUFFICES ASSUME NEW n \in DOMAIN archives'
               PROVE  /\ n.at <= Stamp(clock)
                      /\ n.at = Stamp(clock) => \A j \in 0..(n.i - 1) :
                           [at |-> n.at, i |-> j] \in DOMAIN archives'
    BY <1>3 DEF NamesInv
  <2>1. CASE n = name
    BY <1>1, <1>2, <1>3, <2>1
  <2>2. CASE n # name
    <3>1. n \in DOMAIN archives /\ n.at \in Nat /\ n.at <= s
      BY <1>1, <1>4, <2>2 DEF Names
    <3>2. n.at = Stamp(clock) => n.at = Soonest
      BY <1>2, <1>3, <3>1
    <3> QED
      BY <1>1, <1>2, <1>3, <3>1, <3>2 DEF NamesInv
  <2> QED
    BY <2>1, <2>2
<1> QED
  BY <1>9, <1>10

LEMMA AppendHistory ==
  ASSUME TInv, HistoryInOrder, Append
  PROVE  HistoryInOrder'
<1>1. /\ UNCHANGED archives /\ pc = "append" /\ now \in Nat /\ len \in Nat \ {0}
      /\ \/ handle = "broken" /\ UNCHANGED <<live, size, asked>>
         \/ handle = "open" /\ live # NoFile /\ live \in Files /\ \E n \in 0..len : Wrote(n)
  BY AppendEffect
<1>2. CASE UNCHANGED live
  BY <1>1, <1>2 DEF HistoryInOrder, Holds, Newer
<1>3. ASSUME live # NoFile, live \in Files, NEW n \in 0..len, Wrote(n)
      PROVE  HistoryInOrder'
  <2> DEFINE id == Cardinality(lines) + 1
  <2>1. live' # NoFile /\ live'.lines \subseteq live.lines \cup {id}
    BY <1>1, <1>3, WroteEffect, FileAssumption
  <2>2. \A y \in lines : id > y
    BY FS_CardinalityType DEF TInv, Numbered
  <2> HIDE DEF id
  <2>3. \A m \in DOMAIN archives : archives[m].lines \subseteq lines
    BY DEF TInv, Written
  <2>4. ASSUME NEW m \in DOMAIN archives, NEW x \in live'.lines, NEW y \in archives[m].lines
        PROVE  x > y
    <3>1. CASE x = id
      BY <2>2, <2>3, <3>1
    <3>2. CASE x \in live.lines
      BY <1>3, <3>2 DEF HistoryInOrder, Holds
    <3> QED
      BY <2>1, <3>1, <3>2
  <2> QED
    BY <1>1, <2>1, <2>4 DEF HistoryInOrder, Holds, Newer
<1> QED
  BY <1>1, <1>2, <1>3

LEMMA AppendOrder ==
  ASSUME TInv, HistoryInOrder, NamesInv, Append
  PROVE  HistoryInOrder' /\ NamesInv'
<1>1. UNCHANGED <<clock, archives>> /\ pc = "append" /\ pc' = "idle"
  BY AppendEffect
<1>2. NamesInv'
  BY <1>1 DEF NamesInv, Soonest
<1> QED
  BY <1>2, AppendHistory

LEMMA OrderStep ==
  ASSUME TInv, HistoryInOrder, NamesInv, TimesInv, NamesLast, ClockSteady, LookupWorks,
         MaxFiles = 0, [Next]_vars
  PROVE  HistoryInOrder' /\ NamesInv'
<1>1. Soonest \in Nat /\ Soonest' \in Nat /\ Soonest <= Soonest'
  BY SoonStep
<1>2. CASE Launch \/ Reopen \/ Keep \/ OpenFresh
  <2>1. UNCHANGED archives /\ Holds(live)' = Holds(live)
    BY <1>2, OpenedTypes
    DEF Launch, Reopen, Keep, OpenFresh, NotOpened, disk, TInv, Holds, EmptyFile
  <2> QED
    BY <1>1, <2>1, SameOrder
<1>3. CASE LaunchPrune \/ RollPrune
  <2>1. prune /\ Soonest = Stamp(clock) /\ Soonest' = Stamp(clock)
    BY <1>3 DEF LaunchPrune, RollPrune, Goto, Soonest, Stamp
  <2> QED
    BY <2>1, PruneRemoves, RemovalOrder DEF TInv
<1>4. CASE Rename
  <2>1. CASE pc' = "keep"
    <3>1. UNCHANGED archives /\ Holds(live)' = Holds(live)
      BY <1>4, <2>1 DEF Rename, Goto, Holds
    <3> QED
      BY <1>1, <3>1, SameOrder
  <2> QED
    BY <1>4, <2>1, RollOrder
<1>5. CASE Append
  BY <1>5, AppendOrder
<1>6. CASE UNCHANGED <<archives, live>>
  <2>1. Holds(live)' = Holds(live)
    BY <1>6 DEF Holds
  <2> QED
    BY <1>1, <1>6, <2>1, SameOrder
<1>7. CASE \/ \E l \in Lengths : BeginWrite(l)
           \/ Check \/ CloseToRoll \/ Close \/ Tick \/ PutBack
           \/ UNCHANGED vars
  BY <1>6, <1>7 DEF BeginWrite, Check, CloseToRoll, Close, Tick, PutBack, vars, disk
<1>8. CASE Crash
  <2>1. /\ UNCHANGED <<clock, live>> /\ pc' = "down"
        /\ \/ pc \in {"launchPrune", "rollPrune"} /\ Removal
           \/ UNCHANGED archives
    BY <1>8, CrashRemoves
  <2>2. Soonest' = Stamp(clock) /\ (pc \in {"launchPrune", "rollPrune"} => Soonest = Stamp(clock))
    BY <2>1 DEF Soonest, Stamp
  <2> QED
    BY <1>6, <2>1, <2>2, RemovalOrder
<1> QED
  BY <1>2, <1>3, <1>4, <1>5, <1>7, <1>8 DEF Next, Step, newRotator, Write, Exhausted

\* Read in the order of their names, and the live file last, the files give the
\* lines in the order they were written in, over rolls within one second, rolls
\* and prunes that fail, and restarts, as long as no name's lookup fails and no
\* cap frees a name within the second of a roll.
THEOREM HistoryReadsInOrder ==
  ASSUME ClockSteady, LookupWorks, MaxFiles = 0
  PROVE  SinksSpec /\ []NamesLast => []HistoryInOrder
<1>1. SinksInit => TimesInv /\ HistoryInOrder /\ NamesInv
  BY InitImplements DEF SinksInit, Init, HistoryInOrder, NamesInv, Holds
<1>2. TInv /\ NamesLast /\ TimesInv /\ HistoryInOrder /\ NamesInv /\ [SinksNext]_sinkVars
        => TimesInv' /\ HistoryInOrder' /\ NamesInv'
  BY TimesStep, OrderStep, SinksSteps
<1> QED
  BY <1>1, <1>2, Typed, PTL DEF SinksSpec

LEMMA LaterLast == ASSUME TInv, RollsLater PROVE NamesLast
<1>0. NameLimit - 1 \in 0..(NameLimit - 1)
  BY RotatorAssumption
<1> SUFFICES ASSUME pc = "rename"
             PROVE  [at |-> Stamp(now), i |-> NameLimit - 1] \notin DOMAIN archives
  BY <1>0 DEF NamesLast
<1>1. Stamp(now) \in Nat /\ [at |-> Stamp(now), i |-> NameLimit - 1].at = Stamp(now)
  BY Stamps DEF TInv, TypeOK
<1> QED
  BY <1>1 DEF RollsLater

\* No two archives are named for the same second.
OneASecond == \A m, n \in DOMAIN archives : m.at = n.at => m = n

LEMMA LaterStep ==
  ASSUME TInv, RollsLater, HistoryInOrder, OneASecond, [Next]_vars
  PROVE  HistoryInOrder' /\ OneASecond'
<1>1. ASSUME UNCHANGED archives, Holds(live)' = Holds(live) PROVE HistoryInOrder' /\ OneASecond'
  BY <1>1 DEF HistoryInOrder, OneASecond, Newer
<1>2. CASE Launch \/ Reopen \/ Keep \/ OpenFresh
  <2>1. UNCHANGED archives /\ Holds(live)' = Holds(live)
    BY <1>2, OpenedTypes
    DEF Launch, Reopen, Keep, OpenFresh, NotOpened, disk, TInv, Holds, EmptyFile
  <2> QED
    BY <1>1, <2>1
<1>3. CASE LaunchPrune \/ RollPrune \/ Crash
  <2>1. /\ UNCHANGED live /\ DOMAIN archives' \subseteq DOMAIN archives
        /\ \A n \in DOMAIN archives' : archives'[n] = archives[n]
    BY <1>3, PruneRemoves, CrashRemoves, RemovalTypes DEF LaunchPrune, RollPrune, TInv
  <2> QED
    BY <2>1 DEF HistoryInOrder, OneASecond, Newer, Holds
<1>4. CASE Rename /\ pc' = "keep"
  BY <1>1, <1>4 DEF Rename, Goto, Holds
<1>5. CASE Rename /\ pc' # "keep"
  <2>0. PICK name : Rolled(name)
    BY <1>5, RolledAside
  <2>1. /\ pc = "rename" /\ name \in Names /\ name.at = Stamp(now)
        /\ live # NoFile /\ live' = NoFile
        /\ DOMAIN archives' = DOMAIN archives \cup {name}
        /\ \A n \in DOMAIN archives' :
             archives'[n] = IF n = name THEN live ELSE archives[n]
    BY <2>0 DEF Rolled
  <2>2. Stamp(now) \in Nat /\ \A n \in DOMAIN archives : n \in Names /\ n.at < Stamp(now)
    BY <2>1, Stamps DEF RollsLater, TInv, TypeOK
  <2>3. \A n \in DOMAIN archives' : ~Newer(n, name)
    <3>1. \A n \in DOMAIN archives : ~Newer(n, name)
      BY <2>1, <2>2 DEF Newer, Names
    <3>2. ~Newer(name, name)
      BY <2>1, RotatorAssumption DEF Newer, Names
    <3> QED
      BY <2>1, <3>1, <3>2
  <2>4. ASSUME NEW m \in DOMAIN archives', NEW n \in DOMAIN archives', Newer(m, n)
        PROVE  \A x \in archives'[m].lines, y \in archives'[n].lines : x > y
    <3>1. n \in DOMAIN archives /\ archives'[n] = archives[n]
      BY <2>1, <2>3, <2>4
    <3>2. CASE m = name
      BY <2>1, <3>1, <3>2 DEF HistoryInOrder, Holds
    <3>3. CASE m # name
      BY <2>1, <2>4, <3>1, <3>3 DEF HistoryInOrder
    <3> QED
      BY <3>2, <3>3
  <2>5. HistoryInOrder'
    BY <2>1, <2>4 DEF HistoryInOrder, Holds, Newer
  <2>6. OneASecond'
    <3>1. \A n \in DOMAIN archives : n.at # name.at
      BY <2>1, <2>2 DEF Names
    <3> QED
      BY <2>1, <3>1 DEF OneASecond
  <2> QED
    BY <2>5, <2>6
<1>6. CASE Append
  <2>1. UNCHANGED archives
    BY <1>6, AppendEffect
  <2> QED
    BY <1>6, <2>1, AppendHistory DEF OneASecond
<1>7. CASE \/ \E l \in Lengths : BeginWrite(l)
           \/ Check \/ CloseToRoll \/ Close \/ Tick \/ PutBack
           \/ UNCHANGED vars
  <2>1. UNCHANGED archives /\ Holds(live)' = Holds(live)
    BY <1>7 DEF BeginWrite, Check, CloseToRoll, Close, Tick, PutBack, vars, disk, Holds
  <2> QED
    BY <1>1, <2>1
<1> QED
  BY <1>2, <1>3, <1>4, <1>5, <1>6, <1>7 DEF Next, Step, newRotator, Write, Exhausted

LEMMA LaterRolls ==
  SinksSpec /\ []RollsLater => [](HistoryInOrder /\ OneASecond /\ NothingLost)
<1>1. SinksInit => HistoryInOrder /\ OneASecond
  BY DEF SinksInit, Init, HistoryInOrder, OneASecond, Holds
<1>2. TInv /\ RollsLater /\ HistoryInOrder /\ OneASecond /\ [SinksNext]_sinkVars
        => HistoryInOrder' /\ OneASecond'
  BY LaterStep, SinksSteps
<1>3. TInv /\ RollsLater => NamesLast
  BY LaterLast
<1> QED
  BY <1>1, <1>2, <1>3, Typed, NothingIsLost, PTL DEF SinksSpec

\* With a cap, and even with a clock that is put back, the history reads in
\* order and loses nothing, if each roll comes in a later second than the
\* archives it finds.
THEOREM LaterRollsKeepOrder ==
  SinksSpec /\ []RollsLater => [](HistoryInOrder /\ NothingLost)
BY LaterRolls, PTL

-----------------------------------------------------------------------------
(* How many archives prune leaves.                                          *)

\* Nothing but a prune takes a name away, and nothing but a roll adds one.
LEMMA NamesStep ==
  ASSUME TInv, [Next]_vars
  PROVE  \/ DOMAIN archives' = DOMAIN archives
         \/ (LaunchPrune \/ RollPrune) /\ prune /\ Removal
         \/ Crash /\ Removal
         \/ pc = "rename" /\ pc' = "fresh" /\ UNCHANGED clock /\ \E name \in Names :
              DOMAIN archives' = DOMAIN archives \cup {name}
<1>1. CASE Launch \/ Reopen \/ Keep \/ OpenFresh
  BY <1>1, OpenedTypes DEF Launch, Reopen, Keep, OpenFresh, NotOpened, disk, TInv
<1>2. CASE LaunchPrune \/ RollPrune
  BY <1>2, PruneRemoves DEF LaunchPrune, RollPrune, TInv
<1>3. CASE Rename
  <2>1. CASE pc' = "keep"
    BY <1>3, <2>1 DEF Rename, Goto
  <2>2. CASE pc' # "keep"
    BY <1>3, <2>2, RolledAside DEF Rolled
  <2> QED
    BY <2>1, <2>2
<1>4. CASE Append
  BY <1>4, AppendEffect
<1>5. CASE \/ \E l \in Lengths : BeginWrite(l)
           \/ Check \/ CloseToRoll \/ Close \/ Tick \/ PutBack
           \/ UNCHANGED vars
  BY <1>5 DEF BeginWrite, Check, CloseToRoll, Close, Tick, PutBack, vars, disk
<1>6. CASE Crash
  BY <1>6, CrashRemoves
<1> QED
  BY <1>1, <1>2, <1>3, <1>4, <1>5, <1>6 DEF Next, Step, newRotator, Write, Exhausted

\* An open or a removal that fails may cost one archive above the cap.
Slack == IF OpenWorks /\ RemoveWorks THEN 0 ELSE faults

\* Between a roll, or a start, and its prune there may be one more.
Unpruned == {"down", "launchPrune", "fresh", "rollPrune"}

CapInv ==
  MaxFiles > 0 =>
    /\ Cardinality(DOMAIN archives) <= MaxFiles + Slack + 1
    /\ pc \notin Unpruned => Cardinality(DOMAIN archives) <= MaxFiles + Slack

\* Only a prune, or an open that fails, ends that time.
LEMMA UnprunedStep ==
  ASSUME {"open", "remove"} \cap Broken = {}, [Next]_vars, ~LaunchPrune, ~RollPrune
  PROVE  \/ pc \in Unpruned => pc' \in Unpruned
         \/ ~OpenWorks /\ faults' = faults + 1
<1>1. CASE Launch
  BY <1>1 DEF Launch, Goto, Unpruned
<1>2. CASE OpenFresh
  BY <1>2 DEF OpenFresh, NotOpened, Fails, Goto, OpenWorks, Unpruned
<1>3. CASE Reopen \/ Keep \/ Check \/ CloseToRoll \/ Rename \/ Append
           \/ \E l \in Lengths : BeginWrite(l)
  BY <1>3 DEF Reopen, Keep, Check, CloseToRoll, Rename, Append, BeginWrite, Unpruned
<1>4. CASE Close \/ Tick \/ PutBack \/ UNCHANGED vars
  BY <1>4 DEF Close, Tick, PutBack, vars, Unpruned
<1>5. CASE Crash
  BY <1>5, CrashRemoves DEF Unpruned
<1> QED
  BY <1>1, <1>2, <1>3, <1>4, <1>5 DEF Next, Step, newRotator, Write, Exhausted

LEMMA FaultsStep ==
  ASSUME TInv, [Next]_vars PROVE faults \in Nat /\ (faults' = faults \/ faults' = faults + 1)
<1>1. CASE newRotator
  BY <1>1 DEF newRotator, Launch, LaunchPrune, Opened, NotOpened, prune, Works, Fails,
     TInv, TypeOK
<1>2. CASE Reopen \/ Keep \/ OpenFresh \/ RollPrune
  BY <1>2 DEF Reopen, Keep, OpenFresh, RollPrune, Opened, NotOpened, prune, Works, Fails,
     TInv, TypeOK
<1>3. CASE CloseToRoll \/ Append
  BY <1>3 DEF CloseToRoll, Append, Works, Fails, TInv, TypeOK
<1>6. CASE Rename
  <2>1. UNCHANGED faults \/ faults' = faults + 1
    BY <1>6 DEF Rename, Works, Fails
  <2> QED
    BY <2>1 DEF TInv, TypeOK
<1>4. CASE \/ \E l \in Lengths : BeginWrite(l)
           \/ Check \/ Close \/ Tick \/ PutBack \/ UNCHANGED vars
  BY <1>4 DEF BeginWrite, Check, Close, Tick, PutBack, vars, TInv, TypeOK
<1>5. CASE Crash
  BY <1>5, CrashRemoves DEF TInv, TypeOK
<1> QED
  BY <1>1, <1>2, <1>3, <1>4, <1>5, <1>6 DEF Next, Step, Write, Exhausted

\* Failures are counted, and one that leaves the cap exceeded is among them.
LEMMA SlackStep ==
  ASSUME TInv, [Next]_vars
  PROVE  /\ Slack \in Nat /\ Slack' \in Nat /\ Slack <= Slack'
         /\ ~(OpenWorks /\ RemoveWorks) /\ faults' = faults + 1 => Slack' = Slack + 1
<1>1. faults \in Nat /\ (faults' = faults \/ faults' = faults + 1)
  BY FaultsStep
<1>2. Slack' = IF OpenWorks /\ RemoveWorks THEN 0 ELSE faults'
  BY DEF Slack, OpenWorks, RemoveWorks
<1>3. CASE OpenWorks /\ RemoveWorks
  BY <1>2, <1>3 DEF Slack
<1>4. CASE ~(OpenWorks /\ RemoveWorks)
  <2>1. Slack = faults /\ Slack' = faults'
    BY <1>2, <1>4 DEF Slack
  <2>2. faults \in Nat /\ faults' \in Nat /\ faults <= faults'
    BY <1>1
  <2> QED
    BY <2>1, <2>2
<1> QED
  BY <1>3, <1>4

LEMMA CapStep ==
  ASSUME TInv, CapInv, {"open", "remove"} \cap Broken = {}, [Next]_vars
  PROVE  CapInv'
<1> SUFFICES ASSUME MaxFiles > 0 PROVE CapInv'
  BY DEF CapInv
<1>1. /\ MaxFiles \in Nat /\ Cardinality(DOMAIN archives) \in Nat
      /\ Cardinality(DOMAIN archives') \in Nat
      /\ Slack \in Nat /\ Slack' \in Nat /\ Slack <= Slack'
  BY RotatorAssumption, FS_CardinalityType, TStep, SlackStep DEF TInv, FiniteArchives
<1>6. ASSUME Removal
      PROVE  Cardinality(DOMAIN archives') <= MaxFiles + Slack + 1
  <2>1. DOMAIN archives' \in SUBSET DOMAIN archives
    BY <1>6, RemovalTypes
  <2>2. Cardinality(DOMAIN archives') <= Cardinality(DOMAIN archives)
    BY <2>1, FS_Subset DEF TInv, FiniteArchives
  <2> QED
    BY <1>1, <2>2 DEF CapInv, Unpruned
<1>2. CASE (LaunchPrune \/ RollPrune) /\ prune /\ Removal
  <2>1. PICK names \in Doomed :
        \/ Works("remove") /\ Remove(names)
        \/ Fails("remove") /\ \E gone \in SUBSET names : Remove(gone)
    BY <1>2 DEF prune
  <2>2. CASE Works("remove") /\ Remove(names)
    <3>1. DOMAIN archives' = DOMAIN archives \ names
      BY <2>2 DEF Remove
    <3>2. Cardinality(DOMAIN archives') <= MaxFiles
      BY <3>1, DoomedCount DEF TInv
    <3> QED
      BY <1>1, <3>2 DEF CapInv, Unpruned
  <2>3. CASE Fails("remove")
    <3>1. ~RemoveWorks /\ faults' = faults + 1
      BY <2>3 DEF Fails, RemoveWorks
    <3>2. Slack' = Slack + 1
      BY <3>1, SlackStep
    <3> QED
      BY <1>1, <1>2, <1>6, <3>2 DEF CapInv, Unpruned
  <2> QED
    BY <2>1, <2>2, <2>3
<1>3. ASSUME pc = "rename", pc' = "fresh", NEW name,
             DOMAIN archives' = DOMAIN archives \cup {name}
      PROVE  CapInv'
  <2>1. Cardinality(DOMAIN archives') <= Cardinality(DOMAIN archives) + 1
    <3>1. Cardinality(DOMAIN archives') = IF name \in DOMAIN archives
            THEN Cardinality(DOMAIN archives) ELSE Cardinality(DOMAIN archives) + 1
      BY <1>3, FS_AddElement DEF TInv, FiniteArchives
    <3> QED
      BY <1>1, <3>1
  <2>2. Cardinality(DOMAIN archives) <= MaxFiles + Slack
    BY <1>3 DEF CapInv, Unpruned
  <2> QED
    BY <1>1, <1>3, <2>1, <2>2 DEF CapInv, Unpruned
<1>4. CASE DOMAIN archives' = DOMAIN archives /\ ~LaunchPrune /\ ~RollPrune
  <2>1. \/ pc \in Unpruned => pc' \in Unpruned
        \/ ~OpenWorks /\ faults' = faults + 1
    BY <1>4, UnprunedStep
  <2>2. CASE pc \in Unpruned => pc' \in Unpruned
    BY <1>1, <1>4, <2>2 DEF CapInv, Unpruned
  <2>3. CASE ~OpenWorks /\ faults' = faults + 1
    <3>1. Slack' = Slack + 1
      BY <2>3, SlackStep
    <3> QED
      BY <1>1, <1>4, <3>1 DEF CapInv, Unpruned
  <2> QED
    BY <2>1, <2>2, <2>3
<1>5. CASE DOMAIN archives' = DOMAIN archives /\ (LaunchPrune \/ RollPrune)
  <2>1. prune
    BY <1>5 DEF LaunchPrune, RollPrune
  <2> QED
    BY <1>2, <1>5, <2>1, PruneRemoves DEF TInv
<1>7. CASE Crash /\ Removal
  <2>1. pc' = "down"
    BY <1>7, CrashRemoves
  <2> QED
    BY <1>1, <1>6, <1>7, <2>1 DEF CapInv, Unpruned
<1> QED
  BY <1>2, <1>3, <1>4, <1>5, <1>7, NamesStep

LEMMA Capped == ASSUME {"open", "remove"} \cap Broken = {} PROVE SinksSpec => []CapInv
<1>1. SinksInit => CapInv
  BY FS_EmptySet, RotatorAssumption DEF SinksInit, Init, CapInv, Slack, Unpruned
<1>2. TInv /\ CapInv /\ [SinksNext]_sinkVars => CapInv'
  BY CapStep, SinksSteps
<1> QED
  BY <1>1, <1>2, Typed, PTL DEF SinksSpec

\* Between calls a service keeps at most MaxFiles archives, over crashes between
\* a roll and its prune, rolls that fail and a clock that is put back.
THEOREM CapIsHonoured ==
  ASSUME OpenWorks, RemoveWorks
  PROVE  SinksSpec => []CapHonoured
<1>1. {"open", "remove"} \cap Broken = {}
  BY DEF OpenWorks, RemoveWorks
<1>2. CapInv => CapHonoured
  BY RotatorAssumption DEF CapInv, CapHonoured, Slack, Unpruned
<1> QED
  BY <1>1, <1>2, Capped, PTL

\* Where opens and removals fail now and then, the archives above the cap are
\* never more than the failures there have been: what a failure has left is not
\* added to by rolls that work.
CapSlips ==
  MaxFiles > 0 /\ pc \in {"idle", "check", "append"}
    => Cardinality(DOMAIN archives) <= MaxFiles + faults

THEOREM FailuresBoundTheExcess ==
  ASSUME {"open", "remove"} \cap Broken = {}
  PROVE  SinksSpec => []CapSlips
<1>1. TInv /\ CapInv => CapSlips
  <2> SUFFICES ASSUME TInv, CapInv, MaxFiles > 0,
                      pc \in {"idle", "check", "append"}
               PROVE  Cardinality(DOMAIN archives) <= MaxFiles + faults
    BY DEF CapSlips
  <2>1. faults \in Nat /\ MaxFiles \in Nat /\ Cardinality(DOMAIN archives) \in Nat
    BY FS_CardinalityType, RotatorAssumption DEF TInv, TypeOK, FiniteArchives
  <2>2. Cardinality(DOMAIN archives) <= MaxFiles + Slack
    BY DEF CapInv, Unpruned
  <2> QED
    BY <2>1, <2>2 DEF Slack
<1> QED
  BY <1>1, Capped, Typed, PTL

\* With fewer archives than there are names within a second, one is free.
LEMMA RoomForOneMore ==
  ASSUME TInv, CapInv, LookupWorks, MaxFiles > 0, MaxFiles + Slack < NameLimit
  PROVE  NamesLast
<1> SUFFICES ASSUME pc = "rename",
                    \A i \in 0..(NameLimit - 1) :
                      [at |-> Stamp(now), i |-> i] \in DOMAIN archives
             PROVE  FALSE
  BY DEF NamesLast
<1> DEFINE s == Stamp(now)
<1> HIDE DEF s
<1> DEFINE S == 0..(NameLimit - 1)
           f == [i \in S |-> [at |-> s, i |-> i]]
<1>1. IsFiniteSet(S) /\ Cardinality(S) = NameLimit
  <2>1. 0 \in Int /\ NameLimit - 1 \in Int /\ ~(0 > NameLimit - 1)
        /\ (NameLimit - 1) - 0 + 1 = NameLimit
    BY RotatorAssumption
  <2> QED
    BY <2>1, FS_Interval
<1>2. Cardinality(DOMAIN archives) <= MaxFiles + Slack
  BY DEF CapInv, Unpruned
<1>3. Slack \in Nat /\ MaxFiles \in Nat /\ Cardinality(DOMAIN archives) \in Nat
  BY FS_CardinalityType, RotatorAssumption DEF TInv, TypeOK, FiniteArchives, Slack
<1>4. Cardinality(DOMAIN archives) < Cardinality(S)
  <2>1. NameLimit \in Nat
    BY RotatorAssumption
  <2> QED
    BY <1>1, <1>2, <1>3, <2>1
<1>5. f \in [S -> DOMAIN archives] /\ IsFiniteSet(DOMAIN archives)
  BY DEF TInv, FiniteArchives, s
<1>6. \E x, y \in S : x # y /\ f[x] = f[y]
  <2> HIDE DEF S, f
  <2> QED
    BY <1>1, <1>4, <1>5, FS_PigeonHole
<1>7. \A x \in S : f[x].i = x
  OBVIOUS
<1> QED
  BY <1>6, <1>7

\* The cap keeps the names from running out: as long as MaxFiles and the
\* failures of open and remove together stay below NameLimit, and no name's
\* lookup fails, no line is lost, however many rolls fall into one second.
THEOREM CapSavesTheNames ==
  ASSUME {"open", "remove"} \cap Broken = {}, LookupWorks, MaxFiles > 0
  PROVE  SinksSpec /\ [](MaxFiles + Slack < NameLimit) => []NothingLost
<1>1. TInv /\ CapInv /\ MaxFiles + Slack < NameLimit => NamesLast
  BY RoomForOneMore
<1> QED
  BY <1>1, Capped, Typed, NothingIsLost, PTL

\* Whatever fails, no step removes an archive within the retention window unless
\* MaxFiles archives stay.
THEOREM WindowIsHonoured == SinksSpec => WindowHonoured
<1>1. ASSUME TInv, [SinksNext]_sinkVars, NEW n \in DOMAIN archives, n \notin DOMAIN archives'
      PROVE  \/ RetainDays > 0 /\ n.at < clock - RetainDays * Day
             \/ MaxFiles > 0 /\ Cardinality(DOMAIN archives') >= MaxFiles
  <2>1. Removal
    BY <1>1, SinksSteps, NamesStep
  <2> QED
    BY <1>1, <2>1, RemovalSpares DEF TInv, Expired
<1>2. TInv /\ [SinksNext]_sinkVars =>
        [\A n \in DOMAIN archives : n \notin DOMAIN archives' =>
           \/ RetainDays > 0 /\ n.at < clock - RetainDays * Day
           \/ MaxFiles > 0 /\ Cardinality(DOMAIN archives') >= MaxFiles]_vars
  BY <1>1
<1> QED
  BY <1>2, Typed, PTL DEF SinksSpec, WindowHonoured

\* As long as nothing has failed, no archive is named for a time to come, and
\* once a prune is over the names span no more than the window.
SpanInv ==
  faults = 0 =>
    /\ pc \in Dated => now <= clock
    /\ \A n \in DOMAIN archives : n.at <= clock
    /\ RetainDays > 0 /\ pc \notin Unpruned =>
         \A m, n \in DOMAIN archives : m.at - n.at <= RetainDays * Day

LEMMA SpanStep ==
  ASSUME TInv, SpanInv, {"open", "remove"} \cap Broken = {}, [Next]_vars
  PROVE  SpanInv'
<1> SUFFICES ASSUME faults' = 0 PROVE SpanInv'
  BY DEF SpanInv
<1>1. faults = 0 /\ faults' = faults
  BY FaultsStep
<1>2. /\ clock \in Nat /\ clock' \in Nat /\ clock <= clock' /\ now \in Nat
      /\ pc' \in Dated => (pc \in Dated /\ now' = now) \/ now' = clock'
      /\ clock' # clock => Tick
  BY <1>1, ClockStep DEF TInv, TypeOK
<1>3. pc' \in Dated => now' <= clock'
  BY <1>1, <1>2 DEF SpanInv
<1>4. \A n \in DOMAIN archives' : n.at \in Nat /\ n.at <= clock'
  <2> TAKE n \in DOMAIN archives'
  <2>1. CASE n \in DOMAIN archives
    <3>1. n.at \in Nat /\ n.at <= clock
      BY <1>1, <2>1 DEF SpanInv, TInv, TypeOK, Names
    <3> QED
      BY <1>2, <3>1
  <2>2. CASE Rename /\ n.at = Stamp(now)
    <3>1. now <= clock
      BY <1>1, <2>2 DEF SpanInv, Rename, Dated
    <3>2. Stamp(now) \in Nat /\ Stamp(now) <= now
      BY <1>2, Stamps
    <3> QED
      BY <1>2, <2>2, <3>1, <3>2
  <2> QED
    BY <2>1, <2>2, ArchivesStep
<1>5. ASSUME RetainDays > 0, pc' \notin Unpruned,
             NEW m \in DOMAIN archives', NEW n \in DOMAIN archives'
      PROVE  m.at - n.at <= RetainDays * Day
  <2>1. CASE (LaunchPrune \/ RollPrune) /\ prune
    <3>1. PICK names \in Doomed :
            \/ Works("remove") /\ Remove(names)
            \/ Fails("remove") /\ \E gone \in SUBSET names : Remove(gone)
      BY <2>1 DEF prune
    <3>2. ~Fails("remove")
      BY <1>1 DEF Fails
    <3>3. DOMAIN archives' = DOMAIN archives \ names
      BY <3>1, <3>2 DEF Remove
    <3>4. n \in DOMAIN archives /\ n \notin Expired
      BY <1>5, <3>1, <3>3, DoomedCount DEF TInv
    <3>5. ~(n.at < clock - RetainDays * Day)
      BY <1>5, <3>4 DEF Expired
    <3>6. UNCHANGED clock
      BY <2>1 DEF LaunchPrune, RollPrune
    <3>7. m.at \in Nat /\ n.at \in Nat /\ m.at <= clock
      BY <1>4, <1>5, <3>6
    <3>8. RetainDays * Day \in Nat
      BY RotatorAssumption
    <3> QED
      BY <1>2, <3>5, <3>7, <3>8
  <2>2. CASE ~LaunchPrune /\ ~RollPrune
    <3>1. pc \notin Unpruned
      BY <1>1, <1>5, <2>2, UnprunedStep
    <3>2. DOMAIN archives' \subseteq DOMAIN archives
      BY <1>5, <2>2, NamesStep, RemovalTypes DEF Unpruned
    <3> QED
      BY <1>1, <1>5, <3>1, <3>2 DEF SpanInv
  <2> QED
    BY <2>1, <2>2 DEF LaunchPrune, RollPrune
<1> QED
  BY <1>3, <1>4, <1>5 DEF SpanInv

\* As long as nothing has failed, the archives of a running service are named
\* for times no further apart than the window, over every roll, every prune that
\* a crash cuts short, and every restart.
THEOREM HistoryKeepsToTheWindow ==
  ASSUME {"open", "remove"} \cap Broken = {}
  PROVE  SinksSpec => []HistorySpansTheWindow
<1>1. SinksInit => SpanInv
  BY DEF SinksInit, Init, SpanInv, Dated, Unpruned
<1>2. TInv /\ SpanInv /\ [SinksNext]_sinkVars => SpanInv'
  BY SpanStep, SinksSteps
<1>3. SpanInv => HistorySpansTheWindow
  BY DEF SpanInv, HistorySpansTheWindow, Unpruned
<1> QED
  BY <1>1, <1>2, <1>3, Typed, PTL DEF SinksSpec

-----------------------------------------------------------------------------
(* The history that pruning leaves.                                         *)

\* Unless a removal fails, what goes is named for an earlier second than what
\* stays, if no two archives are named for the same one.
LEMMA OlderGo ==
  ASSUME TInv, RemoveWorks, OneASecond, Removal,
         NEW m \in DOMAIN archives \ DOMAIN archives', NEW n \in DOMAIN archives'
  PROVE  Newer(n, m)
<1>1. PICK names, gone \in SUBSET DOMAIN archives : Takes(names, gone)
  BY DEF Removal
<1>2. DOMAIN archives' = DOMAIN archives \ names
  BY <1>1 DEF Takes, Remove
<1>3. MayPrecede(m, n) /\ m # n /\ n \in DOMAIN archives
  BY <1>1, <1>2 DEF Takes
<1>4. m.at # n.at /\ m.at \in Nat /\ n.at \in Nat
  BY <1>3 DEF OneASecond, TInv, TypeOK, Names
<1> QED
  BY <1>3, <1>4 DEF MayPrecede, Newer

\* What was pruned came before what is kept.
PrunedFirst == \A x \in pruned, y \in Kept : x < y

LEMMA PrunedFirstStep ==
  ASSUME TInv, RemoveWorks, NamesLast, HistoryInOrder, OneASecond, PrunedFirst, [Next]_vars
  PROVE  PrunedFirst'
<1>1. \A x \in lines : x \in Nat
  BY DEF TInv, TypeOK
<1>2. CASE Added
  <2> DEFINE id == Cardinality(lines) + 1
  <2>1. pruned' = pruned /\ Kept' = Kept \cup {id}
    BY <1>2 DEF Added
  <2>2. \A x \in pruned : x < id
    BY FS_CardinalityType DEF TInv, TypeOK, Numbered
  <2> HIDE DEF id, Kept
  <2> QED
    BY <2>1, <2>2 DEF PrunedFirst
<1>3. CASE Stayed
  <2> HIDE DEF Kept
  <2> QED
    BY <1>3 DEF Stayed, PrunedFirst
<1>4. CASE Removal /\ UNCHANGED live
  <2>1. /\ UNCHANGED live
        /\ \A n \in DOMAIN archives' : archives'[n] = archives[n] /\ n \in DOMAIN archives
        /\ \A x \in pruned' : x \in pruned \/ \E n \in DOMAIN archives \ DOMAIN archives' :
                                                x \in archives[n].lines
    BY <1>4, RemovalTypes
  <2>2. Holds(live)' = Holds(live)
    BY <2>1 DEF Holds
  <2> HIDE DEF Kept
  <2> SUFFICES ASSUME NEW x \in pruned', NEW y \in Kept' PROVE x < y
    BY DEF PrunedFirst
  <2>3. y \in Kept
    BY <2>1, <2>2, KeptWhere, KeptNext DEF Found
  <2>4. CASE x \in pruned
    BY <2>3, <2>4 DEF PrunedFirst
  <2>5. ASSUME NEW m \in DOMAIN archives \ DOMAIN archives', x \in archives[m].lines
        PROVE  x < y
    <3>1. x \in Nat
      BY <1>1, <2>5 DEF TInv, Written
    <3>2. CASE y \in Holds(live)
      <4>1. y > x
        BY <2>5, <3>2 DEF HistoryInOrder
      <4> QED
        BY <4>1
    <3>3. ASSUME NEW n \in DOMAIN archives', y \in archives'[n].lines PROVE x < y
      <4>1. Newer(n, m)
        BY <1>4, <2>5, OlderGo
      <4>2. n \in DOMAIN archives /\ y \in archives[n].lines
        BY <2>1, <3>3
      <4>3. y > x
        BY <2>5, <4>1, <4>2 DEF HistoryInOrder
      <4> QED
        BY <4>3
    <3> QED
      BY <2>2, <3>2, <3>3, KeptNext DEF Found
  <2> QED
    BY <2>1, <2>4, <2>5
<1> QED
  BY <1>2, <1>3, <1>4, KeptStep DEF Pruned

\* Unless a removal fails, pruning makes no hole in the history where each roll
\* comes in a later second than the archives it finds.
THEOREM HistoryHasNoHoles ==
  ASSUME RemoveWorks
  PROVE  SinksSpec => NoHoles
<1>1. SinksInit => PrunedFirst
  BY DEF SinksInit, Init, PrunedFirst
<1>2. TInv /\ RollsLater /\ HistoryInOrder /\ OneASecond /\ PrunedFirst /\ [SinksNext]_sinkVars
        => PrunedFirst'
  BY LaterLast, PrunedFirstStep, SinksSteps
<1>3. ASSUME TInv, NothingLost, PrunedFirst PROVE KeptIsTheTail
  <2> SUFFICES ASSUME NEW x \in Kept, NEW y \in lines, y > x, y \in pruned PROVE FALSE
    BY <1>3 DEF KeptIsTheTail, NothingLost, Kept
  <2>1. lines = pruned \cup Kept
    BY <1>3 DEF NothingLost, Kept
  <2> HIDE DEF Kept
  <2>2. x \in Nat /\ y \in Nat
    BY <1>3, <2>1 DEF TInv, TypeOK
  <2>3. y < x
    BY <1>3 DEF PrunedFirst
  <2> QED
    BY <2>2, <2>3
<1> QED
  BY <1>1, <1>2, <1>3, Typed, LaterRolls, PTL DEF SinksSpec, NoHoles

-----------------------------------------------------------------------------
(* What standard error is told.                                             *)

\* The trouble of this life has been reported, or its first report is at hand.
ReportInv ==
  /\ once \in BOOLEAN /\ trouble \in BOOLEAN
  /\ reports = IF once THEN 1 ELSE 0
  /\ once => trouble
  /\ trouble => once \/ sink = "report"
  /\ sink = "report" => trouble

LEMMA ReportStep ==
  ASSUME ReportInv, Stderr = TRUE, [SinksNext]_sinkVars
  PROVE  ReportInv'
<1>1. CASE Log \/ Console
  BY <1>1 DEF Log, Console, ReportInv
<1>2. CASE File
  <2> DEFINE failed == pc' = "idle" /\ lines' = lines
  <2>1. /\ sink = "file" /\ trouble' = (trouble \/ failed)
        /\ UNCHANGED <<once, reports>>
    BY <1>2 DEF File
  <2>2. sink' = "report" <=> failed
    BY <1>2 DEF File
  <2> HIDE DEF failed
  <2>3. trouble => once
    BY <2>1 DEF ReportInv
  <2>4. trouble' \in BOOLEAN /\ (trouble' => trouble \/ failed) /\ (trouble \/ failed => trouble')
    BY <2>1 DEF ReportInv
  <2>5. once' = once /\ reports' = reports
    BY <2>1
  <2> QED
    BY <2>2, <2>3, <2>4, <2>5 DEF ReportInv
<1>3. CASE Report
  BY <1>3 DEF Report, ReportInv
<1>4. CASE Die
  BY <1>4 DEF Die, ReportInv
<1>5. CASE UNCHANGED sinks
  BY <1>5 DEF sinks, ReportInv
<1> QED
  BY <1>1, <1>2, <1>3, <1>4, <1>5 DEF SinksNext, Work, sinkVars

\* With a console beside the file, a write that fails is reported once in the
\* life of a process: not per record, and never without a failure.
THEOREM TroubleIsReportedOnce ==
  ASSUME Stderr = TRUE
  PROVE  SinksSpec => []TroubleReportedOnce
<1>1. SinksInit => ReportInv
  BY DEF SinksInit, ReportInv
<1>2. ReportInv /\ [SinksNext]_sinkVars => ReportInv'
  BY ReportStep
<1>3. ReportInv => TroubleReportedOnce
  BY DEF ReportInv, TroubleReportedOnce
<1> QED
  BY <1>1, <1>2, <1>3, PTL DEF SinksSpec
=============================================================================
