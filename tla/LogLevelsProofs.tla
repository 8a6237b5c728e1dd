--------------------------- MODULE LogLevelsProofs ---------------------------
(***************************************************************************)
(* For every number of operators and every set of levels: once a logger's  *)
(* mutex is free its level is the one it was last asked to have.  The      *)
(* argument has two halves.  The mutex makes the read of "configured" and  *)
(* the store of the level one step; and a call made after Setup can only   *)
(* reach the logger Setup installed, because current() looks at process    *)
(* after the call began and process is never taken back.                   *)
(***************************************************************************)
EXTENDS LogLevels, TLAPS

USE DEF Debug, Info, Warn, Error, Silent, Loggers, Levels

\* What is installed, and which logger a call may have been given.
Addressed ==
  /\ process = "ours" <=> setup = "returned"
  /\ setup \in {"default", "returned"} => slogDefault = "ours"
  /\ \A o \in Operators :
       /\ late[o] => setup = "returned"
       /\ pc[o] \in {"resolved", "setting"} =>
            /\ target[o] = "ours" => setup = "returned"
            /\ late[o] => target[o] = "ours"

Exclusive ==
  \A l \in Loggers, o \in Operators :
    holder[l] = o <=> pc[o] = "setting" /\ target[o] = l

\* The level a call leaves behind, given what l is to return to.
After(o, base) ==
  IF call[o].op = "SetLevel" THEN call[o].to ELSE IF call[o].on THEN Debug ELSE base

Volume ==
  /\ \A l \in Loggers :
       holder[l] = Nobody => level[l] = wanted[l] /\ configured[l] = standing[l]
  /\ \A o \in Operators : pc[o] = "setting" =>
       /\ next[o] = After(o, standing[target[o]])
       /\ configured[target[o]] = IF call[o].op = "SetLevel" THEN call[o].to
                                  ELSE standing[target[o]]

IInv == TypeOK /\ Addressed /\ Exclusive /\ Volume

\* A level that is asked for is one that there is.
LEMMA CalledLevels ==
  ASSUME NEW c \in Calls \cup {Look}
  PROVE  /\ c.to \in Levels
         /\ c.op \in {"SetDebug", "SetLevel", "Level"}
         /\ c.op = "Level" => c.on = FALSE
<1>1. CASE c \in [op : {"SetDebug"}, on : BOOLEAN, to : {Debug}]
  BY <1>1
<1>2. CASE c \in [op : {"SetLevel"}, on : {FALSE}, to : Settable]
  BY <1>2, LevelsAssumption
<1>3. CASE c = Look
  BY <1>3 DEF Look
<1> QED
  BY <1>1, <1>2, <1>3 DEF Calls

LEMMA InitInvariant == ASSUME Init PROVE IInv
<1>1. TypeOK
  BY LevelsAssumption DEF Init, TypeOK
<1>2. Addressed /\ Exclusive /\ Volume
  BY LevelsAssumption DEF Init, Addressed, Exclusive, Volume
<1> QED
  BY <1>1, <1>2 DEF IInv

-----------------------------------------------------------------------------
(* Setup builds and installs a logger that nobody has yet.                  *)

LEMMA SetupStep == ASSUME IInv, New \/ SetDefault \/ setProcess PROVE IInv'
<1> USE LevelsAssumption DEF IInv, TypeOK, Addressed, Exclusive, Volume, After
<1>1. CASE New
  <2>1. UNCHANGED <<process, slogDefault, holder, operators>> /\ setup = "uncalled"
    BY <1>1 DEF New
  <2>2. CASE setup' = "failed" /\ UNCHANGED <<level, configured, asked>>
    BY <2>1, <2>2 DEF operators, asked
  <2>3. ASSUME NEW c \in Configurable, NEW d \in Levels,
               setup' = "built",
               configured' = [configured EXCEPT !["ours"] = c],
               level' = [level EXCEPT !["ours"] = d],
               wanted' = [wanted EXCEPT !["ours"] = d],
               standing' = [standing EXCEPT !["ours"] = c]
        PROVE  IInv'
    <3>1. c \in Levels
      OBVIOUS
    <3>2. TypeOK'
      BY <2>1, <2>3, <3>1 DEF operators
    <3>3. \A o \in Operators : pc[o] = "setting" => target[o] = "discard"
      BY <2>1
    <3>4. Addressed' /\ Exclusive' /\ Volume'
      BY <2>1, <2>3, <3>3 DEF operators
    <3> QED
      BY <3>2, <3>4
  <2>4. \A c \in Configurable, debug \in BOOLEAN : (IF debug THEN Debug ELSE c) \in Levels
    OBVIOUS
  <2> QED
    BY <1>1, <2>2, <2>3, <2>4 DEF New
<1>2. CASE SetDefault
  BY <1>2 DEF SetDefault, loggers, operators, asked
<1>3. CASE setProcess
  BY <1>3 DEF setProcess, loggers, operators, asked
<1> QED
  BY <1>1, <1>2, <1>3

-----------------------------------------------------------------------------
(* The calls.                                                               *)

LEMMA CallStep == ASSUME IInv, NEW o \in Operators, Call(o) PROVE IInv'
<1> USE DEF IInv, TypeOK
<1>1. UNCHANGED <<installed, loggers, target, next, asked>> /\ pc[o] = "idle"
  BY DEF Call
<1>2. PICK c \in Calls \cup {Look} : call' = [call EXCEPT ![o] = c]
  BY DEF Call
<1>3. TypeOK'
  BY <1>1, <1>2 DEF Call, installed, loggers, asked
<1>4. Addressed' /\ Exclusive' /\ Volume'
  BY <1>1, <1>2 DEF Call, installed, loggers, asked, Addressed, Exclusive, Volume, After
<1> QED
  BY <1>3, <1>4

\* current() gives a call that began after Setup the logger Setup installed.
LEMMA CurrentStep == ASSUME IInv, NEW o \in Operators, current(o) PROVE IInv'
<1> USE LevelsAssumption DEF IInv, TypeOK, Look
<1>1. /\ UNCHANGED <<slogDefault, setup, loggers, asked>> /\ pc[o] = "called"
      /\ process' = IF process = NoLogger THEN "discard" ELSE process
  BY DEF current
<1>2. CASE Return(o)
  <2>1. TypeOK'
    BY <1>1, <1>2 DEF Return, loggers, asked
  <2>2. Addressed' /\ Exclusive' /\ Volume'
    BY <1>1, <1>2 DEF Return, loggers, asked, Addressed, Exclusive, Volume, After
  <2> QED
    BY <2>1, <2>2
<1>3. CASE /\ pc' = [pc EXCEPT ![o] = "resolved"]
           /\ target' = [target EXCEPT ![o] = process']
           /\ UNCHANGED <<call, next, late>>
  <2>1. TypeOK'
    BY <1>1, <1>3 DEF loggers, asked
  <2>2. Addressed' /\ Exclusive' /\ Volume'
    BY <1>1, <1>3 DEF loggers, asked, Addressed, Exclusive, Volume, After
  <2> QED
    BY <2>1, <2>2
<1> QED
  BY <1>2, <1>3 DEF current

\* Nobody else holds the mutex, so what is read of "configured" stands.
LEMMA EnterStep == ASSUME IInv, NEW o \in Operators, Enter(o) PROVE IInv'
<1> USE LevelsAssumption DEF IInv, TypeOK
<1>1. call[o].to \in Levels
  BY CalledLevels
<1>2. levelTo(o) \in Levels
  BY <1>1 DEF levelTo
<1>3. TypeOK'
  BY <1>1, <1>2 DEF Enter, installed, asked
<1>4. Addressed' /\ Exclusive'
  BY DEF Enter, installed, asked, Addressed, Exclusive
<1>5. Volume'
  <2>1. \A u \in Operators : pc[u] = "setting" => u # o /\ target[u] # target[o]
    BY DEF Enter, Exclusive
  <2>2. configured[target[o]] = standing[target[o]]
    BY DEF Enter, Volume
  <2>3. \A l \in Loggers : holder'[l] = Nobody => l # target[o] /\ holder[l] = Nobody
    BY DEF Enter
  <2>4. \A l \in Loggers \ {target[o]} : configured'[l] = configured[l]
    BY DEF Enter
  <2>5. /\ next' = [next EXCEPT ![o] = levelTo(o)] /\ pc' = [pc EXCEPT ![o] = "setting"]
        /\ UNCHANGED <<level, call, target, wanted, standing>>
    BY DEF Enter, asked
  <2>6. configured'[target[o]] = IF call[o].op = "SetLevel" THEN call[o].to
                                 ELSE configured[target[o]]
    BY DEF Enter
  <2>7. \A l \in Loggers :
          holder'[l] = Nobody => level'[l] = wanted'[l] /\ configured'[l] = standing'[l]
    BY <2>3, <2>4, <2>5 DEF Volume
  <2>8. next'[o] = After(o, standing[target[o]])
    BY <2>2, <2>5 DEF levelTo, After
  <2> QED
    BY <2>1, <2>2, <2>4, <2>5, <2>6, <2>7, <2>8 DEF Volume, After
<1> QED
  BY <1>3, <1>4, <1>5

\* What is stored is what was asked of the logger the call was meant for.
LEMMA LeaveStep == ASSUME IInv, NEW o \in Operators, Leave(o) PROVE IInv'
<1> USE LevelsAssumption DEF IInv, TypeOK
<1> DEFINE l == target[o]
<1>1. pc[o] = "setting" /\ holder[l] = o /\ l \in Loggers
  BY DEF Leave, Exclusive
<1>2. (IF late[o] THEN slogDefault ELSE l) = l
  BY <1>1 DEF Addressed
<1>3. call[o].to \in Levels
  BY CalledLevels
<1>4. /\ level' = [level EXCEPT ![l] = next[o]]
      /\ holder' = [holder EXCEPT ![l] = Nobody]
      /\ standing' = IF call[o].op = "SetLevel" THEN [standing EXCEPT ![l] = call[o].to]
                     ELSE standing
      /\ wanted' = [wanted EXCEPT ![l] = IF call[o].op = "SetDebug" /\ call[o].on THEN Debug
                                         ELSE standing'[l]]
      /\ Return(o) /\ UNCHANGED <<installed, configured>>
  BY <1>2 DEF Leave, unlock
<1>5. standing' \in [Loggers -> Levels]
  BY <1>1, <1>3, <1>4
<1>6. TypeOK'
  <2>1. wanted' \in [Loggers -> Levels]
    BY <1>1, <1>4, <1>5
  <2>2. level' \in [Loggers -> Levels] /\ holder' \in [Loggers -> Operators \cup {Nobody}]
    BY <1>1, <1>4
  <2>3. /\ pc' \in [Operators -> {"idle", "called", "resolved", "setting"}]
        /\ call' \in [Operators -> Calls \cup {Look}]
        /\ target' \in [Operators -> Loggers]
        /\ next' \in [Operators -> Levels] /\ late' \in [Operators -> BOOLEAN]
    BY <1>4 DEF Return
  <2> QED
    BY <1>4, <1>5, <2>1, <2>2, <2>3 DEF installed
<1>7. Addressed' /\ Exclusive'
  BY <1>1, <1>4 DEF Return, installed, Addressed, Exclusive
<1>8. Volume'
  <2>1. \A u \in Operators : pc'[u] = "setting" =>
          u # o /\ pc[u] = "setting" /\ target[u] # l /\ target'[u] = target[u]
            /\ call'[u] = call[u] /\ next'[u] = next[u]
    BY <1>1, <1>4 DEF Return, Exclusive
  <2>2. configured[l] = standing'[l]
    BY <1>1, <1>4 DEF Volume
  <2>3. next[o] = wanted'[l]
    <3>1. next[o] = After(o, standing[l])
      BY <1>1 DEF Volume
    <3>2. /\ call[o].op \in {"SetDebug", "SetLevel", "Level"}
          /\ call[o].op = "Level" => call[o].on = FALSE
      BY CalledLevels
    <3>3. wanted'[l] = IF call[o].op = "SetDebug" /\ call[o].on THEN Debug ELSE standing'[l]
      BY <1>1, <1>4
    <3>4. standing'[l] = IF call[o].op = "SetLevel" THEN call[o].to ELSE standing[l]
      BY <1>1, <1>4
    <3> QED
      BY <3>1, <3>2, <3>3, <3>4 DEF After
  <2>4. \A k \in Loggers \ {l} :
          /\ holder'[k] = holder[k] /\ level'[k] = level[k]
          /\ wanted'[k] = wanted[k] /\ standing'[k] = standing[k]
    BY <1>1, <1>4
  <2>5. \A k \in Loggers :
          holder'[k] = Nobody => level'[k] = wanted'[k] /\ configured'[k] = standing'[k]
    BY <1>1, <1>4, <2>2, <2>3, <2>4 DEF Volume
  <2> QED
    BY <1>4, <2>1, <2>4, <2>5 DEF Volume, After
<1> QED
  BY <1>6, <1>7, <1>8

LEMMA StutterStep == ASSUME IInv, UNCHANGED vars PROVE IInv'
  BY DEF IInv, TypeOK, Addressed, Exclusive, Volume, After,
         vars, installed, loggers, operators, asked

LEMMA StepInvariant == ASSUME IInv, [Next]_vars PROVE IInv'
  BY SetupStep, CallStep, CurrentStep, EnterStep, LeaveStep, StutterStep
  DEF Next, Operator, Log

LEMMA Invariant == Spec => []IInv
  BY InitInvariant, StepInvariant, PTL DEF Spec

-----------------------------------------------------------------------------
\* The accessors always have a logger to work on, and levels stay levels.
THEOREM TypeCorrect == Spec => []TypeOK
<1>1. IInv => TypeOK
  BY DEF IInv
<1> QED
  BY <1>1, Invariant, PTL

\* Whoever turns the volume, and whenever he began relative to Setup, a logger
\* that nobody is setting has the level it was last asked to have.
THEOREM VolumeIsAsAsked == Spec => []LevelIsAsAsked
<1>1. IInv => LevelIsAsAsked
  BY DEF IInv, Volume, LevelIsAsAsked
<1> QED
  BY <1>1, Invariant, PTL
=============================================================================
