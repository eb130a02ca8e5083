--------------------------- MODULE XrayManagerProofs ---------------------------
(***************************************************************************)
(* Safety of the Manager for any number of callers and of processes; and   *)
(* when its calls do not overlap, that it is a Supervisor.                 *)
(***************************************************************************)
EXTENDS XrayManagerSerial, TLAPS

\* What the invariants need besides: processes are numbered in the order of
\* their launch, and a Stop can only hold one that has been launched.
Numbered ==
  /\ \A p \in Procs : p > started <=> proc[p] = "new"
  /\ \A c \in Callers : held[c] <= started

IInv ==
  /\ TypeOK
  /\ Numbered
  /\ RecordIsNewest
  /\ RecordIsWatched
  /\ NoGhostRunning
  /\ StopLeavesNoSurvivor

-----------------------------------------------------------------------------
\* The program starts with no process on record and every caller idle.
LEMMA InitIInv == Init => IInv
<1> SUFFICES ASSUME Init PROVE IInv
  OBVIOUS
<1> USE MaxProcsAssumption DEF Init, Procs, Nil
<1>1. TypeOK
  <2>1. cmd \in Procs \cup {Nil} /\ started \in 0 .. MaxProcs /\ waiting \in SUBSET Procs
    OBVIOUS
  <2>4. running \in BOOLEAN
    OBVIOUS
  <2>5. proc \in [Procs -> ProcStates]
    BY DEF ProcStates
  <2>2. /\ pc \in [Callers -> CallerStates] /\ held \in [Callers -> Procs \cup {Nil}]
        /\ resume \in [Callers -> {"idle", "starting"}]
    BY DEF CallerStates
  <2>3. \A c \in Callers : pc[c] \in Engaged <=> held[c] # Nil
    BY DEF Engaged
  <2> QED BY <2>1, <2>2, <2>3, <2>4, <2>5 DEF TypeOK
<1>2. Numbered
  BY DEF Numbered
<1>3. RecordIsNewest /\ RecordIsWatched /\ NoGhostRunning /\ StopLeavesNoSurvivor
  BY DEF RecordIsNewest, RecordIsWatched, NoGhostRunning, StopLeavesNoSurvivor
<1> QED BY <1>1, <1>2, <1>3 DEF IInv

\* Entering a method touches nothing but the caller's own position.
LEMMA CallKeeps ==
  ASSUME IInv, NEW c \in Callers,
         CallStart(c) \/ CallStop(c, "idle") \/ CallRestart(c)
  PROVE  IInv'
BY DEF IInv, TypeOK, Numbered, RecordIsNewest, RecordIsWatched, NoGhostRunning,
       StopLeavesNoSurvivor, CallStart, CallStop, CallRestart, Goto, mgrVars,
       CallerStates, Engaged, Nil

\* Start leaves the record alone or puts the process it has launched on it.
LEMMA StartKeeps ==
  ASSUME IInv, NEW c \in Callers, Start(c)
  PROVE  IInv'
<1> USE MaxProcsAssumption DEF Procs, Nil
<1>1. CASE UNCHANGED mgrVars
  BY <1>1 DEF IInv, TypeOK, Numbered, RecordIsNewest, RecordIsWatched, NoGhostRunning,
       StopLeavesNoSurvivor, Start, Goto, mgrVars, CallerStates, Engaged
<1>2. CASE ~running /\ Launch
  <2>1. /\ pc[c] = "starting"
        /\ pc' = [pc EXCEPT ![c] = "idle"]
        /\ UNCHANGED <<held, resume>>
    BY DEF Start, Goto
  <2>2. /\ started + 1 \in Procs
        /\ started' = started + 1
        /\ cmd' = started + 1
        /\ running' = TRUE
        /\ proc' = [proc EXCEPT ![started + 1] = "up"]
        /\ waiting' = waiting \cup {started + 1}
    BY <1>2 DEF IInv, TypeOK, Launch
  <2>3. TypeOK'
    BY <2>1, <2>2 DEF IInv, TypeOK, ProcStates, Live, CallerStates, Engaged
  <2>4. Numbered'
    BY <2>1, <2>2 DEF IInv, TypeOK, Numbered
  <2>5. RecordIsNewest' /\ RecordIsWatched'
    BY <2>2 DEF IInv, TypeOK, RecordIsNewest, RecordIsWatched
  <2>6. NoGhostRunning'
    BY <2>2 DEF IInv, TypeOK, NoGhostRunning
  <2>7. StopLeavesNoSurvivor'
    BY <2>1, <2>2 DEF IInv, TypeOK, Numbered, StopLeavesNoSurvivor, Engaged
  <2> QED BY <2>3, <2>4, <2>5, <2>6, <2>7 DEF IInv
<1> QED BY <1>1, <1>2 DEF Start

\* Stop up to its select: the snapshot, the signal and the end of the wait.
LEMMA StopPrologueKeeps ==
  ASSUME IInv, NEW c \in Callers, StopSnapshot(c) \/ Signal(c) \/ StopDone(c)
  PROVE  IInv'
<1> USE MaxProcsAssumption DEF Procs, Nil
<1>1. CASE StopSnapshot(c)
  BY <1>1 DEF IInv, TypeOK, Numbered, RecordIsNewest, RecordIsWatched, NoGhostRunning,
       StopLeavesNoSurvivor, StopSnapshot, Return, Goto, mgrVars, CallerStates, Engaged
<1>2. CASE Signal(c)
  <2>1. /\ pc[c] = "signalling"
        /\ held[c] \in Procs
        /\ proc' = [proc EXCEPT ![held[c]] = IF @ = "up" THEN "interrupted" ELSE @]
        /\ pc' = [pc EXCEPT ![c] = "awaiting"]
        /\ UNCHANGED <<cmd, running, started, waiting, held, resume>>
    BY <1>2 DEF IInv, TypeOK, Signal, Goto, Engaged
  <2>2. TypeOK'
    BY <2>1 DEF IInv, TypeOK, ProcStates, Live, CallerStates, Engaged
  <2>3. Numbered'
    BY <2>1 DEF IInv, TypeOK, Numbered
  <2>4. RecordIsNewest' /\ RecordIsWatched'
    BY <2>1 DEF IInv, RecordIsNewest, RecordIsWatched
  <2>5. NoGhostRunning'
    BY <2>1 DEF IInv, TypeOK, RecordIsNewest, NoGhostRunning
  <2>6. StopLeavesNoSurvivor'
    BY <2>1 DEF IInv, TypeOK, StopLeavesNoSurvivor, Engaged
  <2> QED BY <2>2, <2>3, <2>4, <2>5, <2>6 DEF IInv
<1>3. CASE StopDone(c)
  BY <1>3 DEF IInv, TypeOK, Numbered, RecordIsNewest, RecordIsWatched, NoGhostRunning,
       StopLeavesNoSurvivor, StopDone, Goto, mgrVars, CallerStates, Engaged
<1> QED BY <1>1, <1>2, <1>3

\* Stop from its timer on: the kill and the clearing of the record.
LEMMA StopEpilogueKeeps ==
  ASSUME IInv, NEW c \in Callers, StopTimeout(c) \/ StopClear(c)
  PROVE  IInv'
<1> USE MaxProcsAssumption DEF Procs, Nil
<1>1. CASE StopTimeout(c)
  <2>1. /\ pc[c] = "awaiting"
        /\ held[c] \in Procs
        /\ held[c] <= started
        /\ proc' = [proc EXCEPT ![held[c]] = IF @ \in Live THEN "killed" ELSE @]
        /\ pc' = [pc EXCEPT ![c] = "clearing"]
        /\ UNCHANGED <<cmd, running, started, waiting, held, resume>>
    BY <1>1 DEF IInv, TypeOK, Numbered, StopTimeout, Goto, Engaged
  <2>2. TypeOK'
    BY <2>1 DEF IInv, TypeOK, ProcStates, Live, CallerStates, Engaged
  <2>3. Numbered'
    BY <2>1 DEF IInv, TypeOK, Numbered, Live
  <2>4. RecordIsNewest' /\ RecordIsWatched'
    BY <2>1 DEF IInv, RecordIsNewest, RecordIsWatched
  <2>5. NoGhostRunning'
    BY <2>1 DEF IInv, TypeOK, RecordIsNewest, NoGhostRunning
  <2>6. StopLeavesNoSurvivor'
    BY <2>1 DEF IInv, TypeOK, Numbered, StopLeavesNoSurvivor, Live, ProcStates, Engaged
  <2> QED BY <2>2, <2>3, <2>4, <2>5, <2>6 DEF IInv
<1>2. CASE StopClear(c)
  <2>1. /\ pc[c] = "clearing"
        /\ running' = FALSE
        /\ cmd' = Nil
        /\ held' = [held EXCEPT ![c] = Nil]
        /\ pc' = [pc EXCEPT ![c] = resume[c]]
        /\ resume' = [resume EXCEPT ![c] = "idle"]
        /\ UNCHANGED <<started, proc, waiting>>
    BY <1>2 DEF StopClear, Return, Goto
  <2>2. TypeOK'
    BY <2>1 DEF IInv, TypeOK, CallerStates, Engaged
  <2>3. Numbered'
    BY <2>1 DEF IInv, TypeOK, Numbered
  <2>4. RecordIsNewest' /\ RecordIsWatched' /\ NoGhostRunning'
    BY <2>1 DEF RecordIsNewest, RecordIsWatched, NoGhostRunning
  <2>5. StopLeavesNoSurvivor'
    BY <2>1 DEF IInv, TypeOK, StopLeavesNoSurvivor
  <2> QED BY <2>2, <2>3, <2>4, <2>5 DEF IInv
<1> QED BY <1>1, <1>2

\* The wait goroutine clears the record of the process it has waited for.
LEMMA WaitKeeps ==
  ASSUME IInv, NEW p \in Procs, Wait(p)
  PROVE  IInv'
BY MaxProcsAssumption
   DEF IInv, TypeOK, Numbered, RecordIsNewest, RecordIsWatched, NoGhostRunning,
       StopLeavesNoSurvivor, Wait, Procs, Nil

\* The death of a process changes nothing the Manager keeps.
LEMMA ExitKeeps ==
  ASSUME IInv, NEW p \in Procs, Exit(p)
  PROVE  IInv'
BY MaxProcsAssumption
   DEF IInv, TypeOK, Numbered, RecordIsNewest, RecordIsWatched, NoGhostRunning,
       StopLeavesNoSurvivor, Exit, IsLive, Live, ProcStates, Procs, Nil, Engaged

\* The invariant is inductive: one lemma per group of actions above.
LEMMA NextIInv == IInv /\ [Next]_vars => IInv'
<1> SUFFICES ASSUME IInv, [Next]_vars PROVE IInv'
  OBVIOUS
<1>1. ASSUME NEW c \in Callers,
             CallStart(c) \/ CallStop(c, "idle") \/ CallRestart(c) \/ Step(c)
      PROVE  IInv'
  BY <1>1, CallKeeps, StartKeeps, StopPrologueKeeps, StopEpilogueKeeps DEF Step
<1>2. ASSUME NEW p \in Procs, Wait(p) \/ Exit(p)
      PROVE  IInv'
  BY <1>2, WaitKeeps, ExitKeeps
<1>3. CASE UNCHANGED vars
  BY <1>3 DEF vars, IInv, TypeOK, Numbered, RecordIsNewest, RecordIsWatched, NoGhostRunning,
       StopLeavesNoSurvivor
<1> QED BY <1>1, <1>2, <1>3 DEF Next

\* The inductive invariant holds of every behaviour of the Manager.
THEOREM Invariance == Spec => []IInv
BY InitIInv, NextIInv, PTL DEF Spec

\* Values keep their types, and Stop never dereferences a nil command.
THEOREM TypeCorrect == Spec => []TypeOK
<1>1. IInv => TypeOK
  BY DEF IInv
<1> QED BY <1>1, Invariance, PTL

\* However Start, Stop, Restart and wait overlap, the record is empty or names
\* the newest process.
THEOREM RecordNewest == Spec => []RecordIsNewest
<1>1. IInv => RecordIsNewest
  BY DEF IInv
<1> QED BY <1>1, Invariance, PTL

\* The process on record is watched by its wait goroutine.
THEOREM RecordWatched == Spec => []RecordIsWatched
<1>1. IInv => RecordIsWatched
  BY DEF IInv
<1> QED BY <1>1, Invariance, PTL

\* A process the Manager has signalled is not left on record by the Stop that
\* signalled it.
THEOREM NoGhost == Spec => []NoGhostRunning
<1>1. IInv => NoGhostRunning
  BY DEF IInv
<1> QED BY <1>1, Invariance, PTL

\* The record is sound, in the whole of its parts.
THEOREM RecordSound == Spec => []RecordIsSound
<1>1. IInv => RecordIsSound
  BY DEF IInv, RecordIsSound
<1> QED BY <1>1, Invariance, PTL

\* A live process is forgotten only by a Stop called for an older one: the
\* single way in which the Manager can lose a process.
THEOREM OnlyStaleStopLoses == Spec => OnlyStaleStopForgets
<1> DEFINE A == running /\ cmd' # cmd /\ proc[cmd] \in {"up", "interrupted"} =>
                  \E c \in Callers : pc[c] = "clearing" /\ held[c] < cmd /\ pc'[c] # "clearing"
<1>1. IInv /\ [Next]_vars => [A]_vars
  <2> SUFFICES ASSUME IInv, Next, running, cmd' # cmd, proc[cmd] \in {"up", "interrupted"}
               PROVE  \E c \in Callers : pc[c] = "clearing" /\ held[c] < cmd /\ pc'[c] # "clearing"
    OBVIOUS
  <2>1. PICK c \in Callers : StopClear(c)
    BY DEF IInv, RecordIsNewest, Next, Step, CallStart, CallStop, CallRestart, Start, StopSnapshot,
           Signal, StopDone, StopTimeout, Wait, Exit, mgrVars
  <2>2. pc[c] = "clearing" /\ pc'[c] # "clearing"
    BY <2>1 DEF IInv, TypeOK, StopClear, Return, Goto
  <2>3. held[c] # cmd
    BY <2>2 DEF IInv, StopLeavesNoSurvivor
  <2>4. held[c] < cmd
    BY <2>3, MaxProcsAssumption DEF IInv, TypeOK, Numbered, RecordIsNewest, Procs, Nil
  <2> QED BY <2>2, <2>4
<1> QED BY <1>1, Invariance, PTL DEF Spec, OnlyStaleStopForgets

-----------------------------------------------------------------------------
(* Calls that do not overlap.                                              *)

\* A Stop that is past its snapshot holds the process on record, unless that
\* process has died in the meantime and its wait goroutine has cleared it.
HeldOnRecord == \A c \in Callers : pc[c] \in Engaged => cmd \in {held[c], Nil}

SInv ==
  /\ IInv
  /\ OneAtATime
  /\ HeldOnRecord
  /\ NoOrphan

Alive  == {p \in Procs : IsLive(p)}
Killed == {p \in Procs : proc[p] = "killed"}

-----------------------------------------------------------------------------
\* Init satisfies the serial invariant: nothing is launched, nobody is calling.
LEMMA InitSInv == Init => SInv
<1> SUFFICES ASSUME Init PROVE SInv
  OBVIOUS
<1>1. IInv
  BY InitIInv
<1>2. OneAtATime /\ HeldOnRecord /\ NoOrphan
  BY DEF Init, OneAtATime, HeldOnRecord, NoOrphan, Engaged
<1> QED BY <1>1, <1>2 DEF SInv

\* When a Stop is about to clear the record, what is on it is dead or killed.
LEMMA StopClearIsOurs ==
  ASSUME IInv, HeldOnRecord, NEW c \in Callers, pc[c] = "clearing"
  PROVE  proc[cmd] \notin {"up", "interrupted"} \/ cmd = Nil
BY DEF IInv, StopLeavesNoSurvivor, HeldOnRecord, Engaged

\* Between Stop's two critical sections only the wait goroutine of the same
\* process can touch the record.
LEMMA NextHeldOnRecord ==
  ASSUME IInv, OneAtATime, HeldOnRecord, Next
  PROVE  HeldOnRecord'
<1> USE DEF IInv, TypeOK
<1>1. ASSUME NEW c \in Callers, Start(c)
      PROVE  HeldOnRecord'
  <2>1. \A d \in Callers : pc'[d] \notin Engaged
    BY <1>1 DEF Start, Goto, OneAtATime, Engaged
  <2> QED BY <2>1 DEF HeldOnRecord
<1>2. ASSUME NEW c \in Callers,
             CallStart(c) \/ CallStop(c, "idle") \/ CallRestart(c) \/ StopSnapshot(c)
               \/ Signal(c) \/ StopDone(c) \/ StopTimeout(c) \/ StopClear(c)
      PROVE  HeldOnRecord'
  BY <1>2 DEF HeldOnRecord, CallStart, CallStop, CallRestart, StopSnapshot, Signal, StopDone,
              StopTimeout, StopClear, Return, Goto, mgrVars, Engaged, Nil
<1>3. ASSUME NEW p \in Procs, Wait(p) \/ Exit(p)
      PROVE  HeldOnRecord'
  BY <1>3 DEF HeldOnRecord, Wait, Exit
<1> QED BY <1>1, <1>2, <1>3 DEF Next, Step

\* Of the processes launched after the first b, those that are alive and not
\* killed are on record.
OnRecordAfter(b) ==
  \A p \in Procs : p > b /\ proc[p] \in {"up", "interrupted"} => running /\ cmd = p

\* No step of a serial Manager loses a process that is alive and not killed,
\* whatever it does not know of the first ones.
LEMMA NextOnRecord ==
  ASSUME IInv, OneAtATime, HeldOnRecord, NEW b \in Nat, OnRecordAfter(b), Next
  PROVE  OnRecordAfter(b)'
<1> USE DEF IInv, TypeOK
<1>1. ASSUME NEW c \in Callers, Start(c)
      PROVE  OnRecordAfter(b)'
  BY <1>1, MaxProcsAssumption DEF Start, Launch, mgrVars, OnRecordAfter, Procs
<1>2. ASSUME NEW c \in Callers,
             CallStart(c) \/ CallStop(c, "idle") \/ CallRestart(c) \/ StopSnapshot(c)
               \/ Signal(c) \/ StopDone(c) \/ StopTimeout(c)
      PROVE  OnRecordAfter(b)'
  BY <1>2 DEF OnRecordAfter, CallStart, CallStop, CallRestart, StopSnapshot, Signal, StopDone,
              StopTimeout, mgrVars
<1>3. ASSUME NEW c \in Callers, StopClear(c)
      PROVE  OnRecordAfter(b)'
  BY <1>3, StopClearIsOurs, MaxProcsAssumption DEF StopClear, OnRecordAfter, Procs, Nil
<1>4. ASSUME NEW p \in Procs, Wait(p) \/ Exit(p)
      PROVE  OnRecordAfter(b)'
  BY <1>4 DEF OnRecordAfter, Wait, Exit
<1> QED BY <1>1, <1>2, <1>3, <1>4 DEF Next, Step

LEMMA NextNoOrphan ==
  ASSUME SInv, Next
  PROVE  NoOrphan'
<1>1. OnRecordAfter(0)
  BY DEF SInv, NoOrphan, OnRecordAfter
<1>2. OnRecordAfter(0)'
  BY <1>1, NextOnRecord DEF SInv
<1> QED BY <1>2, MaxProcsAssumption DEF OnRecordAfter, NoOrphan, Procs

\* The serial invariant is inductive.
LEMMA NextSInv == SInv /\ [Next /\ OneAtATime']_vars => SInv'
<1> SUFFICES ASSUME SInv, [Next /\ OneAtATime']_vars PROVE SInv'
  OBVIOUS
<1>1. IInv'
  BY NextIInv DEF SInv
<1>2. CASE Next /\ OneAtATime'
  BY <1>1, <1>2, NextHeldOnRecord, NextNoOrphan DEF SInv
<1>3. CASE UNCHANGED vars
  BY <1>1, <1>3 DEF SInv, vars, OneAtATime, HeldOnRecord, NoOrphan
<1> QED BY <1>2, <1>3

\* With calls one at a time no xray is ever lost: a process that is alive and
\* has not been killed is the one on record.
THEOREM SerialNoOrphan == SerialSpec => []NoOrphan
<1>1. SerialSpec => []SInv
  BY InitSInv, NextSInv, PTL DEF SerialSpec
<1>2. SInv => NoOrphan
  BY DEF SInv
<1> QED BY <1>1, <1>2, PTL

-----------------------------------------------------------------------------
(* The refinement: each step of the Manager is a step of the Supervisor or *)
(* leaves slot, alive and sentenced alone.                                 *)

\* The empty Manager is the empty Supervisor.
LEMMA InitRefines == Init => Owner!Init
BY DEF Init, Owner!Init, IsLive, Live, Nil

\* Nothing the abstract variables are made of changes.
LEMMA Stutters ==
  ASSUME UNCHANGED <<cmd, proc>>
  PROVE  UNCHANGED Owner!vars
BY DEF Owner!vars, IsLive

\* Start is Launch, or nothing.
LEMMA StartRefines ==
  ASSUME SInv, NEW c \in Callers, Start(c)
  PROVE  [Owner!Next]_Owner!vars
<1>1. CASE UNCHANGED mgrVars
  BY <1>1, Stutters DEF mgrVars
<1>2. CASE ~running /\ Launch
  <2> DEFINE p == started + 1
  <2>1. /\ cmd = Nil
        /\ p \in Procs
        /\ proc[p] = "new"
        /\ cmd' = p
        /\ proc' = [proc EXCEPT ![p] = "up"]
    BY <1>2, MaxProcsAssumption
       DEF SInv, IInv, TypeOK, Numbered, RecordIsNewest, Launch, Procs
  <2>2. p \notin Alive /\ Alive' = Alive \cup {p} /\ Killed' = Killed
    BY <2>1 DEF SInv, IInv, TypeOK, Alive, Killed, IsLive, Live
  <2>3. Owner!Launch(p)
    BY <2>1, <2>2 DEF Owner!Launch, Alive, Killed
  <2> QED BY <2>1, <2>3 DEF Owner!Next
<1> QED BY <1>1, <1>2 DEF Start

\* Stop's timer is Sentence, its last critical section Release.
LEMMA StopRefines ==
  ASSUME SInv, NEW c \in Callers,
         StopSnapshot(c) \/ Signal(c) \/ StopDone(c) \/ StopTimeout(c) \/ StopClear(c)
  PROVE  [Owner!Next]_Owner!vars
<1>1. CASE StopSnapshot(c) \/ StopDone(c)
  BY <1>1, Stutters DEF StopSnapshot, StopDone, mgrVars
<1>2. CASE Signal(c)
  <2>1. UNCHANGED cmd /\ Alive' = Alive /\ Killed' = Killed
    BY <1>2 DEF SInv, IInv, TypeOK, Signal, Alive, Killed, IsLive, Live
  <2> QED BY <2>1 DEF Owner!vars, Alive, Killed
<1>3. CASE StopTimeout(c)
  <2>0. PICK p \in Procs : p = held[c]
    BY <1>3 DEF SInv, IInv, TypeOK, StopTimeout, Engaged
  <2>1. cmd' = cmd
    BY <1>3 DEF StopTimeout
  <2>2. CASE proc[p] \in {"up", "interrupted"}
    <3>1. p = cmd /\ p \in Alive
      BY <2>0, <2>2 DEF SInv, NoOrphan, Alive, IsLive, Live
    <3>2. Alive' = Alive /\ Killed' = Killed \cup {p}
      BY <1>3, <2>0, <2>2 DEF SInv, IInv, TypeOK, StopTimeout, Alive, Killed, IsLive, Live
    <3>3. Owner!Sentence(p)
      BY <2>1, <3>1, <3>2 DEF Owner!Sentence, Alive, Killed
    <3> QED BY <3>3 DEF Owner!Next
  <2>3. CASE proc[p] \notin {"up", "interrupted"}
    <3>1. UNCHANGED proc
      BY <1>3, <2>0, <2>3 DEF SInv, IInv, TypeOK, StopTimeout, Live
    <3> QED BY <2>1, <3>1, Stutters
  <2> QED BY <2>2, <2>3
<1>4. CASE StopClear(c)
  <2>1. cmd \notin Alive \ Killed
    BY <1>4, StopClearIsOurs, MaxProcsAssumption
       DEF SInv, StopClear, Alive, Killed, IsLive, Live, Procs, Nil
  <2>2. cmd' = Nil /\ Alive' = Alive /\ Killed' = Killed
    BY <1>4 DEF StopClear, Alive, Killed, IsLive
  <2>3. Owner!Release
    BY <2>1, <2>2 DEF Owner!Release, Alive, Killed
  <2> QED BY <2>3 DEF Owner!Next
<1> QED BY <1>1, <1>2, <1>3, <1>4

\* wait(cmd) is Release, or nothing when the process was superseded; an exit
\* is Die.
LEMMA ProcessRefines ==
  ASSUME SInv, NEW p \in Procs, Wait(p) \/ Exit(p)
  PROVE  [Owner!Next]_Owner!vars
<1>1. CASE Wait(p) /\ cmd # p
  <2>1. cmd' = cmd /\ proc' = proc
    BY <1>1 DEF Wait
  <2> QED BY <2>1, Stutters
<1>2. CASE Wait(p) /\ cmd = p
  <2>1. cmd \notin Alive \ Killed /\ cmd' = Nil /\ Alive' = Alive /\ Killed' = Killed
    BY <1>2 DEF Wait, Alive, Killed, IsLive, Live
  <2>2. Owner!Release
    BY <2>1 DEF Owner!Release, Alive, Killed
  <2> QED BY <2>2 DEF Owner!Next
<1>3. CASE Exit(p)
  <2>1. UNCHANGED cmd /\ p \in Alive /\ Alive' = Alive \ {p} /\ Killed' = Killed \ {p}
    BY <1>3 DEF SInv, IInv, TypeOK, Exit, Alive, Killed, IsLive, Live
  <2>2. Owner!Die(p)
    BY <2>1 DEF Owner!Die, Alive, Killed
  <2> QED BY <2>2 DEF Owner!Next
<1> QED BY <1>1, <1>2, <1>3

\* Start, Stop, Restart and wait, called one at a time, implement the
\* Supervisor: launch into an empty slot, release only the dead or the killed.
THEOREM SerialRefinement == SerialSpec => IsSupervisor
<1>1. SInv /\ [Next /\ OneAtATime']_vars => [Owner!Next]_Owner!vars
  <2> SUFFICES ASSUME SInv, [Next /\ OneAtATime']_vars PROVE [Owner!Next]_Owner!vars
    OBVIOUS
  <2>1. ASSUME NEW c \in Callers,
               CallStart(c) \/ CallStop(c, "idle") \/ CallRestart(c)
        PROVE  [Owner!Next]_Owner!vars
    BY <2>1, Stutters DEF CallStart, CallStop, CallRestart, mgrVars
  <2>2. CASE UNCHANGED vars
    BY <2>2, Stutters DEF vars
  <2> QED BY <2>1, <2>2, StartRefines, StopRefines, ProcessRefines DEF Next, Step
<1>2. SerialSpec => []SInv
  BY InitSInv, NextSInv, PTL DEF SerialSpec
<1> QED BY InitRefines, <1>1, <1>2, PTL DEF SerialSpec, IsSupervisor, Owner!Spec

================================================================================
