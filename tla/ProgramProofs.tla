----------------------------- MODULE ProgramProofs -----------------------------
(***************************************************************************)
(* The life of the program for any number of handlers, processes, starts   *)
(* and ticks: a sign-in lasts as long as it should, and a shutdown that    *)
(* comes to its end leaves no xray behind.                                 *)
(***************************************************************************)
EXTENDS Program, TLAPS

\* What is proved of the Manager, about the Manager of this program.
Proved == INSTANCE XrayManagerProofs

-----------------------------------------------------------------------------
(* The session cookie.                                                     *)

\* The browser keeps a token at least until it expires, and the secret is what
\* the last start of the program has made of it.
SesInv ==
  /\ Ses!TypeOK
  /\ secret = Ses!LoadSecret(lives)
  /\ cookie # NoCookie => cookie.exp <= cookie.keep

-----------------------------------------------------------------------------
(* The shutdown.                                                           *)

\* The handlers do not overlap: one operator, one request at a time.
Apart == \A g, h \in Handlers : pc[g] # "idle" /\ pc[h] # "idle" => g = h

SerialSpec == Init /\ [][Next /\ Apart']_vars

\* A program that is not running has no goroutine and no record.
Down ==
  ~Running =>
    /\ closing = "waiting"
    /\ cmd = Mgr!Nil /\ ~running
    /\ \A c \in Callers : pc[c] = "idle"

\* The shutdown goroutine calls Stop once, after Shutdown; and unless it has
\* been hurried no handler is left by then.
Closing ==
  /\ life = "up" => closing = "waiting"
  /\ closing \in {"waiting", "draining"} => pc[Shutter] = "idle" /\ resume[Shutter] = "idle"
  /\ closing = "stopping" =>
       /\ life = "closing"
       /\ Idle
       /\ pc[Shutter] # "starting" /\ resume[Shutter] = "idle"
       /\ pc[Shutter] = "idle" => ~running

\* As long as it has not been hurried, calls do not overlap, and the Manager
\* has on record each xray of this program that is alive and not killed.
Orderly ==
  Running /\ closing # "hurried" =>
    /\ Proved!OneAtATime
    /\ Proved!HeldOnRecord
    /\ Proved!OnRecordAfter(born)

BInv == TypeOK /\ SesInv /\ Proved!IInv

PInv == BInv /\ Down /\ Closing /\ Orderly

-----------------------------------------------------------------------------
(* The session cookie.                                                     *)

\* The first start has made its secret, and nobody is signed in.
LEMMA InitSes == Init => SesInv
  BY SessionAssumption DEF Init, SesInv, Ses!Init, Ses!TypeOK, Ses!LoadSecret

\* Nothing but Login, Logout, the clock and a start of the program touches the
\* cookie or its secret.
LEMMA NextSes == SesInv /\ [Next]_vars => SesInv'
  <1> SUFFICES ASSUME SesInv, [Next]_vars PROVE SesInv'
    OBVIOUS
  <1>1. CASE UNCHANGED sesVars
    BY <1>1 DEF SesInv, sesVars, Ses!TypeOK, Ses!LoadSecret
  <1>2. CASE Ses!Login
    BY <1>2, SessionAssumption DEF SesInv, Ses!Login, Ses!TypeOK, Ses!Cookies, Ses!LoadSecret
  <1>3. CASE Ses!Logout
    BY <1>3 DEF SesInv, Ses!Logout, Ses!TypeOK, Ses!LoadSecret
  <1>4. CASE Ses!Tick
    BY <1>4, SessionAssumption DEF SesInv, Ses!Tick, Ses!TypeOK, Ses!LoadSecret
  <1>5. CASE Ses!Restart
    BY <1>5, SessionAssumption DEF SesInv, Ses!Restart, Ses!TypeOK, Ses!LoadSecret
  <1> QED BY <1>1, <1>2, <1>3, <1>4, <1>5 DEF Next, vars, Request, CallerStep, WaitStep, ExitStep,
             SignInOut, Tick, Terminate, ShutdownReturns, Vanish, MainReturns, Kill, Begin

\* Who is signed in, and what a tick or a start of the program makes of it.
LEMMA SesStep ==
  ASSUME SesInv, Ses!Authenticated, Ses!Tick \/ Ses!Restart
  PROVE  Ses!Authenticated' <=> now' < cookie.exp /\ (fixed \/ lives' = lives)
  <1>1. /\ cookie.exp \in Nat /\ cookie.keep \in Nat /\ cookie.exp <= cookie.keep
        /\ cookie # NoCookie /\ cookie.key = secret /\ now < cookie.exp
        /\ now \in Nat /\ lives \in Nat /\ fixed \in BOOLEAN
        /\ secret = IF fixed THEN 0 ELSE lives
    BY SessionAssumption DEF SesInv, Ses!Authenticated, Ses!TypeOK, Ses!Cookies, Ses!LoadSecret
  <1>2. CASE Ses!Tick
    BY <1>1, <1>2 DEF Ses!Tick, Ses!Authenticated
  <1>3. CASE Ses!Restart
    BY <1>1, <1>3 DEF Ses!Restart, Ses!Authenticated, Ses!LoadSecret
  <1> QED BY <1>2, <1>3

\* A browser that is signed in stays so until its token expires, over any
\* number of shutdowns, crashes and starts with SESSION_SECRET set; without it
\* the first start signs it out (config.go:44, auth.go:42, 67).
THEOREM SignInLasts == Spec => SessionLasts
  <1>1. Spec => []SesInv
    BY InitSes, NextSes, PTL DEF Spec
  <1>2. ASSUME SesInv, [Next]_vars
        PROVE  [Ses!Authenticated /\ (lives' # lives \/ now' # now) =>
                 (Ses!Authenticated' <=> now' < cookie.exp /\ (fixed \/ lives' = lives))]_vars
    <2>1. lives' # lives \/ now' # now => Ses!Tick \/ Ses!Restart
      BY <1>2 DEF Next, vars, sesVars, Request, CallerStep, WaitStep, ExitStep, SignInOut, Tick,
             Ses!Login, Ses!Logout, Terminate, ShutdownReturns, Vanish, MainReturns, Kill, Begin
    <2> QED BY <1>2, <2>1, SesStep
  <1> QED BY <1>1, <1>2, PTL DEF Spec, SessionLasts

-----------------------------------------------------------------------------
(* The Manager in the program.                                             *)

\* The two instances of XrayManager are one.
LEMMA SameManager ==
  /\ Mgr!Init => Proved!Init
  /\ Mgr!TypeOK <=> Proved!TypeOK
  /\ mgrVars = Proved!vars
  /\ Mgr!Procs = Proved!Procs /\ Mgr!Nil = Proved!Nil
  <1>1. Mgr!Init => Proved!Init
    BY DEF Mgr!Init, Proved!Init, Mgr!Procs, Proved!Procs, Mgr!Nil, Proved!Nil
  <1>2. Mgr!TypeOK <=> Proved!TypeOK
    BY DEF Mgr!TypeOK, Proved!TypeOK, Mgr!Procs, Proved!Procs, Mgr!Nil, Proved!Nil,
           Mgr!ProcStates, Proved!ProcStates, Mgr!Live, Proved!Live,
           Mgr!CallerStates, Proved!CallerStates, Mgr!Engaged, Proved!Engaged
  <1>3. mgrVars = Proved!vars
    BY DEF mgrVars, Proved!vars
  <1>4. Mgr!Procs = Proved!Procs /\ Mgr!Nil = Proved!Nil
    BY DEF Mgr!Procs, Proved!Procs, Mgr!Nil, Proved!Nil
  <1> QED BY <1>1, <1>2, <1>3, <1>4

LEMMA SameCall ==
  ASSUME NEW c, Mgr!CallStart(c) \/ Mgr!CallStop(c, "idle") \/ Mgr!CallRestart(c)
  PROVE  Proved!CallStart(c) \/ Proved!CallStop(c, "idle") \/ Proved!CallRestart(c)
  BY DEF Mgr!CallStart, Mgr!CallStop, Mgr!CallRestart,
         Proved!CallStart, Proved!CallStop, Proved!CallRestart,
         Mgr!Goto, Proved!Goto, Mgr!mgrVars, Proved!mgrVars

LEMMA SameStep ==
  ASSUME NEW c, Mgr!Step(c)
  PROVE  Proved!Step(c)
  <1>1. CASE Mgr!Start(c)
    BY <1>1 DEF Mgr!Start, Proved!Step, Proved!Start, Mgr!Launch, Proved!Launch,
                Mgr!Goto, Proved!Goto, Mgr!mgrVars, Proved!mgrVars
  <1>2. CASE ~Mgr!Start(c)
    BY <1>2 DEF Mgr!Step, Proved!Step, Mgr!StopSnapshot, Proved!StopSnapshot, Mgr!Signal, Proved!Signal,
                Mgr!StopDone, Proved!StopDone, Mgr!StopTimeout, Proved!StopTimeout,
                Mgr!StopClear, Proved!StopClear, Mgr!Return, Proved!Return, Mgr!Live, Proved!Live,
                Mgr!Nil, Proved!Nil, Mgr!Goto, Proved!Goto, Mgr!mgrVars, Proved!mgrVars
  <1> QED BY <1>1, <1>2

LEMMA SameProcess ==
  ASSUME NEW p, Mgr!Wait(p) \/ Mgr!Exit(p)
  PROVE  Proved!Wait(p) \/ Proved!Exit(p)
  BY DEF Mgr!Wait, Proved!Wait, Mgr!Exit, Proved!Exit, Mgr!IsLive, Proved!IsLive, Mgr!Live, Proved!Live,
         Mgr!Nil, Proved!Nil

\* A step of the program is a step of its Manager, or leaves the Manager alone,
\* or ends the program.
LEMMA ManagerOrVanish ==
  [Next]_vars => [Proved!Next]_mgrVars \/ (Running /\ life' \in {"returned", "killed"} /\ Vanish)
  <1> SUFFICES ASSUME [Next]_vars
               PROVE  \/ Proved!Next \/ UNCHANGED mgrVars
                      \/ Running /\ life' \in {"returned", "killed"} /\ Vanish
    OBVIOUS
  <1>1. ASSUME NEW h \in Handlers, Request(h) PROVE Proved!Next
    BY <1>1, SameCall DEF Request, Callers, Proved!Next
  <1>2. ASSUME NEW c \in Callers, CallerStep(c) PROVE Proved!Next
    BY <1>2, SameStep DEF CallerStep, Proved!Next
  <1>3. ASSUME NEW p \in Mgr!Procs, WaitStep(p) \/ ExitStep(p) PROVE Proved!Next
    BY <1>3, SameProcess, SameManager DEF WaitStep, ExitStep, Proved!Next
  <1>4. CASE ShutdownReturns
    BY <1>4, SameCall DEF ShutdownReturns, Callers, Proved!Next
  <1>5. CASE MainReturns \/ Kill
    BY <1>5 DEF MainReturns, Kill, Running
  <1>6. CASE SignInOut \/ Tick \/ Terminate \/ Begin \/ UNCHANGED vars
    BY <1>6 DEF SignInOut, Tick, Terminate, Begin, vars
  <1> QED BY <1>1, <1>2, <1>3, <1>4, <1>5, <1>6 DEF Next

\* The end of the program leaves the Manager as its start will find it: the
\* record is empty, and what is known of processes is what it was.
LEMMA VanishKeeps ==
  ASSUME Proved!IInv, Vanish
  PROVE  Proved!IInv'
  <1>1. /\ cmd' = 0 /\ running' = FALSE /\ waiting' = {}
        /\ pc' = [c \in Callers |-> "idle"]
        /\ held' = [c \in Callers |-> 0]
        /\ resume' = [c \in Callers |-> "idle"]
        /\ UNCHANGED <<started, proc>>
    BY DEF Vanish, Mgr!Nil
  <1>2. Proved!TypeOK'
    BY <1>1 DEF Proved!IInv, Proved!TypeOK, Proved!Nil, Proved!CallerStates, Proved!Engaged
  <1>3. Proved!Numbered'
    BY <1>1 DEF Proved!IInv, Proved!TypeOK, Proved!Numbered
  <1>4. Proved!RecordIsNewest' /\ Proved!RecordIsWatched' /\ Proved!NoGhostRunning'
        /\ Proved!StopLeavesNoSurvivor'
    BY <1>1 DEF Proved!RecordIsNewest, Proved!RecordIsWatched, Proved!NoGhostRunning,
                Proved!StopLeavesNoSurvivor, Proved!Nil
  <1> QED BY <1>2, <1>3, <1>4 DEF Proved!IInv

\* The Manager keeps its invariant over shutdowns, crashes and starts.
LEMMA NextProved == Proved!IInv /\ [Next]_vars => Proved!IInv'
  <1>1. [Proved!Next]_mgrVars => [Proved!Next]_Proved!vars
    BY SameManager DEF mgrVars, Proved!vars
  <1>2. Proved!MaxProcsAssumption
    BY ProcsAssumption DEF Proved!MaxProcsAssumption
  <1> QED BY <1>1, <1>2, ManagerOrVanish, VanishKeeps, Proved!NextIInv

-----------------------------------------------------------------------------
(* Types, and the Manager over the lives of the program.                   *)

LEMMA InitBInv == Init => BInv
  <1> SUFFICES ASSUME Init PROVE BInv
    OBVIOUS
  <1>1. Proved!IInv
    BY ProcsAssumption, SameManager, Proved!InitIInv DEF Init, Proved!MaxProcsAssumption
  <1>2. SesInv
    BY InitSes
  <1>3. Mgr!TypeOK
    BY <1>1, SameManager DEF Proved!IInv
  <1>4. born \in 0 .. started
    BY DEF Init, Mgr!Init
  <1> QED BY <1>1, <1>2, <1>3, <1>4 DEF BInv, SesInv, TypeOK, Init

LEMMA NextBInv == BInv /\ [Next]_vars => BInv'
  <1> SUFFICES ASSUME BInv, [Next]_vars PROVE BInv'
    OBVIOUS
  <1>1. Proved!IInv' /\ SesInv'
    BY NextProved, NextSes DEF BInv
  <1>2. Mgr!TypeOK'
    BY <1>1 DEF Proved!IInv, Mgr!TypeOK, Proved!TypeOK, Mgr!Procs, Proved!Procs, Mgr!Nil, Proved!Nil,
           Mgr!ProcStates, Proved!ProcStates, Mgr!Live, Proved!Live,
           Mgr!CallerStates, Proved!CallerStates, Mgr!Engaged, Proved!Engaged
  <1>3. /\ life' \in {"up", "closing", "returned", "killed"}
        /\ closing' \in {"waiting", "draining", "stopping", "hurried"}
    BY DEF BInv, TypeOK, Next, vars, mainVars, Request, CallerStep, WaitStep, ExitStep, SignInOut, Tick,
           Terminate, ShutdownReturns, Vanish, MainReturns, Kill, Begin
  <1>4. started \in Nat /\ started' \in Nat /\ started <= started'
    <2>1. started \in Nat /\ started' \in Nat
      BY <1>2, ProcsAssumption DEF BInv, TypeOK, Mgr!TypeOK
    <2>2. \/ UNCHANGED started
          \/ started' = started + 1
      BY ManagerOrVanish DEF mgrVars, Vanish, Proved!Next, Proved!CallStart, Proved!CallStop,
             Proved!CallRestart, Proved!Step, Proved!Start, Proved!Launch, Proved!StopSnapshot,
             Proved!Signal, Proved!StopDone, Proved!StopTimeout, Proved!StopClear, Proved!Wait,
             Proved!Exit, Proved!mgrVars
    <2> QED BY <2>1, <2>2
  <1>5. born' \in 0 .. started'
    <2>1. born' = born \/ (born' = started /\ started' = started)
      BY DEF Next, vars, mainVars, mgrVars, Request, CallerStep, WaitStep, ExitStep, SignInOut, Tick,
             Terminate, ShutdownReturns, Vanish, MainReturns, Kill, Begin
    <2>2. born \in 0 .. started
      BY DEF BInv, TypeOK
    <2> QED BY <1>4, <2>1, <2>2
  <1> QED BY <1>1, <1>2, <1>3, <1>5 DEF BInv, SesInv, TypeOK

\* Every variable of the program keeps its type, whatever handlers overlap with
\* the shutdown and wherever a kill strikes.
THEOREM TypeCorrect == Spec => []TypeOK
  <1>1. BInv => TypeOK
    BY DEF BInv
  <1> QED BY <1>1, InitBInv, NextBInv, PTL DEF Spec

\* What the Manager has on record is sound also in a program that has followed
\* a crash, beside the processes that crash has left (main.go:39, manager.go:163).
THEOREM RecordSoundOverLives == Spec => []Mgr!RecordIsSound
  <1>1. BInv => Mgr!RecordIsSound
    BY DEF BInv, TypeOK, Proved!IInv, Mgr!RecordIsSound,
           Proved!RecordIsNewest, Proved!RecordIsWatched, Proved!NoGhostRunning,
           Mgr!RecordIsNewest, Mgr!RecordIsWatched, Mgr!NoGhostRunning, Mgr!Nil, Proved!Nil
  <1> QED BY <1>1, InitBInv, NextBInv, PTL DEF Spec

-----------------------------------------------------------------------------
(* The shutdown of a program whose handlers do not overlap.                *)

LEMMA InitPInv == Init => PInv
  <1> SUFFICES ASSUME Init PROVE PInv
    OBVIOUS
  <1>1. BInv
    BY InitBInv
  <1>2. pc = [c \in Callers |-> "idle"] /\ resume = [c \in Callers |-> "idle"]
    BY DEF Init, Mgr!Init
  <1>3. Down /\ Closing
    BY <1>2 DEF Init, Down, Closing, Running, Callers
  <1>4. Orderly
    BY <1>2 DEF Init, Mgr!Init, Orderly, Proved!OneAtATime, Proved!HeldOnRecord, Proved!Engaged,
           Proved!OnRecordAfter, Proved!Procs, Mgr!Procs
  <1> QED BY <1>1, <1>3, <1>4 DEF PInv

\* Where callers may be, and where a step leaves them.
LEMMA CallerTypes ==
  ASSUME BInv
  PROVE  /\ pc \in [Callers -> Mgr!CallerStates]
         /\ resume \in [Callers -> {"idle", "starting"}]
         /\ Shutter \in Callers /\ Handlers \subseteq Callers
  BY DEF BInv, TypeOK, Mgr!TypeOK, Callers

\* A caller that takes a step is inside a method; it goes on within it, or
\* returns; nobody else moves.
LEMMA StepMoves ==
  ASSUME BInv, NEW c \in Callers, Mgr!Step(c)
  PROVE  /\ pc[c] # "idle"
         /\ \E s : pc' = [pc EXCEPT ![c] = s]
         /\ resume' = resume \/ resume' = [resume EXCEPT ![c] = "idle"]
  BY CallerTypes DEF Mgr!Step, Mgr!Start, Mgr!StopSnapshot, Mgr!Signal, Mgr!StopDone, Mgr!StopTimeout,
     Mgr!StopClear, Mgr!Return, Mgr!Goto

\* The end of the program, and its next start.
LEMMA EndsPInv ==
  ASSUME PInv, BInv', MainReturns \/ Kill \/ Begin
  PROVE  PInv'
  <1>1. CASE MainReturns \/ Kill
    <2>1. /\ ~Running' /\ life' # "up" /\ closing' = "waiting"
          /\ cmd' = Mgr!Nil /\ running' = FALSE
          /\ \A c \in Callers : pc'[c] = "idle" /\ resume'[c] = "idle"
      BY <1>1 DEF MainReturns, Kill, Vanish, Running
    <2>2. Down' /\ Closing'
      BY <2>1 DEF Down, Closing, Callers, Mgr!Nil
    <2>3. Orderly'
      BY <2>1 DEF Orderly
    <2> QED BY <2>2, <2>3 DEF PInv
  <1>2. CASE Begin
    <2>1. /\ ~Running /\ life' = "up" /\ born' = started
          /\ UNCHANGED <<cmd, running, started, proc, waiting, pc, held, resume, closing>>
      BY <1>2 DEF Begin, mgrVars
    <2>2. Down' /\ Closing'
      BY <2>1 DEF PInv, Down, Closing, Running
    <2>3. \A c \in Callers : pc'[c] = "idle"
      BY <2>1 DEF PInv, Down
    <2>4. Proved!OneAtATime' /\ Proved!HeldOnRecord'
      BY <2>3 DEF Proved!OneAtATime, Proved!HeldOnRecord, Proved!Engaged
    <2>5. Proved!OnRecordAfter(born)'
      BY <2>1 DEF PInv, BInv, Proved!IInv, Proved!Numbered, Proved!OnRecordAfter
    <2> QED BY <2>2, <2>4, <2>5 DEF PInv, Orderly
  <1> QED BY <1>1, <1>2

\* What a step of the Manager does for a program that goes on.
LEMMA OrderlyStep ==
  ASSUME PInv, Running, closing # "hurried", Proved!Next, UNCHANGED born, Proved!OneAtATime'
  PROVE  Orderly'
  <1>1. Proved!IInv /\ Proved!OneAtATime /\ Proved!HeldOnRecord /\ Proved!OnRecordAfter(born)
    BY DEF PInv, BInv, Orderly
  <1>2. Proved!HeldOnRecord'
    BY <1>1, ProcsAssumption, Proved!NextHeldOnRecord DEF Proved!MaxProcsAssumption
  <1>3. PICK b \in Nat : b = born
    BY ProcsAssumption DEF PInv, BInv, TypeOK, Mgr!TypeOK
  <1>4. Proved!OnRecordAfter(b)
    BY <1>1, <1>3
  <1>5. Proved!OnRecordAfter(b)'
    BY <1>1, <1>4, ProcsAssumption, Proved!NextOnRecord DEF Proved!MaxProcsAssumption
  <1>6. Proved!OnRecordAfter(born)'
    BY <1>3, <1>5 DEF Proved!OnRecordAfter
  <1> QED BY <1>2, <1>6 DEF Orderly

\* A request: the listener is open, so that the shutdown has not begun.
LEMMA RequestPInv ==
  ASSUME PInv, BInv', Apart', NEW h \in Handlers, Request(h)
  PROVE  PInv'
  <1>1. /\ life = "up" /\ closing = "waiting" /\ pc[Shutter] = "idle" /\ resume[Shutter] = "idle"
        /\ UNCHANGED <<life, closing, born>>
    BY DEF PInv, Closing, Request, mainVars
  <1>2. pc'[Shutter] = "idle" /\ resume'[Shutter] = "idle"
    BY <1>1, CallerTypes, ShutterAssumption
       DEF PInv, Request, Mgr!CallStart, Mgr!CallStop, Mgr!CallRestart, Mgr!Goto
  <1>3. Down' /\ Closing'
    BY <1>1, <1>2 DEF Down, Closing, Running
  <1>4. Proved!OneAtATime'
    BY <1>2 DEF Apart, Proved!OneAtATime, Callers
  <1>5. Proved!Next
    BY SameCall DEF Request, Callers, Proved!Next
  <1>6. Orderly'
    BY <1>1, <1>4, <1>5, OrderlyStep DEF Running
  <1> QED BY <1>3, <1>6 DEF PInv

\* A step within a method.  Once Stop has been called it is the only one.
LEMMA CallerPInv ==
  ASSUME PInv, BInv', NEW c \in Callers, CallerStep(c)
  PROVE  PInv'
  <1>1. Running /\ Mgr!Step(c) /\ UNCHANGED <<life, closing, born>>
    BY DEF CallerStep, mainVars
  <1>2. /\ pc[c] # "idle"
        /\ \A d \in Callers : d # c => pc'[d] = pc[d] /\ resume'[d] = resume[d]
        /\ resume'[c] \in {resume[c], "idle"}
    BY <1>1, StepMoves, CallerTypes DEF PInv
  <1>3. ASSUME closing \in {"waiting", "draining"} PROVE Closing'
    BY <1>1, <1>2, <1>3, CallerTypes DEF PInv, Closing
  <1>4. ASSUME closing = "stopping" PROVE Closing'
    <2>1. c = Shutter /\ pc[c] # "starting" /\ resume[c] = "idle"
      BY <1>2, <1>4 DEF PInv, Closing, Idle, Callers
    <2>2. Idle'
      BY <1>2, <2>1, <1>4, CallerTypes, ShutterAssumption DEF PInv, Closing, Idle
    <2>3. pc'[c] # "starting" /\ (pc'[c] = "idle" => ~running')
      BY <1>1, <2>1, CallerTypes DEF PInv, BInv, Proved!IInv, Proved!RecordIsNewest, Mgr!Step, Mgr!Start,
         Mgr!StopSnapshot, Mgr!Signal, Mgr!StopDone, Mgr!StopTimeout, Mgr!StopClear, Mgr!Return, Mgr!Goto,
         Mgr!mgrVars, Mgr!Nil, Proved!Nil
    <2> QED BY <1>1, <1>2, <1>4, <2>1, <2>2, <2>3 DEF PInv, Closing
  <1>5. ASSUME closing = "hurried" PROVE Closing'
    BY <1>1, <1>5 DEF PInv, Closing
  <1>6. Down' /\ Closing'
    BY <1>1, <1>3, <1>4, <1>5 DEF PInv, BInv, TypeOK, Down, Running
  <1>7. ASSUME closing # "hurried" PROVE Proved!OneAtATime'
    BY <1>2, <1>7, <1>1 DEF PInv, Orderly, Proved!OneAtATime
  <1>8. Proved!Next
    BY <1>1, SameStep DEF Proved!Next
  <1>9. Orderly'
    <2>1. CASE closing = "hurried"
      BY <1>1, <2>1 DEF Orderly
    <2>2. CASE closing # "hurried"
      BY <1>1, <1>7, <1>8, <2>2, OrderlyStep
    <2> QED BY <2>1, <2>2
  <1> QED BY <1>6, <1>9 DEF PInv

\* A process that ends and the goroutine that notices: the record only empties.
LEMMA ProcessPInv ==
  ASSUME PInv, BInv', NEW p \in Mgr!Procs, WaitStep(p) \/ ExitStep(p)
  PROVE  PInv'
  <1>1. /\ Mgr!Wait(p) \/ Mgr!Exit(p)
        /\ UNCHANGED <<life, closing, born, pc, held, resume>>
        /\ UNCHANGED <<cmd, running>> \/ (running' = FALSE /\ cmd' = Mgr!Nil)
    BY DEF WaitStep, ExitStep, mainVars, Mgr!Wait, Mgr!Exit
  <1>2. Down' /\ Closing'
    BY <1>1 DEF PInv, Down, Closing, Running, Idle
  <1>3. Proved!Next
    BY <1>1, SameProcess, SameManager DEF Proved!Next
  <1>4. Orderly'
    <2>1. CASE ~Running \/ closing = "hurried"
      BY <1>1, <2>1 DEF Orderly, Running
    <2>2. CASE Running /\ closing # "hurried"
      <3>1. Proved!OneAtATime'
        BY <1>1, <2>2 DEF PInv, Orderly, Proved!OneAtATime
      <3> QED BY <1>1, <1>3, <2>2, <3>1, OrderlyStep
    <2> QED BY <2>1, <2>2
  <1> QED BY <1>2, <1>4 DEF PInv

\* Shutdown returns: no handler is left, or the goroutine is hurried; it calls Stop.
LEMMA ShutdownPInv ==
  ASSUME PInv, BInv', ShutdownReturns
  PROVE  PInv'
  <1>1. /\ closing = "draining" /\ closing' = IF Idle THEN "stopping" ELSE "hurried"
        /\ pc' = [pc EXCEPT ![Shutter] = "stopping"]
        /\ resume' = [resume EXCEPT ![Shutter] = "idle"]
        /\ UNCHANGED <<cmd, running, life, born>>
    BY DEF ShutdownReturns, Mgr!CallStop, Mgr!Goto, Mgr!mgrVars
  <1>2. life = "closing" /\ Running
    BY <1>1 DEF PInv, Down, Closing, Running, BInv, TypeOK
  <1>3. pc'[Shutter] = "stopping" /\ resume'[Shutter] = "idle"
    BY <1>1, CallerTypes DEF PInv
  <1>4. \A h \in Handlers : pc'[h] = pc[h]
    BY <1>1, CallerTypes, ShutterAssumption DEF PInv
  <1>5. Down' /\ Closing'
    BY <1>1, <1>2, <1>3, <1>4 DEF Down, Closing, Running, Idle
  <1>6. Orderly'
    <2>1. CASE Idle
      <3>1. Proved!OneAtATime'
        BY <1>4, <2>1 DEF Proved!OneAtATime, Callers, Idle
      <3>2. Proved!Next
        BY SameCall DEF ShutdownReturns, Callers, Proved!Next
      <3> QED BY <1>1, <1>2, <3>1, <3>2, OrderlyStep
    <2>2. CASE ~Idle
      BY <1>1, <2>2 DEF Orderly
    <2> QED BY <2>1, <2>2
  <1> QED BY <1>5, <1>6 DEF PInv

LEMMA NextPInv == PInv /\ [Next /\ Apart']_vars => PInv'
  <1> SUFFICES ASSUME PInv, [Next /\ Apart']_vars PROVE PInv'
    OBVIOUS
  <1>1. BInv'
    BY NextBInv DEF PInv
  <1>2. CASE Terminate
    <2>1. life = "up" /\ life' = "closing" /\ closing' = "draining" /\ closing = "waiting"
          /\ UNCHANGED <<cmd, running, started, proc, waiting, pc, held, resume, born>>
      BY <1>2 DEF Terminate, mgrVars, PInv, Closing
    <2>2. Down' /\ Closing'
      BY <2>1 DEF PInv, Down, Closing, Running
    <2>3. Orderly'
      BY <2>1 DEF PInv, Orderly, Running, Proved!OneAtATime, Proved!HeldOnRecord, Proved!OnRecordAfter
    <2> QED BY <1>1, <2>2, <2>3 DEF PInv
  <1>3. CASE SignInOut \/ Tick \/ UNCHANGED vars
    <2>1. UNCHANGED <<cmd, running, started, proc, waiting, pc, held, resume, life, closing, born>>
      BY <1>3 DEF SignInOut, Tick, vars, mgrVars, mainVars
    <2>2. Down' /\ Closing' /\ Orderly'
      BY <2>1 DEF PInv, Down, Closing, Running, Idle, Orderly, Proved!OneAtATime, Proved!HeldOnRecord,
             Proved!OnRecordAfter
    <2> QED BY <1>1, <2>2 DEF PInv
  <1> QED BY <1>1, <1>2, <1>3, RequestPInv, CallerPInv, ProcessPInv, ShutdownPInv, EndsPInv DEF Next

\* In a program whose handlers do not overlap, once the shutdown goroutine has
\* come to its end, not hurried by the 8 s, each xray of this program has
\* exited or has been killed, and none is started any more (main.go:77, 80).
THEOREM ShutdownStops == SerialSpec => []ShutdownStopsXray
  <1>1. SerialSpec => []PInv
    BY InitPInv, NextPInv, PTL DEF SerialSpec
  <1>2. ASSUME PInv PROVE ShutdownStopsXray
    <2> SUFFICES ASSUME closing = "stopping", pc[Shutter] = "idle", NEW p \in Mgr!Procs, Own(p)
                 PROVE  proc[p] \in {"new", "exited", "killed"}
      BY <1>2 DEF ShutdownStopsXray, PInv, BInv
    <2>1. life = "closing" /\ ~running
      BY <1>2 DEF PInv, Closing
    <2>2. ~(proc[p] \in {"up", "interrupted"})
      BY <1>2, <2>1, SameManager DEF PInv, Orderly, Running, Proved!OnRecordAfter, Own
    <2>3. proc[p] \in Mgr!ProcStates
      BY <1>2 DEF PInv, BInv, TypeOK, Mgr!TypeOK
    <2> QED BY <2>2, <2>3 DEF Mgr!ProcStates, Mgr!Live
  <1> QED BY <1>1, <1>2, PTL

================================================================================
