-------------------------------- MODULE Program --------------------------------
(***************************************************************************)
(* The life of the program (src/main.go): start, SIGTERM, the shutdown     *)
(* goroutine, the return of main, SIGKILL and the next start, around the   *)
(* Manager (module XrayManager, of which the shutdown goroutine is one     *)
(* more caller) and the session cookie (module Session).  The processes of *)
(* XrayManager and the cookie of Session outlive the program.              *)
(***************************************************************************)
EXTENDS Naturals

CONSTANTS
  Handlers,  \* HTTP handlers that may be inside a Manager method
  Shutter,   \* the shutdown goroutine
  MaxProcs,  \* bound: how many processes are ever launched
  TTL, MaxTime, MaxLives, NoCookie   \* of Session

ASSUME ShutterAssumption == Shutter \notin Handlers

ASSUME ProcsAssumption == MaxProcs \in Nat

ASSUME SessionAssumption ==
  /\ TTL \in Nat \ {0} /\ MaxTime \in Nat /\ MaxLives \in Nat \ {0}
  /\ NoCookie \notin [exp : Nat, key : Nat, keep : Nat]

VARIABLES
  cmd, running, started, proc, waiting, pc, held, resume,   \* of XrayManager
  now, fixed, lives, secret, cookie,                        \* of Session
  life,      \* "up"; "closing": Shutdown has been called; "returned": main has
             \* ended by itself; "killed"
  closing,   \* where the shutdown goroutine is
  born       \* history: started when the program started

Callers == Handlers \cup {Shutter}

Mgr == INSTANCE XrayManager
Ses == INSTANCE Session

mgrVars  == <<cmd, running, started, proc, waiting, pc, held, resume>>
sesVars  == <<now, fixed, lives, secret, cookie>>
mainVars == <<life, closing, born>>
vars == <<mgrVars, sesVars, mainVars>>

Running == life \in {"up", "closing"}

\* "hurried": the 8 s of the context were over before all handlers had returned.
TypeOK ==
  /\ Mgr!TypeOK /\ Ses!TypeOK
  /\ life \in {"up", "closing", "returned", "killed"}
  /\ closing \in {"waiting", "draining", "stopping", "hurried"}
  /\ born \in 0 .. started

Init == Mgr!Init /\ Ses!Init /\ life = "up" /\ closing = "waiting" /\ born = 0

-----------------------------------------------------------------------------
\* Middleware lets a request in; the listener takes none once Shutdown has begun.
Request(h) ==
  /\ life = "up" /\ Ses!Authenticated
  /\ Mgr!CallStart(h) \/ Mgr!CallStop(h, "idle") \/ Mgr!CallRestart(h)
  /\ UNCHANGED <<sesVars, mainVars>>

CallerStep(c) == Running /\ Mgr!Step(c) /\ UNCHANGED <<sesVars, mainVars>>
WaitStep(p)   == Mgr!Wait(p) /\ UNCHANGED <<sesVars, mainVars>>
ExitStep(p)   == Mgr!Exit(p) /\ UNCHANGED <<sesVars, mainVars>>

\* Login and Logout need no cookie.
SignInOut == life = "up" /\ (Ses!Login \/ Ses!Logout) /\ UNCHANGED <<mgrVars, mainVars>>
Tick      == Ses!Tick /\ UNCHANGED <<mgrVars, mainVars>>

-----------------------------------------------------------------------------
(* The shutdown goroutine.                                                 *)

\* SIGINT or SIGTERM: Shutdown closes the listeners before it waits.
Terminate ==
  /\ life = "up"
  /\ life' = "closing" /\ closing' = "draining"
  /\ UNCHANGED <<mgrVars, sesVars, born>>

Idle == \A h \in Handlers : pc[h] = "idle"

\* Variant: Stop is called without waiting for the handlers.
ShutdownReturnsEarly ==
  /\ closing = "draining"
  /\ closing' = "stopping"
  /\ Mgr!CallStop(Shutter, "idle")
  /\ UNCHANGED <<sesVars, life, born>>

\* Shutdown returns when the last handler has, or after 8 s; then Stop is called.
ShutdownReturns ==
  /\ closing = "draining"
  /\ closing' = IF Idle THEN "stopping" ELSE "hurried"
  /\ Mgr!CallStop(Shutter, "idle")
  /\ UNCHANGED <<sesVars, life, born>>

-----------------------------------------------------------------------------
(* The end of the program and its next start.                              *)

\* No goroutine and no record is left; processes and cookies are.
Vanish ==
  /\ cmd' = Mgr!Nil /\ running' = FALSE /\ waiting' = {}
  /\ pc' = [c \in Callers |-> "idle"]
  /\ held' = [c \in Callers |-> Mgr!Nil]
  /\ resume' = [c \in Callers |-> "idle"]
  /\ closing' = "waiting"
  /\ UNCHANGED <<started, proc, sesVars, born>>

\* ListenAndServe returns as soon as Shutdown has been called, and main with it.
MainReturns == life = "closing" /\ life' = "returned" /\ Vanish

Kill == Running /\ life' = "killed" /\ Vanish

\* The next program: a secret, and a Manager that knows of no process.
Begin ==
  /\ ~Running
  /\ life' = "up" /\ born' = started
  /\ Ses!Restart
  /\ UNCHANGED <<mgrVars, closing>>

Next ==
  \/ \E h \in Handlers : Request(h)
  \/ \E c \in Callers : CallerStep(c)
  \/ \E p \in Mgr!Procs : WaitStep(p) \/ ExitStep(p)
  \/ SignInOut \/ Tick
  \/ Terminate \/ ShutdownReturns \/ MainReturns \/ Kill \/ Begin

Spec == Init /\ [][Next]_vars

-----------------------------------------------------------------------------
Own(p) == p > born

\* When the shutdown goroutine has had the time to come to its end, and no
\* handler was cut short by the 8 s, the xray of this program has ended or has
\* been killed, and none is started any more: Stop comes after Shutdown.  As
\* long as handlers do not overlap: two of them may leave an xray on no record
\* (OnlyStaleStopForgets of XrayManager).
ShutdownStopsXray ==
  /\ TypeOK
  /\ closing = "stopping" /\ pc[Shutter] = "idle" =>
       \A p \in Mgr!Procs : Own(p) => proc[p] \in {"new", "exited", "killed"}

\* A signed-in browser that does not sign out stays in until its token expires,
\* over any shutdown and crash, and is out by then; a start of the program puts
\* it out just when SESSION_SECRET is not set (README.md:76).
SessionLasts ==
  [][Ses!Authenticated /\ (lives' # lives \/ now' # now) =>
       (Ses!Authenticated' <=> now' < cookie.exp /\ (fixed \/ lives' = lives))]_vars

================================================================================
