------------------------------ MODULE XrayManager ------------------------------
(***************************************************************************)
(* The life cycle of the xray child process (internal/xray/manager.go):    *)
(* Start, Stop, Restart and the wait goroutine, called by any number of    *)
(* HTTP handlers at once.  One action is one critical section of m.mu or   *)
(* one system call; Start is a single action because it holds m.mu from    *)
(* its first line to its last.                                             *)
(*                                                                         *)
(* A process is a number: the n-th successful exec is process n.           *)
(***************************************************************************)
EXTENDS Naturals

CONSTANTS
  Callers,   \* goroutines that may be inside a Manager method (handlers, shutdown)
  MaxProcs   \* bound: how many processes are ever launched

ASSUME MaxProcsAssumption == MaxProcs \in Nat

VARIABLES
  cmd,       \* m.cmd: the process on record, Nil when there is none
  running,   \* m.running
  started,   \* how many processes have been launched
  proc,      \* what the operating system knows of each process
  waiting,   \* the processes whose goroutine wait(cmd) has not finished
  pc,        \* where each caller is
  held,      \* Stop's local variable cmd, per caller
  resume     \* where a caller goes when Stop returns: "idle", or "starting" in Restart

mgrVars == <<cmd, running, started, proc, waiting>>
vars    == <<cmd, running, started, proc, waiting, pc, held, resume>>

Procs == 1 .. MaxProcs
Nil   == 0

Live        == {"up", "interrupted", "killed"}
ProcStates  == {"new", "exited"} \cup Live
CallerStates == {"idle", "starting", "stopping", "signalling", "awaiting", "clearing"}

\* A Stop that has taken its snapshot and has a process to end.
Engaged == {"signalling", "awaiting", "clearing"}

IsLive(p) == proc[p] \in Live

\* Types; and a Stop dereferences its local cmd only while it is not nil.
TypeOK ==
  /\ cmd     \in Procs \cup {Nil}
  /\ running \in BOOLEAN
  /\ started \in 0 .. MaxProcs
  /\ proc    \in [Procs -> ProcStates]
  /\ waiting \in SUBSET Procs
  /\ pc      \in [Callers -> CallerStates]
  /\ held    \in [Callers -> Procs \cup {Nil}]
  /\ resume  \in [Callers -> {"idle", "starting"}]
  /\ \A c \in Callers : pc[c] \in Engaged <=> held[c] # Nil

Init ==
  /\ cmd     = Nil
  /\ running = FALSE
  /\ started = 0
  /\ proc    = [p \in Procs |-> "new"]
  /\ waiting = {}
  /\ pc      = [c \in Callers |-> "idle"]
  /\ held    = [c \in Callers |-> Nil]
  /\ resume  = [c \in Callers |-> "idle"]

Goto(c, s) == pc' = [pc EXCEPT ![c] = s]

-----------------------------------------------------------------------------
(* Entering a method.                                                      *)

CallStart(c) ==
  /\ pc[c] = "idle"
  /\ Goto(c, "starting")
  /\ UNCHANGED <<mgrVars, held, resume>>

CallStop(c, next) ==
  /\ pc[c] = "idle"
  /\ Goto(c, "stopping")
  /\ resume' = [resume EXCEPT ![c] = next]
  /\ UNCHANGED <<mgrVars, held>>

CallRestart(c) == CallStop(c, "starting")

-----------------------------------------------------------------------------
(* Start.                                                                  *)

Launch ==
  /\ started < MaxProcs
  /\ started' = started + 1
  /\ proc'    = [proc EXCEPT ![started + 1] = "up"]
  /\ waiting' = waiting \cup {started + 1}
  /\ cmd'     = started + 1
  /\ running' = TRUE

\* Variant: the test of m.running is missing.
StartUnguarded(c) ==
  /\ pc[c] = "starting"
  /\ Launch
  /\ Goto(c, "idle")
  /\ UNCHANGED <<held, resume>>

\* No process is launched when one is on record, or when the binary or the
\* config is missing, or a pipe or the exec fails (an error is returned).
Start(c) ==
  /\ pc[c] = "starting"
  /\ \/ running  /\ UNCHANGED mgrVars
     \/ ~running /\ UNCHANGED mgrVars
     \/ ~running /\ Launch
  /\ Goto(c, "idle")
  /\ UNCHANGED <<held, resume>>

-----------------------------------------------------------------------------
(* Stop.  Between its two critical sections m.mu is free.                  *)

Return(c) ==
  /\ Goto(c, resume[c])
  /\ resume' = [resume EXCEPT ![c] = "idle"]

StopSnapshot(c) ==
  /\ pc[c] = "stopping"
  /\ IF ~running \/ cmd = Nil
       THEN Return(c) /\ UNCHANGED held
       ELSE /\ Goto(c, "signalling")
            /\ held' = [held EXCEPT ![c] = cmd]
            /\ UNCHANGED resume
  /\ UNCHANGED mgrVars

Signal(c) ==
  /\ pc[c] = "signalling"
  /\ proc' = [proc EXCEPT ![held[c]] = IF @ = "up" THEN "interrupted" ELSE @]
  /\ Goto(c, "awaiting")
  /\ UNCHANGED <<cmd, running, started, waiting, held, resume>>

\* done is closed once the second cmd.Wait has returned, so after the exit.
StopDone(c) ==
  /\ pc[c] = "awaiting"
  /\ proc[held[c]] = "exited"
  /\ Goto(c, "clearing")
  /\ UNCHANGED <<mgrVars, held, resume>>

\* Variants: the timer does not kill; there is no timer.
StopTimeoutSpares(c) ==
  /\ pc[c] = "awaiting"
  /\ Goto(c, "clearing")
  /\ UNCHANGED <<mgrVars, held, resume>>

StopTimeoutNever(c) == StopDone(c)

\* The 3 s timer.  Kill returns at once: the process dies some time later.
StopTimeout(c) ==
  /\ pc[c] = "awaiting"
  /\ proc' = [proc EXCEPT ![held[c]] = IF @ \in Live THEN "killed" ELSE @]
  /\ Goto(c, "clearing")
  /\ UNCHANGED <<cmd, running, started, waiting, held, resume>>

\* Variant: the record is not cleared.
StopClearsNothing(c) ==
  /\ pc[c] = "clearing"
  /\ held' = [held EXCEPT ![c] = Nil]
  /\ Return(c)
  /\ UNCHANGED mgrVars

\* The record is cleared whichever process is on it by now.
StopClear(c) ==
  /\ pc[c] = "clearing"
  /\ running' = FALSE
  /\ cmd'     = Nil
  /\ held'    = [held EXCEPT ![c] = Nil]
  /\ Return(c)
  /\ UNCHANGED <<started, proc, waiting>>

-----------------------------------------------------------------------------
(* The wait goroutine of a process, and the process itself.                *)

\* Variants: the comparison with m.cmd is missing; the record is never cleared.
WaitUnguarded(p) ==
  /\ p \in waiting
  /\ proc[p] = "exited"
  /\ waiting' = waiting \ {p}
  /\ running' = FALSE
  /\ cmd'     = Nil
  /\ UNCHANGED <<started, proc, pc, held, resume>>

WaitIdle(p) ==
  /\ p \in waiting
  /\ proc[p] = "exited"
  /\ waiting' = waiting \ {p}
  /\ UNCHANGED <<cmd, running, started, proc, pc, held, resume>>

Wait(p) ==
  /\ p \in waiting
  /\ proc[p] = "exited"
  /\ waiting' = waiting \ {p}
  /\ IF cmd = p
       THEN running' = FALSE /\ cmd' = Nil
       ELSE UNCHANGED <<running, cmd>>
  /\ UNCHANGED <<started, proc, pc, held, resume>>

\* xray crashes, ends by itself, obeys SIGINT or dies of SIGKILL.
Exit(p) ==
  /\ IsLive(p)
  /\ proc' = [proc EXCEPT ![p] = "exited"]
  /\ UNCHANGED <<cmd, running, started, waiting, pc, held, resume>>

-----------------------------------------------------------------------------
Step(c) ==
  \/ Start(c)
  \/ StopSnapshot(c)
  \/ Signal(c)
  \/ StopDone(c)
  \/ StopTimeout(c)
  \/ StopClear(c)

Next ==
  \/ \E c \in Callers : CallStart(c) \/ CallStop(c, "idle") \/ CallRestart(c) \/ Step(c)
  \/ \E p \in Procs : Wait(p) \/ Exit(p)

Spec == Init /\ [][Next]_vars

\* Goroutines are scheduled, the timer fires, SIGKILL is obeyed.  Nothing is
\* assumed of SIGINT, of crashes or of the users' requests.
Fairness ==
  /\ \A c \in Callers : WF_vars(Step(c))
  /\ \A p \in Procs : WF_vars(Wait(p)) /\ WF_vars(proc[p] = "killed" /\ Exit(p))

FairSpec == Spec /\ Fairness

-----------------------------------------------------------------------------
(* Properties of any number of concurrent callers.                         *)

\* What the Manager has on record is one whole thing: running and cmd agree,
\* and the process on record is the last one launched, never one that a
\* restart has superseded (m.cmd and m.running are set and cleared in Start,
\* Stop and wait, in three critical sections).
RecordIsNewest ==
  /\ running <=> cmd # Nil
  /\ running => cmd = started

\* The process on record still has its wait goroutine, so that its death will
\* be noticed: the UI can not show "running" for ever after a crash.
RecordIsWatched == running => cmd \in waiting

\* When the Manager has told the process on record to quit, the Stop that did
\* so is still under way and will clear the record: no Stop returns leaving a
\* condemned process advertised as running.
NoGhostRunning ==
  running /\ proc[cmd] \in {"interrupted", "killed"} =>
    \E c \in Callers : held[c] = cmd /\ pc[c] \in {"awaiting", "clearing"}

\* At every moment of any number of overlapping calls the record is whole and
\* newest, its process is watched, and a condemned process is on it only while
\* the Stop that condemned it is under way (manager.go:163, 197, 250).
RecordIsSound == TypeOK /\ RecordIsNewest /\ RecordIsWatched /\ NoGhostRunning

\* A Stop that is about to return has seen its process end or has killed it
\* (the select of Stop, with its 3 s timer).
StopLeavesNoSurvivor ==
  \A c \in Callers : pc[c] = "clearing" => proc[held[c]] \in {"exited", "killed"}

\* Only one thing can make the Manager forget a process that is alive and not
\* killed: the end of a Stop that was called for an OLDER process.
OnlyStaleStopForgets ==
  [][running /\ cmd' # cmd /\ proc[cmd] \in {"up", "interrupted"} =>
       \E c \in Callers : pc[c] = "clearing" /\ held[c] < cmd /\ pc'[c] # "clearing"]_vars

\* A crash is noticed: a dead process does not stay on record.
DeadIsForgotten == \A p \in Procs : (cmd = p /\ proc[p] = "exited") ~> (cmd # p)

\* The process a Stop set out to end does end, even when it ignores SIGINT.
StopEndsItsProcess ==
  \A c \in Callers, p \in Procs :
    (pc[c] = "signalling" /\ held[c] = p) ~> (proc[p] = "exited")

\* Every call returns; none waits for a process that will not quit.
CallsReturn == \A c \in Callers : pc[c] # "idle" ~> pc[c] = "idle"

=============================================================================
