--------------------------------- MODULE Probe ---------------------------------
(***************************************************************************)
(* One latency measurement, realDelay of internal/health/health.go, and    *)
(* any number of them at once: the workers of a "test all" and the         *)
(* requests for a single proxy.  A probe takes a free port, writes a       *)
(* temporary config, runs an xray of its own on that port and fetches the  *)
(* test URL through it.  What it sets up it defers the undoing of, and the *)
(* deferred calls are made on its way out, unless the program ends first.  *)
(***************************************************************************)
EXTENDS Sequences

CONSTANTS
  Probes,    \* the calls of realDelay
  Ports,     \* the ports the operating system may hand out
  Nobody     \* no port, no answer

ASSUME NobodyAssumption == Nobody \notin Probes \cup Ports

VARIABLES
  step,      \* where each probe is
  port,      \* the port freePort gave it
  file,      \* its temporary config
  child,     \* its temporary xray
  deferred,  \* the calls it has deferred, last one first
  via,       \* the probe whose xray answered its request; Nobody: latency -1
  shared     \* history: the probes whose port another one was given as well,
             \* when neither had bound it

probeVars == <<step, port, file, child, deferred, via, shared>>

Steps == {"new", "ported", "created", "filed", "launched", "requesting", "leaving",
          "returned", "lost"}

\* "up" has not bound its port yet, "bound" listens on it.
ChildStates == {"none", "up", "bound", "dead"}

ProbeTypeOK ==
  /\ step \in [Probes -> Steps]
  /\ port \in [Probes -> Ports \cup {Nobody}]
  /\ file \in [Probes -> {"none", "empty", "config"}]
  /\ child \in [Probes -> ChildStates]
  /\ deferred \in [Probes -> Seq({"Remove", "Kill"})]
  /\ via \in [Probes -> Probes \cup {Nobody}]
  /\ shared \subseteq Probes

ProbeInit ==
  /\ step = [q \in Probes |-> "new"]
  /\ port = [q \in Probes |-> Nobody]
  /\ file = [q \in Probes |-> "none"]
  /\ child = [q \in Probes |-> "none"]
  /\ deferred = [q \in Probes |-> <<>>]
  /\ via = [q \in Probes |-> Nobody]
  /\ shared = {}

Goto(q, s)  == step' = [step EXCEPT ![q] = s]
Defer(q, f) == deferred' = [deferred EXCEPT ![q] = <<f>> \o @]

\* The probes whose xray listens on p: at most one, the system sees to that.
Listeners(p) == {r \in Probes : port[r] = p /\ child[r] = "bound"}

\* The probe has been given its port, and its xray may still bind it.
MayBind(r) == step[r] \in {"ported", "created", "filed"} \/ child[r] = "up"

Expecting(p) == {r \in Probes : port[r] = p /\ MayBind(r)}

-----------------------------------------------------------------------------
Take(q, p) ==
  /\ port' = [port EXCEPT ![q] = p]
  /\ shared' = shared \cup (IF Expecting(p) = {} THEN {} ELSE Expecting(p) \cup {q})
  /\ Goto(q, "ported")
  /\ UNCHANGED <<file, child, deferred, via>>

\* Variant: the port is drawn at random and never listened on.
FreePortUnchecked(q) == step[q] = "new" /\ \E p \in Ports : Take(q, p)

\* The listener is closed again at once: until xray binds the port the system
\* may give it to somebody else.
FreePort(q) == step[q] = "new" /\ \E p \in Ports : Listeners(p) = {} /\ Take(q, p)

CreateTemp(q) ==
  /\ step[q] = "ported"
  /\ file' = [file EXCEPT ![q] = "empty"]
  /\ Defer(q, "Remove")
  /\ Goto(q, "created")
  /\ UNCHANGED <<port, child, via, shared>>

WriteConfig(q) ==
  /\ step[q] = "created"
  /\ file' = [file EXCEPT ![q] = "config"]
  /\ Goto(q, "filed")
  /\ UNCHANGED <<port, child, deferred, via, shared>>

\* Variant: the killing of xray is not deferred.
LaunchUndeferred(q) ==
  /\ step[q] = "filed"
  /\ child' = [child EXCEPT ![q] = "up"]
  /\ Goto(q, "launched")
  /\ UNCHANGED <<port, file, deferred, via, shared>>

Launch(q) ==
  /\ step[q] = "filed"
  /\ child' = [child EXCEPT ![q] = "up"]
  /\ Defer(q, "Kill")
  /\ Goto(q, "launched")
  /\ UNCHANGED <<port, file, via, shared>>

\* waitPort is content with any listener.
WaitPort(q) ==
  /\ step[q] = "launched"
  /\ Listeners(port[q]) # {}
  /\ Goto(q, "requesting")
  /\ UNCHANGED <<port, file, child, deferred, via, shared>>

\* The request reaches whoever listens on the port by now, and is answered.
Answer(q) ==
  /\ step[q] = "requesting"
  /\ \E r \in Listeners(port[q]) : via' = [via EXCEPT ![q] = r]
  /\ Goto(q, "leaving")
  /\ UNCHANGED <<port, file, child, deferred, shared>>

\* Variant: waitPort has no deadline.
FailPatient(q) ==
  /\ step[q] \in {"new", "ported", "created", "filed", "requesting"}
  /\ Goto(q, "leaving")
  /\ UNCHANGED <<port, file, child, deferred, via, shared>>

\* The early returns: no port, no config or no file; the write fails; no exec;
\* the 4 s of waitPort, the 10 s of the request or the 15 s of the whole are
\* over; a bad answer.
Fail(q) ==
  /\ step[q] \in {"new", "ported", "created", "filed", "launched", "requesting"}
  /\ Goto(q, "leaving")
  /\ UNCHANGED <<port, file, child, deferred, via, shared>>

\* One deferred call: Kill and Wait, or Remove.
RunDeferred(q) ==
  /\ step[q] = "leaving"
  /\ deferred[q] # <<>>
  /\ IF Head(deferred[q]) = "Kill"
       THEN child' = [child EXCEPT ![q] = "dead"] /\ UNCHANGED file
       ELSE file' = [file EXCEPT ![q] = "none"] /\ UNCHANGED child
  /\ deferred' = [deferred EXCEPT ![q] = Tail(@)]
  /\ UNCHANGED <<step, port, via, shared>>

Return(q) ==
  /\ step[q] = "leaving"
  /\ deferred[q] = <<>>
  /\ Goto(q, "returned")
  /\ UNCHANGED <<port, file, child, deferred, via, shared>>

ProbeStep(q) ==
  \/ FreePort(q) \/ CreateTemp(q) \/ WriteConfig(q) \/ Launch(q) \/ WaitPort(q) \/ Answer(q)
  \/ Fail(q) \/ RunDeferred(q) \/ Return(q)

-----------------------------------------------------------------------------
(* The temporary xray.                                                     *)

\* It listens, or finds its port taken and quits.
Bind(q) ==
  /\ child[q] = "up"
  /\ child' = [child EXCEPT ![q] = IF Listeners(port[q]) = {} THEN "bound" ELSE "dead"]
  /\ UNCHANGED <<step, port, file, deferred, via, shared>>

\* It rejects its config, crashes, or is killed when the 15 s of its context end.
Crash(q) ==
  /\ child[q] \in {"up", "bound"}
  /\ child' = [child EXCEPT ![q] = "dead"]
  /\ UNCHANGED <<step, port, file, deferred, via, shared>>

\* The program ends, by itself or not, and starts again: deferred calls are not
\* made.  The probes that are still "new" belong to the next program.
ProgramEnds ==
  LET Cut == {q \in Probes : step[q] \notin {"new", "returned", "lost"}} IN
  /\ Cut # {}
  /\ step' = [q \in Probes |-> IF q \in Cut THEN "lost" ELSE step[q]]
  /\ deferred' = [q \in Probes |-> <<>>]
  /\ UNCHANGED <<port, file, child, via, shared>>

ProbeNext ==
  \/ \E q \in Probes : ProbeStep(q) \/ Bind(q) \/ Crash(q)
  \/ ProgramEnds

ProbeSpec == ProbeInit /\ [][ProbeNext]_probeVars

\* Each step of a probe has a deadline.  Nothing is assumed of its xray.
FairProbeSpec == ProbeSpec /\ \A q \in Probes : WF_probeVars(step[q] # "new" /\ ProbeStep(q))

-----------------------------------------------------------------------------
Live(q)    == child[q] \in {"up", "bound"}
Owes(q, f) == \E i \in DOMAIN deferred[q] : deferred[q][i] = f

\* Whichever early return realDelay takes, and wherever in between the others
\* are, a config file and a live xray are one probe's to remove and to kill, and
\* the xray has its file until it is dead.  So a probe that has returned has left
\* neither: tests do not fill the machine with processes and files, as long as
\* the program does not end in the middle of one (health.go:130, 146).
LeavesNothing ==
  /\ ProbeTypeOK
  /\ \A q \in Probes : step[q] # "lost" =>
       /\ file[q] # "none" => Owes(q, "Remove")
       /\ Live(q) => Owes(q, "Kill") /\ file[q] = "config"
  /\ \A q \in Probes : step[q] = "returned" => file[q] = "none" /\ ~Live(q)

\* The latency of a proxy is measured through that proxy, not through another
\* one that is being tested, with two exceptions: the system gave both probes one
\* port before either had bound it (freePort lets go of the port it has found),
\* or the probe's own xray had died by then, which lets go of the port too.
MeasuresItsProxy ==
  [][\A q \in Probes : via'[q] \notin {via[q], q} => q \in shared \/ child[q] = "dead"]_probeVars

\* A probe ends, even when its xray never listens and never answers.
ProbeReturns == \A q \in Probes : step[q] # "new" ~> step[q] \in {"returned", "lost"}

================================================================================
