--------------------------- MODULE XrayManagerSerial ---------------------------
(***************************************************************************)
(* The Manager when its calls do not overlap: one operator, one request at *)
(* a time.  Crashes, timers and the wait goroutines still interleave with  *)
(* the call in progress.  Under this condition the Manager is a Supervisor.*)
(***************************************************************************)
EXTENDS XrayManager

OneAtATime == \A c, d \in Callers : pc[c] # "idle" /\ pc[d] # "idle" => c = d

SerialSpec == Init /\ [][Next /\ OneAtATime']_vars

Owner == INSTANCE Supervisor WITH
           slot      <- cmd,
           alive     <- {p \in Procs : IsLive(p)},
           sentenced <- {p \in Procs : proc[p] = "killed"}

\* Start, Stop, Restart and wait give up a process only after it has exited or
\* has been killed, and launch one only when none is on record.
IsSupervisor == Owner!Spec

\* Every process that is alive and has not been killed is on record: the
\* Manager owns each xray it has launched (manager.go:29).
NoOrphan == \A p \in Procs : proc[p] \in {"up", "interrupted"} => running /\ cmd = p

================================================================================
