------------------------------ MODULE Supervisor ------------------------------
(***************************************************************************)
(* What a process manager with one slot promises: a process is launched    *)
(* only into an empty slot, and its owner lets go of it only after it has  *)
(* died or has been sentenced.  A sentenced process may outlive its slot   *)
(* for a while, and so overlap with its successor.                         *)
(***************************************************************************)
CONSTANTS
  Procs,   \* the processes that may ever exist
  Nil      \* the empty slot, not a process

VARIABLES
  slot,       \* the process that is owned, or Nil
  alive,      \* the processes that have not exited
  sentenced   \* those of them that have been sent SIGKILL

vars == <<slot, alive, sentenced>>

Init ==
  /\ slot = Nil
  /\ alive = {}
  /\ sentenced = {}

Launch(p) ==
  /\ slot = Nil
  /\ p \notin alive
  /\ slot'  = p
  /\ alive' = alive \cup {p}
  /\ UNCHANGED sentenced

Sentence(p) ==
  /\ slot = p
  /\ p \in alive
  /\ sentenced' = sentenced \cup {p}
  /\ UNCHANGED <<slot, alive>>

Die(p) ==
  /\ p \in alive
  /\ alive'     = alive \ {p}
  /\ sentenced' = sentenced \ {p}
  /\ UNCHANGED slot

Release ==
  /\ slot \notin alive \ sentenced
  /\ slot' = Nil
  /\ UNCHANGED <<alive, sentenced>>

Next ==
  \/ \E p \in Procs : Launch(p) \/ Sentence(p) \/ Die(p)
  \/ Release

Spec == Init /\ [][Next]_vars

===============================================================================
