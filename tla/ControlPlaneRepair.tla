-------------------------- MODULE ControlPlaneRepair --------------------------
(***************************************************************************)
(* What overlapping requests may break, a later request repairs: the       *)
(* control plane with a history variable that tells which requests have    *)
(* had no other beside them.                                               *)
(***************************************************************************)
EXTENDS ControlPlane, TLC

VARIABLE alone   \* the handlers beside which no other has run since they began

repairVars == <<vars, alone>>

RepairInit == Init /\ alone = {}

\* A caller joins when it begins with all the others idle, and leaves as soon
\* as another begins.
RepairNext ==
  /\ Next
  /\ alone' = {c \in Callers : /\ Idle(c) \/ c \in alone
                               /\ ~Idle(c)'
                               /\ \A d \in Callers \ {c} : Idle(d)'}

RepairSpec == RepairInit /\ [][RepairNext]_repairVars

ProxySymmetry == Permutations(Proxies)

\* An activation with no request beside it leaves a whole config for the proxy
\* it was asked for, made of the Manager's own DNS list and rules, whatever
\* the requests before it have left behind: a torn file, the config of another
\* proxy, an active proxy that is gone.
LoneActivationRepairs ==
  \A c \in alone : At(c, "apply") /\ local[c].kind = "activate" =>
    /\ file = [proxy |-> local[c].proxy, dns |-> mgrDns, rules |-> mgrRules]
    /\ mgrActive = local[c].proxy
    /\ active \in {local[c].proxy, None}

===============================================================================
