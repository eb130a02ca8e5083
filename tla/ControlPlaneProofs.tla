--------------------------- MODULE ControlPlaneProofs ---------------------------
(***************************************************************************)
(* The control plane for any number of callers, proxies, edits and         *)
(* processes: what requests leave behind when they follow one another, and *)
(* what an activation repairs when they do not.                            *)
(***************************************************************************)
EXTENDS ControlPlaneRepair, TLAPS

\* What is proved of the Manager, about the Manager that the handlers call.
Own == INSTANCE XrayManagerProofs

-----------------------------------------------------------------------------
(* The Manager among the handlers.                                         *)

\* The two instances of XrayManager are one.
LEMMA SameManager ==
  /\ Mgr!Init => Own!Init
  /\ Mgr!TypeOK <=> Own!TypeOK
  /\ Mgr!vars = Own!vars
  /\ Mgr!Procs = Own!Procs /\ Mgr!Engaged = Own!Engaged
  /\ \A p : Mgr!IsLive(p) <=> Own!IsLive(p)
  <1>1. Mgr!Init => Own!Init
    BY DEF Mgr!Init, Own!Init, Mgr!Procs, Own!Procs, Mgr!Nil, Own!Nil
  <1>2. Mgr!TypeOK <=> Own!TypeOK
    BY DEF Mgr!TypeOK, Own!TypeOK, Mgr!Procs, Own!Procs, Mgr!Nil, Own!Nil,
           Mgr!ProcStates, Own!ProcStates, Mgr!Live, Own!Live,
           Mgr!CallerStates, Own!CallerStates, Mgr!Engaged, Own!Engaged
  <1>3. Mgr!vars = Own!vars
    BY DEF Mgr!vars, Own!vars
  <1>4. Mgr!Procs = Own!Procs /\ Mgr!Engaged = Own!Engaged
    BY DEF Mgr!Procs, Own!Procs, Mgr!Engaged, Own!Engaged
  <1>5. \A p : Mgr!IsLive(p) <=> Own!IsLive(p)
    BY DEF Mgr!IsLive, Own!IsLive, Mgr!Live, Own!Live
  <1> QED BY <1>1, <1>2, <1>3, <1>4, <1>5

LEMMA SameNext == Mgr!Next => Own!Next
  <1>1. ASSUME NEW c, Mgr!CallStart(c) \/ Mgr!CallStop(c, "idle") \/ Mgr!CallRestart(c)
        PROVE  Own!CallStart(c) \/ Own!CallStop(c, "idle") \/ Own!CallRestart(c)
    BY <1>1 DEF Mgr!CallStart, Mgr!CallStop, Mgr!CallRestart, Own!CallStart, Own!CallStop, Own!CallRestart,
                Mgr!Goto, Own!Goto, Mgr!mgrVars, Own!mgrVars
  <1>2. ASSUME NEW c, Mgr!Start(c) PROVE Own!Start(c)
    BY <1>2 DEF Mgr!Start, Own!Start, Mgr!Launch, Own!Launch,
                Mgr!Goto, Own!Goto, Mgr!mgrVars, Own!mgrVars
  <1>3. ASSUME NEW c, Mgr!Step(c), ~Mgr!Start(c) PROVE Own!Step(c)
    BY <1>3 DEF Mgr!Step, Own!Step, Mgr!StopSnapshot, Own!StopSnapshot, Mgr!Signal, Own!Signal,
                Mgr!StopDone, Own!StopDone, Mgr!StopTimeout, Own!StopTimeout,
                Mgr!StopClear, Own!StopClear, Mgr!Return, Own!Return, Mgr!Live, Own!Live,
                Mgr!Nil, Own!Nil, Mgr!Goto, Own!Goto, Mgr!mgrVars, Own!mgrVars
  <1>4. ASSUME NEW p, Mgr!Wait(p) \/ Mgr!Exit(p) PROVE Own!Wait(p) \/ Own!Exit(p)
    BY <1>4 DEF Mgr!Wait, Own!Wait, Mgr!Exit, Own!Exit, Mgr!IsLive, Own!IsLive, Mgr!Live, Own!Live,
                Mgr!Nil, Own!Nil
  <1>5. Mgr!Procs = Own!Procs
    BY SameManager
  <1> QED BY <1>1, <1>2, <1>3, <1>4, <1>5 DEF Mgr!Next, Own!Next, Own!Step

\* A handler is in the Manager through its methods only.
LEMMA HandlerInManager ==
  ASSUME NEW c \in Callers, Handler(c)
  PROVE  \/ Mgr!CallStart(c) \/ Mgr!CallStop(c, "idle") \/ Mgr!CallRestart(c) \/ Mgr!Step(c)
         \/ UNCHANGED mgr
  BY DEF Handler, GenerateConfig, OpenFile, WriteFails, WriteFile, SetActive, SetActiveID, Apply,
         StartXray, Lookup, RestartXray, StopXray, UpdateDNS, SetDNS, GetActive, ChangeRules,
         GetRules, SetRoutingRules, ActivateProxy, DeleteProxy, DropProxy, TestConnection,
         ActiveProxyName, Fetch, ManagerStep

\* So is everything else.
LEMMA ManagerOnly == [Next]_vars => [Mgr!Next]_mgr
  <1> SUFFICES ASSUME [Next]_vars PROVE Mgr!Next \/ UNCHANGED mgr
    OBVIOUS
  <1>1. ASSUME NEW c \in Callers, Handler(c) PROVE Mgr!Next \/ UNCHANGED mgr
    BY <1>1, HandlerInManager DEF Mgr!Next
  <1>2. ASSUME NEW p \in Mgr!Procs, Process(p) PROVE Mgr!Next \/ UNCHANGED mgr
    BY <1>2 DEF Process, LoadConfig, ProcessStep, Mgr!Next
  <1>3. CASE UNCHANGED vars
    BY <1>3 DEF vars
  <1> QED BY <1>1, <1>2, <1>3 DEF Next

\* What the handlers do to the Manager is what XrayManager allows.
THEOREM ManagerIsUsedAsMeant == Spec => Mgr!Spec
  <1>1. Init => Mgr!Init
    BY DEF Init
  <1>2. [Next]_vars => [Mgr!Next]_Mgr!vars
    BY ManagerOnly DEF mgr, Mgr!vars
  <1> QED BY <1>1, <1>2, PTL DEF Spec, Mgr!Spec

-----------------------------------------------------------------------------
(* Types.                                                                  *)

\* The types of what is not the Manager's own.
Types ==
  /\ proxies \subseteq Proxies
  /\ active \in Proxies \cup {None}
  /\ dns \in DnsLists /\ rules \in RuleSets
  /\ mgrDns \in DnsLists /\ mgrRules \in RuleSets
  /\ mgrActive \in Proxies \cup {None}
  /\ file \in Configs \cup {None, Torn}
  /\ loaded \in [Mgr!Procs -> Configs \cup {None, Torn}]
  /\ stage \in [Callers -> Stages]
  /\ local \in [Callers -> Locals]
  /\ lag \subseteq Lags

\* A handler that writes has a proxy; one that activates has had it from the start.
HasProxy ==
  \A c \in Callers :
    stage[c] \in {"setActive", "lookup", "generate", "open", "write", "setActiveID"} =>
      local[c].proxy \in Proxies

BInv ==
  /\ Types
  /\ HasProxy
  /\ Own!IInv

LEMMA InitBInv == Init => BInv
  <1> SUFFICES ASSUME Init PROVE BInv
    OBVIOUS
  <1>1. Own!IInv
    BY SameManager, Own!InitIInv, BoundsAssumption DEF Init, Own!MaxProcsAssumption
  <1>2. Types
    <2>1. 0 \in DnsLists /\ 0 \in RuleSets
      BY BoundsAssumption DEF DnsLists, RuleSets
    <2>2. file \in Configs \cup {None, Torn} /\ active \in Proxies \cup {None}
      BY <2>1 DEF Init, Configs
    <2>3. stage \in [Callers -> Stages] /\ local \in [Callers -> Locals]
      BY <2>1 DEF Init, Stages, Locals, NoLocals
    <2> QED BY <2>1, <2>2, <2>3 DEF Init, Types, Lags
  <1>3. HasProxy
    BY DEF Init, HasProxy
  <1> QED BY <1>1, <1>2, <1>3 DEF BInv

Proxied == {"setActive", "lookup", "generate", "open", "write", "setActiveID"}

\* A handler that goes on keeps the types, and has its proxy when it needs one.
LEMMA Placed ==
  ASSUME Types, HasProxy, NEW c \in Callers, NEW s \in Stages, NEW l \in Locals,
         stage' = [stage EXCEPT ![c] = s],
         local' = [local EXCEPT ![c] = l],
         s \in Proxied => l.proxy \in Proxies
  PROVE  stage' \in [Callers -> Stages] /\ local' \in [Callers -> Locals] /\ HasProxy'
  BY DEF Types, HasProxy, Proxied

\* Where each action of a handler takes it, and what it then has read.
LEMMA Moves ==
  ASSUME Types, HasProxy, NEW c \in Callers, Handler(c)
  PROVE  /\ stage' \in [Callers -> Stages] /\ local' \in [Callers -> Locals] /\ HasProxy'
         /\ \A d \in Callers \ {c} :
              /\ stage'[d] = stage[d]
              /\ stage[d] = "ready" => local'[d] = local[d]
  <1> DEFINE l == local[c]
  <1>0. /\ l \in Locals /\ stage[c] \in Stages /\ NoLocals \in Locals
        /\ 0 \in DnsLists /\ 0 \in RuleSets
        /\ stage[c] \in Proxied => l.proxy \in Proxies
    BY BoundsAssumption DEF Types, HasProxy, Proxied, Locals, NoLocals, DnsLists, RuleSets
  <1>t. stage \in [Callers -> Stages] /\ local \in [Callers -> Locals]
    BY DEF Types
  <1>m. ASSUME NEW s \in Stages, NEW k \in Locals,
               stage' = [stage EXCEPT ![c] = s], local' = [local EXCEPT ![c] = k],
               s \in Proxied => k.proxy \in Proxies
        PROVE  /\ stage' \in [Callers -> Stages] /\ local' \in [Callers -> Locals] /\ HasProxy'
               /\ \A d \in Callers \ {c} : stage'[d] = stage[d] /\ local'[d] = local[d]
    BY <1>m, <1>t, Placed
  <1>k. ASSUME NEW s \in Stages, stage' = [stage EXCEPT ![c] = s], UNCHANGED local,
               s \in Proxied => l.proxy \in Proxies
        PROVE  /\ stage' \in [Callers -> Stages] /\ local' \in [Callers -> Locals] /\ HasProxy'
               /\ \A d \in Callers \ {c} : stage'[d] = stage[d] /\ local'[d] = local[d]
    <2>1. local' = [local EXCEPT ![c] = l]
      BY <1>k, <1>t
    <2> QED BY <2>1, <1>0, <1>k, <1>m
  <1>f. ASSUME Finish(c)
        PROVE  /\ stage' \in [Callers -> Stages] /\ local' \in [Callers -> Locals] /\ HasProxy'
               /\ \A d \in Callers \ {c} : stage'[d] = stage[d] /\ local'[d] = local[d]
    BY <1>0, <1>m, <1>f DEF Finish, Goto, Stages, Proxied
  <1>u. ASSUME UNCHANGED <<stage, local>>
        PROVE  /\ stage' \in [Callers -> Stages] /\ local' \in [Callers -> Locals] /\ HasProxy'
               /\ \A d \in Callers \ {c} : stage'[d] = stage[d] /\ local'[d] = local[d]
    BY <1>t, <1>u DEF HasProxy
  <1>b. ASSUME NEW kind \in {"activate", "start", "dns", "rules", "test"},
               NEW id \in Proxies \cup {None}, NEW n \in DnsLists,
               NEW s \in Stages, Begin(c, kind, id, n), Goto(c, s), s \in Proxied => id \in Proxies
        PROVE  /\ stage' \in [Callers -> Stages] /\ local' \in [Callers -> Locals] /\ HasProxy'
               /\ \A d \in Callers \ {c} : stage'[d] = stage[d] /\ local'[d] = local[d]
    <2> DEFINE k == [kind |-> kind, proxy |-> id, dns |-> n, rules |-> 0, dirty |-> FALSE]
    <2>1. k \in Locals /\ k.proxy = id
      BY <1>0 DEF Locals
    <2>2. local' = [local EXCEPT ![c] = k] /\ stage' = [stage EXCEPT ![c] = s]
      BY <1>b DEF Begin, Goto
    <2> HIDE DEF k
    <2> QED BY <1>b, <1>m, <2>1, <2>2
  <1>1. CASE GenerateConfig(c)
    <2> DEFINE k == [l EXCEPT !.rules = mgrRules]
    <2>1. k \in Locals /\ k.proxy = l.proxy
      BY <1>0 DEF Types, Locals
    <2>2. local' = [local EXCEPT ![c] = k]
      BY <1>1 DEF GenerateConfig, Keep, Types
    <2>3. stage[c] = "generate" /\ stage' = [stage EXCEPT ![c] = "open"]
      BY <1>1 DEF GenerateConfig, At, Goto
    <2> HIDE DEF k
    <2> QED BY <1>0, <1>m, <2>1, <2>2, <2>3 DEF Stages, Proxied
  <1>2. CASE OpenFile(c)
    <2> DEFINE k == [l EXCEPT !.dns = mgrDns, !.dirty = FALSE]
    <2>1. k \in Locals /\ k.proxy = l.proxy
      BY <1>0 DEF Types, Locals
    <2>2. local' = [local EXCEPT ![c] = k]
      BY <1>2 DEF OpenFile, Types
    <2>3. stage[c] = "open" /\ stage' = [stage EXCEPT ![c] = "write"]
      BY <1>2 DEF OpenFile, At, Goto
    <2> HIDE DEF k
    <2> QED BY <1>0, <1>m, <2>1, <2>2, <2>3 DEF Stages, Proxied
  <1>3. CASE WriteFails(c) \/ Apply(c) \/ Fetch(c)
    BY <1>3, <1>f DEF WriteFails, Apply, Fetch
  <1>4. CASE WriteFile(c)
    <2>1. /\ local' = [d \in Callers |-> [local[d] EXCEPT !.dirty = @ \/ (At(d, "write") /\ d # c)]]
          /\ stage[c] = "write"
          /\ stage' = [stage EXCEPT ![c] = IF l.kind = "dns" THEN "apply" ELSE "setActiveID"]
      BY <1>4 DEF WriteFile, At, Goto
    <2>2. \A d \in Callers : local'[d] \in Locals /\ local'[d].proxy = local[d].proxy
      <3> SUFFICES ASSUME NEW d \in Callers
                   PROVE  local'[d] \in Locals /\ local'[d].proxy = local[d].proxy
        OBVIOUS
      <3> DEFINE b == local[d].dirty \/ (At(d, "write") /\ d # c)
      <3>1. local'[d] = [local[d] EXCEPT !.dirty = b] /\ b \in BOOLEAN /\ local[d] \in Locals
        BY <2>1, <1>t DEF At, Locals
      <3> HIDE DEF b
      <3> QED BY <3>1 DEF Locals
    <2>3. local' \in [Callers -> Locals]
      BY <2>1, <2>2
    <2>4. stage' \in [Callers -> Stages] /\ stage'[c] \in {"apply", "setActiveID"}
          /\ \A d \in Callers \ {c} : stage'[d] = stage[d]
      BY <2>1, <1>t DEF Stages
    <2>5. HasProxy'
      BY <2>1, <2>2, <2>4 DEF HasProxy
    <2>6. \A d \in Callers \ {c} : stage[d] = "ready" => local'[d] = local[d]
      <3> SUFFICES ASSUME NEW d \in Callers \ {c}, stage[d] = "ready" PROVE local'[d] = local[d]
        OBVIOUS
      <3>1. local'[d] = [local[d] EXCEPT !.dirty = local[d].dirty] /\ local[d] \in Locals
        BY <2>1, <1>t DEF At, Locals
      <3> QED BY <3>1 DEF Locals
    <2> QED BY <2>3, <2>4, <2>5, <2>6
  <1>5. CASE SetActive(c)
    <2>1. stage[c] = "setActive"
      BY <1>5 DEF SetActive, At
    <2>2. Finish(c) \/ (Goto(c, "generate") /\ UNCHANGED local)
      BY <1>5 DEF SetActive
    <2> QED BY <1>0, <1>f, <1>k, <2>1, <2>2 DEF Goto, Stages, Proxied
  <1>6. CASE SetActiveID(c)
    <2>1. Finish(c) \/ (Goto(c, "apply") /\ UNCHANGED local)
      BY <1>6 DEF SetActiveID
    <2> QED BY <1>f, <1>k, <2>1 DEF Goto, Stages, Proxied
  <1>7. CASE StartXray(c)
    <2>1. active \in Proxies
      BY <1>7 DEF StartXray, Types
    <2> QED BY <1>0, <1>7, <1>b, <2>1 DEF StartXray, Stages
  <1>8. CASE Lookup(c)
    <2>1. stage[c] = "lookup"
      BY <1>8 DEF Lookup, At
    <2>2. Finish(c) \/ (Goto(c, "generate") /\ UNCHANGED local)
      BY <1>8 DEF Lookup
    <2> QED BY <1>0, <1>f, <1>k, <2>1, <2>2 DEF Goto, Stages, Proxied
  <1>9. CASE RestartXray(c) \/ StopXray(c) \/ (\E id \in Proxies : DeleteProxy(c, id) \/ DropProxy(c, id))
             \/ ManagerStep(c)
    BY <1>9, <1>u DEF RestartXray, StopXray, DeleteProxy, DropProxy, ManagerStep
  <1>10. CASE UpdateDNS(c)
    <2>1. dns + 1 \in DnsLists
      BY <1>10, BoundsAssumption DEF UpdateDNS, Types, DnsLists
    <2>2. (Begin(c, "dns", None, dns + 1) /\ Goto(c, "setDNS")) \/ UNCHANGED <<stage, local>>
      BY <1>10 DEF UpdateDNS, FailToPersist
    <2> QED BY <1>b, <1>u, <2>1, <2>2 DEF Stages, Proxied
  <1>11. CASE SetDNS(c)
    BY <1>11, <1>k DEF SetDNS, Goto, Stages, Proxied
  <1>12. CASE GetActive(c)
    <2>1. CASE active # None
      <3> DEFINE k == [l EXCEPT !.proxy = active]
      <3>1. k \in Locals /\ k.proxy = active /\ active \in Proxies
        BY <1>0, <2>1 DEF Types, Locals
      <3>2. local' = [local EXCEPT ![c] = k] /\ stage' = [stage EXCEPT ![c] = "lookup"]
        BY <1>12, <2>1 DEF GetActive, Keep, Goto, Types
      <3> HIDE DEF k
      <3> QED BY <1>m, <3>1, <3>2 DEF Stages
    <2>2. CASE active = None
      BY <1>12, <1>f, <2>2 DEF GetActive
    <2> QED BY <2>1, <2>2
  <1>13. CASE ChangeRules(c)
    <2>1. (Begin(c, "rules", None, 0) /\ Goto(c, "getRules")) \/ UNCHANGED <<stage, local>>
      BY <1>13 DEF ChangeRules, FailToPersist
    <2> QED BY <1>0, <1>b, <1>u, <2>1 DEF Stages, Proxied
  <1>14. CASE GetRules(c)
    <2> DEFINE k == [l EXCEPT !.rules = rules]
    <2>1. k \in Locals
      BY <1>0 DEF Types, Locals
    <2>2. local' = [local EXCEPT ![c] = k] /\ stage' = [stage EXCEPT ![c] = "setRules"]
      BY <1>14 DEF GetRules, Keep, Goto, Types
    <2> HIDE DEF k
    <2> QED BY <1>m, <2>1, <2>2 DEF Stages, Proxied
  <1>15. CASE SetRoutingRules(c)
    BY <1>15, <1>k DEF SetRoutingRules, Goto, Stages, Proxied
  <1>16. ASSUME NEW id \in Proxies, ActivateProxy(c, id)
         PROVE  /\ stage' \in [Callers -> Stages] /\ local' \in [Callers -> Locals] /\ HasProxy'
                /\ \A d \in Callers \ {c} : stage'[d] = stage[d] /\ local'[d] = local[d]
    BY <1>0, <1>16, <1>b DEF ActivateProxy, Stages
  <1>17. CASE TestConnection(c)
    BY <1>0, <1>17, <1>b DEF TestConnection, Stages, Proxied
  <1>18. CASE ActiveProxyName(c)
    <2> DEFINE via == IF active \in proxies THEN active ELSE None
               k == [l EXCEPT !.proxy = via]
    <2>1. via \in Proxies \cup {None}
      BY DEF Types
    <2>2. local' = [local EXCEPT ![c] = k] /\ stage' = [stage EXCEPT ![c] = "fetch"]
      BY <1>18 DEF ActiveProxyName, Keep, Goto, Types
    <2> HIDE DEF via
    <2>3. k \in Locals
      BY <1>0, <2>1 DEF Locals
    <2> HIDE DEF k
    <2> QED BY <1>m, <2>2, <2>3 DEF Stages, Proxied
  <1> QED BY <1>1, <1>2, <1>3, <1>4, <1>5, <1>6, <1>7, <1>8, <1>9, <1>10, <1>11, <1>12, <1>13, <1>14,
             <1>15, <1>16, <1>17, <1>18 DEF Handler

\* What a handler writes has its type.
LEMMA HandlerTypes ==
  ASSUME Types, HasProxy, NEW c \in Callers, Handler(c)
  PROVE  Types'
  <1> DEFINE l == local[c]
  <1>0. /\ stage' \in [Callers -> Stages] /\ local' \in [Callers -> Locals]
        /\ l \in Locals
        /\ l.dns \in DnsLists /\ l.rules \in RuleSets /\ l.proxy \in Proxies \cup {None}
        /\ stage[c] \in Proxied => l.proxy \in Proxies
    BY Moves DEF Types, HasProxy, Proxied, Locals
  <1>u. ASSUME UNCHANGED <<store, mgrConf, file, loaded>>, lag' \subseteq Lags
        PROVE  Types'
    BY <1>0, <1>u DEF Types, store, mgrConf
  <1>1. CASE GenerateConfig(c) \/ StartXray(c) \/ Lookup(c) \/ RestartXray(c) \/ StopXray(c)
             \/ GetActive(c) \/ GetRules(c) \/ TestConnection(c) \/ ActiveProxyName(c) \/ Fetch(c)
             \/ Apply(c) \/ (\E id \in Proxies : ActivateProxy(c, id)) \/ WriteFails(c) \/ ManagerStep(c)
    <2>1. UNCHANGED <<store, mgrConf, file, loaded>>
      BY <1>1 DEF GenerateConfig, StartXray, Lookup, RestartXray, StopXray, GetActive, GetRules, TestConnection,
                  ActiveProxyName, Fetch, Apply, ActivateProxy, WriteFails, ManagerStep
    <2>2. lag' = lag \/ lag' = lag \ {"process"} \/ lag' = lag \cup {"file"}
      BY <1>1 DEF GenerateConfig, StartXray, Lookup, RestartXray, StopXray, GetActive, GetRules, TestConnection,
                  ActiveProxyName, Fetch, Apply, ActivateProxy, WriteFails, ManagerStep
    <2>3. lag' \subseteq Lags
      BY <2>2 DEF Types, Lags
    <2> QED BY <2>1, <2>3, <1>u
  <1>2. CASE OpenFile(c)
    BY <1>0, <1>2 DEF OpenFile, Types, store, mgrConf
  <1>3. CASE WriteFile(c)
    <2> DEFINE conf == [proxy |-> l.proxy, dns |-> l.dns, rules |-> l.rules]
    <2>1. stage[c] = "write" /\ file' \in {conf, Torn} /\ UNCHANGED <<store, mgrConf, loaded>>
          /\ lag' \subseteq lag \cup {"process"}
      BY <1>3 DEF WriteFile, At
    <2>2. conf \in Configs
      BY <1>0, <2>1 DEF Proxied, Configs
    <2> HIDE DEF conf
    <2> QED BY <1>0, <2>1, <2>2 DEF Types, store, mgrConf, Lags
  <1>4. CASE SetActive(c)
    <2>1. stage[c] = "setActive" /\ active' = l.proxy /\ lag' \subseteq lag \cup {"file"}
          /\ UNCHANGED <<proxies, dns, rules, mgrConf, file, loaded>>
      BY <1>4 DEF SetActive, At
    <2> QED BY <1>0, <2>1 DEF Types, mgrConf, Lags
  <1>5. CASE SetActiveID(c)
    <2>1. mgrActive' = l.proxy /\ UNCHANGED <<store, mgrDns, mgrRules, file, loaded, lag>>
      BY <1>5 DEF SetActiveID
    <2> QED BY <1>0, <2>1 DEF Types, store
  <1>6. CASE UpdateDNS(c)
    <2>1. /\ dns < MaxDns /\ dns' = dns + 1 /\ lag' \subseteq lag \cup {"dns"}
          /\ UNCHANGED <<proxies, active, rules, mgrConf, file, loaded>>
      BY <1>6 DEF UpdateDNS, FailToPersist
    <2>2. dns' \in DnsLists
      BY <2>1, BoundsAssumption DEF Types, DnsLists
    <2> QED BY <1>0, <2>1, <2>2 DEF Types, mgrConf, Lags
  <1>7. CASE SetDNS(c)
    <2>1. mgrDns' = l.dns /\ lag' \subseteq lag /\ UNCHANGED <<store, mgrRules, mgrActive, file, loaded>>
      BY <1>7 DEF SetDNS
    <2> QED BY <1>0, <2>1 DEF Types, store
  <1>8. CASE ChangeRules(c)
    <2>1. /\ rules < MaxRules /\ rules' = rules + 1 /\ lag' \subseteq lag \cup {"rules"}
          /\ UNCHANGED <<proxies, active, dns, mgrConf, file, loaded>>
      BY <1>8 DEF ChangeRules, FailToPersist
    <2>2. rules' \in RuleSets
      BY <2>1, BoundsAssumption DEF Types, RuleSets
    <2> QED BY <1>0, <2>1, <2>2 DEF Types, mgrConf, Lags
  <1>9. CASE SetRoutingRules(c)
    <2>1. mgrRules' = l.rules /\ lag' \subseteq lag /\ UNCHANGED <<store, mgrDns, mgrActive, file, loaded>>
      BY <1>9 DEF SetRoutingRules
    <2> QED BY <1>0, <2>1 DEF Types, store
  <1>10. ASSUME NEW id \in Proxies, DeleteProxy(c, id) \/ DropProxy(c, id)
         PROVE  Types'
    <2>1. proxies' \subseteq proxies /\ active' \in {active, None}
          /\ UNCHANGED <<dns, rules, mgrConf, file, loaded, lag>>
      BY <1>10 DEF DeleteProxy, DropProxy
    <2> QED BY <1>0, <2>1 DEF Types, mgrConf
  <1> QED BY <1>1, <1>2, <1>3, <1>4, <1>5, <1>6, <1>7, <1>8, <1>9, <1>10 DEF Handler

\* What a process reads is a file.
LEMMA ProcessTypes ==
  ASSUME Types, HasProxy, NEW p \in Mgr!Procs, Process(p)
  PROVE  Types' /\ HasProxy'
  <1>1. /\ loaded' \in [Mgr!Procs -> Configs \cup {None, Torn}]
        /\ UNCHANGED <<store, mgrConf, file, stage, local, lag>>
    BY DEF Process, LoadConfig, ProcessStep, Types
  <1> QED BY <1>1 DEF Types, HasProxy, store, mgrConf

\* The types and the Manager's own invariant, for requests that overlap.
LEMMA NextBInv == BInv /\ [Next]_vars => BInv'
  <1> SUFFICES ASSUME BInv, [Next]_vars PROVE BInv'
    OBVIOUS
  <1>1. Own!IInv'
    <2>1. Mgr!Next \/ UNCHANGED mgr
      BY ManagerOnly
    <2>2. [Own!Next]_Own!vars
      BY <2>1, SameNext DEF mgr, Own!vars
    <2> QED BY <2>2, Own!NextIInv, BoundsAssumption DEF BInv, Own!MaxProcsAssumption
  <1>2. ASSUME NEW c \in Callers, Handler(c) PROVE Types' /\ HasProxy'
    BY <1>2, HandlerTypes, Moves DEF BInv
  <1>3. ASSUME NEW p \in Mgr!Procs, Process(p) PROVE Types' /\ HasProxy'
    BY <1>3, ProcessTypes DEF BInv
  <1>4. CASE UNCHANGED vars
    BY <1>1, <1>4 DEF BInv, Types, HasProxy, vars, store, mgrConf
  <1> QED BY <1>1, <1>2, <1>3, <1>4 DEF Next, BInv

\* Every variable of the control plane keeps its type.
THEOREM TypeCorrect == Spec => []TypeOK
  <1>1. BInv => TypeOK
    BY SameManager DEF BInv, Types, TypeOK, Own!IInv
  <1> QED BY <1>1, InitBInv, NextBInv, PTL DEF Spec

-----------------------------------------------------------------------------
(* An activation with no request beside it.                                *)

\* How far such an activation has come, and what it has put in order by then.
Repairs(c) ==
  /\ stage[c] \in {"lookup", "setDNS", "getActive", "getRules", "setRules"} => local[c].kind # "activate"
  /\ local[c].kind = "activate" =>
       /\ stage[c] \in {"generate", "open", "write", "setActiveID", "apply"} =>
            active \in {local[c].proxy, None}
       /\ stage[c] \in {"open", "write"} => local[c].rules = mgrRules
       /\ stage[c] = "write" => local[c].dns = mgrDns /\ ~local[c].dirty
       /\ stage[c] \in {"setActiveID", "apply"} =>
            file = [proxy |-> local[c].proxy, dns |-> mgrDns, rules |-> mgrRules]
       /\ stage[c] = "apply" => mgrActive = local[c].proxy

LoneInv ==
  /\ BInv
  /\ alone \subseteq Callers
  /\ \A c \in alone : Repairs(c) /\ \A d \in Callers \ {c} : Idle(d)

\* Each action of the activation takes it one step on.
LEMMA OwnStepRepairs ==
  ASSUME Types, HasProxy, NEW c \in Callers, Handler(c), Repairs(c) \/ stage[c] = "ready"
  PROVE  Repairs(c)'
  <1>t. stage \in [Callers -> Stages] /\ local \in [Callers -> Locals]
    BY DEF Types
  <1>f. ASSUME Finish(c) PROVE Repairs(c)'
    <2>1. stage'[c] = "ready"
      BY <1>f, <1>t DEF Finish, Goto
    <2> QED BY <2>1 DEF Repairs
  <1>u. ASSUME stage'[c] = stage[c], local'[c] = local[c], active' \in {active, None},
               UNCHANGED <<file, mgrConf>>
        PROVE  Repairs(c)'
    BY <1>u DEF Repairs, mgrConf
  <1>1. CASE GenerateConfig(c)
    BY <1>1, <1>t DEF GenerateConfig, At, Goto, Keep, Repairs, Locals, store, mgrConf
  <1>2. CASE OpenFile(c)
    BY <1>2, <1>t DEF OpenFile, At, Goto, Repairs, Locals, store, mgrConf
  <1>3. CASE WriteFails(c) \/ Apply(c) \/ Fetch(c)
    BY <1>3, <1>f DEF WriteFails, Apply, Fetch
  <1>4. CASE WriteFile(c)
    <2>1. stage[c] = "write" /\ UNCHANGED <<store, mgrConf>>
          /\ stage'[c] = IF local[c].kind = "dns" THEN "apply" ELSE "setActiveID"
      BY <1>4, <1>t DEF WriteFile, At, Goto
    <2>2. local'[c] = [local[c] EXCEPT !.dirty = local[c].dirty \/ (At(c, "write") /\ c # c)]
      BY <1>4 DEF WriteFile
    <2>3. local'[c].kind = local[c].kind /\ local'[c].proxy = local[c].proxy
      BY <2>2, <1>t DEF Locals
    <2>4. ~local[c].dirty => file' = [proxy |-> local[c].proxy, dns |-> local[c].dns, rules |-> local[c].rules]
      BY <1>4 DEF WriteFile
    <2> QED BY <2>1, <2>3, <2>4 DEF Repairs, store, mgrConf
  <1>5. CASE SetActive(c)
    <2>1. CASE Finish(c)
      BY <1>f, <2>1
    <2>2. CASE Goto(c, "generate") /\ UNCHANGED local
      BY <1>5, <2>2, <1>t DEF SetActive, Goto, Repairs
    <2> QED BY <1>5, <2>1, <2>2 DEF SetActive
  <1>6. CASE SetActiveID(c)
    <2>1. CASE Finish(c)
      BY <1>f, <2>1
    <2>2. CASE Goto(c, "apply") /\ UNCHANGED local
      BY <1>6, <2>2, <1>t DEF SetActiveID, At, Goto, Repairs, store
    <2> QED BY <1>6, <2>1, <2>2 DEF SetActiveID
  <1>7. CASE StartXray(c)
    BY <1>7, <1>t DEF StartXray, Begin, Goto, Repairs
  <1>8. CASE Lookup(c)
    <2>1. CASE Finish(c)
      BY <1>f, <2>1
    <2>2. CASE Goto(c, "generate") /\ UNCHANGED local
      BY <1>8, <2>2, <1>t DEF Lookup, At, Goto, Repairs
    <2> QED BY <1>8, <2>1, <2>2 DEF Lookup
  <1>9. CASE RestartXray(c) \/ StopXray(c) \/ ManagerStep(c)
    BY <1>9, <1>u DEF RestartXray, StopXray, ManagerStep, store
  <1>10. ASSUME NEW id \in Proxies, DeleteProxy(c, id) \/ DropProxy(c, id) PROVE Repairs(c)'
    BY <1>10, <1>u DEF DeleteProxy, DropProxy
  <1>11. CASE UpdateDNS(c)
    <2>1. CASE Begin(c, "dns", None, dns + 1) /\ Goto(c, "setDNS")
      BY <2>1, <1>t DEF Begin, Goto, Repairs
    <2>2. CASE FailToPersist(c, "dns")
      BY <1>11, <2>2, <1>u DEF UpdateDNS, FailToPersist
    <2> QED BY <1>11, <2>1, <2>2 DEF UpdateDNS
  <1>12. CASE SetDNS(c)
    BY <1>12, <1>t DEF SetDNS, At, Goto, Repairs
  <1>13. CASE GetActive(c)
    <2>1. CASE Finish(c)
      BY <1>f, <2>1
    <2>2. CASE Keep(c, "proxy", active) /\ Goto(c, "lookup")
      BY <1>13, <2>2, <1>t DEF GetActive, At, Keep, Goto, Repairs, Locals
    <2> QED BY <1>13, <2>1, <2>2 DEF GetActive
  <1>14. CASE ChangeRules(c)
    <2>1. CASE Begin(c, "rules", None, 0) /\ Goto(c, "getRules")
      BY <2>1, <1>t DEF Begin, Goto, Repairs
    <2>2. CASE UNCHANGED <<stage, local>>
      BY <1>14, <2>2, <1>u DEF ChangeRules
    <2> QED BY <1>14, <2>1, <2>2 DEF ChangeRules, FailToPersist
  <1>15. CASE GetRules(c)
    BY <1>15, <1>t DEF GetRules, At, Keep, Goto, Repairs, Locals
  <1>16. CASE SetRoutingRules(c)
    BY <1>16, <1>t DEF SetRoutingRules, At, Goto, Repairs
  <1>17. ASSUME NEW id \in Proxies, ActivateProxy(c, id) PROVE Repairs(c)'
    BY <1>17, <1>t DEF ActivateProxy, Begin, Goto, Repairs
  <1>18. CASE TestConnection(c)
    BY <1>18, <1>t DEF TestConnection, Begin, Goto, Repairs
  <1>19. CASE ActiveProxyName(c)
    BY <1>19, <1>t DEF ActiveProxyName, At, Keep, Goto, Repairs, Locals
  <1> QED BY <1>1, <1>2, <1>3, <1>4, <1>5, <1>6, <1>7, <1>8, <1>9, <1>10, <1>11, <1>12, <1>13, <1>14,
             <1>15, <1>16, <1>17, <1>18, <1>19 DEF Handler

\* A call of a Manager's method is its caller's own.
LEMMA CallsAreOwn ==
  ASSUME BInv, NEW c \in Callers, Handler(c)
  PROVE  /\ pc' \in [Callers -> Mgr!CallerStates] /\ resume' \in [Callers -> {"idle", "starting"}]
         /\ \A d \in Callers \ {c} : pc'[d] = pc[d] /\ resume'[d] = resume[d]
  <1>1. Mgr!TypeOK
    BY SameManager DEF BInv, Own!IInv
  <1>2. \/ Mgr!CallStart(c) \/ Mgr!CallStop(c, "idle") \/ Mgr!CallRestart(c) \/ Mgr!Step(c)
        \/ UNCHANGED mgr
    BY HandlerInManager
  <1> QED BY <1>1, <1>2 DEF Mgr!TypeOK, Mgr!CallStart, Mgr!CallStop, Mgr!CallRestart, Mgr!Step, Mgr!Start,
             Mgr!StopSnapshot, Mgr!Signal, Mgr!StopDone, Mgr!StopTimeout, Mgr!StopClear, Mgr!Return,
             Mgr!Goto, Mgr!CallerStates, mgr

\* What a caller that is idle before and after has done beside an activation.
LEMMA BesideActivation ==
  ASSUME BInv, NEW c \in Callers, Handler(c), Idle(c), Idle(c)'
  PROVE  UNCHANGED <<file, mgrConf, stage, local>> /\ active' \in {active, None}
  <1>1. stage[c] = "ready" /\ stage'[c] = "ready" /\ pc[c] = "idle" /\ pc'[c] = "idle"
    BY DEF Idle
  <1>2. stage \in [Callers -> Stages] /\ pc \in [Callers -> Mgr!CallerStates]
    BY SameManager DEF BInv, Types, Own!IInv, Mgr!TypeOK
  <1>3. \A s : Goto(c, s) => s = "ready"
    BY <1>1, <1>2 DEF Goto
  <1>4. ~RestartXray(c) /\ ~StopXray(c)
    BY <1>1, <1>2 DEF RestartXray, StopXray, Mgr!CallRestart, Mgr!CallStop, Mgr!Goto
  <1>5. ~ManagerStep(c)
    BY <1>1 DEF ManagerStep, Mgr!Step, Mgr!Start, Mgr!StopSnapshot, Mgr!Signal, Mgr!StopDone,
                Mgr!StopTimeout, Mgr!StopClear
  <1>6. ~(GenerateConfig(c) \/ OpenFile(c) \/ WriteFails(c) \/ WriteFile(c) \/ SetActive(c) \/ SetActiveID(c)
          \/ Apply(c) \/ Lookup(c) \/ SetDNS(c) \/ GetActive(c) \/ GetRules(c) \/ SetRoutingRules(c)
          \/ ActiveProxyName(c) \/ Fetch(c))
    BY <1>1 DEF GenerateConfig, OpenFile, WriteFails, WriteFile, SetActive, SetActiveID, Apply, Lookup,
                SetDNS, GetActive, GetRules, SetRoutingRules, ActiveProxyName, Fetch, At
  <1>7. ~StartXray(c) /\ ~TestConnection(c) /\ \A id \in Proxies : ~ActivateProxy(c, id)
    BY <1>3 DEF StartXray, TestConnection, ActivateProxy
  <1>8. ASSUME UpdateDNS(c) \/ ChangeRules(c)
        PROVE  UNCHANGED <<file, mgrConf, stage, local>> /\ active' = active
    BY <1>1, <1>3, <1>8 DEF UpdateDNS, ChangeRules, FailToPersist, At
  <1>9. ASSUME NEW id \in Proxies, DeleteProxy(c, id) \/ DropProxy(c, id)
        PROVE  UNCHANGED <<file, mgrConf, stage, local>> /\ active' \in {active, None}
    BY <1>9 DEF DeleteProxy, DropProxy
  <1> QED BY <1>4, <1>5, <1>6, <1>7, <1>8, <1>9 DEF Handler

\* The invariant of the activations that are alone is inductive.
LEMMA NextLoneInv == LoneInv /\ [RepairNext]_repairVars => LoneInv'
  <1> SUFFICES ASSUME LoneInv, [RepairNext]_repairVars PROVE LoneInv'
    OBVIOUS
  <1>1. CASE UNCHANGED repairVars
    <2>1. UNCHANGED vars /\ alone' = alone
      BY <1>1 DEF repairVars
    <2>2. BInv'
      BY <2>1, NextBInv DEF LoneInv
    <2> QED BY <2>1, <2>2 DEF LoneInv, Repairs, Idle, vars, store, mgrConf, mgr
  <1>2. CASE RepairNext
    <2>1. Next /\ BInv /\ BInv'
      BY <1>2, NextBInv DEF RepairNext, LoneInv
    <2>2. /\ alone' \subseteq Callers
          /\ \A c \in alone' : /\ Idle(c) \/ c \in alone
                               /\ ~Idle(c)'
                               /\ \A d \in Callers \ {c} : Idle(d)'
      BY <1>2 DEF RepairNext
    <2>3. ASSUME NEW c \in alone', NEW d \in Callers, Handler(d) PROVE Repairs(c)'
      <3>1. CASE d = c
        <4>1. Repairs(c) \/ stage[c] = "ready"
          BY <2>2 DEF Idle, LoneInv
        <4> QED BY <2>1, <2>2, <2>3, <3>1, <4>1, OwnStepRepairs DEF BInv
      <3>2. CASE d # c
        <4>1. c \in Callers /\ stage'[c] = stage[c] /\ pc'[c] = pc[c]
          BY <2>1, <2>2, <2>3, <3>2, Moves, CallsAreOwn DEF BInv
        <4>2. c \in alone /\ Repairs(c)
          BY <2>2, <4>1 DEF Idle, LoneInv
        <4>3. Idle(d) /\ Idle(d)'
          BY <2>2, <3>2, <4>2 DEF LoneInv
        <4>4. UNCHANGED <<file, mgrConf, stage, local>> /\ active' \in {active, None}
          BY <2>1, <2>3, <4>3, BesideActivation
        <4> QED BY <4>2, <4>4 DEF Repairs, mgrConf
      <3> QED BY <3>1, <3>2
    <2>4. ASSUME NEW c \in alone', NEW p \in Mgr!Procs, Process(p) PROVE Repairs(c)'
      <3>1. UNCHANGED <<store, mgrConf, file, stage, local, pc>>
        BY <2>4 DEF Process, LoadConfig, ProcessStep, Mgr!Wait, Mgr!Exit, mgr
      <3>2. c \in alone
        BY <2>2, <3>1 DEF Idle
      <3> QED BY <3>1, <3>2 DEF LoneInv, Repairs, store, mgrConf
    <2> QED BY <2>1, <2>2, <2>3, <2>4 DEF Next, LoneInv
  <1> QED BY <1>1, <1>2

\* An activation with no request beside it leaves a whole config for its proxy,
\* whatever overlapping requests have left behind (xray.go:53, manager.go:122).
THEOREM ActivationRepairs == RepairSpec => []LoneActivationRepairs
  <1>1. RepairInit => LoneInv
    BY InitBInv DEF RepairInit, LoneInv
  <1>2. LoneInv => LoneActivationRepairs
    BY DEF LoneInv, Repairs, LoneActivationRepairs, At
  <1> QED BY <1>1, <1>2, NextLoneInv, PTL DEF RepairSpec

-----------------------------------------------------------------------------
(* Requests that follow one another.                                       *)

\* What a handler has read is still so: which handler it is follows from where
\* it is, its proxy is the active one, and its lists are those of the store.
Reads(c) ==
  /\ stage[c] # "ready" => pc[c] = "idle"
  /\ stage[c] = "setActive" => local[c].kind = "activate"
  /\ stage[c] = "lookup" => local[c].kind \in {"start", "dns"}
  /\ stage[c] \in {"generate", "open", "write"} => local[c].kind \in {"activate", "start", "dns"}
  /\ stage[c] = "setActiveID" => local[c].kind \in {"activate", "start"}
  /\ stage[c] = "apply" => local[c].kind \in {"activate", "dns", "rules"}
  /\ stage[c] \in {"setDNS", "getActive"} => local[c].kind = "dns"
  /\ stage[c] \in {"getRules", "setRules"} => local[c].kind = "rules"
  /\ stage[c] \in {"lookup", "generate", "open", "write", "setActiveID"} => local[c].proxy = active
  /\ stage[c] = "fetch" => local[c].proxy \in {active, None}
  /\ stage[c] = "write" => local[c].dns = mgrDns /\ file = Torn
  /\ stage[c] = "setDNS" => local[c].dns = dns
  /\ stage[c] = "setRules" => local[c].rules = rules
  /\ ~local[c].dirty

\* c is between the change of the active proxy and the config file for it.
Rewires(c) ==
  \/ stage[c] = "write"
  \/ local[c].kind = "activate" /\ stage[c] \in {"generate", "open"}

\* c is between the change of the DNS list and the config file with it.
RewritesDns(c) ==
  \/ Rewires(c)
  \/ stage[c] = "setDNS"
  \/ local[c].kind = "dns" /\ stage[c] \in {"getActive", "lookup", "generate", "open"}

\* c will yet replace the process on record, if there is one.
Replaces(c) ==
  \/ /\ local[c].kind = "activate"
     /\ stage[c] \in {"generate", "open", "write", "setActiveID", "apply"}
  \/ pc[c] \in {"stopping", "signalling", "awaiting", "clearing"} /\ resume[c] = "starting"

ReplacesDns(c) ==
  \/ Replaces(c)
  \/ stage[c] = "setDNS"
  \/ /\ local[c].kind = "dns"
     /\ stage[c] \in {"getActive", "lookup", "generate", "open", "write", "apply"}

FileIsWired ==
  active # None /\ "file" \notin lag => file \in Configs /\ file.proxy = active

FileHasDns ==
  active \in proxies /\ "file" \notin lag /\ "dns" \notin lag => file \in Configs /\ file.dns = dns

ServesWired ==
  Serving /\ active # None /\ "file" \notin lag /\ "process" \notin lag => loaded[cmd].proxy = active

ServesDns ==
  Serving /\ active \in proxies /\ lag \subseteq {"rules"} => loaded[cmd].dns = dns

\* Only a process that is alive has read a config.
DeadHaveNotRead == \A p \in Mgr!Procs : ~Mgr!IsLive(p) => loaded[p] = None

OneBusy == \A c, d \in Callers : ~Idle(c) /\ ~Idle(d) => c = d

\* What holds of the file, of the Manager's lists and of the process on record,
\* but for the time in which the handler that is under way sees to it.
Settled ==
  /\ FileIsWired \/ \E c \in Callers : Rewires(c)
  /\ FileHasDns \/ \E c \in Callers : RewritesDns(c)
  /\ mgrDns = dns \/ "dns" \in lag \/ \E c \in Callers : stage[c] = "setDNS"
  /\ mgrRules = rules \/ "rules" \in lag \/ \E c \in Callers : stage[c] \in {"getRules", "setRules"}
  /\ ServesWired \/ \E c \in Callers : Replaces(c)
  /\ ServesDns \/ \E c \in Callers : ReplacesDns(c)

CInv ==
  /\ BInv /\ Own!SInv
  /\ OneBusy
  /\ \A c \in Callers : Reads(c)
  /\ DeadHaveNotRead
  /\ Settled

\* The same, said of the one handler that is under way.
FileSettledFor(c) ==
  /\ FileIsWired \/ Rewires(c)
  /\ FileHasDns \/ RewritesDns(c)
  /\ mgrDns = dns \/ "dns" \in lag \/ stage[c] = "setDNS"
  /\ mgrRules = rules \/ "rules" \in lag \/ stage[c] \in {"getRules", "setRules"}

ServedFor(c) ==
  /\ ServesWired \/ Replaces(c)
  /\ ServesDns \/ ReplacesDns(c)

LEMMA SettledForOne ==
  ASSUME NEW c \in Callers, \A d \in Callers \ {c} : Idle(d)
  PROVE  Settled <=> FileSettledFor(c) /\ ServedFor(c)
  <1>1. \A d \in Callers \ {c} : stage[d] = "ready" /\ pc[d] = "idle"
    BY DEF Idle
  <1>2. (\E d \in Callers : Rewires(d)) <=> Rewires(c)
    BY <1>1 DEF Rewires
  <1>3. (\E d \in Callers : RewritesDns(d)) <=> RewritesDns(c)
    BY <1>1 DEF RewritesDns, Rewires
  <1>4. (\E d \in Callers : Replaces(d)) <=> Replaces(c)
    BY <1>1 DEF Replaces
  <1>5. (\E d \in Callers : ReplacesDns(d)) <=> ReplacesDns(c)
    BY <1>1 DEF ReplacesDns, Replaces
  <1>6. (\E d \in Callers : stage[d] = "setDNS") <=> stage[c] = "setDNS"
    BY <1>1
  <1>7. (\E d \in Callers : stage[d] \in {"getRules", "setRules"}) <=> stage[c] \in {"getRules", "setRules"}
    BY <1>1
  <1> QED BY <1>2, <1>3, <1>4, <1>5, <1>6, <1>7 DEF Settled, FileSettledFor, ServedFor

\* Nothing has been served, and the file is the one for the active proxy.
LEMMA InitCInv == Init => CInv
  <1> SUFFICES ASSUME Init PROVE CInv
    OBVIOUS
  <1>1. BInv /\ Own!SInv
    BY InitBInv, SameManager, Own!InitSInv, BoundsAssumption DEF Init, Own!MaxProcsAssumption
  <1>2. \A c \in Callers : stage[c] = "ready" /\ pc[c] = "idle" /\ ~local[c].dirty
    BY DEF Init, Mgr!Init, NoLocals
  <1>3. OneBusy /\ \A c \in Callers : Reads(c)
    BY <1>2 DEF OneBusy, Idle, Reads
  <1>4. DeadHaveNotRead
    BY DEF Init, DeadHaveNotRead
  <1>5. ServesWired /\ ServesDns
    BY DEF Init, Mgr!Init, ServesWired, ServesDns, Serving
  <1>6. FileIsWired /\ FileHasDns
    <2>1. 0 \in DnsLists /\ 0 \in RuleSets
      BY BoundsAssumption DEF DnsLists, RuleSets
    <2>2. active \in Proxies => file \in Configs /\ file.proxy = active /\ file.dns = dns
      BY <2>1, NoneAssumption DEF Init, Configs
    <2> QED BY <2>2, NoneAssumption DEF Init, FileIsWired, FileHasDns
  <1> QED BY <1>1, <1>3, <1>4, <1>5, <1>6 DEF CInv, Settled, Init

\* One step of one request at a time: the others stay idle, and the Manager's
\* serial invariant holds on.
LEMMA StaysSerial ==
  ASSUME CInv, SerialNext
  PROVE  BInv' /\ Own!SInv' /\ OneBusy'
  <1>1. Next
    BY DEF SerialNext, Next
  <1>2. BInv'
    BY <1>1, NextBInv DEF CInv
  <1>3. OneBusy'
    <2>1. ASSUME NEW c \in Callers, Handler(c), \A d \in Callers \ {c} : Idle(d)
          PROVE  OneBusy'
      <3>1. \A d \in Callers \ {c} : Idle(d)'
        BY <2>1, Moves, CallsAreOwn DEF CInv, BInv, Idle
      <3> QED BY <3>1 DEF OneBusy
    <2>2. ASSUME NEW p \in Mgr!Procs, Process(p)
          PROVE  OneBusy'
      BY <2>2 DEF Process, LoadConfig, ProcessStep, Mgr!Wait, Mgr!Exit, mgr, CInv, OneBusy, Idle
    <2> QED BY <2>1, <2>2 DEF SerialNext
  <1>4. Own!SInv'
    <2>1. Own!OneAtATime'
      BY <1>3 DEF OneBusy, Idle, Own!OneAtATime
    <2>2. Mgr!Next \/ UNCHANGED mgr
      BY <1>1, ManagerOnly
    <2>3. [Own!Next /\ Own!OneAtATime']_Own!vars
      BY <2>1, <2>2, SameNext DEF mgr, Own!vars
    <2> QED BY <2>3, Own!NextSInv, BoundsAssumption DEF CInv, Own!MaxProcsAssumption
  <1> QED BY <1>2, <1>3, <1>4

\* What the handler under way has read stays so until it has done with it.
LEMMA HandlerReads ==
  ASSUME BInv, NEW c \in Callers, Handler(c), Reads(c)
  PROVE  Reads(c)'
  <1>t. /\ stage \in [Callers -> Stages] /\ local \in [Callers -> Locals]
        /\ pc \in [Callers -> Mgr!CallerStates]
    BY SameManager DEF BInv, Types, Own!IInv, Mgr!TypeOK
  <1>f. ASSUME Finish(c) PROVE Reads(c)'
    <2>1. stage'[c] = "ready" /\ local'[c] = NoLocals
      BY <1>f, <1>t DEF Finish, Goto
    <2> QED BY <2>1 DEF Reads, NoLocals
  <1>u. ASSUME stage'[c] = "ready", local'[c].dirty = local[c].dirty
        PROVE  Reads(c)'
    BY <1>u DEF Reads
  <1>1. CASE GenerateConfig(c)
    BY <1>1, <1>t DEF GenerateConfig, At, Goto, Keep, Reads, Locals, store, mgrConf, mgr
  <1>2. CASE OpenFile(c)
    BY <1>2, <1>t DEF OpenFile, At, Goto, Reads, Locals, store, mgrConf, mgr
  <1>3. CASE WriteFails(c) \/ Apply(c) \/ Fetch(c)
    BY <1>3, <1>f DEF WriteFails, Apply, Fetch
  <1>4. CASE WriteFile(c)
    <2>1. stage[c] = "write" /\ UNCHANGED <<store, mgrConf, pc>>
          /\ stage'[c] = IF local[c].kind = "dns" THEN "apply" ELSE "setActiveID"
      BY <1>4, <1>t DEF WriteFile, At, Goto, mgr
    <2>2. local'[c] = [local[c] EXCEPT !.dirty = local[c].dirty \/ (At(c, "write") /\ c # c)]
      BY <1>4 DEF WriteFile
    <2>3. local'[c].kind = local[c].kind /\ local'[c].proxy = local[c].proxy
          /\ (local'[c].dirty <=> local[c].dirty)
      BY <2>2, <1>t DEF Locals
    <2> QED BY <2>1, <2>3 DEF Reads, store, mgrConf
  <1>5. CASE SetActive(c)
    <2>1. CASE Finish(c)
      BY <1>f, <2>1
    <2>2. CASE Goto(c, "generate") /\ UNCHANGED local
      BY <1>5, <2>2, <1>t DEF SetActive, At, Goto, Reads, mgr
    <2> QED BY <1>5, <2>1, <2>2 DEF SetActive
  <1>6. CASE SetActiveID(c)
    <2>1. CASE Finish(c)
      BY <1>f, <2>1
    <2>2. CASE local[c].kind # "start"
      BY <1>6, <2>2, <1>t DEF SetActiveID, At, Goto, Reads, store, mgr
    <2> QED BY <1>6, <2>1, <2>2 DEF SetActiveID
  <1>7. CASE StartXray(c)
    BY <1>7, <1>t DEF StartXray, Begin, Idle, Goto, Reads, store, mgr
  <1>8. CASE Lookup(c)
    <2>1. CASE Finish(c)
      BY <1>f, <2>1
    <2>2. CASE Goto(c, "generate") /\ UNCHANGED local
      BY <1>8, <2>2, <1>t DEF Lookup, At, Goto, Reads, store, mgr
    <2> QED BY <1>8, <2>1, <2>2 DEF Lookup
  <1>9. CASE RestartXray(c) \/ StopXray(c)
    BY <1>9, <1>u DEF RestartXray, StopXray, Idle, Reads
  <1>10. CASE ManagerStep(c)
    <2>1. pc[c] # "idle" /\ UNCHANGED <<stage, local>>
      BY <1>10 DEF ManagerStep, Mgr!Step, Mgr!Start, Mgr!StopSnapshot, Mgr!Signal, Mgr!StopDone,
                   Mgr!StopTimeout, Mgr!StopClear
    <2> QED BY <2>1, <1>u DEF Reads
  <1>11. ASSUME NEW id \in Proxies, DeleteProxy(c, id) \/ DropProxy(c, id) PROVE Reads(c)'
    BY <1>11, <1>u DEF DeleteProxy, DropProxy, Idle
  <1>12. CASE UpdateDNS(c)
    <2>1. CASE Begin(c, "dns", None, dns + 1) /\ Goto(c, "setDNS")
      BY <1>12, <2>1, <1>t DEF UpdateDNS, Begin, Idle, Goto, Reads, mgr
    <2>2. CASE FailToPersist(c, "dns")
      BY <2>2, <1>u DEF FailToPersist, Idle
    <2> QED BY <1>12, <2>1, <2>2 DEF UpdateDNS
  <1>13. CASE SetDNS(c)
    BY <1>13, <1>t DEF SetDNS, At, Goto, Reads, store, mgr
  <1>14. CASE GetActive(c)
    <2>1. CASE Finish(c)
      BY <1>f, <2>1
    <2>2. CASE Keep(c, "proxy", active) /\ Goto(c, "lookup")
      BY <1>14, <2>2, <1>t DEF GetActive, At, Keep, Goto, Reads, Locals, store, mgr
    <2> QED BY <1>14, <2>1, <2>2 DEF GetActive
  <1>15. CASE ChangeRules(c)
    <2>1. CASE Begin(c, "rules", None, 0) /\ Goto(c, "getRules")
      BY <1>15, <2>1, <1>t DEF ChangeRules, Begin, Idle, Goto, Reads, mgr
    <2>2. CASE At(c, "getRules") /\ UNCHANGED <<stage, local>>
      BY <1>15, <2>2 DEF ChangeRules, At, Reads, mgr
    <2>3. CASE FailToPersist(c, "rules")
      BY <2>3, <1>u DEF FailToPersist, Idle
    <2> QED BY <1>15, <2>1, <2>2, <2>3 DEF ChangeRules
  <1>16. CASE GetRules(c)
    BY <1>16, <1>t DEF GetRules, At, Keep, Goto, Reads, Locals, store, mgr
  <1>17. CASE SetRoutingRules(c)
    <2>1. stage[c] = "setRules"
      BY <1>17 DEF SetRoutingRules, At
    <2> QED BY <1>17, <2>1, <1>t DEF SetRoutingRules, Goto, Reads, store, mgr
  <1>18. ASSUME NEW id \in Proxies, ActivateProxy(c, id) PROVE Reads(c)'
    BY <1>18, <1>t DEF ActivateProxy, Begin, Idle, Goto, Reads, mgr
  <1>19. CASE TestConnection(c)
    BY <1>19, <1>t DEF TestConnection, Begin, Idle, Goto, Reads, mgr
  <1>20. CASE ActiveProxyName(c)
    BY <1>20, <1>t DEF ActiveProxyName, At, Keep, Goto, Reads, Locals, store, mgr
  <1> QED BY <1>1, <1>2, <1>3, <1>4, <1>5, <1>6, <1>7, <1>8, <1>9, <1>10, <1>11, <1>12, <1>13, <1>14,
             <1>15, <1>16, <1>17, <1>18, <1>19, <1>20 DEF Handler

\* What the store, the file and the Manager's lists say of each other is in
\* order again when the handler that disturbed it has done with it.
LEMMA HandlerSettlesFile ==
  ASSUME BInv, NEW c \in Callers, Handler(c), Reads(c), FileSettledFor(c)
  PROVE  FileSettledFor(c)'
  <1>t. /\ stage \in [Callers -> Stages] /\ local \in [Callers -> Locals]
        /\ proxies \subseteq Proxies
    BY DEF BInv, Types
  <1> USE DEF FileSettledFor, FileIsWired, FileHasDns, Rewires, RewritesDns
  <1>s. ASSUME stage'[c] = stage[c], local'[c] = local[c], UNCHANGED <<store, mgrConf, file, lag>>
        PROVE  FileSettledFor(c)'
    BY <1>s DEF store, mgrConf
  <1>1. CASE GenerateConfig(c)
    BY <1>1, <1>t DEF GenerateConfig, At, Goto, Keep, Reads, Locals, store, mgrConf
  <1>2. CASE OpenFile(c)
    BY <1>2, <1>t DEF OpenFile, At, Goto, store, mgrConf
  <1>3. CASE WriteFails(c)
    BY <1>3, <1>t DEF WriteFails, Finish, Goto, store, mgrConf
  <1>4. CASE WriteFile(c)
    <2> DEFINE conf == [proxy |-> local[c].proxy, dns |-> local[c].dns, rules |-> local[c].rules]
    <2>1. stage[c] = "write" /\ UNCHANGED <<store, mgrConf>>
          /\ stage'[c] \notin {"setDNS", "getRules", "setRules"}
      BY <1>4, <1>t DEF WriteFile, At, Goto
    <2>2. file' = conf
      BY <1>4, <2>1 DEF WriteFile, Reads
    <2>3. conf \in Configs /\ conf.proxy = active /\ conf.dns = mgrDns
      BY <2>1, <1>t DEF BInv, HasProxy, Reads, Locals, Configs
    <2>4. "file" \notin lag' /\ ("dns" \in lag' <=> "dns" \in lag) /\ ("rules" \in lag' <=> "rules" \in lag)
      BY <1>4 DEF WriteFile
    <2> HIDE DEF conf
    <2> QED BY <2>1, <2>2, <2>3, <2>4 DEF store, mgrConf
  <1>5. CASE SetActive(c)
    <2>1. CASE Finish(c) /\ lag' = lag \cup {"file"}
      BY <1>5, <2>1, <1>t DEF SetActive, At, mgrConf, Finish, Goto
    <2>2. CASE Goto(c, "generate") /\ UNCHANGED <<local, lag>>
      BY <1>5, <2>2, <1>t DEF SetActive, At, Goto, Reads, mgrConf
    <2> QED BY <1>5, <2>1, <2>2 DEF SetActive
  <1>6. CASE SetActiveID(c) \/ Apply(c) \/ Fetch(c)
    <2>1. /\ stage[c] \in {"setActiveID", "apply", "fetch"} /\ stage'[c] \in {"ready", "apply"}
          /\ UNCHANGED <<store, mgrDns, mgrRules, file, lag>>
      BY <1>6, <1>t DEF SetActiveID, Apply, Fetch, Finish, At, Goto, mgrConf
    <2> QED BY <2>1 DEF store
  <1>7. CASE StartXray(c)
    BY <1>7, <1>t DEF StartXray, Begin, Idle, Goto, store, mgrConf
  <1>8. CASE Lookup(c)
    <2>1. CASE local[c].proxy \notin proxies
      BY <1>8, <2>1, <1>t DEF Lookup, Finish, At, Goto, Reads, store, mgrConf
    <2>2. CASE Goto(c, "generate") /\ UNCHANGED local
      BY <1>8, <2>2, <1>t DEF Lookup, At, Goto, Reads, store, mgrConf
    <2> QED BY <1>8, <2>1, <2>2 DEF Lookup
  <1>9. CASE RestartXray(c) \/ StopXray(c)
    BY <1>9, <1>s DEF RestartXray, StopXray
  <1>10. CASE ManagerStep(c)
    <2>1. /\ UNCHANGED <<stage, local, store, mgrConf, file>>
          /\ \A x \in {"file", "dns", "rules"} : x \in lag' <=> x \in lag
      BY <1>10 DEF ManagerStep
    <2> QED BY <2>1 DEF store, mgrConf
  <1>11. ASSUME NEW id \in Proxies, DeleteProxy(c, id) \/ DropProxy(c, id) PROVE FileSettledFor(c)'
    BY <1>11, <1>t, NoneAssumption DEF DeleteProxy, DropProxy, Idle, mgrConf
  <1>12. CASE UpdateDNS(c)
    <2>1. CASE Begin(c, "dns", None, dns + 1) /\ Goto(c, "setDNS") /\ UNCHANGED lag
      BY <1>12, <2>1, <1>t DEF UpdateDNS, Begin, Idle, Goto, mgrConf
    <2>2. CASE FailToPersist(c, "dns")
      BY <1>12, <2>2 DEF UpdateDNS, FailToPersist, Idle, mgrConf
    <2> QED BY <1>12, <2>1, <2>2 DEF UpdateDNS
  <1>13. CASE SetDNS(c)
    BY <1>13, <1>t DEF SetDNS, At, Goto, Reads, store
  <1>14. CASE GetActive(c)
    <2>1. CASE active = None
      BY <1>14, <2>1, <1>t, NoneAssumption DEF GetActive, At, Finish, Goto, store, mgrConf
    <2>2. CASE Keep(c, "proxy", active) /\ Goto(c, "lookup")
      BY <1>14, <2>2, <1>t DEF GetActive, At, Keep, Goto, Reads, Locals, store, mgrConf
    <2> QED BY <1>14, <2>1, <2>2 DEF GetActive
  <1>15. CASE ChangeRules(c)
    <2>1. CASE Begin(c, "rules", None, 0) /\ Goto(c, "getRules") /\ UNCHANGED lag
      BY <1>15, <2>1, <1>t DEF ChangeRules, Begin, Idle, Goto, mgrConf
    <2>2. CASE At(c, "getRules") /\ UNCHANGED <<stage, local, lag>>
      BY <1>15, <2>2 DEF ChangeRules, At, mgrConf
    <2>3. CASE FailToPersist(c, "rules")
      BY <1>15, <2>3 DEF ChangeRules, FailToPersist, Idle, mgrConf
    <2> QED BY <1>15, <2>1, <2>2, <2>3 DEF ChangeRules
  <1>16. CASE GetRules(c)
    BY <1>16, <1>t DEF GetRules, At, Goto, store, mgrConf
  <1>17. CASE SetRoutingRules(c)
    BY <1>17, <1>t DEF SetRoutingRules, At, Goto, Reads, store
  <1>18. ASSUME NEW id \in Proxies, ActivateProxy(c, id) PROVE FileSettledFor(c)'
    BY <1>18, <1>t DEF ActivateProxy, Begin, Idle, Goto, store, mgrConf
  <1>19. CASE TestConnection(c)
    BY <1>19, <1>t DEF TestConnection, Begin, Idle, Goto, store, mgrConf
  <1>20. CASE ActiveProxyName(c)
    BY <1>20, <1>t DEF ActiveProxyName, At, Goto, store, mgrConf
  <1> QED BY <1>1, <1>2, <1>3, <1>4, <1>5, <1>6, <1>7, <1>8, <1>9, <1>10, <1>11, <1>12, <1>13, <1>14,
             <1>15, <1>16, <1>17, <1>18, <1>19, <1>20 DEF Handler

\* The process on record serves the active proxy and the DNS list in force, or
\* the handler under way will replace it.
LEMMA HandlerServes ==
  ASSUME BInv, NEW c \in Callers, Handler(c), Reads(c), DeadHaveNotRead, ServedFor(c)
  PROVE  ServedFor(c)'
  <1>t. /\ stage \in [Callers -> Stages] /\ local \in [Callers -> Locals]
        /\ proxies \subseteq Proxies
        /\ pc \in [Callers -> Mgr!CallerStates] /\ resume \in [Callers -> {"idle", "starting"}]
    BY SameManager DEF BInv, Types, Own!IInv, Mgr!TypeOK
  <1> USE DEF ServedFor, ServesWired, ServesDns, Serving, Replaces, ReplacesDns
  <1>1. CASE GenerateConfig(c)
    BY <1>1, <1>t DEF GenerateConfig, At, Goto, Keep, Locals, store, mgr
  <1>2. CASE OpenFile(c)
    BY <1>2, <1>t DEF OpenFile, At, Goto, Locals, store, mgr
  <1>3. CASE WriteFails(c)
    <2>1. "file" \in lag' /\ UNCHANGED <<mgr, store, loaded>>
      BY <1>3 DEF WriteFails
    <2> QED BY <2>1
  <1>4. CASE WriteFile(c)
    <2>1. stage[c] = "write" /\ UNCHANGED <<mgr, store, loaded>>
          /\ stage'[c] = IF local[c].kind = "dns" THEN "apply" ELSE "setActiveID"
      BY <1>4, <1>t DEF WriteFile, At, Goto
    <2>2. local'[c] = [local[c] EXCEPT !.dirty = local[c].dirty \/ (At(c, "write") /\ c # c)]
      BY <1>4 DEF WriteFile
    <2>3. local'[c].kind = local[c].kind
      BY <2>2, <1>t DEF Locals
    <2>4. "process" \in lag' \/ lag' = lag
      BY <1>4 DEF WriteFile
    <2> QED BY <2>1, <2>3, <2>4 DEF store, mgr
  <1>5. CASE SetActive(c)
    <2>1. CASE lag' = lag \cup {"file"}
      BY <2>1
    <2>2. CASE Goto(c, "generate") /\ UNCHANGED <<local, lag>>
      BY <1>5, <2>2, <1>t DEF SetActive, At, Goto, Reads
    <2> QED BY <1>5, <2>1, <2>2 DEF SetActive
  <1>6. CASE SetActiveID(c)
    <2>1. CASE local[c].kind = "start"
      BY <1>6, <2>1, <1>t DEF SetActiveID, Finish, At, Goto, Reads, store, Mgr!CallStart, Mgr!mgrVars
    <2>2. CASE local[c].kind # "start"
      BY <1>6, <2>2, <1>t DEF SetActiveID, At, Goto, Reads, store, mgr
    <2> QED BY <2>1, <2>2
  <1>7. CASE Apply(c)
    <2>1. CASE running
      <3>1. pc'[c] = "stopping" /\ resume'[c] = "starting"
        BY <1>7, <2>1, <1>t DEF Apply, Mgr!CallRestart, Mgr!CallStop, Mgr!Goto
      <3> QED BY <3>1
    <2>2. CASE ~running
      BY <1>7, <2>2 DEF Apply, mgr
    <2> QED BY <2>1, <2>2
  <1>8. CASE Fetch(c)
    BY <1>8, <1>t DEF Fetch, Finish, At, Goto, store, mgr
  <1>9. CASE StartXray(c)
    BY <1>9, <1>t DEF StartXray, Begin, Idle, Goto, store, mgr
  <1>10. CASE Lookup(c)
    <2>1. CASE local[c].proxy \notin proxies
      BY <1>10, <2>1, <1>t DEF Lookup, Finish, At, Goto, Reads, store, mgr
    <2>2. CASE Goto(c, "generate") /\ UNCHANGED local
      BY <1>10, <2>2, <1>t DEF Lookup, At, Goto, store, mgr
    <2> QED BY <1>10, <2>1, <2>2 DEF Lookup
  <1>11. CASE RestartXray(c) \/ StopXray(c)
    BY <1>11, <1>t DEF RestartXray, StopXray, Idle, store, Mgr!CallRestart, Mgr!CallStop, Mgr!mgrVars
  <1>12. CASE ManagerStep(c)
    <2>1. /\ Mgr!Step(c) /\ pc[c] # "idle" /\ stage[c] = "ready"
          /\ UNCHANGED <<store, loaded, stage, local>>
      BY <1>12 DEF ManagerStep, Mgr!Step, Mgr!Start, Mgr!StopSnapshot, Mgr!Signal, Mgr!StopDone,
                   Mgr!StopTimeout, Mgr!StopClear, Reads
    <2>2. CASE running' /\ started' = started
      <3>1. lag' = lag
        BY <1>12, <2>2 DEF ManagerStep
      <3>2. UNCHANGED <<cmd, running>>
        <4>1. ~Mgr!Launch
          BY <2>2, BoundsAssumption DEF Mgr!Launch, BInv, Own!IInv, Own!TypeOK
        <4> QED BY <2>1, <2>2, <4>1 DEF Mgr!Step, Mgr!Start, Mgr!StopSnapshot, Mgr!Signal, Mgr!StopDone,
                                        Mgr!StopTimeout, Mgr!StopClear, Mgr!mgrVars
      <3>3. Replaces(c) => Replaces(c)'
        BY <2>1, <2>2, <1>t, SameManager
           DEF Mgr!Step, Mgr!Start, Mgr!StopSnapshot, Mgr!Signal, Mgr!StopDone, Mgr!StopTimeout, Mgr!StopClear,
               Mgr!Return, Mgr!Goto, Mgr!mgrVars, Mgr!Nil, BInv, Own!IInv, Own!RecordIsNewest, Own!Nil
      <3> QED BY <2>1, <3>1, <3>2, <3>3 DEF store
    <2>3. CASE started' # started
      <3>1. Mgr!Launch
        BY <2>1, <2>3 DEF Mgr!Step, Mgr!Start, Mgr!StopSnapshot, Mgr!Signal, Mgr!StopDone,
                          Mgr!StopTimeout, Mgr!StopClear, Mgr!mgrVars
      <3>2. started + 1 \in Own!Procs /\ proc[started + 1] = "new"
        BY <3>1, BoundsAssumption DEF Mgr!Launch, BInv, Own!IInv, Own!TypeOK, Own!Numbered, Own!Procs
      <3>3. loaded[started + 1] = None
        BY <3>2, SameManager DEF DeadHaveNotRead, Mgr!IsLive, Mgr!Live
      <3> QED BY <2>1, <3>1, <3>3, NoneAssumption DEF Mgr!Launch
    <2> QED BY <2>2, <2>3
  <1>13. ASSUME NEW id \in Proxies, DeleteProxy(c, id) \/ DropProxy(c, id) PROVE ServedFor(c)'
    BY <1>13, <1>t, NoneAssumption DEF DeleteProxy, DropProxy, Idle, mgr
  <1>14. CASE UpdateDNS(c)
    <2>1. CASE Begin(c, "dns", None, dns + 1) /\ Goto(c, "setDNS") /\ UNCHANGED lag
      BY <1>14, <2>1, <1>t DEF UpdateDNS, Begin, Idle, Goto, mgr
    <2>2. CASE FailToPersist(c, "dns")
      BY <1>14, <2>2 DEF UpdateDNS, FailToPersist, Idle, mgr
    <2> QED BY <1>14, <2>1, <2>2 DEF UpdateDNS
  <1>15. CASE SetDNS(c)
    BY <1>15, <1>t DEF SetDNS, At, Goto, Reads, store, mgr
  <1>16. CASE GetActive(c)
    <2>1. CASE active = None
      BY <1>16, <2>1, <1>t, NoneAssumption DEF GetActive, At, Finish, Goto, store, mgr
    <2>2. CASE Keep(c, "proxy", active) /\ Goto(c, "lookup")
      BY <1>16, <2>2, <1>t DEF GetActive, At, Keep, Goto, Reads, Locals, store, mgr
    <2> QED BY <1>16, <2>1, <2>2 DEF GetActive
  <1>17. CASE ChangeRules(c)
    <2>1. CASE Begin(c, "rules", None, 0) /\ Goto(c, "getRules") /\ UNCHANGED lag
      BY <1>17, <2>1, <1>t DEF ChangeRules, Begin, Idle, Goto, mgr
    <2>2. CASE At(c, "getRules") /\ UNCHANGED <<stage, local, lag>>
      BY <1>17, <2>2 DEF ChangeRules, At, mgr
    <2>3. CASE FailToPersist(c, "rules")
      BY <1>17, <2>3 DEF ChangeRules, FailToPersist, Idle, mgr
    <2> QED BY <1>17, <2>1, <2>2, <2>3 DEF ChangeRules
  <1>18. CASE GetRules(c)
    BY <1>18, <1>t DEF GetRules, At, Goto, store, mgr
  <1>19. CASE SetRoutingRules(c)
    BY <1>19, <1>t DEF SetRoutingRules, At, Goto, store, mgr
  <1>20. ASSUME NEW id \in Proxies, ActivateProxy(c, id) PROVE ServedFor(c)'
    BY <1>20, <1>t DEF ActivateProxy, Begin, Idle, Goto, store, mgr
  <1>21. CASE TestConnection(c)
    BY <1>21, <1>t DEF TestConnection, Begin, Idle, Goto, store, mgr
  <1>22. CASE ActiveProxyName(c)
    BY <1>22, <1>t DEF ActiveProxyName, At, Goto, store, mgr
  <1> QED BY <1>1, <1>2, <1>3, <1>4, <1>5, <1>6, <1>7, <1>8, <1>9, <1>10, <1>11, <1>12, <1>13, <1>14,
             <1>15, <1>16, <1>17, <1>18, <1>19, <1>20, <1>21, <1>22 DEF Handler

\* A process that is not alive has not read, also after each step of a handler.
LEMMA HandlerDead ==
  ASSUME BInv, NEW c \in Callers, Handler(c), DeadHaveNotRead
  PROVE  DeadHaveNotRead'
  <1>1. UNCHANGED loaded
    BY DEF Handler, GenerateConfig, OpenFile, WriteFails, WriteFile, SetActive, SetActiveID, Apply,
           StartXray, Lookup, RestartXray, StopXray, UpdateDNS, SetDNS, GetActive, ChangeRules,
           GetRules, SetRoutingRules, ActivateProxy, DeleteProxy, DropProxy, TestConnection,
           ActiveProxyName, Fetch, ManagerStep
  <1>2. \/ Mgr!CallStart(c) \/ Mgr!CallStop(c, "idle") \/ Mgr!CallRestart(c) \/ Mgr!Step(c)
        \/ UNCHANGED mgr
    BY HandlerInManager
  <1>3. \A p \in Mgr!Procs : Mgr!IsLive(p) => Mgr!IsLive(p)'
    <2>1. proc \in [Mgr!Procs -> Mgr!ProcStates]
      BY SameManager DEF BInv, Own!IInv, Mgr!TypeOK
    <2>2. \/ UNCHANGED proc
          \/ \E q, s : /\ proc' = [proc EXCEPT ![q] = s]
                       /\ s \in Mgr!Live
          \/ \E q : proc' = [proc EXCEPT ![q] = IF @ = "up" THEN "interrupted" ELSE @]
          \/ \E q : proc' = [proc EXCEPT ![q] = IF @ \in Mgr!Live THEN "killed" ELSE @]
      BY <1>2 DEF Mgr!CallStart, Mgr!CallStop, Mgr!CallRestart, Mgr!Step, Mgr!Start, Mgr!Launch,
                  Mgr!StopSnapshot, Mgr!Signal, Mgr!StopDone, Mgr!StopTimeout, Mgr!StopClear,
                  Mgr!mgrVars, mgr, Mgr!Live
    <2> QED BY <2>1, <2>2 DEF Mgr!IsLive, Mgr!Live
  <1> QED BY <1>1, <1>3 DEF DeadHaveNotRead

\* A process that ends, and the goroutine that notices, serve nothing; one that
\* reads the config reads the file as the handlers have left it.
LEMMA ProcessSettles ==
  ASSUME CInv, NEW p \in Mgr!Procs, Process(p)
  PROVE  (\A c \in Callers : Reads(c)') /\ DeadHaveNotRead' /\ Settled'
  <1>t. /\ loaded \in [Mgr!Procs -> Configs \cup {None, Torn}]
        /\ proc \in [Mgr!Procs -> Mgr!ProcStates]
    BY SameManager DEF CInv, BInv, Types, Own!IInv, Mgr!TypeOK
  <1>1. UNCHANGED <<store, mgrConf, file, stage, local, lag, pc, resume>>
    BY DEF Process, LoadConfig, ProcessStep, Mgr!Wait, Mgr!Exit, mgr
  <1>2. \A c \in Callers : Reads(c)'
    BY <1>1 DEF CInv, Reads, store, mgrConf
  <1>3. /\ \A c \in Callers : /\ Rewires(c)' <=> Rewires(c)
                              /\ RewritesDns(c)' <=> RewritesDns(c)
                              /\ Replaces(c)' <=> Replaces(c)
                              /\ ReplacesDns(c)' <=> ReplacesDns(c)
        /\ FileIsWired' <=> FileIsWired
        /\ FileHasDns' <=> FileHasDns
    BY <1>1 DEF Rewires, RewritesDns, Replaces, ReplacesDns, FileIsWired, FileHasDns, store
  <1>4. DeadHaveNotRead'
    <2>1. CASE LoadConfig(p)
      BY <2>1, <1>t DEF LoadConfig, mgr, CInv, DeadHaveNotRead, Mgr!IsLive
    <2>2. CASE ProcessStep(p)
      BY <2>2, <1>t DEF ProcessStep, Mgr!Wait, Mgr!Exit, CInv, DeadHaveNotRead, Mgr!IsLive
    <2> QED BY <2>1, <2>2 DEF Process
  <1>5. /\ ServesWired' \/ \E c \in Callers : Replaces(c)
        /\ ServesDns' \/ \E c \in Callers : ReplacesDns(c)
    <2>1. CASE Serving' => Serving /\ loaded'[cmd] = loaded[cmd] /\ cmd' = cmd
      BY <1>1, <2>1 DEF CInv, Settled, ServesWired, ServesDns, store
    <2>2. CASE LoadConfig(p) /\ cmd = p /\ Serving'
      <3>1. cmd' = p /\ loaded'[p] = file /\ file \in Configs
        BY <1>t, <2>2 DEF LoadConfig, mgr, Serving
      <3>2. \A c \in Callers : stage[c] # "write"
        BY <3>1, NoneAssumption DEF CInv, Reads
      <3>3. FileIsWired \/ \E c \in Callers : Replaces(c)
        BY <3>2 DEF CInv, Settled, Rewires, Replaces
      <3>4. FileHasDns \/ \E c \in Callers : ReplacesDns(c)
        BY <3>2 DEF CInv, Settled, Rewires, RewritesDns, Replaces, ReplacesDns
      <3> QED BY <1>1, <3>1, <3>3, <3>4 DEF FileIsWired, FileHasDns, ServesWired, ServesDns, store
    <2>3. CASE LoadConfig(p) /\ cmd # p
      BY <1>t, <2>1, <2>3 DEF LoadConfig, mgr, Serving
    <2>4. CASE Mgr!Wait(p) /\ UNCHANGED loaded
      BY <2>1, <2>4 DEF Mgr!Wait, Serving
    <2>5. CASE Mgr!Exit(p) /\ loaded' = [loaded EXCEPT ![p] = None]
      <3>1. Serving' => cmd # p
        BY <1>t, <2>5, NoneAssumption DEF Mgr!Exit, Serving
      <3> QED BY <1>t, <2>1, <2>5, <3>1 DEF Mgr!Exit, Serving
    <2> QED BY <2>1, <2>2, <2>3, <2>4, <2>5 DEF Process, ProcessStep, ServesWired, ServesDns
  <1>6. Settled'
    BY <1>1, <1>3, <1>5 DEF CInv, Settled, store, mgrConf
  <1> QED BY <1>2, <1>4, <1>6

\* The invariant of requests that follow one another is inductive.
LEMMA NextCInv == CInv /\ [SerialNext]_vars => CInv'
  <1> SUFFICES ASSUME CInv, [SerialNext]_vars PROVE CInv'
    OBVIOUS
  <1>1. ASSUME NEW c \in Callers, Handler(c), \A d \in Callers \ {c} : Idle(d)
        PROVE  (\A d \in Callers : Reads(d)') /\ DeadHaveNotRead' /\ Settled'
    <2>1. FileSettledFor(c) /\ ServedFor(c)
      BY <1>1, SettledForOne DEF CInv
    <2>2. FileSettledFor(c)' /\ ServedFor(c)' /\ Reads(c)' /\ DeadHaveNotRead'
      BY <1>1, <2>1, HandlerSettlesFile, HandlerServes, HandlerReads, HandlerDead DEF CInv
    <2>3. \A d \in Callers \ {c} : stage'[d] = "ready" /\ pc'[d] = "idle" /\ local'[d] = local[d]
      BY <1>1, Moves, CallsAreOwn DEF CInv, BInv, Idle
    <2>4. \A d \in Callers \ {c} : Reads(d)'
      BY <2>3 DEF CInv, Reads
    <2>5. Settled'
      BY <2>2 DEF Settled, FileSettledFor, ServedFor
    <2> QED BY <2>2, <2>4, <2>5
  <1>2. CASE SerialNext
    BY <1>1, <1>2, StaysSerial, ProcessSettles DEF SerialNext, CInv
  <1>3. CASE UNCHANGED vars
    <2>1. BInv' /\ Own!SInv'
      BY <1>3, NextBInv, Own!NextSInv, BoundsAssumption
         DEF CInv, vars, mgr, Own!vars, Own!MaxProcsAssumption
    <2> QED BY <1>3, <2>1 DEF CInv, OneBusy, Idle, Reads, DeadHaveNotRead, Mgr!IsLive, Settled, FileIsWired,
               FileHasDns, ServesWired, ServesDns, Serving, Rewires, RewritesDns, Replaces, ReplacesDns,
               vars, store, mgrConf, mgr
  <1> QED BY <1>2, <1>3

LEMMA SerialInvariant == SerialSpec => []CInv
  BY InitCInv, NextCInv, PTL DEF SerialSpec

\* Between two requests the config file is a whole one, for the active proxy:
\* every handler that changes the active proxy or opens the file goes on to
\* write it, or has failed to (xray.go:53, manager.go:123, dns.go:45).
THEOREM FileFollowsActive == SerialSpec => []ActiveIsWired
  <1>1. CInv => ActiveIsWired
    <2>1. CInv => TypeOK
      BY SameManager DEF CInv, BInv, Types, TypeOK, Own!IInv
    <2>2. CInv /\ Quiet => FileIsWired
      BY DEF CInv, Quiet, Idle, Settled, Rewires
    <2> QED BY <2>1, <2>2 DEF ActiveIsWired, FileIsWired
  <1> QED BY <1>1, SerialInvariant, PTL

\* Between two requests an xray that runs sends the traffic to the active
\* proxy: the activation of another restarts it (manager.go:127), and a process
\* that reads the config late reads the file as it is by then.
THEOREM TrafficFollowsActive == SerialSpec => []ServesActive
  <1>1. CInv => ServesActive
    <2>1. CInv /\ Quiet => ServesWired
      BY DEF CInv, Quiet, Idle, Settled, Replaces
    <2> QED BY <2>1 DEF ServesActive, ServesWired
  <1> QED BY <1>1, SerialInvariant, PTL

\* Between two requests the Manager has the store's DNS list and rules, but for
\* an edit that could not be persisted (dns.go:38, routing.go:49).
THEOREM ManagerFollowsStore == SerialSpec => []ManagerMirrorsStore
  <1>1. CInv => ManagerMirrorsStore
    BY DEF CInv, Quiet, Idle, Settled, ManagerMirrorsStore
  <1> QED BY <1>1, SerialInvariant, PTL

\* Between two requests an xray that runs uses the DNS list last set, while the
\* active proxy exists (dns.go:45, dns.go:49).
THEOREM DnsFollowsStore == SerialSpec => []DnsInForce
  <1>1. CInv => DnsInForce
    <2>1. CInv /\ Quiet => ServesDns
      BY DEF CInv, Quiet, Idle, Settled, Replaces, ReplacesDns
    <2> QED BY <2>1 DEF DnsInForce, ServesDns
  <1> QED BY <1>1, SerialInvariant, PTL

\* A connection test reports the proxy that answers it: the Manager has lost no
\* xray that is alive and not killed, and the one on record serves the active
\* proxy (connection.go:65).
THEOREM TestTellsTheProxy == SerialSpec => []ViaIsTruthful
  <1>1. ASSUME CInv, NEW c \in Callers, At(c, "fetch"), local[c].proxy # None,
               lag \cap {"file", "process"} = {}, NEW p \in Answering, proc[p] # "killed"
        PROVE  loaded[p].proxy = local[c].proxy
    <2>1. local[c].proxy = active /\ pc[c] = "idle" /\ stage[c] = "fetch"
      BY <1>1 DEF CInv, Reads, At
    <2>2. running /\ cmd = p /\ loaded[p] \in Configs
      BY <1>1, SameManager DEF CInv, Own!SInv, Own!NoOrphan, Answering, Mgr!IsLive, Mgr!Live
    <2>3. \A d \in Callers \ {c} : Idle(d)
      BY <1>1, <2>1 DEF CInv, OneBusy, Idle
    <2>4. \A d \in Callers : ~Replaces(d)
      BY <2>1, <2>3 DEF Idle, Replaces
    <2> QED BY <1>1, <2>1, <2>2, <2>4 DEF CInv, Settled, ServesWired, Serving
  <1>2. CInv => ViaIsTruthful
    BY <1>1 DEF ViaIsTruthful
  <1> QED BY <1>2, SerialInvariant, PTL

================================================================================
