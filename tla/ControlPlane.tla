----------------------------- MODULE ControlPlane -----------------------------
(***************************************************************************)
(* The handlers that decide what xray runs (internal/handlers/xray.go,     *)
(* dns.go, routing.go, configs.go) over the store, the Manager and the     *)
(* config file.  One action is one critical section of the store or of the *)
(* Manager, or one system call; a handler that reaches Start, Stop or      *)
(* Restart continues in XrayManager.                                       *)
(*                                                                         *)
(* DNS lists and rule sets are abstracted to the number of the edit that   *)
(* made them.                                                              *)
(***************************************************************************)
EXTENDS Naturals

CONSTANTS
  Callers, MaxProcs,
  Proxies,       \* the proxies the store holds at first
  None,          \* no proxy, no file, or nothing read yet
  Torn,          \* a config file that is not one whole config
  MaxDns,        \* bound: how many edits of the DNS list
  MaxRules,      \* bound: how many edits of the routing rules
  DiskMayFail    \* whether the store or WriteConfig may fail to write a file

ASSUME BoundsAssumption == MaxProcs \in Nat /\ MaxDns \in Nat /\ MaxRules \in Nat

VARIABLES
  cmd, running, started, proc, waiting, pc, held, resume,   \* see XrayManager
  proxies,     \* ids in Store.proxies
  active,      \* Store.active.ProxyID
  dns,         \* Store.settings.DNSServers
  rules,       \* Store.rules
  mgrDns,      \* Manager.dnsServers
  mgrRules,    \* Manager.routingRules
  mgrActive,   \* Manager.activeID
  file,        \* the file at configPath
  loaded,      \* the config each process has read
  stage,       \* where each handler is, outside the Manager's own methods
  local,       \* the handler's local variables
  lag          \* history: after failed writes, what is behind (see Lags)

store   == <<proxies, active, dns, rules>>
mgrConf == <<mgrDns, mgrRules, mgrActive>>
mgr     == <<cmd, running, started, proc, waiting, pc, held, resume>>
vars    == <<mgr, store, mgrConf, file, loaded, stage, local, lag>>

Mgr == INSTANCE XrayManager

DnsLists == 0 .. MaxDns
RuleSets == 0 .. MaxRules
Configs  == [proxy : Proxies, dns : DnsLists, rules : RuleSets]

ASSUME NoneAssumption == None \notin Proxies \cup Configs /\ Torn \notin Configs

Stages  == {"ready", "setActive", "lookup", "generate", "open", "write", "setActiveID",
            "apply", "setDNS", "getActive", "getRules", "setRules", "name", "fetch"}

\* kind tells which handler it is; proxy, dns and rules are what it has read;
\* dirty is set when another handler has written the file since this one
\* opened it.
Locals == [kind : {"activate", "start", "dns", "rules", "test"}, proxy : Proxies \cup {None},
           dns : DnsLists, rules : RuleSets, dirty : BOOLEAN]

NoLocals == [kind |-> "rules", proxy |-> None, dns |-> 0, rules |-> 0, dirty |-> FALSE]

\* After a failed write the config file is behind the store until the next good
\* one, and then the process is behind the file until the next launch; a list
\* the store could not persist is not handed to the Manager.
Lags == {"file", "process", "dns", "rules"}

TypeOK ==
  /\ Mgr!TypeOK
  /\ proxies \subseteq Proxies
  /\ active \in Proxies \cup {None}
  /\ dns \in DnsLists /\ rules \in RuleSets
  /\ mgrDns \in DnsLists /\ mgrRules \in RuleSets
  /\ mgrActive \in Proxies \cup {None}
  /\ file \in Configs \cup {None, Torn}
  /\ loaded \in [Mgr!Procs -> Configs \cup {None, Torn}]
  /\ stage \in [Callers -> Stages]
  /\ local \in [Callers -> Locals]
  /\ lag \subseteq Lags

\* A first start, or the start of a program that was shut down after a proxy
\* was activated; main.go gives the Manager what the store has.
Init ==
  /\ Mgr!Init
  /\ proxies = Proxies
  /\ dns = 0 /\ rules = 0 /\ mgrDns = dns /\ mgrRules = rules
  /\ \/ active = None /\ file = None
     \/ active \in Proxies /\ file = [proxy |-> active, dns |-> 0, rules |-> 0]
  /\ mgrActive = active
  /\ loaded = [p \in Mgr!Procs |-> None]
  /\ stage = [c \in Callers |-> "ready"]
  /\ local = [c \in Callers |-> NoLocals]
  /\ lag = {}

-----------------------------------------------------------------------------
At(c, s) == stage[c] = s
Goto(c, s) == stage' = [stage EXCEPT ![c] = s]
Idle(c) == stage[c] = "ready" /\ pc[c] = "idle"
Keep(c, f, v) == local' = [local EXCEPT ![c][f] = v]

\* The handler returns, or enters a method of the Manager as its last act.
Finish(c) == Goto(c, "ready") /\ local' = [local EXCEPT ![c] = NoLocals]

\* The store returns an error, and so does the handler: memory has changed.
FailToPersist(c, what) ==
  /\ DiskMayFail
  /\ Idle(c)
  /\ lag' = lag \cup {what}
  /\ UNCHANGED <<stage, local>>

\* A handler starts with fresh locals.
Begin(c, kind, id, newDns) ==
  /\ Idle(c)
  /\ local' = [local EXCEPT ![c] =
       [kind |-> kind, proxy |-> id, dns |-> newDns, rules |-> 0, dirty |-> FALSE]]

-----------------------------------------------------------------------------
(* WriteConfig, in three steps: the routing rules are read, then the DNS   *)
(* list is read and the file truncated, then the bytes are written.        *)

GenerateConfig(c) ==
  /\ At(c, "generate")
  /\ Keep(c, "rules", mgrRules)
  /\ Goto(c, "open")
  /\ UNCHANGED <<mgr, store, mgrConf, file, loaded, lag>>

OpenFile(c) ==
  /\ At(c, "open")
  /\ local' = [local EXCEPT ![c].dns = mgrDns, ![c].dirty = FALSE]
  /\ file' = Torn
  /\ Goto(c, "write")
  /\ UNCHANGED <<mgr, store, mgrConf, loaded, lag>>

\* The disk is full, say: before the file is truncated or after.
WriteFails(c) ==
  /\ DiskMayFail
  /\ stage[c] \in {"open", "write"}
  /\ Finish(c)
  /\ lag' = lag \cup {"file"}
  /\ UNCHANGED <<mgr, store, mgrConf, file, loaded>>

\* Over the bytes of another writer, a shorter config leaves their tail.
WriteFile(c) ==
  /\ At(c, "write")
  /\ LET conf == [proxy |-> local[c].proxy, dns |-> local[c].dns, rules |-> local[c].rules]
     IN  \/ file' = conf
         \/ local[c].dirty /\ file # conf /\ file' = Torn
  /\ local' = [d \in Callers |-> [local[d] EXCEPT !.dirty = @ \/ (At(d, "write") /\ d # c)]]
  /\ Goto(c, IF local[c].kind = "dns" THEN "apply" ELSE "setActiveID")
  /\ lag' = IF "file" \in lag THEN (lag \ {"file"}) \cup {"process"} ELSE lag
  /\ UNCHANGED <<mgr, store, mgrConf, loaded>>

-----------------------------------------------------------------------------
(* ActivateProxy and Manager.Activate.                                     *)

ActivateProxy(c, id) ==
  /\ id \in proxies
  /\ Begin(c, "activate", id, 0)
  /\ Goto(c, "setActive")
  /\ UNCHANGED <<mgr, store, mgrConf, file, loaded, lag>>

\* Variant: a config that is already there is not written again.
SetActiveOnly(c) ==
  /\ At(c, "setActive")
  /\ active' = local[c].proxy
  /\ Goto(c, IF file = None THEN "generate" ELSE "setActiveID")
  /\ UNCHANGED <<mgr, proxies, dns, rules, mgrConf, file, loaded, local, lag>>

\* When active.json can not be written, memory has the new proxy all the same.
SetActive(c) ==
  /\ At(c, "setActive")
  /\ active' = local[c].proxy
  /\ \/ Goto(c, "generate") /\ UNCHANGED <<local, lag>>
     \/ DiskMayFail /\ Finish(c) /\ lag' = lag \cup {"file"}
  /\ UNCHANGED <<mgr, proxies, dns, rules, mgrConf, file, loaded>>

\* The last thing StartXray does is to call Start.
SetActiveID(c) ==
  /\ At(c, "setActiveID")
  /\ mgrActive' = local[c].proxy
  /\ IF local[c].kind = "start" THEN Finish(c) /\ Mgr!CallStart(c)
                                ELSE Goto(c, "apply") /\ UNCHANGED <<mgr, local>>
  /\ UNCHANGED <<store, mgrDns, mgrRules, file, loaded, lag>>

\* Variant: a running xray is not restarted.
ApplyLater(c) ==
  /\ At(c, "apply")
  /\ Finish(c)
  /\ UNCHANGED <<mgr, store, mgrConf, file, loaded, lag>>

\* "if IsRunning { Restart }", at the end of three kinds of handler.
Apply(c) ==
  /\ At(c, "apply")
  /\ Finish(c)
  /\ IF running THEN Mgr!CallRestart(c) ELSE UNCHANGED mgr
  /\ UNCHANGED <<store, mgrConf, file, loaded, lag>>

-----------------------------------------------------------------------------
(* StartXray, RestartXray, StopXray.                                       *)

StartXray(c) ==
  /\ active # None
  /\ Begin(c, "start", active, 0)
  /\ Goto(c, "lookup")
  /\ UNCHANGED <<mgr, store, mgrConf, file, loaded, lag>>

\* store.Proxy(active), in StartXray and UpdateDNS: the proxy may be gone.
Lookup(c) ==
  /\ At(c, "lookup")
  /\ IF local[c].proxy \in proxies THEN Goto(c, "generate") /\ UNCHANGED local ELSE Finish(c)
  /\ UNCHANGED <<mgr, store, mgrConf, file, loaded, lag>>

RestartXray(c) ==
  /\ Idle(c)
  /\ Mgr!CallRestart(c)
  /\ UNCHANGED <<store, mgrConf, file, loaded, stage, local, lag>>

StopXray(c) ==
  /\ Idle(c)
  /\ Mgr!CallStop(c, "idle")
  /\ UNCHANGED <<store, mgrConf, file, loaded, stage, local, lag>>

-----------------------------------------------------------------------------
(* UpdateDNS.                                                              *)

UpdateDNS(c) ==
  /\ dns < MaxDns
  /\ dns' = dns + 1
  /\ \/ Begin(c, "dns", None, dns + 1) /\ Goto(c, "setDNS") /\ UNCHANGED lag
     \/ FailToPersist(c, "dns")
  /\ UNCHANGED <<mgr, proxies, active, rules, mgrConf, file, loaded>>

\* Variant: the Manager keeps the old list.
SetDNSNot(c) ==
  /\ At(c, "setDNS")
  /\ lag' = lag \ {"dns"}
  /\ Goto(c, "getActive")
  /\ UNCHANGED <<mgr, store, mgrConf, file, loaded, local>>

SetDNS(c) ==
  /\ At(c, "setDNS")
  /\ mgrDns' = local[c].dns
  /\ lag' = lag \ {"dns"}
  /\ Goto(c, "getActive")
  /\ UNCHANGED <<mgr, store, mgrRules, mgrActive, file, loaded, local>>

\* Variant: the config is rewritten only for an xray that is running.
GetActiveIfRunning(c) ==
  /\ At(c, "getActive")
  /\ IF active # None /\ running THEN Keep(c, "proxy", active) /\ Goto(c, "lookup")
                                 ELSE Finish(c)
  /\ UNCHANGED <<mgr, store, mgrConf, file, loaded, lag>>

GetActive(c) ==
  /\ At(c, "getActive")
  /\ IF active # None THEN Keep(c, "proxy", active) /\ Goto(c, "lookup")
                      ELSE Finish(c)
  /\ UNCHANGED <<mgr, store, mgrConf, file, loaded, lag>>

-----------------------------------------------------------------------------
(* CreateRule, UpdateRule, DeleteRule and ReorderRules.  The last edits    *)
(* the rules one by one, and another handler may come in between.          *)

ChangeRules(c) ==
  /\ rules < MaxRules
  /\ rules' = rules + 1
  /\ \/ Begin(c, "rules", None, 0) /\ Goto(c, "getRules") /\ UNCHANGED lag
     \/ At(c, "getRules") /\ UNCHANGED <<stage, local, lag>>
     \/ FailToPersist(c, "rules")
  /\ UNCHANGED <<mgr, proxies, active, dns, mgrConf, file, loaded>>

GetRules(c) ==
  /\ At(c, "getRules")
  /\ Keep(c, "rules", rules)
  /\ Goto(c, "setRules")
  /\ UNCHANGED <<mgr, store, mgrConf, file, loaded, lag>>

SetRoutingRules(c) ==
  /\ At(c, "setRules")
  /\ mgrRules' = local[c].rules
  /\ lag' = lag \ {"rules"}
  /\ Goto(c, "apply")
  /\ UNCHANGED <<mgr, store, mgrDns, mgrActive, file, loaded, local>>

-----------------------------------------------------------------------------
(* The proxy list.  Ids are never used twice.                              *)

DeleteProxy(c, id) ==
  /\ Idle(c)
  /\ id \in proxies
  /\ proxies' = proxies \ {id}
  /\ active'  = IF active = id THEN None ELSE active
  /\ UNCHANGED <<mgr, dns, rules, mgrConf, file, loaded, stage, local, lag>>

\* A refresh (ReplaceSubProxies) whose new list has no such endpoint.
DropProxy(c, id) ==
  /\ Idle(c)
  /\ id \in proxies
  /\ proxies' = proxies \ {id}
  /\ UNCHANGED <<mgr, active, dns, rules, mgrConf, file, loaded, stage, local, lag>>

-----------------------------------------------------------------------------
(* TestConnection: a request through the HTTP port of the running xray.    *)

TestConnection(c) ==
  /\ running
  /\ Begin(c, "test", None, 0)
  /\ Goto(c, "name")
  /\ UNCHANGED <<mgr, store, mgrConf, file, loaded, lag>>

\* activeProxyName; a proxy that is gone has no name.
ActiveProxyName(c) ==
  /\ At(c, "name")
  /\ Keep(c, "proxy", IF active \in proxies THEN active ELSE None)
  /\ Goto(c, "fetch")
  /\ UNCHANGED <<mgr, store, mgrConf, file, loaded, lag>>

\* The processes that may hold the port and have something to answer with.
Answering == {p \in Mgr!Procs : Mgr!IsLive(p) /\ loaded[p] \in Configs}

\* client.Do returns, with an answer or an error.
Fetch(c) ==
  /\ At(c, "fetch")
  /\ Finish(c)
  /\ UNCHANGED <<mgr, store, mgrConf, file, loaded, lag>>

-----------------------------------------------------------------------------
\* Start looks for the config file before it launches xray.
ManagerStep(c) ==
  /\ Mgr!Step(c)
  /\ started' # started => file # None
  /\ lag' = IF started' # started THEN lag \ {"process"} ELSE lag
  /\ UNCHANGED <<store, mgrConf, file, loaded, stage, local>>

\* Some time after its launch a process reads the file, once.
LoadConfig(p) ==
  /\ Mgr!IsLive(p)
  /\ loaded[p] = None
  /\ loaded' = [loaded EXCEPT ![p] = file]
  /\ UNCHANGED <<mgr, store, mgrConf, file, stage, local, lag>>

ProcessStep(p) ==
  /\ \/ Mgr!Wait(p) /\ UNCHANGED loaded
     \/ Mgr!Exit(p) /\ loaded' = [loaded EXCEPT ![p] = None]
  /\ UNCHANGED <<store, mgrConf, file, stage, local, lag>>

Handler(c) ==
  \/ GenerateConfig(c) \/ OpenFile(c) \/ WriteFails(c) \/ WriteFile(c)
  \/ SetActive(c) \/ SetActiveID(c) \/ Apply(c)
  \/ StartXray(c) \/ Lookup(c) \/ RestartXray(c) \/ StopXray(c)
  \/ UpdateDNS(c) \/ SetDNS(c) \/ GetActive(c)
  \/ ChangeRules(c) \/ GetRules(c) \/ SetRoutingRules(c)
  \/ \E id \in Proxies : ActivateProxy(c, id) \/ DeleteProxy(c, id) \/ DropProxy(c, id)
  \/ TestConnection(c) \/ ActiveProxyName(c) \/ Fetch(c)
  \/ ManagerStep(c)

Process(p) == LoadConfig(p) \/ ProcessStep(p)

Next ==
  \/ \E c \in Callers : Handler(c)
  \/ \E p \in Mgr!Procs : Process(p)

Spec == Init /\ [][Next]_vars

\* One request at a time, also of those that are done in one step; crashes,
\* timers and processes that read the config late still interleave with it.
SerialNext ==
  \/ \E c \in Callers : Handler(c) /\ \A d \in Callers \ {c} : Idle(d)
  \/ \E p \in Mgr!Procs : Process(p)

SerialSpec == Init /\ [][SerialNext]_vars

-----------------------------------------------------------------------------
Quiet == \A c \in Callers : Idle(c)

\* xray is on record and has read a whole config.
Serving == running /\ loaded[cmd] \in Configs

\* When no request is in progress the config file is a whole one, for the
\* active proxy; a failed write is made good by the next one that succeeds.
ActiveIsWired ==
  /\ TypeOK
  /\ Quiet /\ active # None /\ "file" \notin lag => file \in Configs /\ file.proxy = active

\* Traffic goes through the proxy the UI shows as active: Activate restarts an
\* xray that is running, and a late reader reads the new file.
ServesActive ==
  Quiet /\ Serving /\ active # None /\ lag \cap {"file", "process"} = {} =>
    loaded[cmd].proxy = active

\* A connection test is answered through the proxy it reports as "via": no
\* xray of an earlier activation may still answer on the port, except one that
\* has been killed, whose end Stop does not await (connection.go:65,
\* manager.go:195).
ViaIsTruthful ==
  \A c \in Callers : At(c, "fetch") /\ local[c].proxy # None /\ lag \cap {"file", "process"} = {} =>
    \A p \in Answering : loaded[p].proxy = local[c].proxy \/ proc[p] = "killed"

\* "Generated configs match the UI" (main.go:44): the Manager's DNS list and
\* rules are the ones of the store, from which the UI is served; an edit that
\* was not persisted is made good by the next one.
ManagerMirrorsStore ==
  Quiet => (mgrDns = dns \/ "dns" \in lag) /\ (mgrRules = rules \/ "rules" \in lag)

\* While there is an active proxy the DNS list in force is the last one set.
DnsInForce ==
  Quiet /\ Serving /\ active \in proxies /\ lag \subseteq {"rules"} =>
    loaded[cmd].dns = dns

\* The rule handlers "regenerate config, and restart xray if running"
\* (routing.go:19): the rules in force are the ones of the store.
RulesTakeEffect == Quiet /\ Serving /\ active \in proxies => loaded[cmd].rules = rules

================================================================================
