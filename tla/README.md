# A TLA+ model of xray-manager

xray-manager is a small Go web server that runs one Xray-core child process for
its users: they store proxies and subscriptions, choose the active proxy, and
start, stop and watch xray. This directory models the parts of it that are
concurrent, that fail, that must agree with one another, or that translate what
users give into what xray is given. TLC checks the models on small instances;
TLAPS proves nearly all of their safety properties for all values of the
constants.

Paths below are relative to the repository. Go's HTTP server runs every request
in a goroutine of its own, so all handlers interleave; nothing serialises them
beyond the locks named here.

## 1. Inventory

| Component | State | Operations | Correct when |
|---|---|---|---|
| Process manager, `internal/xray/manager.go` | `cmd`, `running`, `activeID`, `dnsServers`, `routingRules` (under `mu`), the child process, the file `configPath` | `Start`, `Stop`, `Restart`, `Activate`, `WriteConfig`, `SetDNS`, `SetRoutingRules`, `SetActiveID`, the goroutine `wait` | the record names the newest live process, no process is lost, crashes are noticed, every call returns |
| Log fan-out, same file | `logs`, `subs` (under `logMu`), a channel per subscriber | `appendLog`, `RecentLogs`, `Subscribe`, its cancel function; the reader is `XrayLogs` in `internal/handlers/xray.go` | writers never wait, a reader misses only what it was too slow for, nothing is shown twice |
| Test-all, `internal/handlers/health.go`, `internal/health/health.go` | `testRunning` (under `testMu`), per run a semaphore, a buffered result channel, a done channel | the SSE handler `TestAll`, `Prober.TestAll` and its workers | one run at a time, bounded probes, complete results, nothing leaked |
| Probe, `internal/health/health.go` | a port, a temporary file and a temporary xray per probe | `realDelay`, for test-all and for `TestProxy` | nothing is left behind, a proxy gets its own latency, a probe ends |
| Store, `internal/storage/storage.go` | five lists in memory (under `mu`), five JSON files | add, update, delete, replace; load at start | disk follows memory, a restart is sound, an id is one endpoint for ever |
| Control plane, `internal/handlers/{xray,dns,routing,configs}.go`, `main.go` | none of its own: it moves data between store, Manager, config file and process | activate, start, stop, restart, DNS and rule edits, proxy deletion; restore at start | store, Manager, file and process agree when nothing is in progress |
| Subscriptions, `internal/handlers/subscriptions.go`, `internal/subscription` | store fields `subs`, `proxies` | add, delete, refresh one, refresh all; `DeleteProxy` of `configs.go` | stored lists are whole, failures drop nothing, deletions hold |
| Config generation, `internal/xray/config.go` | the stored rules | `GenerateConfig`, `BuildTestConfig`; the rule handlers of `internal/handlers/routing.go` | the outbound is what the link says, traffic goes where the rules say |
| Share-link parser, `internal/parser` | none | `Parse` and the five parsers | a link loses neither its endpoint nor its security |
| Authentication, `internal/auth`, `internal/config`, `internal/handlers/auth.go` | the secret; the cookie of a browser | login, verify, logout, restart | a session lasts until its token expires, and no longer |
| Connection test, `internal/handlers/connection.go` | none | one request through the proxy | the proxy it reports is the one that answered |
| Program, `main.go`, `internal/handlers/handlers.go` | the shutdown goroutine | start, SIGTERM, return of main, SIGKILL | a shutdown stops xray |
| Web client, installers, packaging | – | – | not modelled |

How they interact. Handlers call the store and the Manager, never the other way
round. The Manager and the store do not know each other: what the store
persists is handed to the Manager by a handler, or by `main.go` at start. The
Manager writes the config file, and xray reads it some time after its launch.
The Manager's goroutines (`wait`, two `scan`s) and xray itself run beside all
handlers; SSE handlers live as long as their client.

What is hard here: critical sections that are split (the Manager unlocks between
the two halves of `Stop`; handlers read the store, then write to the Manager); a
timer racing the exit of a process; channels that are closed while others may
send; clients that leave; requests to remote servers with everything else going
on meanwhile; files written one after the other with failures and crashes in
between; a config file truncated in place while a process may be reading it; a
port that is free when it is looked for and taken when it is used; a program
that ends around all of this; two fields of a proxy that mean different things
in different protocols.
`PROJECT.json` lists each such hazard at its line under `hazards`.

## 2. Modules

| Module | Models |
|---|---|
| `XrayManager` | Start, Stop, Restart, wait and the processes, any number of callers |
| `Supervisor` | the abstract specification: one slot, and what may happen to the process in it |
| `XrayManagerSerial` | XrayManager with one call at a time; the refinement mapping to Supervisor |
| `LogFanout` | appendLog, Subscribe, XrayLogs |
| `HealthTest`, `MCHealthTest` | the handler TestAll and the worker pool; MCHealthTest bounds the lists for TLC |
| `Probe` | realDelay, any number at once, with ports, files and temporary xrays |
| `ControlPlane` | the handlers over store, Manager and config file, and the connection test; contains `Mgr == INSTANCE XrayManager` and reuses its actions |
| `MCControlPlane` | ControlPlane with the symmetry of proxies for TLC |
| `ControlPlaneRepair` | ControlPlane with a history variable for requests that ran alone |
| `Store`, `MCStore` | memory, files, failing writes, crashes; the matching of a refresh; MCStore has the symmetry for TLC |
| `Subscriptions`, `MCSubscriptions` | add, delete and refresh over the store, with slow fetches, and the deletion of one proxy; MCSubscriptions bounds the latter for TLC |
| `Session` | the cookie and the secret that signs it |
| `Program` | the life of the program; composes `XrayManager` and `Session` |
| `ShareLink` | the five parsers, from the texts of a link's fields to a proxy |
| `XrayConfig`, `MCXrayConfig` | the config of an activation, over `ShareLink` and the rule handlers; MCXrayConfig has the links for TLC |
| `XrayManagerProofs`, `LogFanoutProofs`, `HealthTestProofs` (also for `Probe`), `ControlPlaneProofs`, `StoreProofs`, `SubscriptionsProofs`, `XrayConfigProofs`, `ProgramProofs` | the theorems |

An action is one critical section of the code's locks, or one system call or
channel operation. A definition that a comment calls a *variant* is not part of
any specification: it is a plausible bug in the definition below it, recorded
in `PROJECT.json` to show that a property can tell the two apart.
History variables (marked *history*) are read by properties only. The type
invariant of a module is a conjunct of the first invariant its run lists.

### XrayManager

`cmd` and `running` are `m.cmd` and `m.running`; a process is the number of its
launch, `proc` is its state in the operating system (`up`, `interrupted` by
SIGINT, `killed` by SIGKILL but not dead yet, `exited`), and `waiting` is the
set of `wait` goroutines. `Start` holds `m.mu` throughout and is one action with
three outcomes: already running, an error, a launch. `Stop` is five:
`StopSnapshot` (first critical section and early return), `Signal`,
`StopDone` or `StopTimeout` (the select), `StopClear` (second critical section).
The variable `held` is Stop's local `cmd`, and `resume` says whether the caller
is in `Restart` and goes on to `Start`. `exec.Cmd.Wait` is called by both `wait`
and `Stop`; whichever gets the status, both return only after the exit, which is
all the model uses of it. `Exit` is external: a process may end whenever it
likes.

### LogFanout

A line is numbered when `appendLog` takes `logMu`; in the same step it enters
the ring and the set of subscribers is copied (`todo`). Each send is a step of
its own, in any order, as Go ranges over a map. `SendClosed` is the send on a
channel that its reader has closed meanwhile, which panics. What that does depends
on who is writing: in `scan` and `wait`, goroutines of their own, it ends the
program; in a handler (the `appendLog` of `Start` and `Stop`, `manager.go:174`,
`187`) net/http recovers it, and the subscribers not yet reached go without the
line. The writers that are handlers are the constant `Handlers`, and the history
variable `cut` remembers the lines of which sessions were cut off. `XrayLogs` replays, subscribes,
delivers and leaves. `ClearLogs` has no caller.

### HealthTest

`handler` is where a request is, with the reset of `testRunning` (a deferred
function) a step after the return; `worker`, `sem`, `out`, `collected`, `closed`
are the pool of `Prober.TestAll`. A probe is one step that ends with a result;
its inside is `Probe`, and what becomes of a late result is `Store.UpdateProxy`.
A client that has left is noticed at the `select` after a result, as in the code,
and the pool is left to itself. The write of a result, or of the "done" event, is a
step of its own (`WriteReturns`), because it need never end: `main.go:62` sets no
WriteTimeout.

### Probe

`step` is where `realDelay` is; `port`, `file` and `child` are what it holds, and
`deferred` is its stack of deferred calls: Remove once the file is there, Kill (and
Wait) once xray is started. `Fail` stands for every early return and undoes nothing
itself; on the way out `RunDeferred` makes one deferred call after the other.
`FreePort` takes a port on which nobody listens and lets it go again, as the
code does, so that a second probe may be given it before the first xray has
bound it; the history variable `shared` remembers to whom that happened while the
first could still bind it (`MayBind`). `Bind` and `Crash` are the temporary xray's, and `ProgramEnds` cuts every probe short: what they hold is
then never given back, and the xrays that stay behind keep their ports.

### ControlPlane

`store`, `mgrConf`, `file` and `loaded` are what the store has, what the Manager
has, what the config file contains and what each process has read. `stage` and
`local` are the program counter and the locals of a handler outside the
Manager's methods; inside them it is `pc` of XrayManager. DNS lists and rule sets
are edit numbers, a config is the triple it was made of, `Torn` is a file that is
not one whole config: truncated, or mixed by two writers. `WriteConfig` is three
steps (rules read, DNS list read and file truncated, bytes written) since the
code takes `m.mu` for the two lists separately and `os.WriteFile` truncates
first. A write of the store or of the config may fail when `DiskMayFail`; the
early returns of the handlers follow. The history variable `lag` says what such
failures have left behind.

`Next` lets the steps of all handlers interleave. `SerialNext` is for requests
that follow one another: a handler takes a step only when all other callers are
idle, those included that would do their whole request in one step. Processes
crash, are reaped and read their config at any time in both.

`AddProxy` and `ImportProxies` add ids nobody uses yet and are left to `Store`.
`DropProxy` is a subscription refresh seen from here. `TestConnection` reads the
name of the active proxy and sends a request to the local port, which any xray
that lives may answer, one that is being stopped included (`Answering`).

### Store

`Store.mu` is held during a whole operation, files included, so an operation is
`Operate` followed by one `Write` or `WriteFails` per file. A write is atomic
(temporary file, rename). `Crash` ends the program between any two steps and
starts it again from `disk`. A proxy is its id, its subscription, the key of its
endpoint and the endpoint its latency was measured at. `Replaced` is the list
that `ReplaceSubProxies` makes: the last of the old proxies with an endpoint
(`Prev`) gives its id and latency to the first new one with it (`Carries`), all
others get fresh ids. `UpdateProxy` is `persistLatency` with the endpoint that
was probed, however long ago. `named` is a history variable: which id has ever
stood for which endpoint. Subscriptions, settings and rules are edit numbers.

### Subscriptions

A fetch returns any set of endpoints or fails; between it and `Replace` the other
handlers run. `Replace` and `Update` are the two critical sections in which
`refreshOne` stores the list and its count. `DeleteProxy` takes one proxy out of a
stored list and leaves the count alone; the history variable `picked` holds those
taken since the list was stored, and `Listed` is the list with them. What is modelled
is one life of the program. `FetchAndParse` ends by the client's
15 s timeout.

### Session and Program

The server keeps no sessions: a token is its expiry under a signature, and
`cookie` is what one browser holds of it. `LoadSecret` is `config.Load`, which
draws a secret when SESSION_SECRET is not set. `Program` is `main.go`: requests
come in through the middleware, `Terminate` is the signal, `ShutdownReturns` is
the return of `http.Server.Shutdown` (all handlers done, or 8 s over) after
which the shutdown goroutine calls `Stop` as one more caller of the Manager.
`MainReturns` may come before any of that, since `ListenAndServe` returns as soon
as `Shutdown` has been called. `Begin` is the next start; the processes and the
cookie have outlived the program, the record has not.

### ShareLink and XrayConfig

A link is a record of the texts its parser takes out of it. `Parse` keeps what
the parsers do with them: which field wins over which, defaults, letter case,
ports that are no number, the links that are refused. The texts may be any: `Lower`
is a constant of which only the words that the parsers look for are known
(`TextAssumption`), a port is a text with the number it means, of any size, and
`MaxInt` is the largest int of the platform (2^31 - 1 on the ARM routers, 2^63 - 1
elsewhere). `Outbound` is
`proxyToOutbound` with `streamSettings`. The state of `XrayConfig` is the link
the active proxy has come from and the stored rules, which the four rule
handlers edit. `RoutingRules` is `buildRoutingRules` and the fixed rule of
`GenerateConfig`; `Decide` is external, what xray's router makes of them.

## 3. Runs

Bounds are in the `.cfg` files and named in the modules. They are the smallest
with which each of the situations named below happens.

| Run | Checks | Why the bounds are enough |
|---|---|---|
| `manager` | RecordIsSound, OnlyStaleStopForgets; DeadIsForgotten, StopEndsItsProcess, CallsReturn | two callers and three processes: every pair of overlapping methods, with a third process for a call that has been overtaken twice; the safety properties are proved without bounds |
| `manager_serial` | NoOrphan, IsSupervisor | four launches in a row; proved without bounds |
| `logs` | NoDuplicates, NothingSilentlyLost, PanicNeedsALeaver; WritersNeverBlock | a channel of one and a ring of two lines, three lines: both limits are reached; two writers, one of them a handler, overtake one another between two sessions; safety is proved without bounds |
| `health` | PoolBounded, ClosedIsComplete, OverlapNeedsALeaver; PoolWindsUp, TestRunningIsReset | lists of 0 to 3 proxies with two tokens: shorter and longer than the semaphore; a second run beside the pool of the first, whose client has left. `CONSTRAINT OneLongList` lets one run only have three proxies. Safety is proved without bounds |
| `probe` | LeavesNothing, MeasuresItsProxy; ProbeReturns | three probes on two ports: two that share one, and a third after them or beside a lost xray; safety is proved without bounds |
| `control` | ActiveIsWired, ServesActive, ViaIsTruthful, ManagerMirrorsStore, DnsInForce | requests one at a time, two proxies, two launches, two DNS edits (one fails, one makes good), one rule edit; all five are proved without bounds and for any number of callers |
| `control_repair` | LoneActivationRepairs | two callers, so that two writers tear the file; failing writes; proved without bounds |
| `control_rules` | RulesTakeEffect, expected to be violated | one rule edit, two launches: xray runs during the edit, or is started after it |
| `store` | UniqueIds, DiskFollows, RestartIsSound, IdNamesOneEndpoint, RefreshIsFaithful | lists of up to two proxies over two endpoints, so that a list may repeat one; three ids, so that an id is deleted and another one made; proved without bounds |
| `subscriptions` | OneWholeList, DeletedTakesItsProxies, CountIsOfTheList; DropsAreDeliberate, RefreshReturns | two handlers on two subscriptions, lists that have nothing in common, so that a mixture would be no list, one of them of two proxies, so that with one deleted it is none either; two answered fetches, so that one is stored over the other. `CONSTRAINT OneIsPicked` deletes one proxy of one subscription at a time and adds that subscription first. Safety is proved without bounds |
| `program` | ShutdownStopsXray; SessionLasts | one handler beside the shutdown goroutine, two processes (one of the program before), one restart; a token of two ticks on a clock of three, so that it expires; both are proved without bounds |
| `config` | DecisionFollowsRules, SecurityKept, ServerKept | a hundred links that between them take every branch of the parsers and of `streamSettings`; ports in and out of every range; all lists of two rules of two priorities, for a private and a public destination, so that each may come first. `CONSTRAINT EditedLink` edits the rules under one link only: the outbound does not read the rules, nor the routing the link. Proved for every link and every list of rules |

Deadlock checking is off where the system may really stop: when all requests of
the bound have been served (`HealthTest`, `Probe`), when a panic has ended the
program or the lines are used up (`LogFanout`), when the launches or the starts
are used up (`ControlPlane`, `Program`).

Fairness. Liveness is checked under weak fairness of the program's own steps
only: goroutines are scheduled, the 3 s timer of `Stop` fires, SIGKILL is obeyed
by the operating system, a probe ends by its deadline (4 s `waitPort`, 10 s
request, 15 s context, 5 s dial: `Probe.Fail` is always possible until it
leaves; whether a probe is ever begun is not assumed),
a fetch by its client's timeout. Nothing is assumed of SIGINT, of xray, of users, or
of an SSE client, which may stop reading for good. A write to it need not end then,
since `main.go:62` sets no WriteTimeout: `WritersNeverBlock` and `PoolWindsUp` hold
all the same, and `TestRunningIsReset` has as its premise that each write of a
result comes to an end.

### What the code does otherwise than it says

The run `control_rules` checks a comment of the repository and finds it violated
(`PROJECT.json` quotes it under `findings`): the rule handlers never write the
config file, so that an xray restarted by an edit, or started later as in TLC's
counterexample, comes up with the old rules.

In other places the code gives way only under a certain condition. The condition
is part of a property that holds, so that a reader sees how far it goes:

- A Stop that has been overtaken by the exit of its process and a later Start
  clears the record of the new process, which runs on unowned:
  `OnlyStaleStopForgets` says that nothing else loses one.
- A client that disconnects after `appendLog` has copied the subscribers makes it
  send on a closed channel: `PanicNeedsALeaver` says that nothing else does. The
  panic ends the program from `scan` or `wait`; in a handler it is recovered, and
  the subscribers not yet reached lose the line: `NothingSilentlyLost` excepts them
  (history variable `cut`).
- A client of test-all that keeps its connection and stops reading may hold
  `testRunning` for ever, since a write to it has no deadline:
  `TestRunningIsReset` has the premise that its writes end.
- A client that disconnects during test-all resets `testRunning` while its pool
  goes on, and the next request starts a second pool beside it, against the
  comment at `internal/handlers/health.go:34`: `OverlapNeedsALeaver`.
- `freePort` may give one port to two probes, and one is then measured through
  the other's proxy (history variable `shared`). A probe whose own xray has died
  after binding its port may also be answered by the port's next owner:
  `MeasuresItsProxy` excepts these two cases and no other.
- `main` may return before the shutdown goroutine has stopped xray, against
  `README.md:31` ("Graceful shutdown stops the xray child process cleanly"), and
  xray runs on with the ports of the next program: `ShutdownStopsXray` speaks of
  shutdowns whose goroutine comes to its end.
- `RoutingRules` is documented as sorted by priority (`storage.go:356`), which is
  the "Evaluation order (lower = earlier)" (`models.go:98`), and returns the order
  of creation, so that `ReorderRules` changes no config and of two rules for one
  destination the later one loses even with the lower number. This is a
  disagreement with both comments. `DecisionFollowsRules` demands the order of
  priorities only when the stored list is in it (`InOrder`), and otherwise leaves
  open which of the rules that apply decides.
- A vmess link with the cipher "reality" gets a reality outbound, and a trojan
  link with security=reality one without a public key: `SecurityKept` excepts
  both.
- A connection test may be answered by an xray that was killed and is not dead
  yet: `ViaIsTruthful`.
- A process that was killed may overlap with its successor: `Restart` does not
  wait for it. `Supervisor` allows this for killed processes only.
- A line logged between the replay and the subscription is shown to nobody:
  `NothingSilentlyLost` begins with the subscription.
- Two activations, or two rule edits, that overlap may leave store, Manager and
  file apart: the properties of `control` are checked with one request at a time,
  and `control_repair` shows that the next activation without another request
  beside it puts file and Manager right.
- A write that fails leaves the store changed in memory: the history variables
  `lag` (`ControlPlane`) and `behind` (`Store`) say what is behind, and until
  when.
- A DNS edit reaches a running xray only while there is an active proxy:
  `DnsInForce` has that condition.
- A refresh that is fetching when its subscription is deleted together with its
  proxies stores them again, and two refreshes that overlap may leave the list of
  one with the count of the other: `DeletedTakesItsProxies` and
  `CountIsOfTheList` speak of subscriptions that one handler at a time works on
  (history variable `disturbed`).
- Deleting one proxy of a subscription leaves `Count` at the number fetched, which
  is what `models.go:57` says it is: `CountIsOfTheList` and `OneWholeList` add
  what was deleted singly to the list (history variable `picked`).
- A refresh may drop the active proxy and leave `active.json` naming it:
  `RestartIsSound` has that condition (history variable `dangled`).

## 4. Proofs

The proofs assume what the modules assume of their constants (sizes are natural
numbers, a concurrency is not zero, model values differ from the rest, the lists
a server sends are finite, priorities are integers, `strings.ToLower` leaves words in
small letters alone) and nothing else: callers, sessions, runs, probes,
ports, proxies, subscriptions, handlers, lists and links may be any. Each module
has one or two inductive invariants, each of which TLC has found to hold before it
was proved, one lemma per action or group of actions, then the step of the
invariant and the theorems.

**XrayManagerProofs.** `IInv` is `TypeOK`, `Numbered` (processes are numbered in
the order of their launch, and exactly the launched ones are not `new`),
`RecordIsNewest`, `RecordIsWatched`, `NoGhostRunning` and `StopLeavesNoSurvivor`.
`Numbered` is needed because a fresh number must not be held by a Stop or
already waited for; `StopLeavesNoSurvivor` (a Stop about to clear has seen its
process exit or has killed it) is what makes `OnlyStaleStopForgets` follow: a
live, unkilled process on record cannot be the one the clearing Stop holds, so
it is a newer one. Theorems: `TypeCorrect`, `RecordNewest`, `RecordWatched`,
`NoGhost`, `RecordSound`, `OnlyStaleStopLoses`.
With one call at a time `SInv` adds `HeldOnRecord`: a Stop under way holds either
the process on record or one that has exited, the record being empty. It gives
`SerialNoOrphan`. `SerialRefinement` shows that the Manager implements
`Supervisor`: Start is a Launch or a stutter, the timer's kill is a Sentence, Exit
is Die, StopClear and Wait are Release, everything else stutters.

**ControlPlaneProofs.** The handlers reach the Manager by its methods only, so
that every behaviour of the control plane is one of `XrayManager`
(`ManagerIsUsedAsMeant`), and the invariants above hold below them: they are
taken from `Own == INSTANCE XrayManagerProofs`. `BInv` adds the types and
`HasProxy` (a handler that writes has a proxy); it is inductive for requests that
overlap (`TypeCorrect`). For the activations that have been alone since they
began, `LoneInv` says how far each has come and what it has put in order by then
(`Repairs`); whatever others have done before, it ends in `ActivationRepairs`.

For requests that follow one another `CInv` has, beside `BInv` and the Manager's
`SInv`:
`OneBusy`; `Reads` (what the handler under way has read is still so: its proxy is
the active one, its lists are the store's); `DeadHaveNotRead`; and `Settled`,
which says each thing the properties say of quiet moments with the one handler
that may break it meanwhile as an alternative: the file is the active proxy's, or
somebody is on the way from `SetActive` to the write (`Rewires`); the process on
record serves it, or somebody will replace the process (`Replaces`, which goes on
through the Restart inside the Manager); and the same for the DNS list. The point
of the proof is `ProcessSettles`: a process may read its config at any time, and
what it then reads is either the file as it should be, or torn, or it will be
replaced. Theorems: `FileFollowsActive`, `TrafficFollowsActive`,
`ManagerFollowsStore`, `DnsFollowsStore`; and `TestTellsTheProxy`, in which
`NoOrphan` says that the process that answers is the one on record.

**LogFanoutProofs.** `TodoBefore` (a line is on its way only to sessions that have
subscribed, some of which have left since) makes `PanicNeedsALeaver` inductive,
and `AllReached` is `NothingSilentlyLost` (a line has reached a session, is on its
way, was dropped at a full channel or cut short) without the concatenation of two
sequences, which the lemmas on appending, heads and tails put together at the
end. The capacities play no part. `NoDuplicates` has an invariant of its own,
`NInv`: the ring holds the latest lines in order (`Latest`), a line has one writer
(`OneWriter`), nothing is sent before the subscription (`NothingEarly`), and a line
still on its way to a session is not among what the session has been or will be
shown (`Unrepeated`). Theorems: `NothingLost`, `OnlyLeaversPanic`, `EachLineOnce`.

**HealthTestProofs.** The invariant counts: the semaphore is the number of
workers that hold a token, `collected` the number of workers that have ended
(`Counted`), workers are started in list order (`Spawned`), and a result is in
the channel or with the handler once its worker has sent it (`Accounted`). So
when as many signals as workers have been collected, all have ended, and
`ClosedLast` follows; with one reader at a time (`Served`) two pools overlap only
after a departure. Theorems: `PoolIsBounded`, `ResultsComplete`,
`OverlapOnlyByLeavers`.

The second part of the module is about `Probe`, whose variables are its own. `Held`
says of each step of a probe what it holds and which calls it has deferred by then,
Kill on top of Remove; from it `LeavesNothing` follows at every step, the return
being the one at which the stack is empty. `OneListener` says that one xray at most
listens on a port, and `SharersKnow` that a probe whose xray may still bind a port
that another's xray listens on, or may come to listen on, is in `shared`. So a probe that is answered by another's
xray either shares its port with it or has no xray that lives any more. Theorems:
`ProbeTypeCorrect`, `NothingLeft`, and the action property `OwnProxyMeasured`.

**StoreProofs.** `DiskLags` is `DiskFollows` in the middle of an operation: a file
that differs is pending or has failed. `ClearsFirst` says that an operation that
writes two files clears the active proxy, which is written first; it is what a
crash between the two needs. Every operation is of one of four kinds, with a
lemma each. Theorems: `DiskFollowsMemory`, `RestartSound`.
Ids have the invariant `UInv`: the ids in use are the first so many, each named for
one endpoint, and what is in memory or on disk has its id from there, unrepeated
(`Sound`). The lists are of any length, and so the lemmas are about positions:
`Rank` numbers the positions that an operation selects (`RankNumbers`), a selected
list has the elements of the old one, each once (`Selected`), and of equal keys in
the new list exactly the first carries an id over (`CarriedOver`). The two counts
of a refresh are cardinalities, equated by bijections (`AddedCounts`,
`RemovedCounts`). Theorems: `IdsAreUnique`, `OneEndpointPerId`,
`RefreshKeepsProxies`.

**SubscriptionsProofs.** All of it is about `Listed`, which the deletion of a single
proxy does not change. `Whole`: what is stored or about to be is one of the lists
sent. `Shared`: two handlers at work on one subscription have disturbed it; with
`Midway` (what has been stored already between the two parts of a deletion or of a
refresh) and `Gone` (past a deletion no refresh gets beyond its lookup) this gives
the two properties of undisturbed subscriptions, `Counts` being behind the list
only while somebody is about to set it. Theorems: `ListsStayWhole`,
`DeletionIsForGood`, `CountsAgree`, and the action property `OnlyDeliberateDrops`.

**XrayConfigProofs.** The rule handlers leave the active proxy alone
(`LinkStays`), and one lemma per parser says which of the two fields its
security ends up in, and one what becomes of server, port, network and path;
`SecurityIsKept` and `ServerIsKept` follow for every link that parses. The
generated rules are a function on the numbers of the stored ones, so that the
first entry that matches a destination comes from the first rule that does
(`Entries`, `Matches`, `FirstOf`), which is the first by priority in a list that is
in that order: `RulesDecide`, for lists of any length.

**ProgramProofs.** A step of the program is a step of its Manager, or leaves the
Manager alone, or ends the program, which empties the record (`ManagerOrVanish`,
`VanishKeeps`): so the invariant of `XrayManagerProofs` holds over any number of
lives (`BInv`; theorems `TypeCorrect`, `RecordSoundOverLives`), with handlers that
overlap. `SesInv` says that the secret is the one the last start has made and that
a browser keeps a cookie at least until its token expires; `SignInLasts` follows
for each step. For the shutdown `PInv` adds where the shutdown goroutine can be in
each phase (`Closing`), that a program that is down has no record (`Down`), and
that until the goroutine is hurried calls do not overlap and each xray *of this
program* that is alive and not killed is on record (`Orderly`, by
`OnRecordAfter(born)`, the part of `NoOrphan` that a crash does not destroy).
`ShutdownStops` assumes handlers that do not overlap (`SerialSpec` of the module,
with one handler as in the run or with many); the shutdown goroutine may overlap
with them, and its being hurried is an exception that the property makes.

What the proofs have changed in the models. The attempt to prove
`ManagerMirrorsStore` failed for two callers, because the specification of serial
requests let an idle caller do a request of a single step (a deletion, a DNS edit
that is not persisted) in the middle of another's: `SerialNext` now excludes it.
`ServerKept` said of vmess links too that the service name becomes the path;
`parseVMess` reads the path field only, and the clause now names the schemes it is
about. Lists that were made with a recursive filter are made by positions, with
the same result. `Program` states that its bound on processes is a number.

Every safety property of the passing runs is the statement of a theorem. Only
model-checked is what is stated under fairness (the liveness properties of
`manager`, `logs`, `health`, `probe` and `subscriptions`), which is beyond the
prover. The counterexample of `control_rules` is TLC's.

## 5. Not modelled

- The syntax of links (base64, JSON, URLs, the user info of ss) and of a fetched
  subscription; names, flow, short ids, ss ciphers and obfs, which are only
  copied; inbounds, DNS block and log level of the config, which are constants.
- Two conditions in one rule: a condition names one destination here.
- The HMAC and the comparison of passwords; a signature is taken to be made with
  the secret it names.
- Settings of a proxy beside its endpoint in the store: that a refresh may change
  them under a running xray is listed in `PROJECT.json` without a property.
- The double `cmd.Wait` of `manager.go:191`: both calls return after the exit, and
  the error of either is only logged.
- The TCP ping used when there is no xray binary: a probe that only returns.
- The routing table, logging middleware, web client, installers and images: no
  state that the program's handlers share.
- Power loss: `writeJSON` does not sync, and the model lets a rename be final.
- That a panic of `appendLog` at `manager.go:174` or `187`, recovered by net/http,
  also cuts short the Start or Stop that was logging: `XrayManager` takes logging
  to return, so what is shown of Stop (that its process ends, that calls return)
  is shown of calls whose log line met no subscriber leaving that very moment.
- A change of SESSION_SECRET between two starts: it is the same, or not set.
- A restart in the middle of a refresh: `Subscriptions` is one life of the program.
- Values that only the UI shows (uptime, warnings).

## 6. Plan

The order was: the process manager first, because everything else depends on it;
then the components that share goroutines with it (log fan-out, test-all); then
the control plane, which composes Manager, store and file; then store,
subscriptions, probes, the life of the program, and the way of a link to the
config. What could follow:

1. An abstract specification of the store (an atomic map with an acknowledged
   state) and of the log (a sequence of which each reader sees a part), with
   refinements.
2. The web client's EventSource, which reconnects and replays the buffer, over
   `LogFanout`.
3. Settings beside the endpoint key in `Store`, with `ControlPlane` above it.
