------------------------------ MODULE HealthTest ------------------------------
(***************************************************************************)
(* "Test all": the SSE handler TestAll (internal/handlers/health.go) and   *)
(* the worker pool Prober.TestAll it starts (internal/health/health.go).   *)
(* A run is one accepted request; its proxies are numbered in list order.  *)
(***************************************************************************)
EXTENDS Naturals, FiniteSets

CONSTANTS
  Runs,          \* bound: the requests ever made
  MaxProxies,    \* bound: the longest list of proxies
  Concurrency    \* how many probes of a run may be under way (8 in the code)

ASSUME PoolAssumption == MaxProxies \in Nat /\ Concurrency \in Nat \ {0}

VARIABLES
  testRunning,   \* App.testRunning
  handler,       \* where the request of each run is
  size,          \* len(proxies), read from the store when the run starts
  spawned,       \* how many workers the loop of TestAll has started
  worker,        \* where the worker of each proxy is
  sem,           \* how many tokens are in the semaphore channel
  collected,     \* how many done signals have been received
  out,           \* the results in the buffer of the channel
  closed,        \* close(out) has been called
  seen           \* the results the handler has persisted and sent

vars == <<testRunning, handler, size, spawned, worker, sem, collected, out, closed, seen>>
pool == <<spawned, worker, sem, collected, closed>>

Jobs == 1 .. MaxProxies

\* "refused" is the 409 answer, "sending" the write of a result to the client,
\* "closing" that of the "done" event, "finished" the return after it, "left" the
\* return when the client has disconnected; the reset of testRunning comes after.
HandlerStates == {"new", "refused", "reading", "sending", "closing", "finished", "left",
                  "returned", "abandoned"}
WorkerStates  == {"none", "probing", "sent", "released", "ended"}

TypeOK ==
  /\ testRunning \in BOOLEAN
  /\ handler \in [Runs -> HandlerStates]
  /\ size \in [Runs -> 0 .. MaxProxies]
  /\ \A r \in Runs : spawned[r] \in 0 .. size[r] /\ collected[r] \in 0 .. spawned[r]
  /\ worker \in [Runs -> [Jobs -> WorkerStates]]
  /\ sem \in [Runs -> 0 .. Concurrency]
  /\ out \in [Runs -> SUBSET Jobs]
  /\ closed \in [Runs -> BOOLEAN]
  /\ seen \in [Runs -> SUBSET Jobs]

Init ==
  /\ testRunning = FALSE
  /\ handler = [r \in Runs |-> "new"]
  /\ size = [r \in Runs |-> 0]
  /\ spawned = [r \in Runs |-> 0]
  /\ worker = [r \in Runs |-> [j \in Jobs |-> "none"]]
  /\ sem = [r \in Runs |-> 0]
  /\ collected = [r \in Runs |-> 0]
  /\ out = [r \in Runs |-> {}]
  /\ closed = [r \in Runs |-> FALSE]
  /\ seen = [r \in Runs |-> {}]

Accepted == {"reading", "sending", "closing", "finished", "left", "returned", "abandoned"}
PoolAt(r) == handler[r] \in Accepted /\ ~closed[r]
Reading(r) == handler[r] \in {"reading", "sending", "closing", "finished", "left"}
Writing(r) == handler[r] \in {"sending", "closing"}

At(r, j, s)   == worker[r][j] = s
Move(r, j, s) == worker' = [worker EXCEPT ![r][j] = s]
Become(r, s)  == handler' = [handler EXCEPT ![r] = s]

-----------------------------------------------------------------------------
(* The handler.                                                            *)

\* Variant: testRunning is read without testMu, and set later.
RequestUnlocked(r) ==
  /\ handler[r] = "new"
  /\ Become(r, "reading")
  /\ testRunning' = TRUE
  /\ \E n \in 0 .. MaxProxies : size' = [size EXCEPT ![r] = n]
  /\ UNCHANGED <<pool, out, seen>>

Request(r) ==
  /\ handler[r] = "new"
  /\ IF testRunning
       THEN Become(r, "refused") /\ UNCHANGED <<testRunning, size>>
       ELSE /\ Become(r, "reading")
            /\ testRunning' = TRUE
            /\ \E n \in 0 .. MaxProxies : size' = [size EXCEPT ![r] = n]
  /\ UNCHANGED <<pool, out, seen>>

\* One turn of "for res := range results": persistLatency and the begin of the
\* write to the client.
Receive(r, j) ==
  /\ handler[r] = "reading"
  /\ j \in out[r]
  /\ out'  = [out EXCEPT ![r] = @ \ {j}]
  /\ seen' = [seen EXCEPT ![r] = @ \cup {j}]
  /\ Become(r, "sending")
  /\ UNCHANGED <<testRunning, size, pool>>

ReceiveEnd(r) ==
  /\ handler[r] = "reading"
  /\ closed[r] /\ out[r] = {}
  /\ Become(r, "closing")
  /\ UNCHANGED <<testRunning, size, pool, out, seen>>

\* Fprintf and Flush come back, and after a result the handler looks whether the
\* client has disconnected (r.Context().Done()).
WriteReturns(r) ==
  /\ \/ handler[r] = "sending" /\ \E s \in {"reading", "left"} : Become(r, s)
     \/ handler[r] = "closing" /\ Become(r, "finished")
  /\ UNCHANGED <<testRunning, size, pool, out, seen>>

\* Variant: testRunning is reset on the way of the "done" event only.
HandlerReturnForgets(r) ==
  /\ handler[r] \in {"finished", "left"}
  /\ Become(r, IF handler[r] = "finished" THEN "returned" ELSE "abandoned")
  /\ testRunning' = (handler[r] = "left")
  /\ UNCHANGED <<size, pool, out, seen>>

\* The deferred reset of testRunning.
HandlerReturn(r) ==
  /\ handler[r] \in {"finished", "left"}
  /\ Become(r, IF handler[r] = "finished" THEN "returned" ELSE "abandoned")
  /\ testRunning' = FALSE
  /\ UNCHANGED <<size, pool, out, seen>>

-----------------------------------------------------------------------------
(* Prober.TestAll: the spawning loop, the workers, the collecting loop.    *)

\* Variant: no semaphore.
SpawnUnbounded(r) ==
  /\ PoolAt(r)
  /\ spawned[r] < size[r]
  /\ spawned' = [spawned EXCEPT ![r] = @ + 1]
  /\ Move(r, spawned[r] + 1, "probing")
  /\ UNCHANGED <<testRunning, handler, size, sem, collected, out, closed, seen>>

Spawn(r) ==
  /\ PoolAt(r)
  /\ spawned[r] < size[r]
  /\ sem[r] < Concurrency
  /\ sem'     = [sem EXCEPT ![r] = @ + 1]
  /\ spawned' = [spawned EXCEPT ![r] = @ + 1]
  /\ Move(r, spawned[r] + 1, "probing")
  /\ UNCHANGED <<testRunning, handler, size, collected, out, closed, seen>>

\* The probe ends (it has a deadline) and its result, good or bad, is sent.
\* The buffer holds len(proxies) results.
Send(r, j) ==
  /\ At(r, j, "probing")
  /\ Cardinality(out[r]) < size[r]
  /\ out' = [out EXCEPT ![r] = @ \cup {j}]
  /\ Move(r, j, "sent")
  /\ UNCHANGED <<testRunning, handler, size, spawned, sem, collected, closed, seen>>

\* Variant: the deferred function signals done before it frees the semaphore,
\* so a worker keeps its token until the collecting loop takes its signal.
ReleaseAfterDone(r, j) ==
  /\ At(r, j, "sent")
  /\ spawned[r] = size[r]
  /\ sem' = [sem EXCEPT ![r] = @ - 1]
  /\ Move(r, j, "released")
  /\ UNCHANGED <<testRunning, handler, size, spawned, collected, out, closed, seen>>

Release(r, j) ==
  /\ At(r, j, "sent")
  /\ sem' = [sem EXCEPT ![r] = @ - 1]
  /\ Move(r, j, "released")
  /\ UNCHANGED <<testRunning, handler, size, spawned, collected, out, closed, seen>>

\* done is unbuffered: the worker hands its signal to the collecting loop,
\* which runs once every worker has been spawned.
Collect(r, j) ==
  /\ At(r, j, "released")
  /\ PoolAt(r)
  /\ spawned[r] = size[r]
  /\ collected' = [collected EXCEPT ![r] = @ + 1]
  /\ Move(r, j, "ended")
  /\ UNCHANGED <<testRunning, handler, size, spawned, sem, out, closed, seen>>

\* Variant: the channel is closed as soon as the last worker is spawned.
CloseEarly(r) ==
  /\ PoolAt(r)
  /\ spawned[r] = size[r]
  /\ closed' = [closed EXCEPT ![r] = TRUE]
  /\ UNCHANGED <<testRunning, handler, size, spawned, worker, sem, collected, out, seen>>

Close(r) ==
  /\ PoolAt(r)
  /\ spawned[r] = size[r] /\ collected[r] = size[r]
  /\ closed' = [closed EXCEPT ![r] = TRUE]
  /\ UNCHANGED <<testRunning, handler, size, spawned, worker, sem, collected, out, seen>>

-----------------------------------------------------------------------------
HandlerStep(r) == (\E j \in Jobs : Receive(r, j)) \/ ReceiveEnd(r) \/ HandlerReturn(r)
WorkerStep(r, j) == Send(r, j) \/ Release(r, j)
PoolStep(r) == Spawn(r) \/ (\E j \in Jobs : Collect(r, j)) \/ Close(r)

Next == \E r \in Runs :
  \/ Request(r) \/ HandlerStep(r) \/ WriteReturns(r) \/ PoolStep(r)
  \/ \E j \in Jobs : WorkerStep(r, j)

Spec == Init /\ [][Next]_vars

\* Goroutines are scheduled, and a probe ends by its deadline (15 s, or the dial
\* timeout of TCPPing).  A write to a client need not end: the server sets no
\* WriteTimeout (main.go:62), and a client may keep its connection and stop
\* reading.  A run has finitely many steps, so it is enough that one of them is
\* taken.
FairSpec ==
  /\ Spec
  /\ \A r \in Runs : WF_vars(HandlerStep(r) \/ PoolStep(r) \/ \E j \in Jobs : WorkerStep(r, j))

-----------------------------------------------------------------------------
Probing(r) == {j \in Jobs : At(r, j, "probing")}

\* A run never has more probes under way, hence more temporary xray processes,
\* than the concurrency it was given.
\* The counters of its semaphore and of its loops stay in their ranges.
PoolBounded == TypeOK /\ \A r \in Runs : Cardinality(Probing(r)) <= Concurrency

\* No worker sends on the closed channel, which would end the program; in a
\* handler that reads to the end, no result is lost or reported twice.
ClosedIsComplete == \A r \in Runs :
  /\ closed[r] => Probing(r) = {} /\ out[r] \cup seen[r] = 1 .. size[r]
  /\ out[r] \cap seen[r] = {}

\* "testMu serializes test-all runs": two requests are never served at once,
\* and testRunning tells whether one is.
OneServed ==
  /\ Cardinality({r \in Runs : Reading(r)}) <= 1
  /\ testRunning <=> \E r \in Runs : Reading(r)

\* Even when its client has gone and nobody reads its results, a pool winds
\* up: every worker ends, and no goroutine is leaked.
PoolWindsUp == \A r \in Runs :
  (handler[r] \in Accepted) ~> (closed[r] /\ \A j \in 1 .. size[r] : At(r, j, "ended"))

\* A run does not lock out the next one for ever, if only no write to its client
\* is stuck for ever.  A client that reads slowly, leaves, or is gone, does no harm.
TestRunningIsReset ==
  (\A r \in Runs : []<>~Writing(r)) => (testRunning ~> ~testRunning)

\* "Only one test-all at a time" (handlers/health.go:34), as far as the code
\* keeps it: the pools of two runs probe side by side only when the client of
\* one of them has disconnected, which resets testRunning before its pool ends.
OverlapNeedsALeaver ==
  /\ OneServed
  /\ \A r, s \in Runs :
       r # s /\ Probing(r) # {} /\ Probing(s) # {} =>
         \E t \in {r, s} : handler[t] \in {"left", "abandoned"}

================================================================================
