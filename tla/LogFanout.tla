------------------------------- MODULE LogFanout -------------------------------
(***************************************************************************)
(* The log fan-out of the Manager (appendLog, RecentLogs, Subscribe in     *)
(* internal/xray/manager.go) and its readers, the SSE handlers XrayLogs of *)
(* internal/handlers/xray.go.  Lines are numbered in the order in which    *)
(* appendLog takes m.logMu.                                                *)
(***************************************************************************)
EXTENDS Naturals, Sequences

CONSTANTS
  Writers,    \* what calls appendLog: the scanners, wait, the callers of Start
              \* and Stop
  Handlers,   \* those of them that are HTTP handlers
  Sessions,   \* calls of XrayLogs, one per EventSource connection
  LogCap,     \* maxLogLines
  SubCap,     \* the capacity of a subscriber's channel
  MaxLines    \* bound: how many lines are ever logged

ASSUME CapAssumption == LogCap \in Nat /\ SubCap \in Nat /\ MaxLines \in Nat
ASSUME HandlersAreWriters == Handlers \subseteq Writers

VARIABLES
  lines,     \* how many lines have been logged
  logs,      \* m.logs
  subs,      \* m.subs: the sessions whose channel is registered, hence open
  queue,     \* the channel of each session
  line,      \* the line each writer logged last
  todo,      \* the subscribers a writer has still to send it to
  view,      \* where each XrayLogs is
  got,       \* what it has written to its client
  crashed,   \* a panic outside the handlers has ended the program
  since,     \* history: lines when it subscribed, or when it left
  lost,      \* history: the lines dropped because its channel was full
  cut        \* history: the lines dropped because a handler panicked first

vars == <<lines, logs, subs, queue, line, todo, view, got, crashed, since, lost, cut>>

Elems(s) == {s[i] : i \in DOMAIN s}

TypeOK ==
  /\ lines \in 0 .. MaxLines
  /\ logs \in Seq(1 .. lines) /\ Len(logs) <= LogCap
  /\ subs \subseteq Sessions
  /\ queue \in [Sessions -> Seq(1 .. lines)]
  /\ \A v \in Sessions : Len(queue[v]) <= SubCap
  /\ line \in [Writers -> 0 .. lines]
  /\ todo \in [Writers -> SUBSET Sessions]
  /\ view \in [Sessions -> {"new", "replayed", "live", "gone"}]
  /\ got \in [Sessions -> Seq(1 .. lines)]
  /\ crashed \in BOOLEAN
  /\ since \in [Sessions -> 0 .. lines]
  /\ lost \in [Sessions -> SUBSET (1 .. lines)]
  /\ cut \in [Sessions -> SUBSET (1 .. lines)]

Init ==
  /\ lines = 0
  /\ logs = <<>>
  /\ subs = {}
  /\ queue = [v \in Sessions |-> <<>>]
  /\ line = [w \in Writers |-> 0]
  /\ todo = [w \in Writers |-> {}]
  /\ view = [v \in Sessions |-> "new"]
  /\ got = [v \in Sessions |-> <<>>]
  /\ crashed = FALSE
  /\ since = [v \in Sessions |-> 0]
  /\ lost = [v \in Sessions |-> {}]
  /\ cut = [v \in Sessions |-> {}]

-----------------------------------------------------------------------------
(* appendLog: one critical section, then one non-blocking send for each    *)
(* subscriber of the copy, in the order in which Go ranges over a map.     *)

Trim(s) == IF Len(s) > LogCap THEN SubSeq(s, Len(s) - LogCap + 1, Len(s)) ELSE s

\* Variant: a session that has left is still in m.subs.
AppendLogToAll(w) ==
  /\ ~crashed
  /\ todo[w] = {}
  /\ lines < MaxLines
  /\ lines' = lines + 1
  /\ logs'  = Trim(Append(logs, lines + 1))
  /\ line'  = [line EXCEPT ![w] = lines + 1]
  /\ todo'  = [todo EXCEPT ![w] = {v \in Sessions : view[v] \in {"live", "gone"}}]
  /\ UNCHANGED <<subs, queue, view, got, crashed, since, lost, cut>>

AppendLog(w) ==
  /\ ~crashed
  /\ todo[w] = {}
  /\ lines < MaxLines
  /\ lines' = lines + 1
  /\ logs'  = Trim(Append(logs, lines + 1))
  /\ line'  = [line EXCEPT ![w] = lines + 1]
  /\ todo'  = [todo EXCEPT ![w] = subs]
  /\ UNCHANGED <<subs, queue, view, got, crashed, since, lost, cut>>

Sent(w, v) == todo' = [todo EXCEPT ![w] = @ \ {v}]

\* Variants: the send gives up on the remaining subscribers when one is slow;
\* the send blocks.
SendReturns(w, v) ==
  /\ ~crashed
  /\ v \in todo[w] \cap subs
  /\ IF Len(queue[v]) < SubCap
       THEN /\ queue' = [queue EXCEPT ![v] = Append(@, line[w])]
            /\ Sent(w, v)
            /\ UNCHANGED lost
       ELSE /\ lost' = [lost EXCEPT ![v] = @ \cup {line[w]}]
            /\ todo' = [todo EXCEPT ![w] = {}]
            /\ UNCHANGED queue
  /\ UNCHANGED <<lines, logs, subs, line, view, got, crashed, since, cut>>

SendBlocks(w, v) ==
  /\ ~crashed
  /\ v \in todo[w] \cap subs
  /\ Len(queue[v]) < SubCap
  /\ queue' = [queue EXCEPT ![v] = Append(@, line[w])]
  /\ Sent(w, v)
  /\ UNCHANGED <<lines, logs, subs, line, view, got, crashed, since, lost, cut>>

Send(w, v) ==
  /\ ~crashed
  /\ v \in todo[w] \cap subs
  /\ IF Len(queue[v]) < SubCap
       THEN queue' = [queue EXCEPT ![v] = Append(@, line[w])] /\ UNCHANGED lost
       ELSE lost' = [lost EXCEPT ![v] = @ \cup {line[w]}] /\ UNCHANGED queue
  /\ Sent(w, v)
  /\ UNCHANGED <<lines, logs, subs, line, view, got, crashed, since, cut>>

\* The channel was closed after appendLog copied m.subs: the send panics.  In a
\* goroutine of its own that ends the program; in a handler net/http recovers it,
\* and the subscribers not yet reached go without the line.
SendClosed(w, v) ==
  /\ ~crashed
  /\ v \in todo[w] \ subs
  /\ IF w \in Handlers
       THEN /\ todo' = [todo EXCEPT ![w] = {}]
            /\ cut' = [u \in Sessions |->
                        IF u \in todo[w] THEN cut[u] \cup {line[w]} ELSE cut[u]]
            /\ UNCHANGED crashed
       ELSE /\ crashed' = TRUE
            /\ UNCHANGED <<todo, cut>>
  /\ UNCHANGED <<lines, logs, subs, queue, line, view, got, since, lost>>

-----------------------------------------------------------------------------
(* XrayLogs.                                                               *)

Replay(v) ==
  /\ ~crashed
  /\ view[v] = "new"
  /\ view' = [view EXCEPT ![v] = "replayed"]
  /\ got'  = [got EXCEPT ![v] = logs]
  /\ UNCHANGED <<lines, logs, subs, queue, line, todo, crashed, since, lost, cut>>

\* Variant: the buffer is replayed a second time, to close the gap.
SubscribeReplays(v) ==
  /\ ~crashed
  /\ view[v] = "replayed"
  /\ view'  = [view EXCEPT ![v] = "live"]
  /\ subs'  = subs \cup {v}
  /\ since' = [since EXCEPT ![v] = lines]
  /\ got'   = [got EXCEPT ![v] = @ \o logs]
  /\ UNCHANGED <<lines, logs, queue, line, todo, crashed, lost, cut>>

Subscribe(v) ==
  /\ ~crashed
  /\ view[v] = "replayed"
  /\ view'  = [view EXCEPT ![v] = "live"]
  /\ subs'  = subs \cup {v}
  /\ since' = [since EXCEPT ![v] = lines]
  /\ UNCHANGED <<lines, logs, queue, line, todo, got, crashed, lost, cut>>

Deliver(v) ==
  /\ ~crashed
  /\ view[v] = "live"
  /\ queue[v] # <<>>
  /\ queue' = [queue EXCEPT ![v] = Tail(@)]
  /\ got'   = [got EXCEPT ![v] = Append(@, Head(queue[v]))]
  /\ UNCHANGED <<lines, logs, subs, line, todo, view, crashed, since, lost, cut>>

\* The client disconnects: the deferred cancel unregisters and closes the channel.
Leave(v) ==
  /\ ~crashed
  /\ view[v] = "live"
  /\ view' = [view EXCEPT ![v] = "gone"]
  /\ subs' = subs \ {v}
  /\ since' = [since EXCEPT ![v] = lines]
  /\ UNCHANGED <<lines, logs, queue, line, todo, got, crashed, lost, cut>>

-----------------------------------------------------------------------------
Fanout(w) == \E v \in Sessions : Send(w, v) \/ SendClosed(w, v)

Next ==
  \/ \E w \in Writers : AppendLog(w) \/ Fanout(w)
  \/ \E v \in Sessions : Replay(v) \/ Subscribe(v) \/ Deliver(v) \/ Leave(v)

Spec == Init /\ [][Next]_vars

\* Only the writers are scheduled fairly: a client may stop reading for good.
FairSpec == Spec /\ \A w \in Writers : WF_vars(Fanout(w))

-----------------------------------------------------------------------------
Shown(v) == got[v] \o queue[v]

\* A line logged for v that is still on its way: some writer has not reached v.
InFlight(v, l) == \E w \in Writers : line[w] = l /\ v \in todo[w]

\* A handler was sending l when it panicked, on a session that left after l was logged.
CutShort(v, l) == l \in cut[v] /\ \E u \in Sessions : view[u] = "gone" /\ l <= since[u]

\* No line reaches a client twice, once by the replay of the buffer and once
\* live, or by two fan-outs: RecentLogs is read before Subscribe registers.
\* The buffers keep to their capacities.
NoDuplicates ==
  /\ TypeOK
  /\ \A v \in Sessions :
       /\ \A i, j \in DOMAIN Shown(v) : Shown(v)[i] = Shown(v)[j] => i = j
       /\ \A l \in 1 .. lines : InFlight(v, l) => l \notin Elems(Shown(v))

\* From its subscription on a session misses a line for two reasons only: its own
\* channel was full, or another session left after the line had been logged and
\* the handler that was sending it panicked on the closed channel.  In particular
\* a slow client costs another nothing.
NothingSilentlyLost ==
  \A v \in subs : \A l \in since[v] + 1 .. lines :
    \/ l \in Elems(Shown(v)) \cup lost[v]
    \/ InFlight(v, l)
    \/ CutShort(v, l)

\* appendLog never waits for a client (the default branch of its select): the
\* scanners keep draining the pipes of xray however slow the clients are.
WritersNeverBlock == \A w \in Writers : todo[w] # {} ~> (todo[w] = {} \/ crashed)

\* The send on a closed channel needs a client that leaves while a line logged
\* before is on its way to it: once cancel has returned, no line logged from then
\* on is sent to its channel.
PanicNeedsALeaver ==
  \A w \in Writers : \A v \in todo[w] \ subs : view[v] = "gone" /\ line[w] <= since[v]

================================================================================
