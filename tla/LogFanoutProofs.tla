---------------------------- MODULE LogFanoutProofs ----------------------------
(***************************************************************************)
(* What the log fan-out promises its clients, for any number of writers,   *)
(* clients and lines and for buffers of any size.                          *)
(***************************************************************************)
EXTENDS LogFanout, SequenceTheorems, TLAPS

Types ==
  /\ lines \in Nat
  /\ logs \in Seq(Nat)
  /\ subs = {v \in Sessions : view[v] = "live"}
  /\ queue \in [Sessions -> Seq(Nat)]
  /\ line \in [Writers -> Nat]
  /\ todo \in [Writers -> SUBSET Sessions]
  /\ view \in [Sessions -> {"new", "replayed", "live", "gone"}]
  /\ got \in [Sessions -> Seq(Nat)]
  /\ since \in [Sessions -> Nat]
  /\ lost \in [Sessions -> SUBSET Nat]
  /\ cut \in [Sessions -> SUBSET Nat]

\* A line is logged for those who are subscribed by then.
TodoBefore ==
  /\ \A w \in Writers : line[w] <= lines
  /\ \A w \in Writers : \A v \in todo[w] : view[v] \in {"live", "gone"}

\* NothingSilentlyLost in a form that does not put Shown together.
Reached(v, l) ==
  \/ l \in Elems(got[v]) \cup Elems(queue[v]) \cup lost[v]
  \/ InFlight(v, l)
  \/ CutShort(v, l)

AllReached == \A v \in subs : \A l \in since[v] + 1 .. lines : Reached(v, l)

IInv == Types /\ TodoBefore /\ PanicNeedsALeaver /\ AllReached

-----------------------------------------------------------------------------
\* The lines in two pieces of what a client has been and will be shown.
LEMMA ElemsConcat ==
  ASSUME NEW a \in Seq(Nat), NEW b \in Seq(Nat)
  PROVE  Elems(a \o b) = Elems(a) \cup Elems(b)
  <1>1. ASSUME NEW i \in DOMAIN a PROVE a[i] \in Elems(a \o b)
    <2>1. i \in DOMAIN (a \o b) /\ (a \o b)[i] = a[i]
      OBVIOUS
    <2> QED BY <2>1 DEF Elems
  <1>2. ASSUME NEW i \in DOMAIN b PROVE b[i] \in Elems(a \o b)
    <2>1. Len(a) + i \in DOMAIN (a \o b) /\ (a \o b)[Len(a) + i] = b[i]
      OBVIOUS
    <2> QED BY <2>1 DEF Elems
  <1>3. ASSUME NEW i \in DOMAIN (a \o b) PROVE (a \o b)[i] \in Elems(a) \cup Elems(b)
    <2>1. CASE i <= Len(a)
      BY <2>1 DEF Elems
    <2>2. CASE i > Len(a)
      <3>1. i - Len(a) \in DOMAIN b /\ (a \o b)[i] = b[i - Len(a)]
        BY <2>2
      <3> QED BY <3>1 DEF Elems
    <2> QED BY <2>1, <2>2
  <1> QED BY <1>1, <1>2, <1>3 DEF Elems

\* A channel gains a line at one end and loses one at the other.
LEMMA ElemsAppend ==
  ASSUME NEW a \in Seq(Nat), NEW x \in Nat
  PROVE  Elems(Append(a, x)) = Elems(a) \cup {x}
  <1>1. DOMAIN Append(a, x) = 1 .. Len(a) + 1 /\ Append(a, x)[Len(a) + 1] = x
        /\ \A i \in 1 .. Len(a) : Append(a, x)[i] = a[i]
    OBVIOUS
  <1> QED BY <1>1 DEF Elems

LEMMA ElemsHeadTail ==
  ASSUME NEW a \in Seq(Nat), a # <<>>
  PROVE  Elems(a) = {Head(a)} \cup Elems(Tail(a))
  <1>1. Head(a) = a[1] /\ DOMAIN Tail(a) = 1 .. Len(a) - 1
        /\ \A i \in 1 .. Len(a) - 1 : Tail(a)[i] = a[i + 1]
    OBVIOUS
  <1>2. ASSUME NEW i \in DOMAIN a, i # 1 PROVE a[i] \in Elems(Tail(a))
    <2>1. i - 1 \in 1 .. Len(a) - 1 /\ Tail(a)[i - 1] = a[i]
      BY <1>1, <1>2
    <2> QED BY <1>1, <2>1 DEF Elems
  <1>3. 1 \in DOMAIN a
    OBVIOUS
  <1>4. \A i \in 1 .. Len(a) - 1 : i + 1 \in DOMAIN a
    OBVIOUS
  <1> QED BY <1>1, <1>2, <1>3, <1>4 DEF Elems

\* The replay buffer stays a sequence of lines.
LEMMA TrimType ==
  ASSUME NEW s \in Seq(Nat)
  PROVE  Trim(s) \in Seq(Nat)
  <1>1. CASE Len(s) > LogCap
    <2>1. \A i \in Len(s) - LogCap + 1 .. Len(s) : i \in 1 .. Len(s)
      BY <1>1, CapAssumption
    <2> QED BY <1>1, <2>1, CapAssumption, SubSeqProperties DEF Trim
  <1>2. CASE ~(Len(s) > LogCap)
    BY <1>2 DEF Trim
  <1> QED BY <1>1, <1>2

-----------------------------------------------------------------------------
\* At first nothing is logged and nobody subscribed.
LEMMA InitIInv == Init => IInv
  <1>1. <<>> \in Seq(Nat)
    OBVIOUS
  <1> QED BY <1>1 DEF Init, IInv, Types, TodoBefore, PanicNeedsALeaver, AllReached

\* A new line is on its way to all who are subscribed; a writer that logs one
\* has no other on its way.
LEMMA AppendLogIInv ==
  ASSUME IInv, NEW w \in Writers, AppendLog(w)
  PROVE  IInv'
  <1> USE DEF IInv, Types
  <1>1. lines + 1 \in Nat /\ Append(logs, lines + 1) \in Seq(Nat)
    OBVIOUS
  <1>2. Types'
    BY <1>1, TrimType DEF AppendLog
  <1>3. TodoBefore'
    BY DEF AppendLog, TodoBefore
  <1>4. PanicNeedsALeaver'
    BY DEF AppendLog, PanicNeedsALeaver
  <1>5. ASSUME NEW v \in subs, NEW l \in since[v] + 1 .. lines + 1
        PROVE  Reached(v, l)'
    <2>1. CASE l = lines + 1
      BY <2>1 DEF AppendLog, Reached, InFlight
    <2>2. CASE l # lines + 1
      <3>1. l \in since[v] + 1 .. lines
        BY <2>2
      <3>2. Reached(v, l)
        BY <3>1 DEF AllReached
      <3> QED BY <3>2 DEF AppendLog, Reached, InFlight, CutShort
    <2> QED BY <2>1, <2>2
  <1>6. AllReached'
    BY <1>5 DEF AppendLog, AllReached
  <1> QED BY <1>2, <1>3, <1>4, <1>6

\* A line that is sent is in the channel, or counted as lost.
LEMMA SendIInv ==
  ASSUME IInv, NEW w \in Writers, NEW v \in Sessions, Send(w, v)
  PROVE  IInv'
  <1> USE DEF IInv, Types
  <1>1. line[w] \in Nat /\ queue[v] \in Seq(Nat) /\ v \in todo[w]
    BY DEF Send
  <1> DEFINE longer == Append(queue[v], line[w])
  <1>2. longer \in Seq(Nat) /\ Elems(longer) = Elems(queue[v]) \cup {line[w]}
    BY <1>1, ElemsAppend
  <1>3. Types'
    <2>1. queue' \in [Sessions -> Seq(Nat)]
      <3>1. queue' = [queue EXCEPT ![v] = longer] \/ queue' = queue
        BY DEF Send
      <3> HIDE DEF longer
      <3> QED BY <3>1, <1>2
    <2>2. todo' \in [Writers -> SUBSET Sessions]
      <3>1. todo' = [todo EXCEPT ![w] = @ \ {v}]
        BY DEF Send, Sent
      <3> QED BY <3>1
    <2>3. lost' \in [Sessions -> SUBSET Nat]
      <3>1. lost' = [lost EXCEPT ![v] = @ \cup {line[w]}] \/ lost' = lost
        BY DEF Send
      <3>2. \A u \in Sessions : lost[u] \in SUBSET Nat /\ lost[u] \cup {line[w]} \in SUBSET Nat
        BY <1>1
      <3>3. lost = [u \in Sessions |-> lost[u]]
        OBVIOUS
      <3> QED BY <3>1, <3>2, <3>3
    <2> QED BY <2>1, <2>2, <2>3 DEF Send
  <1>4. TodoBefore' /\ PanicNeedsALeaver'
    BY DEF Send, Sent, TodoBefore, PanicNeedsALeaver
  <1>5. /\ \A u \in Sessions : Elems(queue[u]) \cup lost[u] \subseteq (Elems(queue[u]) \cup lost[u])'
        /\ line[w] \in (Elems(queue[v]) \cup lost[v])'
    BY <1>1, <1>2 DEF Send
  <1>6. ASSUME NEW u \in subs, NEW l, Reached(u, l)
        PROVE  Reached(u, l)'
    <2>1. CASE l \in Elems(got[u]) \cup Elems(queue[u]) \cup lost[u]
      BY <2>1, <1>5 DEF Reached, Send
    <2>2. CASE InFlight(u, l)
      <3>1. PICK x \in Writers : line[x] = l /\ u \in todo[x]
        BY <2>2 DEF InFlight
      <3>2. CASE x = w /\ u = v
        BY <3>1, <3>2, <1>5 DEF Reached
      <3>3. CASE ~(x = w /\ u = v)
        BY <3>1, <3>3 DEF Reached, InFlight, Send, Sent
      <3> QED BY <3>2, <3>3
    <2>3. CASE CutShort(u, l)
      BY <2>3 DEF Reached, CutShort, Send
    <2> QED BY <1>6, <2>1, <2>2, <2>3 DEF Reached
  <1>7. AllReached'
    BY <1>6 DEF AllReached, Send
  <1> QED BY <1>3, <1>4, <1>7

\* A handler that panics cuts its line short for those it has not reached, and by
\* then the session on whose channel it panics has left.
LEMMA SendClosedIInv ==
  ASSUME IInv, NEW w \in Writers, NEW v \in Sessions, SendClosed(w, v)
  PROVE  IInv'
  <1> USE DEF IInv, Types
  <1>1. CASE w \notin Handlers
    BY <1>1 DEF SendClosed, TodoBefore, PanicNeedsALeaver, AllReached, Reached, InFlight, CutShort
  <1>2. CASE w \in Handlers
    <2>1. /\ todo' = [todo EXCEPT ![w] = {}]
          /\ cut' = [u \in Sessions |-> IF u \in todo[w] THEN cut[u] \cup {line[w]} ELSE cut[u]]
      BY <1>2 DEF SendClosed
    <2>2. Types'
      BY <2>1 DEF SendClosed
    <2>3. TodoBefore' /\ PanicNeedsALeaver'
      BY <2>1 DEF SendClosed, TodoBefore, PanicNeedsALeaver
    <2>4. view[v] = "gone" /\ line[w] <= since[v]
      BY DEF SendClosed, PanicNeedsALeaver
    <2>5. ASSUME NEW u \in subs, NEW l, Reached(u, l)
          PROVE  Reached(u, l)'
      <3>1. CASE l \in Elems(got[u]) \cup Elems(queue[u]) \cup lost[u]
        BY <3>1 DEF Reached, SendClosed
      <3>2. CASE InFlight(u, l)
        <4>1. PICK x \in Writers : line[x] = l /\ u \in todo[x]
          BY <3>2 DEF InFlight
        <4>2. CASE x = w
          BY <2>1, <2>4, <4>1, <4>2 DEF Reached, CutShort, SendClosed
        <4>3. CASE x # w
          BY <2>1, <4>1, <4>3 DEF Reached, InFlight, SendClosed
        <4> QED BY <4>2, <4>3
      <3>3. CASE CutShort(u, l)
        BY <2>1, <3>3 DEF Reached, CutShort, SendClosed
      <3> QED BY <2>5, <3>1, <3>2, <3>3 DEF Reached
    <2>6. AllReached'
      BY <2>5 DEF AllReached, SendClosed
    <2> QED BY <2>2, <2>3, <2>6
  <1> QED BY <1>1, <1>2

\* A line that is delivered moves from the channel to the client.
LEMMA DeliverIInv ==
  ASSUME IInv, NEW v \in Sessions, Deliver(v)
  PROVE  IInv'
  <1> USE DEF IInv, Types
  <1>1. /\ queue[v] \in Seq(Nat) /\ queue[v] # <<>> /\ got[v] \in Seq(Nat)
        /\ Head(queue[v]) \in Nat /\ Tail(queue[v]) \in Seq(Nat)
    BY DEF Deliver
  <1>2. /\ Elems(queue[v]) = {Head(queue[v])} \cup Elems(Tail(queue[v]))
        /\ Elems(Append(got[v], Head(queue[v]))) = Elems(got[v]) \cup {Head(queue[v])}
        /\ Append(got[v], Head(queue[v])) \in Seq(Nat)
    BY <1>1, ElemsHeadTail, ElemsAppend
  <1>3. Types'
    BY <1>1, <1>2 DEF Deliver
  <1>4. TodoBefore' /\ PanicNeedsALeaver'
    BY DEF Deliver, TodoBefore, PanicNeedsALeaver
  <1>5. \A u \in Sessions : (Elems(got[u]) \cup Elems(queue[u]))' = Elems(got[u]) \cup Elems(queue[u])
    BY <1>2 DEF Deliver
  <1>6. ASSUME NEW u \in subs, NEW l, Reached(u, l)
        PROVE  Reached(u, l)'
    BY <1>5, <1>6 DEF Reached, InFlight, CutShort, Deliver
  <1>7. AllReached'
    BY <1>6 DEF AllReached, Deliver
  <1> QED BY <1>3, <1>4, <1>7

\* Subscribing starts the count anew, and leaving ends it.
LEMMA SessionIInv ==
  ASSUME IInv, NEW v \in Sessions, Replay(v) \/ Subscribe(v) \/ Leave(v)
  PROVE  IInv'
  <1> USE DEF IInv, Types
  <1>1. Types'
    <2>1. view' \in [Sessions -> {"new", "replayed", "live", "gone"}]
      BY DEF Replay, Subscribe, Leave
    <2>2. subs' = {u \in Sessions : view'[u] = "live"}
      BY DEF Replay, Subscribe, Leave
    <2>3. got' \in [Sessions -> Seq(Nat)] /\ since' \in [Sessions -> Nat]
      BY DEF Replay, Subscribe, Leave
    <2> QED BY <2>1, <2>2, <2>3 DEF Replay, Subscribe, Leave
  <1>2. TodoBefore'
    BY DEF Replay, Subscribe, Leave, TodoBefore
  <1>3. PanicNeedsALeaver'
    BY DEF Replay, Subscribe, Leave, TodoBefore, PanicNeedsALeaver
  <1>4. ASSUME NEW u \in subs', NEW l \in since'[u] + 1 .. lines
        PROVE  Reached(u, l)'
    <2>1. u \in subs /\ since'[u] = since[u] /\ got'[u] = got[u]
      BY <1>4 DEF Replay, Subscribe, Leave
    <2>2. Reached(u, l)
      BY <1>4, <2>1 DEF AllReached
    <2>3. CutShort(u, l) => CutShort(u, l)'
      BY DEF CutShort, Replay, Subscribe, Leave
    <2> QED BY <2>1, <2>2, <2>3 DEF Reached, InFlight, Replay, Subscribe, Leave
  <1>5. AllReached'
    BY <1>4 DEF AllReached, Replay, Subscribe, Leave
  <1> QED BY <1>1, <1>2, <1>3, <1>5

\* The invariant is inductive.
LEMMA NextIInv == IInv /\ [Next]_vars => IInv'
  <1> SUFFICES ASSUME IInv, [Next]_vars PROVE IInv'
    OBVIOUS
  <1>1. CASE UNCHANGED vars
    BY <1>1 DEF vars, IInv, Types, TodoBefore, PanicNeedsALeaver, AllReached, Reached, InFlight, CutShort
  <1> QED BY <1>1, AppendLogIInv, SendIInv, SendClosedIInv, DeliverIInv, SessionIInv DEF Next, Fanout

LEMMA Invariance == Spec => []IInv
  BY InitIInv, NextIInv, PTL DEF Spec

-----------------------------------------------------------------------------
\* However lines, replays, slow clients and departures interleave, a subscribed
\* client misses a line only when its channel is full, or when a handler panics on
\* the channel of one that has left meanwhile (manager.go:174, 187, 284).
THEOREM NothingLost == Spec => []NothingSilentlyLost
  <1>1. IInv => NothingSilentlyLost
    <2> SUFFICES ASSUME IInv, NEW v \in subs, NEW l \in since[v] + 1 .. lines
                 PROVE  \/ l \in Elems(Shown(v)) \cup lost[v]
                        \/ InFlight(v, l)
                        \/ CutShort(v, l)
      BY DEF NothingSilentlyLost
    <2>1. got[v] \in Seq(Nat) /\ queue[v] \in Seq(Nat)
      BY DEF IInv, Types
    <2>2. Elems(Shown(v)) = Elems(got[v]) \cup Elems(queue[v])
      BY <2>1, ElemsConcat DEF Shown
    <2> QED BY <2>2 DEF IInv, AllReached, Reached
  <1> QED BY <1>1, Invariance, PTL

\* The send that panics needs a client that has left in the middle of
\* a fan-out (manager.go:286, 318).
THEOREM OnlyLeaversPanic == Spec => []PanicNeedsALeaver
  <1>1. IInv => PanicNeedsALeaver
    BY DEF IInv
  <1> QED BY <1>1, Invariance, PTL

-----------------------------------------------------------------------------
(* No line twice.                                                          *)

\* logs holds the latest lines, in order.
Latest == \A i \in 1 .. Len(logs) : logs[i] = lines - Len(logs) + i

\* A line has one writer, and a fan-out is of a line.
OneWriter ==
  /\ \A w, x \in Writers : line[w] = line[x] /\ line[w] # 0 => w = x
  /\ \A w \in Writers : todo[w] # {} => line[w] # 0

\* Nothing is sent to a session before it subscribes.
NothingEarly ==
  \A v \in Sessions : view[v] \in {"new", "replayed"} =>
    queue[v] = <<>> /\ \A w \in Writers : v \notin todo[w]

Distinct(s) == \A i, j \in DOMAIN s : s[i] = s[j] => i = j

\* NoDuplicates by writers instead of by lines.
Unrepeated ==
  \A v \in Sessions :
    /\ Distinct(Shown(v))
    /\ \A w \in Writers : v \in todo[w] => line[w] \notin Elems(Shown(v))

NInv == TypeOK /\ Latest /\ OneWriter /\ NothingEarly /\ Unrepeated

\* A sequence stays without repetition when it gets an element it has not.
LEMMA DistinctAppend ==
  ASSUME NEW s \in Seq(Nat), NEW x \in Nat, Distinct(s), x \notin Elems(s)
  PROVE  Distinct(Append(s, x))
  <1>1. DOMAIN Append(s, x) = 1 .. Len(s) + 1 /\ Append(s, x)[Len(s) + 1] = x
        /\ DOMAIN s = 1 .. Len(s) /\ \A i \in 1 .. Len(s) : Append(s, x)[i] = s[i]
    OBVIOUS
  <1>2. \A i \in 1 .. Len(s) : s[i] # x
    BY <1>1 DEF Elems
  <1>3. \A i \in 1 .. Len(s) + 1 : i \in 1 .. Len(s) \/ i = Len(s) + 1
    OBVIOUS
  <1> QED BY <1>1, <1>2, <1>3 DEF Distinct

\* What a send adds to the channel comes last in what is shown, and a delivery
\* changes nothing of it.
LEMMA ShownSend ==
  ASSUME NEW a \in Seq(Nat), NEW b \in Seq(Nat), NEW x \in Nat
  PROVE  a \o Append(b, x) = Append(a \o b, x)
  OBVIOUS

LEMMA ShownDeliver ==
  ASSUME NEW a \in Seq(Nat), NEW b \in Seq(Nat), b # <<>>
  PROVE  Append(a, Head(b)) \o Tail(b) = a \o b
  <1>1. /\ Append(a, Head(b)) \o Tail(b) \in Seq(Nat)
        /\ a \o b \in Seq(Nat)
        /\ Len(Append(a, Head(b)) \o Tail(b)) = Len(a \o b)
    OBVIOUS
  <1>2. ASSUME NEW i \in 1 .. Len(a \o b)
        PROVE  (Append(a, Head(b)) \o Tail(b))[i] = (a \o b)[i]
    <2>1. CASE i <= Len(a)
      BY <2>1
    <2>2. CASE i = Len(a) + 1
      BY <2>2
    <2>3. CASE i > Len(a) + 1
      BY <2>3
    <2> QED BY <2>1, <2>2, <2>3
  <1> QED BY <1>1, <1>2, SeqEqual

\* A sequence of earlier lines is one of lines.
LEMMA MoreLines ==
  ASSUME NEW n \in Nat, NEW s \in Seq(1 .. n)
  PROVE  s \in Seq(1 .. n + 1) /\ s \in Seq(Nat) /\ Elems(s) \subseteq 1 .. n
  <1>1. 1 .. n \subseteq 1 .. n + 1 /\ 1 .. n \subseteq Nat
    OBVIOUS
  <1>2. s \in Seq(1 .. n + 1)
    BY <1>1, SeqMonotonic
  <1>3. s \in Seq(Nat)
    BY <1>1, SeqMonotonic
  <1>4. \A i \in DOMAIN s : s[i] \in 1 .. n
    BY LenProperties, ElementOfSeq
  <1> QED BY <1>2, <1>3, <1>4 DEF Elems

\* The trimmed buffer holds the latest lines again.
LEMMA TrimLatest ==
  ASSUME TypeOK, Latest, NEW t, t = Trim(Append(logs, lines + 1))
  PROVE  /\ t \in Seq(1 .. lines + 1) /\ Len(t) <= LogCap
         /\ \A i \in 1 .. Len(t) : t[i] = lines + 1 - Len(t) + i
  <1> DEFINE a == Append(logs, lines + 1)
  <1>1. lines \in Nat /\ logs \in Seq(1 .. lines) /\ Len(logs) <= LogCap /\ LogCap \in Nat
    BY CapAssumption DEF TypeOK
  <1>2. /\ a \in Seq(1 .. lines + 1) /\ Len(a) = Len(logs) + 1
        /\ \A i \in 1 .. Len(a) : a[i] = lines + 1 - Len(a) + i
    BY <1>1, MoreLines DEF Latest
  <1> HIDE DEF a
  <1>3. CASE Len(a) > LogCap
    <2>1. t = SubSeq(a, Len(a) - LogCap + 1, Len(a))
      BY <1>3 DEF Trim, a
    <2>2. \A i \in Len(a) - LogCap + 1 .. Len(a) : i \in 1 .. Len(a)
      BY <1>1, <1>2, <1>3
    <2>3. Len(a) - LogCap + 1 \in Int /\ Len(a) \in Int
      BY <1>1, <1>2
    <2> DEFINE m == Len(a) - LogCap + 1
               T == 1 .. lines + 1
    <2>4. m \in Int /\ Len(a) \in Int /\ Len(a) + 1 - m = LogCap /\ m <= Len(a) + 1
      BY <1>1, <1>2
    <2>5. a \in Seq(T) /\ (\A i \in m .. Len(a) : i \in 1 .. Len(a)) /\ t = SubSeq(a, m, Len(a))
      BY <1>2, <2>1, <2>2
    <2>6. \A i \in 1 .. LogCap : m + i - 1 = Len(a) - LogCap + i
      BY <1>1, <1>2
    <2> HIDE DEF m, T
    <2>7. t \in Seq(T) /\ Len(t) = LogCap /\ \A i \in 1 .. LogCap : t[i] = a[m + i - 1]
      <3>1. \A i \in m .. Len(a) : a[i] \in T
        BY <2>5, ElementOfSeq
      <3>2. /\ SubSeq(a, m, Len(a)) \in Seq(T)
            /\ Len(SubSeq(a, m, Len(a))) = IF m <= Len(a) THEN Len(a) - m + 1 ELSE 0
            /\ \A i \in 1 .. Len(a) - m + 1 : SubSeq(a, m, Len(a))[i] = a[m + i - 1]
        BY <2>4, <3>1, SubSeqProperties
      <3>3. Len(a) - m + 1 = LogCap /\ (m <= Len(a) \/ LogCap = 0)
        BY <1>1, <2>4
      <3> QED BY <1>1, <2>5, <3>2, <3>3
    <2>8. \A i \in 1 .. LogCap : Len(a) - LogCap + i \in 1 .. Len(a)
      BY <1>1, <1>2, <1>3
    <2>9. ASSUME NEW i \in 1 .. LogCap
          PROVE  t[i] = lines + 1 - LogCap + i
      <3>1. t[i] = a[Len(a) - LogCap + i]
        BY <2>6, <2>7
      <3>2. a[Len(a) - LogCap + i] = lines + 1 - Len(a) + (Len(a) - LogCap + i)
        BY <1>2, <2>8
      <3>3. lines + 1 - Len(a) + (Len(a) - LogCap + i) = lines + 1 - LogCap + i
        BY <1>1, <1>2
      <3> QED BY <3>1, <3>2, <3>3
    <2>10. t \in Seq(1 .. lines + 1)
      BY <2>7 DEF T
    <2>11. Len(t) = LogCap
      BY <2>7
    <2>12. \A i \in 1 .. Len(t) : t[i] = lines + 1 - Len(t) + i
      BY <2>9, <2>11
    <2> QED BY <1>1, <2>10, <2>11, <2>12
  <1>4. CASE ~(Len(a) > LogCap)
    BY <1>1, <1>2, <1>4 DEF Trim, a
  <1> QED BY <1>3, <1>4

-----------------------------------------------------------------------------
LEMMA InitNInv == Init => NInv
  <1> SUFFICES ASSUME Init PROVE NInv
    OBVIOUS
  <1>1. <<>> \in Seq(1 .. lines) /\ Len(<<>>) = 0 /\ <<>> \o <<>> = <<>> /\ DOMAIN <<>> = {}
    OBVIOUS
  <1>2. TypeOK
    <2>1. lines = 0 /\ 0 \in 0 .. MaxLines /\ 0 \in 0 .. 0 /\ 0 <= LogCap /\ 0 <= SubCap
      BY CapAssumption DEF Init
    <2>2. logs \in Seq(1 .. lines) /\ Len(logs) <= LogCap
      BY <1>1, <2>1 DEF Init
    <2>3. /\ queue \in [Sessions -> Seq(1 .. lines)] /\ got \in [Sessions -> Seq(1 .. lines)]
          /\ \A v \in Sessions : Len(queue[v]) <= SubCap
      BY <1>1, <2>1 DEF Init
    <2> QED BY <2>1, <2>2, <2>3 DEF Init, TypeOK
  <1>3. Unrepeated
    BY <1>1 DEF Init, Unrepeated, Distinct, Shown, Elems
  <1> QED BY <1>1, <1>2, <1>3 DEF Init, NInv, Latest, OneWriter, NothingEarly

\* The types of what is shown.
LEMMA ShownType ==
  ASSUME TypeOK, NEW v \in Sessions
  PROVE  /\ lines \in Nat
         /\ got[v] \in Seq(Nat) /\ queue[v] \in Seq(Nat) /\ Shown(v) \in Seq(Nat)
         /\ Elems(Shown(v)) = Elems(got[v]) \cup Elems(queue[v])
         /\ Elems(Shown(v)) \subseteq 1 .. lines
  <1>1. lines \in Nat /\ got[v] \in Seq(1 .. lines) /\ queue[v] \in Seq(1 .. lines)
    BY CapAssumption DEF TypeOK
  <1>2. got[v] \in Seq(Nat) /\ queue[v] \in Seq(Nat)
        /\ Elems(got[v]) \subseteq 1 .. lines /\ Elems(queue[v]) \subseteq 1 .. lines
    BY <1>1, MoreLines
  <1> QED BY <1>1, <1>2, ElemsConcat DEF Shown

\* A new line is in nobody's hands and no other writer's.
LEMMA AppendLogNInv ==
  ASSUME NInv, IInv, NEW w \in Writers, AppendLog(w)
  PROVE  NInv'
  <1> USE DEF NInv
  <1>1. lines \in Nat /\ lines' = lines + 1 /\ lines' \in 0 .. MaxLines
    BY CapAssumption DEF AppendLog, TypeOK
  <1>2. /\ logs' \in Seq(1 .. lines') /\ Len(logs') <= LogCap
        /\ \A i \in 1 .. Len(logs') : logs'[i] = lines' - Len(logs') + i
    BY <1>1, TrimLatest DEF AppendLog
  <1>3. TypeOK'
    <2>1. queue' \in [Sessions -> Seq(1 .. lines')] /\ got' \in [Sessions -> Seq(1 .. lines')]
      <3>1. \A v \in Sessions : queue[v] \in Seq(1 .. lines') /\ got[v] \in Seq(1 .. lines')
        BY <1>1, MoreLines DEF TypeOK
      <3> QED BY <3>1 DEF AppendLog, TypeOK
    <2>2. line' \in [Writers -> 0 .. lines'] /\ todo' \in [Writers -> SUBSET Sessions]
      BY <1>1 DEF AppendLog, TypeOK
    <2>3. /\ since' \in [Sessions -> 0 .. lines']
          /\ lost' \in [Sessions -> SUBSET (1 .. lines')]
          /\ cut' \in [Sessions -> SUBSET (1 .. lines')]
      <3>1. \A v \in Sessions : /\ since[v] \in 0 .. lines'
                                /\ lost[v] \in SUBSET (1 .. lines')
                                /\ cut[v] \in SUBSET (1 .. lines')
        BY <1>1 DEF TypeOK
      <3> QED BY <3>1 DEF AppendLog, TypeOK
    <2> QED BY <1>1, <1>2, <2>1, <2>2, <2>3 DEF AppendLog, TypeOK
  <1>4. Latest'
    BY <1>2 DEF Latest
  <1>5. OneWriter'
    <2>1. \A x \in Writers : line[x] \in 0 .. lines
      BY DEF TypeOK
    <2> QED BY <1>1, <2>1 DEF AppendLog, OneWriter, TypeOK
  <1>6. NothingEarly'
    BY DEF AppendLog, NothingEarly, IInv, Types
  <1>7. Unrepeated'
    <2> SUFFICES ASSUME NEW v \in Sessions
                 PROVE  /\ Distinct(Shown(v)')
                        /\ \A x \in Writers : v \in todo'[x] => line'[x] \notin Elems(Shown(v)')
      BY DEF Unrepeated
    <2>1. Shown(v)' = Shown(v)
      BY DEF AppendLog, Shown
    <2>2. lines + 1 \notin Elems(Shown(v))
      BY <1>1, ShownType
    <2> QED BY <2>1, <2>2 DEF AppendLog, Unrepeated, TypeOK
  <1> QED BY <1>3, <1>4, <1>5, <1>6, <1>7

\* A send appends the writer's own line, which was not shown yet.
LEMMA SendNInv ==
  ASSUME NInv, IInv, NEW w \in Writers, NEW v \in Sessions, Send(w, v)
  PROVE  NInv'
  <1> USE DEF NInv
  <1>1. /\ lines \in Nat /\ v \in todo[w] /\ line[w] \in 1 .. lines /\ line[w] \in Nat
        /\ queue[v] \in Seq(1 .. lines) /\ queue[v] \in Seq(Nat) /\ got[v] \in Seq(Nat)
    BY ShownType DEF Send, OneWriter, TypeOK
  <1> DEFINE longer == Append(queue[v], line[w])
  <1>2. longer \in Seq(1 .. lines) /\ Len(longer) = Len(queue[v]) + 1
    BY <1>1
  <1>3. \/ queue' = [queue EXCEPT ![v] = longer] /\ Len(queue[v]) < SubCap /\ lost' = lost
        \/ queue' = queue /\ lost' = [lost EXCEPT ![v] = @ \cup {line[w]}]
    BY DEF Send
  <1> HIDE DEF longer
  <1>4. todo' = [todo EXCEPT ![w] = @ \ {v}]
    BY DEF Send, Sent
  <1>5. TypeOK'
    <2>1. queue' \in [Sessions -> Seq(1 .. lines)]
      BY <1>2, <1>3 DEF TypeOK
    <2>2. \A u \in Sessions : Len(queue'[u]) <= SubCap
      <3>1. \A u \in Sessions : \/ Len(queue[u]) <= SubCap /\ queue'[u] = queue[u]
                                \/ u = v
        BY <1>3 DEF TypeOK
      <3>2. Len(queue'[v]) <= SubCap
        <4>1. CASE queue' = queue
          BY <4>1 DEF TypeOK
        <4>2. CASE queue' = [queue EXCEPT ![v] = longer] /\ Len(queue[v]) < SubCap
          <5>1. queue'[v] = longer /\ Len(queue[v]) \in Nat
            BY <1>1, <4>2, LenProperties DEF TypeOK
          <5> QED BY <1>2, <4>2, <5>1, CapAssumption
        <4> QED BY <1>3, <4>1, <4>2
      <3> QED BY <3>1, <3>2
    <2>3. lost' \in [Sessions -> SUBSET (1 .. lines)]
      <3>1. lost \in [Sessions -> SUBSET (1 .. lines)]
        BY DEF TypeOK
      <3>2. lost[v] \cup {line[w]} \in SUBSET (1 .. lines)
        BY <1>1, <3>1
      <3> QED BY <1>3, <3>1, <3>2
    <2>4. todo' \in [Writers -> SUBSET Sessions]
      BY <1>4 DEF TypeOK
    <2> QED BY <2>1, <2>2, <2>3, <2>4 DEF Send, TypeOK
  <1>6. /\ \A u \in Sessions \ {v} : queue'[u] = queue[u] /\ Shown(u)' = Shown(u)
        /\ Shown(v)' = Shown(v) \/ Shown(v)' = Append(Shown(v), line[w])
    <2>1. \A u \in Sessions : got'[u] = got[u]
      BY DEF Send
    <2>2. \A u \in Sessions \ {v} : queue'[u] = queue[u]
      BY <1>3 DEF TypeOK
    <2>3. queue'[v] = queue[v] \/ queue'[v] = longer
      BY <1>3 DEF TypeOK
    <2>4. got[v] \o longer = Append(Shown(v), line[w])
      BY <1>1, ShownSend DEF longer, Shown
    <2> QED BY <2>1, <2>2, <2>3, <2>4 DEF Shown
  <1>7. /\ \A x \in Writers : line'[x] = line[x] /\ todo'[x] \subseteq todo[x]
        /\ v \notin todo'[w]
        /\ view' = view /\ logs' = logs /\ lines' = lines
    BY <1>4 DEF Send, TypeOK
  <1>8. Latest' /\ OneWriter'
    <2>1. \A x \in Writers : todo'[x] # {} => todo[x] # {}
      BY <1>7
    <2> QED BY <1>7, <2>1 DEF Latest, OneWriter
  <1>9. NothingEarly'
    <2>1. view[v] \notin {"new", "replayed"}
      BY <1>1 DEF NothingEarly
    <2> QED BY <1>6, <1>7, <2>1 DEF NothingEarly
  <1>10. ASSUME NEW u \in Sessions
         PROVE  /\ Distinct(Shown(u)')
                /\ \A x \in Writers : u \in todo'[x] => line'[x] \notin Elems(Shown(u)')
    <2>1. Distinct(Shown(u)) /\ \A x \in Writers : u \in todo[x] => line[x] \notin Elems(Shown(u))
      BY DEF Unrepeated
    <2>2. CASE Shown(u)' = Shown(u)
      BY <1>7, <2>1, <2>2
    <2>3. CASE u = v /\ Shown(v)' = Append(Shown(v), line[w])
      <3>1. Shown(v) \in Seq(Nat) /\ line[w] \notin Elems(Shown(v))
        BY <1>1, <2>1, <2>3, ShownType
      <3>2. Distinct(Shown(v)') /\ Elems(Shown(v)') = Elems(Shown(v)) \cup {line[w]}
        BY <1>1, <2>1, <2>3, <3>1, DistinctAppend, ElemsAppend
      <3>3. \A x \in Writers : v \in todo'[x] => line[x] # line[w]
        BY <1>1, <1>7 DEF OneWriter
      <3> QED BY <1>7, <2>1, <2>3, <3>2, <3>3
    <2> QED BY <1>6, <2>2, <2>3
  <1>11. Unrepeated'
    BY <1>10 DEF Unrepeated
  <1> QED BY <1>5, <1>8, <1>9, <1>11

\* A panic shows nobody anything.
LEMMA SendClosedNInv ==
  ASSUME NInv, NEW w \in Writers, NEW v \in Sessions, SendClosed(w, v)
  PROVE  NInv'
  <1> USE DEF NInv
  <1>1. /\ \A x \in Writers : line'[x] = line[x] /\ todo'[x] \subseteq todo[x]
        /\ todo' \in [Writers -> SUBSET Sessions]
    BY DEF SendClosed, TypeOK
  <1>2. cut' \in [Sessions -> SUBSET (1 .. lines)]
    <2>1. line[w] \in 1 .. lines
      BY CapAssumption DEF SendClosed, OneWriter, TypeOK
    <2>2. \A u \in Sessions : cut[u] \in SUBSET (1 .. lines) /\ cut[u] \cup {line[w]} \in SUBSET (1 .. lines)
      BY <2>1 DEF TypeOK
    <2> QED BY <2>2 DEF SendClosed, TypeOK
  <1>3. TypeOK'
    BY <1>1, <1>2 DEF SendClosed, TypeOK
  <1>4. Latest' /\ OneWriter'
    <2>1. \A x \in Writers : todo'[x] # {} => todo[x] # {}
      BY <1>1
    <2> QED BY <1>1, <2>1 DEF SendClosed, Latest, OneWriter
  <1>5. NothingEarly' /\ Unrepeated'
    BY <1>1 DEF SendClosed, NothingEarly, Unrepeated, Shown
  <1> QED BY <1>3, <1>4, <1>5

\* A delivery takes the line out of the channel.
LEMMA DeliverNInv ==
  ASSUME NInv, NEW v \in Sessions, Deliver(v)
  PROVE  NInv'
  <1> USE DEF NInv
  <1>1. /\ lines \in Nat /\ queue[v] \in Seq(1 .. lines) /\ got[v] \in Seq(1 .. lines)
        /\ queue[v] # <<>> /\ queue[v] \in Seq(Nat) /\ got[v] \in Seq(Nat)
    BY ShownType DEF Deliver, TypeOK
  <1> DEFINE rest == Tail(queue[v])
             shown == Append(got[v], Head(queue[v]))
  <1>2. /\ rest \in Seq(1 .. lines) /\ Len(rest) = Len(queue[v]) - 1 /\ Len(queue[v]) \in Nat
        /\ shown \in Seq(1 .. lines) /\ shown \o rest = got[v] \o queue[v]
    <2>1. Head(queue[v]) \in 1 .. lines /\ rest \in Seq(1 .. lines) /\ Len(rest) = Len(queue[v]) - 1
      BY <1>1, HeadTailProperties
    <2>2. shown \in Seq(1 .. lines)
      BY <1>1, <2>1, AppendProperties
    <2> QED BY <1>1, <2>1, <2>2, ShownDeliver, LenProperties
  <1>3. queue' = [queue EXCEPT ![v] = rest] /\ got' = [got EXCEPT ![v] = shown]
    BY DEF Deliver
  <1> HIDE DEF rest, shown
  <1>4. TypeOK'
    <2>1. queue' \in [Sessions -> Seq(1 .. lines)] /\ got' \in [Sessions -> Seq(1 .. lines)]
      BY <1>2, <1>3 DEF TypeOK
    <2>2. \A u \in Sessions : Len(queue'[u]) <= SubCap
      BY <1>1, <1>2, <1>3, CapAssumption DEF TypeOK
    <2> QED BY <2>1, <2>2 DEF Deliver, TypeOK
  <1>5. \A u \in Sessions : Shown(u)' = Shown(u)
    BY <1>2, <1>3 DEF TypeOK, Shown
  <1>6. Latest' /\ OneWriter'
    BY DEF Deliver, Latest, OneWriter
  <1>7. NothingEarly'
    <2>1. view[v] \notin {"new", "replayed"} /\ \A u \in Sessions \ {v} : queue'[u] = queue[u]
      BY <1>3 DEF Deliver, TypeOK
    <2> QED BY <2>1 DEF Deliver, NothingEarly
  <1>8. Unrepeated'
    BY <1>5 DEF Deliver, Unrepeated
  <1> QED BY <1>4, <1>6, <1>7, <1>8

\* The replay shows the buffer to a session nothing is sent to yet.
LEMMA ReplayNInv ==
  ASSUME NInv, NEW v \in Sessions, Replay(v)
  PROVE  NInv'
  <1> USE DEF NInv
  <1>1. /\ lines \in Nat /\ logs \in Seq(1 .. lines) /\ logs \in Seq(Nat)
        /\ view[v] = "new" /\ queue[v] = <<>> /\ \A w \in Writers : v \notin todo[w]
        /\ got' = [got EXCEPT ![v] = logs]
    BY MoreLines DEF Replay, TypeOK, NothingEarly
  <1>2. TypeOK'
    <2>1. got' \in [Sessions -> Seq(1 .. lines)]
      BY <1>1 DEF TypeOK
    <2>2. view' \in [Sessions -> {"new", "replayed", "live", "gone"}]
      BY DEF Replay, TypeOK
    <2> QED BY <2>1, <2>2 DEF Replay, TypeOK
  <1>3. Latest' /\ OneWriter' /\ NothingEarly'
    BY DEF Replay, Latest, OneWriter, NothingEarly, TypeOK
  <1>4. Distinct(logs)
    <2>1. Len(logs) \in Nat /\ DOMAIN logs = 1 .. Len(logs)
      BY <1>1, LenProperties
    <2> SUFFICES ASSUME NEW i \in 1 .. Len(logs), NEW j \in 1 .. Len(logs), logs[i] = logs[j]
                 PROVE  i = j
      BY <2>1 DEF Distinct
    <2>2. lines - Len(logs) + i = lines - Len(logs) + j
      BY DEF Latest
    <2> QED BY <1>1, <2>1, <2>2
  <1>5. /\ Shown(v)' = logs
        /\ \A u \in Sessions \ {v} : Shown(u)' = Shown(u)
    BY <1>1 DEF Replay, TypeOK, Shown
  <1>6. Unrepeated'
    <2>1. \A u \in Sessions : Distinct(Shown(u)')
      BY <1>4, <1>5 DEF Unrepeated
    <2>2. \A u \in Sessions, x \in Writers : u \in todo'[x] => line'[x] \notin Elems(Shown(u)')
      BY <1>1, <1>5 DEF Unrepeated, Replay
    <2> QED BY <2>1, <2>2 DEF Unrepeated
  <1> QED BY <1>2, <1>3, <1>6

\* Subscribing and leaving show nothing.
LEMMA ComeAndGoNInv ==
  ASSUME NInv, NEW v \in Sessions, Subscribe(v) \/ Leave(v)
  PROVE  NInv'
  <1> USE DEF NInv
  <1>1. TypeOK'
    <2>1. lines \in 0 .. lines
      BY CapAssumption DEF TypeOK
    <2>2. view' \in [Sessions -> {"new", "replayed", "live", "gone"}]
      BY DEF Subscribe, Leave, TypeOK
    <2>3. since' \in [Sessions -> 0 .. lines]
      BY <2>1 DEF Subscribe, Leave, TypeOK
    <2>4. subs' \subseteq Sessions
      BY DEF Subscribe, Leave, TypeOK
    <2> QED BY <2>2, <2>3, <2>4 DEF Subscribe, Leave, TypeOK
  <1>2. Latest' /\ OneWriter' /\ NothingEarly'
    BY DEF Subscribe, Leave, Latest, OneWriter, NothingEarly, TypeOK
  <1>3. Unrepeated'
    BY DEF Subscribe, Leave, Unrepeated, Shown
  <1> QED BY <1>1, <1>2, <1>3

LEMMA NextNInv == IInv /\ NInv /\ [Next]_vars => NInv'
  <1> SUFFICES ASSUME IInv, NInv, [Next]_vars PROVE NInv'
    OBVIOUS
  <1>1. CASE UNCHANGED vars
    BY <1>1 DEF vars, NInv, TypeOK, Latest, OneWriter, NothingEarly, Unrepeated, Shown
  <1> QED BY <1>1, AppendLogNInv, SendNInv, SendClosedNInv, DeliverNInv, ReplayNInv, ComeAndGoNInv
      DEF Next, Fanout

\* No line reaches a client twice, by the replay and live or by two fan-outs,
\* and the buffers keep to their capacities (manager.go:272, 284; xray.go:127).
THEOREM EachLineOnce == Spec => []NoDuplicates
  <1>1. NInv => NoDuplicates
    BY DEF NInv, NoDuplicates, Unrepeated, Distinct, InFlight
  <1> QED BY InitNInv, NextNInv, Invariance, <1>1, PTL DEF Spec

================================================================================
