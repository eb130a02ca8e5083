---------------------------- MODULE HealthTestProofs ----------------------------
(***************************************************************************)
(* The safety of test-all for any number of requests, lists of any length  *)
(* and any concurrency; and of the latency measurements its workers make,  *)
(* for any number of probes and ports.                                     *)
(***************************************************************************)
EXTENDS HealthTest, Probe, FiniteSetTheorems, SequenceTheorems, TLAPS

\* The workers of a run that are in some state of S.
In(r, S) == {j \in Jobs : worker[r][j] \in S}

Holding(r) == In(r, {"probing", "sent"})
Ended(r)   == In(r, {"ended"})
Answered(r) == In(r, {"sent", "released", "ended"})
Started(r) == In(r, {"probing", "sent", "released", "ended"})

\* Workers are spawned in list order, none before the request is accepted.
Spawned ==
  /\ \A r \in Runs :
    /\ Started(r) = 1 .. spawned[r]
    /\ handler[r] \in {"new", "refused"} => spawned[r] = 0 /\ ~closed[r]
  /\ spawned \in [Runs -> Nat] /\ collected \in [Runs -> Nat]

\* The semaphore holds one token for each worker that has not freed its own,
\* and the collecting loop counts the signals of the others.
Counted ==
  \A r \in Runs : sem[r] = Cardinality(Holding(r)) /\ collected[r] = Cardinality(Ended(r))

\* Each result that was sent is in the channel or with the handler.
Accounted ==
  \A r \in Runs :
    /\ out[r] \cup seen[r] = Answered(r)
    /\ out[r] \cap seen[r] = {}

\* The channel is closed at the end, and a handler is content with that only.
ClosedLast ==
  \A r \in Runs :
    /\ closed[r] => Ended(r) = 1 .. size[r]
    /\ handler[r] \in {"closing", "finished", "returned"} => closed[r]

Served ==
  /\ \A r, s \in Runs : Reading(r) /\ Reading(s) => r = s
  /\ testRunning <=> \E r \in Runs : Reading(r)

IInv == TypeOK /\ Spawned /\ Counted /\ Accounted /\ ClosedLast /\ Served

-----------------------------------------------------------------------------
(* Counting workers.                                                       *)

\* The workers of a run are finitely many.
LEMMA InFinite ==
  ASSUME NEW r \in Runs, NEW S
  PROVE  IsFiniteSet(In(r, S)) /\ Cardinality(In(r, S)) \in Nat
  <1>1. IsFiniteSet(Jobs)
    BY FS_Interval, PoolAssumption DEF Jobs
  <1>2. In(r, S) \in SUBSET Jobs
    BY DEF In
  <1>3. IsFiniteSet(In(r, S))
    BY <1>1, <1>2, FS_Subset
  <1> QED BY <1>3, FS_CardinalityType

\* A worker that moves enters some sets of states and leaves others.
LEMMA MoveIn ==
  ASSUME TypeOK, NEW r \in Runs, NEW j \in Jobs, NEW s, Move(r, j, s), NEW S
  PROVE  In(r, S)' = IF s \in S THEN In(r, S) \cup {j} ELSE In(r, S) \ {j}
  <1>1. \A i \in Jobs : worker'[r][i] = IF i = j THEN s ELSE worker[r][i]
    BY DEF TypeOK, Move
  <1> QED BY <1>1 DEF In

\* The sets the invariant speaks of, after a step of one worker.
LEMMA MoveSets ==
  ASSUME TypeOK, NEW r \in Runs, NEW j \in Jobs, NEW s, Move(r, j, s)
  PROVE  /\ Ended(r)' = IF s = "ended" THEN Ended(r) \cup {j} ELSE Ended(r) \ {j}
         /\ Answered(r)' = IF s \in {"sent", "released", "ended"} THEN Answered(r) \cup {j} ELSE Answered(r) \ {j}
         /\ Started(r)' = IF s \in {"probing", "sent", "released", "ended"} THEN Started(r) \cup {j} ELSE Started(r) \ {j}
         /\ \A q \in Runs \ {r} : /\ Holding(q)' = Holding(q) /\ Ended(q)' = Ended(q)
                                  /\ Answered(q)' = Answered(q) /\ Started(q)' = Started(q)
  <1>1. Ended(r)' = IF s = "ended" THEN Ended(r) \cup {j} ELSE Ended(r) \ {j}
    BY MoveIn DEF Ended
  <1>2. Answered(r)' = IF s \in {"sent", "released", "ended"} THEN Answered(r) \cup {j} ELSE Answered(r) \ {j}
    BY MoveIn DEF Answered
  <1>3. Started(r)' = IF s \in {"probing", "sent", "released", "ended"} THEN Started(r) \cup {j} ELSE Started(r) \ {j}
    BY MoveIn DEF Started
  <1>4. \A q \in Runs \ {r} : worker'[q] = worker[q]
    BY DEF TypeOK, Move
  <1>5. \A q \in Runs \ {r} : Holding(q)' = Holding(q) /\ Ended(q)' = Ended(q)
    BY <1>4 DEF Holding, Ended, In
  <1>6. \A q \in Runs \ {r} : Answered(q)' = Answered(q) /\ Started(q)' = Started(q)
    BY <1>4 DEF Answered, Started, In
  <1> QED BY <1>1, <1>2, <1>3, <1>5, <1>6

\* The count of a set of states, when a worker enters it or leaves it.
LEMMA MoveCount ==
  ASSUME TypeOK, NEW r \in Runs, NEW j \in Jobs, NEW s, Move(r, j, s), NEW S
  PROVE  Cardinality(In(r, S)') =
           IF s \in S
             THEN IF worker[r][j] \in S THEN Cardinality(In(r, S)) ELSE Cardinality(In(r, S)) + 1
             ELSE IF worker[r][j] \in S THEN Cardinality(In(r, S)) - 1 ELSE Cardinality(In(r, S))
  <1>1. j \in In(r, S) <=> worker[r][j] \in S
    BY DEF In
  <1>2. IsFiniteSet(In(r, S))
    BY InFinite
  <1>3. CASE s \in S
    <2>1. In(r, S)' = In(r, S) \cup {j}
      BY <1>3, MoveIn
    <2>2. Cardinality(In(r, S) \cup {j}) = IF j \in In(r, S) THEN Cardinality(In(r, S)) ELSE Cardinality(In(r, S)) + 1
      BY <1>2, FS_AddElement
    <2> QED BY <1>1, <1>3, <2>1, <2>2
  <1>4. CASE s \notin S
    <2>1. In(r, S)' = In(r, S) \ {j}
      BY <1>4, MoveIn
    <2>2. Cardinality(In(r, S) \ {j}) = IF j \in In(r, S) THEN Cardinality(In(r, S)) - 1 ELSE Cardinality(In(r, S))
      BY <1>2, FS_RemoveElement
    <2> QED BY <1>1, <1>4, <2>1, <2>2
  <1> QED BY <1>3, <1>4

-----------------------------------------------------------------------------
\* No request has been made.
LEMMA InitIInv == Init => IInv
  <1> SUFFICES ASSUME Init PROVE IInv
    OBVIOUS
  <1> USE PoolAssumption
  <1>1. TypeOK
    <2>1. /\ testRunning \in BOOLEAN /\ handler \in [Runs -> HandlerStates]
          /\ closed \in [Runs -> BOOLEAN]
      BY DEF Init, HandlerStates
    <2>2. /\ size \in [Runs -> 0 .. MaxProxies] /\ sem \in [Runs -> 0 .. Concurrency]
          /\ \A r \in Runs : spawned[r] \in 0 .. size[r] /\ collected[r] \in 0 .. spawned[r]
      BY DEF Init
    <2>3. worker \in [Runs -> [Jobs -> WorkerStates]]
      BY DEF Init, WorkerStates
    <2>4. out \in [Runs -> SUBSET Jobs] /\ seen \in [Runs -> SUBSET Jobs]
      BY DEF Init
    <2> QED BY <2>1, <2>2, <2>3, <2>4 DEF TypeOK
  <1>2. ASSUME NEW r \in Runs, NEW S, "none" \notin S PROVE In(r, S) = {}
    BY <1>2 DEF Init, In
  <1>3. \A r \in Runs : Holding(r) = {} /\ Ended(r) = {}
    BY <1>2 DEF Holding, Ended
  <1>4. Spawned
    <2>1. \A r \in Runs : Started(r) = {} /\ spawned[r] = 0 /\ ~closed[r]
      BY <1>2 DEF Init, Started
    <2>2. 1 .. 0 = {}
      OBVIOUS
    <2> QED BY <2>1, <2>2 DEF Init, Spawned
  <1>5. Counted
    BY <1>3, FS_EmptySet DEF Init, Counted
  <1>6. Accounted
    <2>1. \A r \in Runs : Answered(r) = {}
      BY <1>2 DEF Answered
    <2> QED BY <2>1 DEF Init, Accounted
  <1>7. ClosedLast /\ Served
    BY DEF Init, ClosedLast, Served, Reading
  <1> QED BY <1>1, <1>4, <1>5, <1>6, <1>7 DEF IInv

\* The handler moves no worker.
LEMMA RequestIInv ==
  ASSUME IInv, NEW r \in Runs, Request(r)
  PROVE  IInv'
  <1>1. UNCHANGED <<spawned, worker, sem, collected, closed, out, seen>> /\ handler[r] = "new"
    BY DEF Request, pool
  <1>2. \A q \in Runs : handler'[q] = IF q = r THEN handler'[r] ELSE handler[q]
    BY DEF IInv, TypeOK, Request, Become
  <1>3. handler'[r] \in {"refused", "reading"} /\ spawned[r] = 0 /\ ~closed[r]
    BY DEF IInv, TypeOK, Spawned, Request, Become
  <1>4. \A q \in Runs \ {r} : size'[q] = size[q]
    BY DEF IInv, TypeOK, Request
  <1>5. TypeOK'
    <2>1. size' \in [Runs -> 0 .. MaxProxies] /\ testRunning' \in BOOLEAN
      BY DEF IInv, TypeOK, Request
    <2>2. handler' \in [Runs -> HandlerStates]
      BY DEF IInv, TypeOK, Request, Become, HandlerStates
    <2>3. \A q \in Runs : spawned[q] \in 0 .. size'[q]
      BY <1>3, <1>4, <2>1, PoolAssumption DEF IInv, TypeOK
    <2> QED BY <1>1, <2>1, <2>2, <2>3 DEF IInv, TypeOK
  <1>6. Spawned' /\ Counted' /\ Accounted'
    BY <1>1, <1>2, <1>3 DEF IInv, Spawned, Counted, Accounted, In, Holding, Ended, Answered, Started
  <1>7. ClosedLast'
    BY <1>1, <1>2, <1>3, <1>4 DEF IInv, ClosedLast, Ended, In
  <1>8. Served'
    BY <1>2 DEF IInv, TypeOK, Served, Reading, Request, Become
  <1> QED BY <1>5, <1>6, <1>7, <1>8 DEF IInv

LEMMA ReceiveIInv ==
  ASSUME IInv, NEW r \in Runs, NEW j \in Jobs, Receive(r, j)
  PROVE  IInv'
  <1>1. UNCHANGED <<testRunning, size, spawned, worker, sem, collected, closed>> /\ handler[r] = "reading"
    BY DEF Receive, pool
  <1>2. \A q \in Runs : handler'[q] = IF q = r THEN handler'[r] ELSE handler[q]
    BY DEF IInv, TypeOK, Receive, Become
  <1>3. handler'[r] = "sending"
    BY <1>1 DEF IInv, TypeOK, Receive, Become
  <1>4. /\ out'[r] = out[r] \ {j} /\ seen'[r] = seen[r] \cup {j} /\ j \in out[r]
        /\ \A q \in Runs \ {r} : out'[q] = out[q] /\ seen'[q] = seen[q]
    BY DEF IInv, TypeOK, Receive
  <1>5. TypeOK'
    BY <1>1, <1>3 DEF IInv, TypeOK, Receive, Become, HandlerStates
  <1>6. Spawned' /\ Counted'
    BY <1>1, <1>2, <1>3 DEF IInv, Spawned, Counted, In, Holding, Ended, Started
  <1>7. Accounted'
    BY <1>1, <1>4 DEF IInv, Accounted, In, Answered
  <1>8. ClosedLast'
    BY <1>1, <1>2, <1>3 DEF IInv, ClosedLast, Ended, In
  <1>9. Served'
    BY <1>1, <1>2, <1>3 DEF IInv, Served, Reading
  <1> QED BY <1>5, <1>6, <1>7, <1>8, <1>9 DEF IInv

LEMMA HandlerEndIInv ==
  ASSUME IInv, NEW r \in Runs, ReceiveEnd(r) \/ WriteReturns(r) \/ HandlerReturn(r)
  PROVE  IInv'
  <1>1. UNCHANGED <<size, spawned, worker, sem, collected, closed, out, seen>>
    BY DEF ReceiveEnd, WriteReturns, HandlerReturn, pool
  <1>2. \A q \in Runs : handler'[q] = IF q = r THEN handler'[r] ELSE handler[q]
    BY DEF IInv, TypeOK, ReceiveEnd, WriteReturns, HandlerReturn, Become
  <1>3. /\ Reading(r)
        /\ \/ handler'[r] = "closing" /\ closed[r] /\ testRunning' = testRunning
           \/ handler'[r] = "finished" /\ handler[r] = "closing" /\ testRunning' = testRunning
           \/ handler'[r] \in {"reading", "left"} /\ testRunning' = testRunning
           \/ handler'[r] = "returned" /\ handler[r] = "finished" /\ testRunning' = FALSE
           \/ handler'[r] = "abandoned" /\ testRunning' = FALSE
    BY DEF IInv, TypeOK, ReceiveEnd, WriteReturns, HandlerReturn, Become, Reading
  <1>4. TypeOK'
    BY <1>1, <1>3 DEF IInv, TypeOK, ReceiveEnd, WriteReturns, HandlerReturn, Become, HandlerStates
  <1>5. Spawned' /\ Counted' /\ Accounted'
    <2>1. Counted' /\ Accounted'
      BY <1>1 DEF IInv, Counted, Accounted, In, Holding, Ended, Answered
    <2>2. Spawned'
      BY <1>1, <1>2, <1>3 DEF IInv, Spawned, In, Started
    <2> QED BY <2>1, <2>2
  <1>6. ClosedLast'
    BY <1>1, <1>2, <1>3 DEF IInv, ClosedLast, Ended, In
  <1>7. Served'
    BY <1>2, <1>3 DEF IInv, Served, Reading
  <1> QED BY <1>4, <1>5, <1>6, <1>7 DEF IInv

-----------------------------------------------------------------------------
\* The pool moves one worker, and leaves the handler alone: what is left to
\* show of each step is its own part of the invariant.
LEMMA SpawnIInv ==
  ASSUME IInv, NEW r \in Runs, Spawn(r)
  PROVE  IInv'
  <1> DEFINE j == spawned[r] + 1
  <1>1. j \in Jobs /\ spawned[r] \in Nat /\ j <= size[r]
    BY PoolAssumption DEF IInv, TypeOK, Spawn, Jobs
  <1>2. worker[r][j] = "none"
    <2>1. j \notin Started(r)
      BY <1>1 DEF IInv, Spawned
    <2> QED BY <1>1, <2>1 DEF In, Started, IInv, TypeOK, WorkerStates
  <1>3. /\ UNCHANGED <<testRunning, handler, size, collected, out, closed, seen>>
        /\ Move(r, j, "probing") /\ PoolAt(r) /\ sem[r] < Concurrency
        /\ spawned'[r] = j /\ sem'[r] = sem[r] + 1
        /\ \A q \in Runs \ {r} : spawned'[q] = spawned[q] /\ sem'[q] = sem[q]
    <2>1. spawned \in [Runs -> Nat] /\ sem \in [Runs -> 0 .. Concurrency]
      BY DEF IInv, TypeOK, Spawned
    <2>2. UNCHANGED <<testRunning, handler, size, collected, out, closed, seen>>
      BY DEF Spawn
    <2>3. Move(r, j, "probing") /\ PoolAt(r) /\ sem[r] < Concurrency
      BY DEF Spawn
    <2>4. spawned' = [spawned EXCEPT ![r] = j] /\ sem' = [sem EXCEPT ![r] = sem[r] + 1]
      BY DEF Spawn
    <2> HIDE DEF j
    <2> QED BY <2>1, <2>2, <2>3, <2>4
  <1>a. spawned' \in [Runs -> Nat]
    BY <1>1 DEF IInv, Spawned, Spawn
  <1> HIDE DEF j
  <1>4. TypeOK'
    <2>1. worker' \in [Runs -> [Jobs -> WorkerStates]]
      BY <1>1, <1>3 DEF IInv, TypeOK, Move, WorkerStates
    <2>2. sem' \in [Runs -> 0 .. Concurrency]
      BY <1>3, PoolAssumption DEF IInv, TypeOK, Spawn
    <2>3. \A q \in Runs : spawned'[q] \in 0 .. size[q] /\ collected[q] \in 0 .. spawned'[q]
      BY <1>1, <1>3 DEF IInv, TypeOK, j
    <2> QED BY <1>3, <2>1, <2>2, <2>3 DEF IInv, TypeOK
  <1>5. Spawned'
    <2>1. Started(r)' = Started(r) \cup {j}
      BY <1>1, <1>3, MoveSets DEF IInv
    <2>2. (1 .. spawned[r]) \cup {j} = 1 .. j
      BY <1>1 DEF j
    <2>3. \A q \in Runs \ {r} : Started(q)' = Started(q)
      BY <1>1, <1>3, MoveSets DEF IInv
    <2>4. handler[r] \notin {"new", "refused"}
      BY <1>3 DEF PoolAt, Accepted
    <2>5. Started(r)' = 1 .. spawned'[r]
      BY <1>3, <2>1, <2>2 DEF IInv, Spawned
    <2>6. \A q \in Runs \ {r} : Started(q)' = 1 .. spawned'[q]
      BY <1>3, <2>3 DEF IInv, Spawned
    <2>7. collected' \in [Runs -> Nat]
      BY <1>3 DEF IInv, Spawned
    <2> QED BY <1>3, <1>a, <2>4, <2>5, <2>6, <2>7 DEF IInv, Spawned
  <1>6. Counted'
    <2>1. Cardinality(Holding(r)') = Cardinality(Holding(r)) + 1
      BY <1>1, <1>2, <1>3, MoveCount DEF IInv, Holding
    <2>2. Cardinality(Ended(r)') = Cardinality(Ended(r))
      BY <1>1, <1>2, <1>3, MoveCount DEF IInv, Ended
    <2>3. \A q \in Runs \ {r} : Holding(q)' = Holding(q) /\ Ended(q)' = Ended(q)
      BY <1>1, <1>3, MoveSets DEF IInv
    <2> QED BY <1>3, <2>1, <2>2, <2>3 DEF IInv, Counted
  <1>7. Accounted'
    <2>1. \A q \in Runs : Answered(q)' = Answered(q)
      <3>1. j \notin Answered(r)
        BY <1>2 DEF In, Answered
      <3> QED BY <1>1, <1>3, <3>1, MoveSets DEF IInv
    <2> QED BY <1>3, <2>1 DEF IInv, Accounted
  <1>8. ClosedLast' /\ Served'
    <2>1. ~closed[r] /\ \A q \in Runs \ {r} : Ended(q)' = Ended(q)
      BY <1>1, <1>3, MoveSets DEF IInv, PoolAt
    <2> QED BY <1>3, <2>1 DEF IInv, ClosedLast, Served, Reading
  <1> QED BY <1>4, <1>5, <1>6, <1>7, <1>8 DEF IInv

\* A result enters the channel when its worker says so.
LEMMA SendIInv ==
  ASSUME IInv, NEW r \in Runs, NEW j \in Jobs, Send(r, j)
  PROVE  IInv'
  <1>1. /\ UNCHANGED <<testRunning, handler, size, spawned, sem, collected, closed, seen>>
        /\ Move(r, j, "sent") /\ worker[r][j] = "probing"
        /\ out'[r] = out[r] \cup {j} /\ \A q \in Runs \ {r} : out'[q] = out[q]
    BY DEF IInv, TypeOK, Send, At
  <1>2. TypeOK'
    <2>1. worker' \in [Runs -> [Jobs -> WorkerStates]]
      BY <1>1 DEF IInv, TypeOK, Move, WorkerStates
    <2>2. out' \in [Runs -> SUBSET Jobs]
      BY DEF IInv, TypeOK, Send
    <2> QED BY <1>1, <2>1, <2>2 DEF IInv, TypeOK
  <1>3. /\ j \in Started(r) /\ j \notin Answered(r)
        /\ j \notin Ended(r)
    BY <1>1 DEF In, Started, Answered, Ended
  <1>4. Spawned'
    <2>1. \A q \in Runs : Started(q)' = Started(q)
      BY <1>1, <1>3, MoveSets DEF IInv
    <2> QED BY <1>1, <2>1 DEF IInv, Spawned
  <1>5. Counted'
    <2>1. Cardinality(Holding(r)') = Cardinality(Holding(r)) /\ Cardinality(Ended(r)') = Cardinality(Ended(r))
      BY <1>1, MoveCount DEF IInv, Holding, Ended
    <2>2. \A q \in Runs \ {r} : Holding(q)' = Holding(q) /\ Ended(q)' = Ended(q)
      BY <1>1, MoveSets DEF IInv
    <2> QED BY <1>1, <2>1, <2>2 DEF IInv, Counted
  <1>6. Accounted'
    <2>1. /\ Answered(r)' = Answered(r) \cup {j}
          /\ \A q \in Runs \ {r} : Answered(q)' = Answered(q)
      BY <1>1, MoveSets DEF IInv
    <2>2. j \notin out[r] \cup seen[r]
      BY <1>3 DEF IInv, Accounted
    <2> QED BY <1>1, <2>1, <2>2 DEF IInv, Accounted
  <1>7. ClosedLast' /\ Served'
    <2>1. \A q \in Runs : Ended(q)' = Ended(q)
      BY <1>1, <1>3, MoveSets DEF IInv
    <2> QED BY <1>1, <2>1 DEF IInv, ClosedLast, Served, Reading
  <1> QED BY <1>2, <1>4, <1>5, <1>6, <1>7 DEF IInv

\* A worker frees its token when its result is sent.
LEMMA ReleaseIInv ==
  ASSUME IInv, NEW r \in Runs, NEW j \in Jobs, Release(r, j)
  PROVE  IInv'
  <1>1. /\ UNCHANGED <<testRunning, handler, size, spawned, collected, out, closed, seen>>
        /\ Move(r, j, "released") /\ worker[r][j] = "sent"
        /\ sem'[r] = sem[r] - 1 /\ \A q \in Runs \ {r} : sem'[q] = sem[q]
    BY DEF IInv, TypeOK, Release, At
  <1>2. /\ j \in Started(r) /\ j \in Answered(r)
        /\ j \notin Ended(r)
    BY <1>1 DEF In, Started, Answered, Ended
  <1>3. Counted'
    <2>1. Cardinality(Holding(r)') = Cardinality(Holding(r)) - 1 /\ Cardinality(Ended(r)') = Cardinality(Ended(r))
      BY <1>1, MoveCount DEF IInv, Holding, Ended
    <2>2. \A q \in Runs \ {r} : Holding(q)' = Holding(q) /\ Ended(q)' = Ended(q)
      BY <1>1, MoveSets DEF IInv
    <2> QED BY <1>1, <2>1, <2>2 DEF IInv, Counted
  <1>4. TypeOK'
    <2>1. worker' \in [Runs -> [Jobs -> WorkerStates]]
      BY <1>1 DEF IInv, TypeOK, Move, WorkerStates
    <2>2. sem'[r] \in Nat
      <3>2. In(r, {"probing", "sent"})' = In(r, {"probing", "sent"}) \ {j}
        <4>1. In(r, {"probing", "sent"})' = IF "released" \in {"probing", "sent"}
                THEN In(r, {"probing", "sent"}) \cup {j} ELSE In(r, {"probing", "sent"}) \ {j}
          BY <1>1, MoveIn DEF IInv
        <4> QED BY <4>1
      <3>3. IsFiniteSet(In(r, {"probing", "sent"}))
        BY InFinite
      <3>4. Cardinality(In(r, {"probing", "sent"}) \ {j}) \in Nat
        BY <3>3, FS_RemoveElement, FS_CardinalityType
      <3> QED BY <1>3, <3>2, <3>4 DEF Counted, Holding
    <2>3. sem' \in [Runs -> 0 .. Concurrency]
      BY <1>1, <2>2, PoolAssumption DEF IInv, TypeOK, Release
    <2> QED BY <1>1, <2>1, <2>3 DEF IInv, TypeOK
  <1>5. Spawned' /\ Accounted' /\ ClosedLast' /\ Served'
    <2>1. \A q \in Runs : /\ Started(q)' = Started(q)
                          /\ Answered(q)' = Answered(q)
                          /\ Ended(q)' = Ended(q)
      <3>1. /\ Ended(r)' = Ended(r) \ {j}
            /\ Answered(r)' = Answered(r) \cup {j}
            /\ Started(r)' = Started(r) \cup {j}
        BY <1>1, MoveSets DEF IInv
      <3>2. \A q \in Runs \ {r} : /\ Ended(q)' = Ended(q)
                                  /\ Answered(q)' = Answered(q) /\ Started(q)' = Started(q)
        BY <1>1, MoveSets DEF IInv
      <3>3. Ended(r)' = Ended(r) /\ Answered(r)' = Answered(r) /\ Started(r)' = Started(r)
        BY <1>2, <3>1
      <3> QED BY <3>2, <3>3
    <2> QED BY <1>1, <2>1 DEF IInv, Spawned, Accounted, ClosedLast, Served, Reading
  <1> QED BY <1>3, <1>4, <1>5 DEF IInv

\* The collecting loop counts no more signals than there are workers.
LEMMA CollectIInv ==
  ASSUME IInv, NEW r \in Runs, NEW j \in Jobs, Collect(r, j)
  PROVE  IInv'
  <1>1. /\ UNCHANGED <<testRunning, handler, size, spawned, sem, out, closed, seen>>
        /\ Move(r, j, "ended") /\ worker[r][j] = "released" /\ ~closed[r]
        /\ collected'[r] = collected[r] + 1 /\ \A q \in Runs \ {r} : collected'[q] = collected[q]
    <2>1. collected \in [Runs -> Nat]
      BY DEF IInv, Spawned
    <2>2. collected' = [collected EXCEPT ![r] = @ + 1]
      BY DEF Collect
    <2>3. \A q \in Runs : collected'[q] = IF q = r THEN collected[q] + 1 ELSE collected[q]
      BY <2>1, <2>2
    <2>4. /\ UNCHANGED <<testRunning, handler, size, spawned, sem, out, closed, seen>>
          /\ Move(r, j, "ended") /\ worker[r][j] = "released" /\ ~closed[r]
      BY DEF Collect, At, PoolAt
    <2> QED BY <2>3, <2>4
  <1>a. collected' \in [Runs -> Nat]
    BY DEF IInv, Spawned, Collect
  <1>2. j \in Started(r) /\ j \in Answered(r)
    BY <1>1 DEF In, Started, Answered
  <1>3. Counted'
    <2>1. Cardinality(Holding(r)') = Cardinality(Holding(r)) /\ Cardinality(Ended(r)') = Cardinality(Ended(r)) + 1
      BY <1>1, MoveCount DEF IInv, Holding, Ended
    <2>2. \A q \in Runs \ {r} : Holding(q)' = Holding(q) /\ Ended(q)' = Ended(q)
      BY <1>1, MoveSets DEF IInv
    <2> QED BY <1>1, <2>1, <2>2 DEF IInv, Counted
  <1>4. \A q \in Runs : /\ Started(q)' = Started(q)
                        /\ Answered(q)' = Answered(q)
    <2>1. \A q \in Runs \ {r} : Started(q)' = Started(q) /\ Answered(q)' = Answered(q)
      BY <1>1, MoveSets DEF IInv
    <2>2. Started(r)' = Started(r) \cup {j} /\ Answered(r)' = Answered(r) \cup {j}
      BY <1>1, MoveSets DEF IInv
    <2> QED BY <1>2, <2>1, <2>2
  <1>5. Spawned' /\ Accounted'
    BY <1>1, <1>a, <1>4 DEF IInv, Spawned, Accounted
  <1>6. TypeOK'
    <2>1. worker' \in [Runs -> [Jobs -> WorkerStates]]
      BY <1>1 DEF IInv, TypeOK, Move, WorkerStates
    <2>2. collected'[r] \in 0 .. spawned[r]
      <3>1. spawned[r] \in Nat /\ collected[r] \in Nat
        BY DEF IInv, TypeOK
      <3>2. IsFiniteSet(1 .. spawned[r]) /\ Cardinality(1 .. spawned[r]) = spawned[r]
        <4>1. 1 \in Int /\ spawned[r] \in Int
          BY <3>1
        <4>2. IsFiniteSet(1 .. spawned[r]) /\ Cardinality(1 .. spawned[r]) = IF 1 > spawned[r] THEN 0 ELSE spawned[r] - 1 + 1
          BY <4>1, FS_Interval
        <4> QED BY <3>1, <4>2
      <3>3. Ended(r)' \subseteq 1 .. spawned[r]
        <4>1. Started(r) = 1 .. spawned[r]
          BY DEF IInv, Spawned
        <4>2. Ended(r)' \subseteq Started(r)'
          BY DEF Ended, Started, In
        <4> QED BY <1>4, <4>1, <4>2
      <3>4. Cardinality(Ended(r)') <= spawned[r]
        BY <3>2, <3>3, FS_Subset
      <3> QED BY <1>1, <1>3, <3>1, <3>4 DEF Counted
    <2> QED BY <1>1, <2>1, <2>2 DEF IInv, TypeOK
  <1>7. ClosedLast' /\ Served'
    <2>1. \A q \in Runs \ {r} : Ended(q)' = Ended(q)
      BY <1>1, MoveSets DEF IInv
    <2> QED BY <1>1, <2>1 DEF IInv, ClosedLast, Served, Reading
  <1> QED BY <1>3, <1>5, <1>6, <1>7 DEF IInv

\* The channel is closed when as many signals as workers have been counted,
\* hence all of them.
LEMMA CloseIInv ==
  ASSUME IInv, NEW r \in Runs, Close(r)
  PROVE  IInv'
  <1>1. /\ UNCHANGED <<testRunning, handler, size, spawned, worker, sem, collected, out, seen>>
        /\ spawned[r] = size[r] /\ collected[r] = size[r] /\ PoolAt(r)
        /\ closed' = [closed EXCEPT ![r] = TRUE]
    BY DEF Close
  <1>2. Ended(r) = 1 .. size[r]
    <2>1. size[r] \in Nat
      BY <1>1 DEF IInv, TypeOK
    <2>2. IsFiniteSet(1 .. size[r]) /\ Cardinality(1 .. size[r]) = size[r]
      BY <2>1, FS_Interval
    <2>3. Ended(r) \subseteq 1 .. size[r]
      <3>1. Started(r) = 1 .. size[r]
        BY <1>1 DEF IInv, Spawned
      <3>2. Ended(r) \subseteq Started(r)
        BY DEF Ended, Started, In
      <3> QED BY <3>1, <3>2
    <2>4. Cardinality(Ended(r)) = size[r]
      BY <1>1 DEF IInv, Counted
    <2> QED BY <2>2, <2>3, <2>4, FS_Subset
  <1>3. TypeOK'
    BY <1>1 DEF IInv, TypeOK
  <1>4. Spawned' /\ Counted' /\ Accounted' /\ Served'
    <2>1. Counted' /\ Accounted' /\ Served'
      BY <1>1 DEF IInv, Counted, Accounted, Served, Reading, In, Holding, Ended, Answered
    <2>2. Spawned'
      BY <1>1 DEF IInv, TypeOK, Spawned, In, Started, PoolAt, Accepted
    <2> QED BY <2>1, <2>2
  <1>5. ClosedLast'
    <2>1. \A q \in Runs : Ended(q)' = Ended(q)
      BY <1>1 DEF Ended, In
    <2> QED BY <1>1, <1>2, <2>1 DEF IInv, TypeOK, ClosedLast
  <1> QED BY <1>3, <1>4, <1>5 DEF IInv

\* The invariant is inductive.
LEMMA NextIInv == IInv /\ [Next]_vars => IInv'
  <1> SUFFICES ASSUME IInv, [Next]_vars PROVE IInv'
    OBVIOUS
  <1>1. CASE UNCHANGED vars
    <2>1. TypeOK' /\ Spawned' /\ Served'
      BY <1>1 DEF vars, IInv, TypeOK, Spawned, Served, Reading, In, Started
    <2>2. Counted' /\ Accounted'
      BY <1>1 DEF vars, IInv, Counted, Accounted, In, Holding, Ended, Answered
    <2>3. ClosedLast'
      BY <1>1 DEF vars, IInv, ClosedLast, In, Ended
    <2> QED BY <2>1, <2>2, <2>3 DEF IInv
  <1>2. CASE Next
    BY <1>2, RequestIInv, ReceiveIInv, HandlerEndIInv, SpawnIInv, SendIInv, ReleaseIInv, CollectIInv, CloseIInv
       DEF Next, HandlerStep, WorkerStep, PoolStep
  <1> QED BY <1>1, <1>2

LEMMA Invariance == Spec => []IInv
  BY InitIInv, NextIInv, PTL DEF Spec

-----------------------------------------------------------------------------
\* A run has never more probes under way than its concurrency: a worker that
\* probes holds one of the tokens of the semaphore.
THEOREM PoolIsBounded == Spec => []PoolBounded
  <1>1. IInv => PoolBounded
    <2> SUFFICES ASSUME IInv, NEW r \in Runs PROVE Cardinality(Probing(r)) <= Concurrency
      BY DEF IInv, PoolBounded
    <2>1. Probing(r) \subseteq Holding(r)
      BY DEF Probing, Holding, In, At
    <2>2. IsFiniteSet(Holding(r))
      BY InFinite DEF Holding
    <2>3. IsFiniteSet(Probing(r)) /\ Cardinality(Probing(r)) <= Cardinality(Holding(r))
      BY <2>1, <2>2, FS_Subset
    <2>4. Cardinality(Probing(r)) \in Nat /\ Cardinality(Holding(r)) \in Nat
      BY <2>2, <2>3, FS_CardinalityType
    <2>5. Cardinality(Holding(r)) <= Concurrency
      BY PoolAssumption DEF IInv, TypeOK, Counted
    <2> QED BY <2>3, <2>4, <2>5, PoolAssumption
  <1> QED BY Invariance, <1>1, PTL

\* A worker that probes or may still send is one whose signal has not been
\* counted: the channel is closed after every result, and none is lost.
LEMMA ClosedIsOver ==
  ASSUME IInv, NEW r \in Runs, closed[r]
  PROVE  Probing(r) = {} /\ out[r] \cup seen[r] = 1 .. size[r]
  <1>1. Ended(r) = 1 .. size[r] /\ Started(r) = 1 .. spawned[r]
    BY DEF IInv, ClosedLast, Spawned
  <1>2. spawned[r] \in 0 .. size[r] /\ size[r] \in Nat
    BY PoolAssumption DEF IInv, TypeOK
  <1>3. Started(r) \subseteq Ended(r)
    BY <1>1, <1>2
  <1>4. \A j \in Started(r) : worker[r][j] = "ended"
    BY <1>3 DEF Ended, In
  <1>5. Probing(r) = {}
    BY <1>4 DEF Probing, At, Started, In
  <1>6. Answered(r) = Ended(r)
    BY <1>4 DEF Answered, Ended, Started, In
  <1>7. out[r] \cup seen[r] = Answered(r)
    BY DEF IInv, Accounted
  <1> QED BY <1>1, <1>5, <1>6, <1>7

\* No worker sends on the closed channel, and a handler that reads to the end
\* has every result once.
THEOREM ResultsComplete == Spec => []ClosedIsComplete
  <1>1. IInv => ClosedIsComplete
    BY ClosedIsOver DEF ClosedIsComplete, IInv, Accounted
  <1> QED BY Invariance, <1>1, PTL

\* Two pools overlap only when a client has left: any other handler still
\* reads, and only one does, or has seen the end of its pool.
THEOREM OverlapOnlyByLeavers == Spec => []OverlapNeedsALeaver
  <1>1. ASSUME IInv, NEW r \in Runs, Probing(r) # {}
        PROVE  handler[r] \in {"reading", "sending", "left", "abandoned"}
    <2>1. ~closed[r]
      BY <1>1, ClosedIsOver
    <2>2. handler[r] \notin {"closing", "finished", "returned"}
      BY <1>1, <2>1 DEF IInv, ClosedLast
    <2>3. handler[r] \notin {"new", "refused"}
      <3>1. Probing(r) \subseteq Started(r)
        BY DEF Probing, Started, In, At
      <3>2. spawned[r] = 0 => Started(r) = {}
        <4>1. 1 .. 0 = {}
          OBVIOUS
        <4> QED BY <1>1, <4>1 DEF IInv, Spawned
      <3> QED BY <1>1, <3>1, <3>2 DEF IInv, Spawned
    <2> QED BY <1>1, <2>2, <2>3 DEF IInv, TypeOK, HandlerStates
  <1>2. ASSUME IInv PROVE OneServed
    <2> DEFINE R == {r \in Runs : Reading(r)}
    <2>1. \A r, s \in R : r = s
      BY <1>2 DEF IInv, Served
    <2>2. Cardinality(R) <= 1
      <3>1. CASE R = {}
        BY <3>1, FS_EmptySet
      <3>2. CASE R # {}
        <4>1. PICK r : r \in R
          BY <3>2
        <4>2. R = {r}
          BY <2>1, <4>1
        <4> QED BY <4>2, FS_Singleton
      <3> QED BY <3>1, <3>2
    <2> QED BY <1>2, <2>2 DEF OneServed, IInv, Served
  <1>3. IInv => OverlapNeedsALeaver
    <2> SUFFICES ASSUME IInv PROVE OverlapNeedsALeaver
      OBVIOUS
    <2>1. ASSUME NEW r \in Runs, NEW s \in Runs, r # s, Probing(r) # {}, Probing(s) # {}
          PROVE  \E t \in {r, s} : handler[t] \in {"left", "abandoned"}
      <3>1. /\ handler[r] \in {"reading", "sending", "left", "abandoned"}
            /\ handler[s] \in {"reading", "sending", "left", "abandoned"}
        BY <1>1, <2>1
      <3>2. ~(handler[r] \in {"reading", "sending"} /\ handler[s] \in {"reading", "sending"})
        BY <2>1 DEF IInv, Served, Reading
      <3> QED BY <3>1, <3>2
    <2> QED BY <1>2, <2>1 DEF OverlapNeedsALeaver
  <1> QED BY Invariance, <1>3, PTL

-----------------------------------------------------------------------------
(* One latency measurement (module Probe), which is one step of a worker   *)
(* above.  Its variables are its own.                                      *)

\* What a probe holds at each step, and what it has deferred by then.
Held(q) ==
  /\ step[q] = "new" => port[q] = Nobody
  /\ step[q] \in {"ported", "created", "filed", "launched", "requesting"} => port[q] # Nobody
  /\ step[q] \in {"new", "ported"} =>
       file[q] = "none" /\ child[q] = "none" /\ deferred[q] = <<>>
  /\ step[q] \in {"created", "filed"} => child[q] = "none" /\ deferred[q] = <<"Remove">>
  /\ step[q] = "filed" => file[q] = "config"
  /\ step[q] \in {"launched", "requesting"} =>
       file[q] = "config" /\ child[q] # "none" /\ deferred[q] = <<"Kill", "Remove">>
  /\ step[q] = "leaving" =>
       \/ deferred[q] = <<>> /\ file[q] = "none" /\ child[q] \in {"none", "dead"}
       \/ deferred[q] = <<"Remove">> /\ child[q] \in {"none", "dead"}
       \/ deferred[q] = <<"Kill", "Remove">> /\ file[q] = "config" /\ child[q] # "none"
  /\ step[q] = "returned" =>
       deferred[q] = <<>> /\ file[q] = "none" /\ child[q] \in {"none", "dead"}

MayListen(r) == MayBind(r) \/ child[r] = "bound"

\* A probe that may still bind the port another listens on, or may come to listen
\* on, is in shared.
SharersKnow ==
  \A q, r \in Probes :
    q # r /\ port[q] = port[r] /\ port[q] # Nobody /\ MayBind(q) /\ MayListen(r) => q \in shared

OneListener ==
  \A q, r \in Probes : child[q] = "bound" /\ child[r] = "bound" /\ port[q] = port[r] => q = r

\* The inductive invariant: Held is what LeavesNothing follows from, and the other
\* two are what MeasuresItsProxy needs of the ports.
ProbeInv == ProbeTypeOK /\ (\A q \in Probes : Held(q)) /\ SharersKnow /\ OneListener

-----------------------------------------------------------------------------
\* Nothing has been handed out at first.
LEMMA InitProbe == ProbeInit => ProbeInv
  <1> SUFFICES ASSUME ProbeInit PROVE ProbeInv
    OBVIOUS
  <1>1. ProbeTypeOK
    <2>1. <<>> \in Seq({"Remove", "Kill"})
      OBVIOUS
    <2> QED BY <2>1 DEF ProbeInit, ProbeTypeOK, Steps, ChildStates
  <1> QED BY <1>1 DEF ProbeInit, ProbeInv, Held, SharersKnow, OneListener

\* A step of one probe keeps what the others hold.
LEMMA OthersHold ==
  ASSUME ProbeInv, NEW q \in Probes, ProbeStep(q) \/ Bind(q) \/ Crash(q)
  PROVE  \A r \in Probes \ {q} :
           /\ Held(r)'
           /\ port'[r] = port[r] /\ step'[r] = step[r] /\ child'[r] = child[r]
  <1>1. \A r \in Probes \ {q} : step'[r] = step[r] /\ port'[r] = port[r] /\ child'[r] = child[r]
    BY DEF ProbeInv, ProbeTypeOK, ProbeStep, FreePort, Take, CreateTemp, WriteConfig, Launch,
           WaitPort, Answer, Fail, RunDeferred, Return, Bind, Crash, Goto
  <1>2. \A r \in Probes \ {q} : file'[r] = file[r] /\ deferred'[r] = deferred[r]
    <2>1. \A r \in Probes \ {q} : file'[r] = file[r]
      BY DEF ProbeInv, ProbeTypeOK, ProbeStep, FreePort, Take, CreateTemp, WriteConfig, Launch,
             WaitPort, Answer, Fail, RunDeferred, Return, Bind, Crash
    <2>2. \A r \in Probes \ {q} : deferred'[r] = deferred[r]
      BY DEF ProbeInv, ProbeTypeOK, ProbeStep, FreePort, Take, CreateTemp, WriteConfig, Launch,
             WaitPort, Answer, Fail, RunDeferred, Return, Bind, Crash, Defer
    <2> QED BY <2>1, <2>2
  <1> QED BY <1>1, <1>2 DEF ProbeInv, Held

\* A probe that takes no port and binds none leaves no more to bind or listen.
LEMMA FewerListen ==
  ASSUME ProbeInv, UNCHANGED <<port, shared>>,
         \A q \in Probes : /\ MayBind(q)' => MayBind(q)
                           /\ MayListen(q)' => MayListen(q)
                           /\ child'[q] = "bound" => child[q] = "bound"
  PROVE  SharersKnow' /\ OneListener'
  BY DEF ProbeInv, SharersKnow, OneListener

\* freePort: whoever holds the port and has not bound it becomes a sharer, and
\* nobody has bound it.
LEMMA FreePortProbe ==
  ASSUME ProbeInv, NEW q \in Probes, FreePort(q)
  PROVE  ProbeInv'
  <1>1. PICK p \in Ports : Listeners(p) = {} /\ Take(q, p)
    BY DEF FreePort
  <1>2. /\ step[q] = "new" /\ port[q] = Nobody /\ child[q] = "none" /\ p # Nobody
        /\ file[q] = "none" /\ deferred[q] = <<>>
    BY NobodyAssumption DEF FreePort, ProbeInv, Held
  <1>3. ProbeTypeOK'
    BY <1>1, <1>2 DEF ProbeInv, ProbeTypeOK, Take, Goto, Steps, Expecting
  <1>4. port'[q] = p /\ step'[q] = "ported" /\ UNCHANGED <<file, child, deferred>>
    BY <1>1 DEF ProbeInv, ProbeTypeOK, Take, Goto
  <1>5. \A r \in Probes \ {q} : Held(r)' /\ port'[r] = port[r] /\ step'[r] = step[r]
    BY OthersHold DEF ProbeStep
  <1>6. \A r \in Probes : Held(r)'
    BY <1>2, <1>4, <1>5 DEF Held
  <1>7. SharersKnow'
    <2> SUFFICES ASSUME NEW a \in Probes, NEW b \in Probes, a # b, port'[a] = port'[b],
                        port'[a] # Nobody, MayBind(a)', MayListen(b)'
                 PROVE  a \in shared'
      BY DEF SharersKnow
    <2>1. \A r \in Probes \ {q} : (MayBind(r)' <=> MayBind(r)) /\ (MayListen(r)' <=> MayListen(r))
      BY <1>4, <1>5 DEF MayBind, MayListen
    <2>2. \A r \in Probes \ {q} : port[r] = p /\ MayListen(r) => r \in Expecting(p)
      BY <1>1 DEF Listeners, Expecting, MayListen
    <2>3. /\ shared \subseteq shared'
          /\ Expecting(p) # {} => q \in shared' /\ Expecting(p) \subseteq shared'
      BY <1>1 DEF Take
    <2>4. CASE a # q /\ b # q
      BY <1>5, <2>1, <2>3, <2>4 DEF ProbeInv, SharersKnow
    <2>5. CASE a = q
      BY <1>4, <1>5, <2>1, <2>2, <2>3, <2>5
    <2>6. CASE b = q
      <3>1. a \in Expecting(p)
        BY <1>4, <1>5, <2>1, <2>6 DEF Expecting
      <3> QED BY <2>3, <3>1
    <2> QED BY <2>4, <2>5, <2>6
  <1>8. OneListener'
    BY <1>2, <1>4, <1>5 DEF ProbeInv, OneListener
  <1> QED BY <1>3, <1>6, <1>7, <1>8 DEF ProbeInv

\* What is deferred last comes first.
LEMMA KillFirst == <<"Kill">> \o <<"Remove">> = <<"Kill", "Remove">>
  <1> DEFINE Calls == {"Remove", "Kill"}
             a == <<"Kill">>
             b == <<"Remove">>
             c == <<"Kill", "Remove">>
  <1>1. /\ a \in Seq(Calls) /\ b \in Seq(Calls) /\ c \in Seq(Calls)
        /\ Len(a) = 1 /\ Len(b) = 1 /\ Len(c) = 2
        /\ a[1] = c[1] /\ b[1] = c[2]
    OBVIOUS
  <1> HIDE DEF Calls, a, b, c
  <1>2. a \o b \in Seq(Calls)
    BY <1>1, ConcatProperties
  <1>3. Len(a \o b) = Len(a) + Len(b)
    BY <1>1, ConcatProperties
  <1>4. Len(a) + Len(b) = 2
    BY <1>1
  <1>5. (a \o b)[1] = c[1] /\ (a \o b)[2] = c[2]
    BY <1>1, ConcatProperties
  <1>6. \A i \in 1 .. 2 : i = 1 \/ i = 2
    OBVIOUS
  <1>7. a \o b = c
    BY <1>1, <1>2, <1>3, <1>4, <1>5, <1>6, SeqEqual
  <1> QED BY <1>7 DEF a, b, c

\* The steps on the way to the answer.
LEMMA SetUpProbe ==
  ASSUME ProbeInv, NEW q \in Probes, CreateTemp(q) \/ WriteConfig(q) \/ Launch(q)
  PROVE  ProbeInv'
  <1>1. /\ <<"Remove">> \in Seq({"Remove", "Kill"})
        /\ <<"Kill", "Remove">> \in Seq({"Remove", "Kill"})
        /\ <<"Remove">> \o <<>> = <<"Remove">>
        /\ <<"Kill">> \o <<"Remove">> = <<"Kill", "Remove">>
    <2>1. <<"Remove">> \in Seq({"Remove", "Kill"}) /\ <<"Kill", "Remove">> \in Seq({"Remove", "Kill"})
      OBVIOUS
    <2>2. <<"Remove">> \o <<>> = <<"Remove">>
      BY <2>1, ConcatEmptySeq
    <2> QED BY <2>1, <2>2, KillFirst
  <1>2. /\ \/ /\ step[q] = "ported" /\ step'[q] = "created" /\ file'[q] = "empty"
              /\ child'[q] = child[q] /\ deferred' = [deferred EXCEPT ![q] = <<"Remove">>]
           \/ /\ step[q] = "created" /\ step'[q] = "filed" /\ file'[q] = "config"
              /\ child'[q] = child[q] /\ deferred' = deferred
           \/ /\ step[q] = "filed" /\ step'[q] = "launched" /\ file'[q] = file[q]
              /\ child'[q] = "up" /\ deferred' = [deferred EXCEPT ![q] = <<"Kill", "Remove">>]
        /\ UNCHANGED <<port, via, shared>>
    BY <1>1 DEF ProbeInv, ProbeTypeOK, Held, CreateTemp, WriteConfig, Launch, Goto, Defer
  <1>3. deferred' \in [Probes -> Seq({"Remove", "Kill"})]
    BY <1>1, <1>2 DEF ProbeInv, ProbeTypeOK
  <1>4. ProbeTypeOK'
    <2>1. step' \in [Probes -> Steps]
      BY DEF ProbeInv, ProbeTypeOK, CreateTemp, WriteConfig, Launch, Goto, Steps
    <2>2. file' \in [Probes -> {"none", "empty", "config"}]
      BY DEF ProbeInv, ProbeTypeOK, CreateTemp, WriteConfig, Launch
    <2>3. child' \in [Probes -> ChildStates]
      BY DEF ProbeInv, ProbeTypeOK, CreateTemp, WriteConfig, Launch, ChildStates
    <2> QED BY <1>2, <1>3, <2>1, <2>2, <2>3 DEF ProbeInv, ProbeTypeOK
  <1>5. \A r \in Probes \ {q} :
          Held(r)' /\ port'[r] = port[r] /\ step'[r] = step[r] /\ child'[r] = child[r]
    BY OthersHold DEF ProbeStep
  <1>6. Held(q)'
    BY <1>2 DEF ProbeInv, ProbeTypeOK, Held
  <1>7. SharersKnow' /\ OneListener'
    <2>1. MayBind(q) /\ child'[q] # "bound"
      BY <1>2 DEF ProbeInv, Held, MayBind
    <2> QED BY <1>2, <1>5, <2>1, FewerListen DEF MayBind, MayListen
  <1> QED BY <1>4, <1>5, <1>6, <1>7 DEF ProbeInv

\* The steps that set nothing up: waiting, the answer, the early returns.
LEMMA GoOnProbe ==
  ASSUME ProbeInv, NEW q \in Probes, WaitPort(q) \/ Answer(q) \/ Fail(q) \/ Return(q)
  PROVE  ProbeInv'
  <1>1. UNCHANGED <<port, file, child, deferred, shared>>
    BY DEF WaitPort, Answer, Fail, Return
  <1>2. ProbeTypeOK'
    <2>1. step' \in [Probes -> Steps]
      BY DEF ProbeInv, ProbeTypeOK, WaitPort, Answer, Fail, Return, Goto, Steps
    <2>2. via' \in [Probes -> Probes \cup {Nobody}]
      BY DEF ProbeInv, ProbeTypeOK, WaitPort, Answer, Fail, Return, Listeners
    <2> QED BY <1>1, <2>1, <2>2 DEF ProbeInv, ProbeTypeOK
  <1>3. \/ step[q] = "launched" /\ step'[q] = "requesting"
        \/ step[q] \in Steps \ {"leaving", "returned", "lost"} /\ step'[q] = "leaving"
        \/ step[q] = "leaving" /\ deferred[q] = <<>> /\ step'[q] = "returned"
    BY DEF ProbeInv, ProbeTypeOK, WaitPort, Answer, Fail, Return, Goto, Steps
  <1>4. \A r \in Probes \ {q} : Held(r)' /\ step'[r] = step[r]
    BY OthersHold DEF ProbeStep
  <1>5. Held(q)'
    <2>1. <<>> # <<"Remove">> /\ <<>> # <<"Kill", "Remove">>
      OBVIOUS
    <2> QED BY <1>1, <1>3, <2>1 DEF ProbeInv, Held, Steps
  <1>6. SharersKnow' /\ OneListener'
    BY <1>1, <1>3, <1>4, FewerListen DEF MayBind, MayListen
  <1> QED BY <1>2, <1>4, <1>5, <1>6 DEF ProbeInv

\* A deferred call undoes the last thing that was set up.
LEMMA UndoProbe ==
  ASSUME ProbeInv, NEW q \in Probes, RunDeferred(q)
  PROVE  ProbeInv'
  <1>1. /\ Head(<<"Kill", "Remove">>) = "Kill" /\ Tail(<<"Kill", "Remove">>) = <<"Remove">>
        /\ Head(<<"Remove">>) = "Remove" /\ Tail(<<"Remove">>) = <<>>
        /\ <<"Remove">> \in Seq({"Remove", "Kill"}) /\ <<>> \in Seq({"Remove", "Kill"})
    OBVIOUS
  <1>2. /\ UNCHANGED <<step, port, via, shared>> /\ step[q] = "leaving"
        /\ \/ /\ deferred[q] = <<"Kill", "Remove">>
              /\ deferred' = [deferred EXCEPT ![q] = <<"Remove">>]
              /\ child' = [child EXCEPT ![q] = "dead"] /\ file' = file
           \/ /\ deferred[q] = <<"Remove">>
              /\ deferred' = [deferred EXCEPT ![q] = <<>>]
              /\ child' = child /\ file' = [file EXCEPT ![q] = "none"]
              /\ child[q] \in {"none", "dead"}
    BY <1>1 DEF ProbeInv, ProbeTypeOK, Held, RunDeferred
  <1>3. ProbeTypeOK'
    BY <1>1, <1>2 DEF ProbeInv, ProbeTypeOK, ChildStates
  <1>4. \A r \in Probes \ {q} : Held(r)' /\ child'[r] = child[r]
    BY OthersHold DEF ProbeStep
  <1>5. Held(q)'
    BY <1>2 DEF ProbeInv, ProbeTypeOK, Held
  <1>6. SharersKnow' /\ OneListener'
    <2>1. child'[q] \in {"none", "dead"}
      BY <1>2 DEF ProbeInv, ProbeTypeOK
    <2> QED BY <1>2, <1>4, <2>1, FewerListen DEF MayBind, MayListen
  <1> QED BY <1>3, <1>4, <1>5, <1>6 DEF ProbeInv

\* The temporary xrays.
LEMMA ChildProbe ==
  ASSUME ProbeInv, NEW q \in Probes, Bind(q) \/ Crash(q)
  PROVE  ProbeInv'
  <1>1. /\ UNCHANGED <<step, port, file, deferred, via, shared>>
        /\ child[q] \in {"up", "bound"} /\ child'[q] \in {"bound", "dead"}
        /\ child'[q] = "bound" => child[q] = "up" /\ Listeners(port[q]) = {}
    BY DEF ProbeInv, ProbeTypeOK, Bind, Crash
  <1>2. ProbeTypeOK'
    BY DEF ProbeInv, ProbeTypeOK, Bind, Crash, ChildStates
  <1>3. \A r \in Probes \ {q} : Held(r)' /\ child'[r] = child[r]
    BY OthersHold
  <1>4. Held(q)'
    BY <1>1 DEF ProbeInv, Held
  <1>5. \A r \in Probes : (MayBind(r)' => MayBind(r)) /\ (MayListen(r)' => MayListen(r))
    BY <1>1, <1>3 DEF MayBind, MayListen
  <1>6. SharersKnow'
    BY <1>1, <1>5 DEF ProbeInv, SharersKnow
  <1>7. OneListener'
    <2>1. CASE child'[q] = "bound"
      <3>1. \A r \in Probes \ {q} : child[r] = "bound" => port[r] # port[q]
        BY <1>1, <2>1 DEF Listeners
      <3> QED BY <1>1, <1>3, <3>1 DEF ProbeInv, OneListener
    <2>2. CASE child'[q] # "bound"
      BY <1>1, <1>3, <2>2 DEF ProbeInv, OneListener
    <2> QED BY <2>1, <2>2
  <1> QED BY <1>2, <1>3, <1>4, <1>6, <1>7 DEF ProbeInv

\* The end of the program stops the probes where they are.
LEMMA EndProbe ==
  ASSUME ProbeInv, ProgramEnds
  PROVE  ProbeInv'
  <1>1. /\ UNCHANGED <<port, file, child, via, shared>>
        /\ deferred' = [q \in Probes |-> <<>>]
        /\ \A q \in Probes : \/ step'[q] = "lost"
                             \/ step'[q] = step[q] /\ step[q] \in {"new", "returned", "lost"}
    BY DEF ProgramEnds
  <1>2. <<>> \in Seq({"Remove", "Kill"})
    OBVIOUS
  <1>3. ProbeTypeOK'
    BY <1>1, <1>2 DEF ProbeInv, ProbeTypeOK, ProgramEnds, Steps
  <1>4. \A q \in Probes : Held(q)'
    BY <1>1 DEF ProbeInv, Held
  <1>5. SharersKnow' /\ OneListener'
    BY <1>1, FewerListen DEF MayBind, MayListen
  <1> QED BY <1>3, <1>4, <1>5 DEF ProbeInv

LEMMA NextProbe == ProbeInv /\ [ProbeNext]_probeVars => ProbeInv'
  <1> SUFFICES ASSUME ProbeInv, [ProbeNext]_probeVars PROVE ProbeInv'
    OBVIOUS
  <1>1. CASE UNCHANGED probeVars
    BY <1>1 DEF ProbeInv, ProbeTypeOK, Held, SharersKnow, OneListener, MayBind, MayListen, probeVars
  <1>2. CASE ProbeNext
    BY <1>2, FreePortProbe, SetUpProbe, GoOnProbe, UndoProbe, ChildProbe, EndProbe
       DEF ProbeNext, ProbeStep
  <1> QED BY <1>1, <1>2

LEMMA ProbeInvariance == ProbeSpec => []ProbeInv
  BY InitProbe, NextProbe, PTL DEF ProbeSpec

-----------------------------------------------------------------------------
\* Type correctness of any number of probes on any ports.
THEOREM ProbeTypeCorrect == ProbeSpec => []ProbeTypeOK
  BY ProbeInvariance, PTL DEF ProbeInv

\* However many probes run, fail and time out, a file and a live xray are owed a
\* Remove and a Kill until these have been made, unless the program has ended
\* under their probe; one that returns leaves neither (health.go:130, 146).
THEOREM NothingLeft == ProbeSpec => []LeavesNothing
  <1>1. ASSUME ProbeInv, NEW q \in Probes, step[q] # "lost"
        PROVE  /\ file[q] # "none" => Owes(q, "Remove")
               /\ Live(q) => Owes(q, "Kill") /\ file[q] = "config"
    <2>1. /\ 1 \in DOMAIN <<"Remove">> /\ <<"Remove">>[1] = "Remove"
          /\ 1 \in DOMAIN <<"Kill", "Remove">> /\ <<"Kill", "Remove">>[1] = "Kill"
          /\ 2 \in DOMAIN <<"Kill", "Remove">> /\ <<"Kill", "Remove">>[2] = "Remove"
      OBVIOUS
    <2>2. deferred[q] = <<"Remove">> => Owes(q, "Remove")
      BY <2>1 DEF Owes
    <2>3. deferred[q] = <<"Kill", "Remove">> => Owes(q, "Kill") /\ Owes(q, "Remove")
      BY <2>1 DEF Owes
    <2>4. step[q] \in Steps \ {"lost"} /\ Held(q)
      BY <1>1 DEF ProbeInv, ProbeTypeOK
    <2> QED BY <2>2, <2>3, <2>4 DEF Held, Steps, Live
  <1>2. ProbeInv => LeavesNothing
    BY <1>1 DEF ProbeInv, LeavesNothing, Held, Live
  <1> QED BY ProbeInvariance, <1>2, PTL

\* A probe is answered by the xray of another only if freePort has given both
\* the same port while neither had bound it, or if its own is dead (health.go:186).
THEOREM OwnProxyMeasured == ProbeSpec => MeasuresItsProxy
  <1>1. ASSUME ProbeInv, [ProbeNext]_probeVars, NEW q \in Probes, via'[q] \notin {via[q], q}
        PROVE  q \in shared \/ child[q] = "dead"
    <2>1. Answer(q)
      BY <1>1 DEF ProbeInv, ProbeTypeOK, probeVars, ProbeNext, ProbeStep, FreePort, Take, CreateTemp,
                  WriteConfig, Launch, WaitPort, Answer, Fail, RunDeferred, Return, Bind, Crash,
                  ProgramEnds
    <2>2. PICK r \in Listeners(port[q]) : via' = [via EXCEPT ![q] = r]
      BY <2>1 DEF Answer
    <2>3. r \in Probes /\ port[r] = port[q] /\ child[r] = "bound" /\ r # q
      BY <1>1, <2>2 DEF Listeners, ProbeInv, ProbeTypeOK
    <2>4. step[q] = "requesting" /\ port[q] # Nobody /\ child[q] \in {"up", "bound", "dead"}
      BY <1>1, <2>1 DEF ProbeInv, ProbeTypeOK, Held, Answer, ChildStates
    <2>5. child[q] # "bound"
      BY <1>1, <2>3 DEF ProbeInv, OneListener
    <2>6. child[q] = "up" => q \in shared
      BY <1>1, <2>3, <2>4 DEF ProbeInv, SharersKnow, MayBind, MayListen
    <2> QED BY <2>4, <2>5, <2>6
  <1> DEFINE Own == \A q \in Probes : via'[q] \notin {via[q], q} => q \in shared \/ child[q] = "dead"
  <1>2. ProbeInv /\ [ProbeNext]_probeVars => [Own]_probeVars
    BY <1>1
  <1> HIDE DEF Own
  <1>3. ProbeSpec => [][Own]_probeVars
    BY ProbeInvariance, <1>2, PTL DEF ProbeSpec
  <1> QED BY <1>3 DEF Own, MeasuresItsProxy

================================================================================
