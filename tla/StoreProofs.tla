------------------------------ MODULE StoreProofs ------------------------------
(***************************************************************************)
(* Memory and disk of the Store, over failed writes and crashes, whatever  *)
(* the proxies, the edits and their number.                                *)
(***************************************************************************)
EXTENDS Store, SequenceTheorems, FiniteSetTheorems, TLAPS

IsFiles(d) == DOMAIN d = Files /\ d = [f \in Files |-> d[f]]

\* An operation writes one file, or active.json and then proxies.json.
Writable(files) == files = <<"active", "proxies">> \/ \E f \in Files : files = <<f>>

Pending == {todo[i] : i \in DOMAIN todo}

\* DiskFollows, while an operation is still writing.
DiskLags == \A f \in Files \ behind : f \notin Pending => disk[f] = mem[f]

\* Only the operations that clear the active proxy write two files.
ClearsFirst == todo = <<"active", "proxies">> => mem.active = None

\* The inductive invariant: what is on disk is what is in memory, but for the
\* files that are pending or have failed, and memory dangles only if history
\* says so.
IInv ==
  /\ IsFiles(mem) /\ IsFiles(disk)
  /\ todo = <<>> \/ Writable(todo)
  /\ DiskLags
  /\ ClearsFirst
  /\ ~dangled => ~Dangling(mem)
  /\ RestartIsSound

-----------------------------------------------------------------------------
\* The defaults are in memory and on disk.
LEMMA InitIInv == Init => IInv
  <1> SUFFICES ASSUME Init PROVE IInv
    OBVIOUS
  <1>1. IsFiles(mem) /\ IsFiles(disk) /\ mem = disk
    BY DEF Init, Defaults, IsFiles
  <1>2. ~Dangling(mem)
    BY DEF Init, Defaults, Dangling, Files
  <1> QED BY <1>1, <1>2 DEF Init, IInv, DiskLags, ClearsFirst, RestartIsSound

\* Any operation that lists the files whose content it changes, and that clears
\* the active proxy if it lists two.
LEMMA OperateIInv ==
  ASSUME IInv, NEW new, NEW files, Operate(new, files),
         IsFiles(new), Writable(files),
         \A f \in Files : (\A i \in DOMAIN files : files[i] # f) => new[f] = mem[f],
         files = <<"active", "proxies">> => new.active = None
  PROVE  IInv'
  <1>1. IsFiles(mem)' /\ IsFiles(disk)' /\ Writable(todo)'
    BY DEF IInv, Operate, IsFiles, Writable
  <1>2. DiskLags'
    <2> SUFFICES ASSUME NEW f \in Files \ behind, f \notin Pending'
                 PROVE  disk[f] = new[f]
      BY DEF DiskLags, Operate
    <2>1. new[f] = mem[f]
      BY DEF Operate, Pending
    <2>2. disk[f] = mem[f]
      BY DEF IInv, DiskLags, Pending, Operate
    <2> QED BY <2>1, <2>2
  <1>3. ClearsFirst'
    BY DEF ClearsFirst, Operate
  <1>4. (~dangled => ~Dangling(mem))'
    BY DEF Operate, Dangling
  <1>5. RestartIsSound'
    BY DEF IInv, Operate, RestartIsSound, Dangling
  <1> QED BY <1>1, <1>2, <1>3, <1>4, <1>5 DEF IInv

\* An operation that changes the proxy list alone.
LEMMA SetProxiesIInv ==
  ASSUME IInv, NEW list, Operate([mem EXCEPT !.proxies = list], <<"proxies">>)
  PROVE  IInv'
  <1> DEFINE new == [mem EXCEPT !.proxies = list]
  <1>1. IsFiles(new) /\ Writable(<<"proxies">>)
    BY DEF IInv, IsFiles, Writable, Files
  <1>2. \A f \in Files : (\A i \in DOMAIN <<"proxies">> : <<"proxies">>[i] # f) => new[f] = mem[f]
    BY DEF IInv, IsFiles
  <1>3. <<"proxies">> # <<"active", "proxies">>
    OBVIOUS
  <1> HIDE DEF new
  <1>4. Operate(new, <<"proxies">>)
    BY DEF new
  <1> QED BY <1>1, <1>2, <1>3, <1>4, OperateIInv

\* DeleteProxy, DeleteProxiesBySub.
LEMMA RemoveIInv ==
  ASSUME IInv, NEW ids, Remove(ids)
  PROVE  IInv'
  <1> DEFINE new == [[mem EXCEPT !.proxies = Without(ids)] EXCEPT !.active = None]
             files == <<"active", "proxies">>
  <1>1. CASE mem.active \in ids
    <2>1. Operate(new, files)
      BY <1>1 DEF Remove
    <2>2. IsFiles(new) /\ Writable(files)
      BY DEF IInv, IsFiles, Writable, Files
    <2>3. new.active = None
      BY DEF IInv, IsFiles, Files
    <2>4. \A f \in Files : (\A i \in DOMAIN files : files[i] # f) => new[f] = mem[f]
      <3> SUFFICES ASSUME NEW f \in Files, \A i \in DOMAIN files : files[i] # f
                   PROVE  new[f] = mem[f]
        OBVIOUS
      <3>1. files[1] # f /\ files[2] # f
        OBVIOUS
      <3> QED BY <3>1 DEF IInv, IsFiles
    <2> HIDE DEF new, files
    <2> QED BY <2>1, <2>2, <2>3, <2>4, OperateIInv
  <1>2. CASE mem.active \notin ids
    BY <1>2, SetProxiesIInv DEF Remove
  <1> QED BY <1>1, <1>2

\* SetActive, and the edits of the other files.
LEMMA OneFileIInv ==
  ASSUME IInv, NEW f \in Files, NEW v, Operate([mem EXCEPT ![f] = v], <<f>>)
  PROVE  IInv'
  <1> DEFINE new == [mem EXCEPT ![f] = v]
  <1>1. IsFiles(new) /\ Writable(<<f>>)
    BY DEF IInv, IsFiles, Writable
  <1>2. \A g \in Files : (\A i \in DOMAIN <<f>> : <<f>>[i] # g) => new[g] = mem[g]
    BY DEF IInv, IsFiles
  <1>3. <<f>> # <<"active", "proxies">>
    OBVIOUS
  <1> HIDE DEF new
  <1>4. Operate(new, <<f>>)
    BY DEF new
  <1> QED BY <1>1, <1>2, <1>3, <1>4, OperateIInv

-----------------------------------------------------------------------------
\* One file reaches the disk, or does not.
LEMMA WriteIInv ==
  ASSUME IInv, Write \/ WriteFails
  PROVE  IInv'
  <1>1. Writable(todo)
    BY DEF IInv, Write, WriteFails
  <1>a. \/ todo = <<"active", "proxies">> /\ Head(todo) = "active" /\ todo' = <<"proxies">>
        \/ \E f \in Files : todo = <<f>> /\ Head(todo) = f /\ todo' = <<>>
    <2>1. CASE todo = <<"active", "proxies">>
      <3>1. Head(todo) = "active" /\ Tail(todo) = <<"proxies">>
        BY <2>1
      <3> QED BY <2>1, <3>1 DEF Write, WriteFails, Done
    <2>2. ASSUME NEW f \in Files, todo = <<f>>
          PROVE  Head(todo) = f /\ todo' = <<>>
      <3>1. Head(todo) = f /\ Tail(todo) = <<>>
        BY <2>2
      <3> QED BY <3>1 DEF Write, WriteFails, Done
    <2> QED BY <1>1, <2>1, <2>2 DEF Writable
  <1>2. Head(todo) \in Files /\ Pending = {Head(todo)} \cup Pending'
    <2>1. CASE todo = <<"active", "proxies">>
      <3>1. Pending = {"active", "proxies"} /\ Pending' = {"proxies"} /\ Head(todo) = "active"
        BY <1>a, <2>1 DEF Pending
      <3> QED BY <3>1 DEF Files
    <2>2. ASSUME NEW f \in Files, todo = <<f>>, todo' = <<>>, Head(todo) = f
          PROVE  Head(todo) \in Files /\ Pending = {Head(todo)} \cup Pending'
      BY <2>2 DEF Pending
    <2> QED BY <1>a, <2>1, <2>2
  <1>3. (todo = <<>> \/ Writable(todo))' /\ todo' # <<"active", "proxies">>
    <2>1. "proxies" \in Files /\ <<"proxies">> # <<"active", "proxies">> /\ <<>> # <<"active", "proxies">>
      BY DEF Files
    <2> QED BY <1>a, <2>1 DEF Writable
  <1>4. CASE Write
    <2>1. IsFiles(mem)' /\ IsFiles(disk)'
      BY <1>2, <1>4 DEF IInv, IsFiles, Write
    <2>2. disk'[Head(todo)] = mem[Head(todo)] /\ \A f \in Files \ {Head(todo)} : disk'[f] = disk[f]
      BY <1>2, <1>4 DEF IInv, IsFiles, Write
    <2>3. DiskLags'
      BY <1>2, <1>4, <2>2 DEF IInv, DiskLags, Write
    <2>4. RestartIsSound'
      <3> SUFFICES ASSUME behind' = {}, ~dangled PROVE ~Dangling(disk')
        BY <1>4 DEF RestartIsSound, Write
      <3>1. CASE todo = <<"active", "proxies">>
        BY <2>2, <3>1 DEF IInv, ClearsFirst, Dangling
      <3>2. CASE todo # <<"active", "proxies">>
        <4>1. Pending' = {}
          BY <1>1, <1>4, <3>2 DEF Writable, Write, Done, Pending
        <4>2. \A f \in Files : disk'[f] = mem[f]
          BY <4>1, <2>3, <1>4 DEF DiskLags, Write
        <4> QED BY <4>2 DEF IInv, Dangling, Files
      <3> QED BY <3>1, <3>2
    <2> QED BY <1>3, <1>4, <2>1, <2>3, <2>4 DEF IInv, ClearsFirst, Write, Dangling
  <1>5. CASE WriteFails
    <2>1. IsFiles(mem)' /\ IsFiles(disk)'
      BY <1>5 DEF IInv, IsFiles, WriteFails
    <2>2. DiskLags'
      BY <1>2, <1>5 DEF IInv, DiskLags, WriteFails
    <2>3. behind' # {}
      BY <1>5 DEF WriteFails
    <2> QED BY <1>3, <1>5, <2>1, <2>2, <2>3
            DEF IInv, ClearsFirst, RestartIsSound, WriteFails, Dangling
  <1> QED BY <1>4, <1>5

\* A restart takes the disk for memory.
LEMMA CrashIInv ==
  ASSUME IInv, Crash
  PROVE  IInv'
  BY DEF IInv, IsFiles, DiskLags, ClearsFirst, RestartIsSound, Crash, Dangling

\* The invariant is inductive: each operation is one of the four kinds above.
LEMMA NextIInv == IInv /\ [Next]_vars => IInv'
  <1> SUFFICES ASSUME IInv, [Next]_vars PROVE IInv'
    OBVIOUS
  <1>1. ASSUME NEW keys, AddProxies(keys) PROVE IInv'
    BY <1>1, SetProxiesIInv DEF AddProxies, SetProxies
  <1>2. ASSUME NEW id, NEW k, UpdateProxy(id, k) PROVE IInv'
    BY <1>2, SetProxiesIInv DEF UpdateProxy, SetProxies
  <1>3. ASSUME NEW id, DeleteProxy(id) PROVE IInv'
    BY <1>3, RemoveIInv DEF DeleteProxy
  <1>4. ASSUME NEW id, SetActive(id) PROVE IInv'
    <2>1. "active" \in Files
      BY DEF Files
    <2> QED BY <1>4, <2>1, OneFileIInv DEF SetActive
  <1>5. ASSUME NEW s, DeleteProxiesBySub(s) PROVE IInv'
    BY <1>5, RemoveIInv DEF DeleteProxiesBySub
  <1>6. ASSUME NEW s, NEW keys, ReplaceSubProxies(s, keys) PROVE IInv'
    BY <1>6, SetProxiesIInv DEF ReplaceSubProxies, SetProxies
  <1>7. ASSUME NEW f \in Others, Edit(f) PROVE IInv'
    <2>1. f \in Files
      BY DEF Files
    <2> QED BY <1>7, <2>1, OneFileIInv DEF Edit
  <1>8. CASE UNCHANGED vars
    BY <1>8 DEF vars, IInv, IsFiles, Writable, Pending, DiskLags, ClearsFirst, RestartIsSound, Dangling
  <1> QED BY <1>1, <1>2, <1>3, <1>4, <1>5, <1>6, <1>7, <1>8, WriteIInv, CrashIInv DEF Next

LEMMA Invariance == Spec => []IInv
  BY InitIInv, NextIInv, PTL DEF Spec

-----------------------------------------------------------------------------
\* Between two operations memory and disk differ in files only whose last write
\* failed (storage.go:76).
THEOREM DiskFollowsMemory == Spec => []DiskFollows
  <1>1. IInv => DiskFollows
    BY DEF IInv, DiskLags, DiskFollows, Pending
  <1> QED BY <1>1, Invariance, PTL

\* A program that dies between two writes starts again without an active proxy
\* that is gone, unless it had one or a write failed (storage.go:157, 176).
THEOREM RestartSound == Spec => []RestartIsSound
  <1>1. IInv => RestartIsSound
    BY DEF IInv
  <1> QED BY <1>1, Invariance, PTL

-----------------------------------------------------------------------------
(* Ids.                                                                    *)

DistinctIds(list) == \A i, j \in DOMAIN list : list[i].id = list[j].id => i = j
Measured(list) == \A i \in DOMAIN list : list[i].lat \in {None, list[i].key}

\* The ids that have been used are the first ones, each for one endpoint, and
\* what is in memory or on disk has its id from there.
Taken == {n[1] : n \in named}

OneName(names) == \A m, n \in names : m[1] = n[1] => m = n

Sound(list) == DistinctIds(list) /\ Measured(list) /\ Names(list) \subseteq named

UInv ==
  /\ TypeOK
  /\ Sound(mem.proxies) /\ Sound(disk.proxies)
  /\ Taken = 1 .. Used
  /\ OneName(named)

-----------------------------------------------------------------------------
(* Parts of a list.                                                        *)

\* Ranks number the positions one after another.
LEMMA RankNumbers ==
  ASSUME NEW n \in Nat, NEW I \in SUBSET (1 .. n)
  PROVE  /\ IsFiniteSet(I) /\ Cardinality(I) \in Nat /\ Cardinality(I) <= n
         /\ \A i \in I : Rank(I, i) \in 1 .. Cardinality(I)
         /\ \A i, j \in I : Rank(I, i) = Rank(I, j) => i = j
         /\ \A m \in 1 .. Cardinality(I) : \E i \in I : Rank(I, i) = m
  <1>1. IsFiniteSet(1 .. n) /\ Cardinality(1 .. n) = n
    <2>1. 1 \in Int /\ n \in Int
      OBVIOUS
    <2> QED BY <2>1, FS_Interval
  <1>2. IsFiniteSet(I) /\ Cardinality(I) \in Nat /\ Cardinality(I) <= n
    BY <1>1, FS_Subset, FS_CardinalityType
  <1>3. \A i \in I : {j \in I : j <= i} \in SUBSET I
    OBVIOUS
  <1>4. \A i \in I : IsFiniteSet({j \in I : j <= i}) /\ Rank(I, i) \in Nat /\ Rank(I, i) <= Cardinality(I)
    BY <1>2, <1>3, FS_Subset, FS_CardinalityType DEF Rank
  <1>5. ASSUME NEW i \in I PROVE Rank(I, i) # 0
    <2>1. i \in {j \in I : j <= i}
      OBVIOUS
    <2> QED BY <1>4, <2>1, FS_EmptySet DEF Rank
  <1>6. ASSUME NEW i \in I, NEW j \in I, i < j PROVE Rank(I, i) # Rank(I, j)
    <2> DEFINE A == {k \in I : k <= i}
               B == {k \in I : k <= j}
    <2>1. A \in SUBSET B /\ j \in B /\ j \notin A
      <3>1. I \subseteq Nat
        OBVIOUS
      <3>2. ~ j <= i /\ j <= j /\ \A k \in I : k <= i => k <= j
        BY <1>6, <3>1
      <3> QED BY <3>2
    <2>2. IsFiniteSet(B)
      BY <1>4
    <2>3. Rank(I, i) = Cardinality(A) /\ Rank(I, j) = Cardinality(B)
      BY DEF Rank
    <2> HIDE DEF A, B
    <2> QED BY <2>1, <2>2, <2>3, FS_Subset
  <1>7. \A i, j \in I : Rank(I, i) = Rank(I, j) => i = j
    <2>1. \A i, j \in I : i = j \/ i < j \/ j < i
      OBVIOUS
    <2> QED BY <1>6, <2>1
  <1>8. \A i \in I : Rank(I, i) \in 1 .. Cardinality(I)
    <2> SUFFICES ASSUME NEW i \in I PROVE Rank(I, i) \in 1 .. Cardinality(I)
      OBVIOUS
    <2>1. Rank(I, i) \in Nat /\ Rank(I, i) <= Cardinality(I) /\ Rank(I, i) # 0
      BY <1>4, <1>5
    <2> QED BY <1>2, <2>1
  <1> DEFINE T == 1 .. Cardinality(I)
             r == [i \in I |-> Rank(I, i)]
  <1>9. r \in Injection(I, T)
    BY <1>7, <1>8 DEF Injection, IsInjective
  <1>10. IsFiniteSet(T) /\ Cardinality(T) = Cardinality(I)
    <2>1. 1 \in Int /\ Cardinality(I) \in Int
      BY <1>2
    <2> QED BY <1>2, <2>1, FS_Interval
  <1>11. r \in Surjection(I, T)
    <2> HIDE DEF r, T
    <2> QED BY <1>9, <1>10, FS_Injection
  <1>12. \A m \in T : \E i \in I : r[i] = m
    BY <1>11 DEF Surjection
  <1>13. \A m \in 1 .. Cardinality(I) : \E i \in I : Rank(I, i) = m
    BY <1>12
  <1> QED BY <1>2, <1>7, <1>8, <1>13

\* A selection takes each of the positions once.
LEMMA Selected ==
  ASSUME NEW S, NEW list \in Seq(S), NEW I \in SUBSET DOMAIN list
  PROVE  /\ Select(list, I) \in Seq(S) /\ Len(Select(list, I)) = Cardinality(I)
         /\ Len(Select(list, I)) <= Len(list)
         /\ DOMAIN Select(list, I) = 1 .. Cardinality(I)
         /\ \E pos \in [1 .. Cardinality(I) -> I] :
              /\ \A m \in 1 .. Cardinality(I) : Select(list, I)[m] = list[pos[m]] /\ Rank(I, pos[m]) = m
              /\ \A m, n \in 1 .. Cardinality(I) : pos[m] = pos[n] => m = n
              /\ \A i \in I : \E m \in 1 .. Cardinality(I) : pos[m] = i
  <1>1. Len(list) \in Nat /\ DOMAIN list = 1 .. Len(list)
    BY LenProperties
  <1> DEFINE c == Cardinality(I)
             pos == [m \in 1 .. c |-> CHOOSE i \in I : Rank(I, i) = m]
  <1>2. /\ c \in Nat /\ c <= Len(list)
        /\ \A i \in I : Rank(I, i) \in 1 .. c
        /\ \A i, j \in I : Rank(I, i) = Rank(I, j) => i = j
        /\ \A m \in 1 .. c : \E i \in I : Rank(I, i) = m
    BY <1>1, RankNumbers
  <1> HIDE DEF c
  <1>3. \A m \in 1 .. c : pos[m] \in I /\ Rank(I, pos[m]) = m
    BY <1>2
  <1>4. pos \in [1 .. c -> I]
    BY <1>3
  <1>5. \A m, n \in 1 .. c : pos[m] = pos[n] => m = n
    BY <1>3
  <1>6. \A i \in I : \E m \in 1 .. c : pos[m] = i
    <2> SUFFICES ASSUME NEW i \in I PROVE pos[Rank(I, i)] = i
      BY <1>2
    <2> QED BY <1>2, <1>3
  <1>7. Select(list, I) = [m \in 1 .. c |-> list[pos[m]]]
    BY DEF Select, c
  <1> HIDE DEF pos
  <1>8. \A m \in 1 .. c : list[pos[m]] \in S
    BY <1>1, <1>3, ElementOfSeq
  <1>9. Select(list, I) \in [1 .. c -> S]
    BY <1>7, <1>8
  <1>10. Select(list, I) \in Seq(S) /\ Len(Select(list, I)) = c /\ DOMAIN Select(list, I) = 1 .. c
    BY <1>2, <1>9, SeqDef
  <1>11. \A m \in 1 .. c : Select(list, I)[m] = list[pos[m]] /\ Rank(I, pos[m]) = m
    BY <1>3, <1>7
  <1> QED BY <1>2, <1>4, <1>5, <1>6, <1>10, <1>11 DEF c

\* What is selected was there.
LEMMA SelectedFrom ==
  ASSUME NEW list \in Seq(Proxy), NEW I \in SUBSET DOMAIN list
  PROVE  \A m \in DOMAIN Select(list, I) : \E p \in I : Select(list, I)[m] = list[p]
  <1> DEFINE c == Cardinality(I)
             new == Select(list, I)
  <1>1. DOMAIN new = 1 .. c
    BY Selected
  <1>2. PICK pos \in [1 .. c -> I] :
          /\ \A m \in 1 .. c : new[m] = list[pos[m]]
          /\ \A m, n \in 1 .. c : pos[m] = pos[n] => m = n
    BY Selected
  <1> HIDE DEF c, new
  <1> QED BY <1>1, <1>2 DEF new

\* A selection of a sound list is sound.
LEMMA SelectedSound ==
  ASSUME NEW list \in Seq(Proxy), NEW I \in SUBSET DOMAIN list, Sound(list)
  PROVE  Select(list, I) \in Seq(Proxy) /\ Len(Select(list, I)) <= Len(list) /\ Sound(Select(list, I))
  <1> DEFINE c == Cardinality(I)
             new == Select(list, I)
  <1>1. new \in Seq(Proxy) /\ Len(new) <= Len(list) /\ DOMAIN new = 1 .. c
    BY Selected
  <1>2. PICK pos \in [1 .. c -> I] :
          /\ \A m \in 1 .. c : new[m] = list[pos[m]]
          /\ \A m, n \in 1 .. c : pos[m] = pos[n] => m = n
    BY Selected
  <1> HIDE DEF c, new
  <1>3. \A m \in 1 .. c : pos[m] \in DOMAIN list
    BY <1>2
  <1>4. DistinctIds(new) /\ Measured(new)
    BY <1>1, <1>2, <1>3 DEF Sound, DistinctIds, Measured
  <1>5. Names(new) \subseteq Names(list)
    BY <1>1, <1>2, <1>3 DEF Names
  <1> QED BY <1>1, <1>4, <1>5 DEF Sound, new

-----------------------------------------------------------------------------
(* Lists that operations build.                                            *)

\* The number of ids used is a natural number, and every id taken is below it.
LEMMA UsedIsNat ==
  ASSUME TypeOK
  PROVE  IsFiniteSet(Taken) /\ Used \in Nat /\ Used = Cardinality(Taken)
  <1>1. Taken \in SUBSET (1 .. MaxIds)
    BY DEF TypeOK, Taken, Ids
  <1>2. IsFiniteSet(1 .. MaxIds)
    <2>1. 1 \in Int /\ MaxIds \in Int
      BY StoreAssumption
    <2> QED BY <2>1, FS_Interval
  <1>3. IsFiniteSet(Taken) /\ Cardinality(Taken) \in Nat
    BY <1>1, <1>2, FS_Subset, FS_CardinalityType
  <1> QED BY <1>3 DEF Used, Taken

\* The proxies of a list have ids that are taken.
LEMMA SoundTaken ==
  ASSUME UInv, NEW list \in Seq(Proxy), Sound(list), NEW i \in DOMAIN list
  PROVE  /\ list[i] \in Proxy /\ list[i].id \in 1 .. Used
         /\ <<list[i].id, list[i].key>> \in named
         /\ list[i].lat \in {None, list[i].key}
  <1>1. <<list[i].id, list[i].key>> \in named
    BY DEF Sound, Names
  <1>2. list[i].id \in Taken
    <2> DEFINE n == <<list[i].id, list[i].key>>
    <2>1. n \in named /\ n[1] = list[i].id
      BY <1>1
    <2> QED BY <2>1 DEF Taken
  <1>3. list[i] \in Proxy
    BY LenProperties, ElementOfSeq
  <1> QED BY <1>1, <1>2, <1>3 DEF UInv, Sound, Measured

\* One list after another.
LEMMA Appended ==
  ASSUME NEW a \in Seq(Proxy), NEW b \in Seq(Proxy),
         DistinctIds(a), DistinctIds(b), Measured(a), Measured(b),
         \A i \in DOMAIN a, j \in DOMAIN b : a[i].id # b[j].id
  PROVE  /\ a \o b \in Seq(Proxy) /\ Len(a \o b) = Len(a) + Len(b)
         /\ DistinctIds(a \o b) /\ Measured(a \o b)
         /\ Names(a \o b) = Names(a) \cup Names(b)
  <1> DEFINE c == a \o b
  <1>1. /\ c \in Seq(Proxy) /\ Len(c) = Len(a) + Len(b)
        /\ \A i \in 1 .. Len(a) + Len(b) : c[i] = IF i <= Len(a) THEN a[i] ELSE b[i - Len(a)]
    BY ConcatProperties
  <1>2. /\ Len(a) \in Nat /\ Len(b) \in Nat /\ DOMAIN a = 1 .. Len(a) /\ DOMAIN b = 1 .. Len(b)
        /\ DOMAIN c = 1 .. Len(a) + Len(b)
    BY <1>1, LenProperties
  <1> HIDE DEF c
  <1>3. \A i \in DOMAIN a : i \in DOMAIN c /\ c[i] = a[i]
    BY <1>1, <1>2
  <1>4. \A j \in DOMAIN b : Len(a) + j \in DOMAIN c /\ c[Len(a) + j] = b[j]
    <2> SUFFICES ASSUME NEW j \in DOMAIN b
                 PROVE  Len(a) + j \in DOMAIN c /\ c[Len(a) + j] = b[j]
      OBVIOUS
    <2>1. Len(a) + j \in 1 .. Len(a) + Len(b) /\ ~ Len(a) + j <= Len(a) /\ Len(a) + j - Len(a) = j
      BY <1>2
    <2> QED BY <2>1, <1>1, <1>2
  <1>5. \A i \in DOMAIN c :
          \/ i \in DOMAIN a /\ c[i] = a[i]
          \/ i - Len(a) \in DOMAIN b /\ c[i] = b[i - Len(a)]
    BY <1>1, <1>2
  <1>6. DistinctIds(c)
    <2> SUFFICES ASSUME NEW i \in DOMAIN c, NEW j \in DOMAIN c, c[i].id = c[j].id PROVE i = j
      BY DEF DistinctIds
    <2>1. CASE i \in DOMAIN a /\ c[i] = a[i] /\ j \in DOMAIN a /\ c[j] = a[j]
      BY <2>1 DEF DistinctIds
    <2>2. CASE i - Len(a) \in DOMAIN b /\ c[i] = b[i - Len(a)] /\ j - Len(a) \in DOMAIN b /\ c[j] = b[j - Len(a)]
      <3>1. i - Len(a) = j - Len(a)
        BY <2>2 DEF DistinctIds
      <3> QED BY <3>1, <1>2
    <2> QED BY <2>1, <2>2, <1>5
  <1>7. Measured(c)
    BY <1>5 DEF Measured
  <1>8. Names(c) \subseteq Names(a) \cup Names(b)
    BY <1>5 DEF Names
  <1>9. Names(a) \cup Names(b) \subseteq Names(c)
    BY <1>3, <1>4 DEF Names
  <1> QED BY <1>1, <1>6, <1>7, <1>8, <1>9 DEF c

\* The next c ids, for the endpoints h.
Growth(c, h) == named \cup {<<Used + m, h[m]>> : m \in 1 .. c}

\* They keep every id to one endpoint, and are numbered on.
LEMMA MoreNames ==
  ASSUME UInv, NEW c \in Nat, NEW h \in [1 .. c -> Keys], Used + c <= MaxIds
  PROVE  /\ Growth(c, h) \subseteq Ids \X Keys /\ OneName(Growth(c, h))
         /\ {n[1] : n \in Growth(c, h)} = 1 .. Used + c
  <1> DEFINE names == Growth(c, h)
  <1>0. names = named \cup {<<Used + m, h[m]>> : m \in 1 .. c}
    BY DEF Growth
  <1> HIDE DEF names
  <1>1. Used \in Nat
    BY UsedIsNat DEF UInv
  <1>2. \A n \in named : n \in Ids \X Keys /\ n[1] \in 1 .. Used
    BY DEF UInv, TypeOK, Taken
  <1>3. \A n \in names : n \in named \/ \E m \in 1 .. c : n = <<Used + m, h[m]>>
    BY <1>0
  <1>4. \A m \in 1 .. c : Used + m \in Ids /\ h[m] \in Keys /\ Used + m \notin 1 .. Used
    BY <1>1, StoreAssumption DEF Ids
  <1>5. names \subseteq Ids \X Keys
    BY <1>2, <1>3, <1>4
  <1>6. OneName(names)
    <2> SUFFICES ASSUME NEW m \in names, NEW n \in names, m[1] = n[1] PROVE m = n
      BY DEF OneName
    <2>1. CASE m \in named /\ n \in named
      BY <2>1 DEF UInv, OneName
    <2>2. CASE m \notin named /\ n \notin named
      <3>1. PICK x \in 1 .. c : m = <<Used + x, h[x]>>
        BY <1>3, <2>2
      <3>2. PICK y \in 1 .. c : n = <<Used + y, h[y]>>
        BY <1>3, <2>2
      <3>3. x = y
        BY <3>1, <3>2, <1>1
      <3> QED BY <3>1, <3>2, <3>3
    <2>3. ASSUME NEW x \in names, NEW y \in names, x \in named, y \notin named PROVE x[1] # y[1]
      <3>1. PICK z \in 1 .. c : y = <<Used + z, h[z]>>
        BY <1>3, <2>3
      <3> QED BY <3>1, <2>3, <1>2, <1>4
    <2> QED BY <2>1, <2>2, <2>3
  <1>7. \A n \in names : n[1] \in 1 .. Used + c
    <2> SUFFICES ASSUME NEW n \in names PROVE n[1] \in 1 .. Used + c
      OBVIOUS
    <2>1. CASE n \in named
      BY <2>1, <1>1, <1>2
    <2>2. ASSUME NEW m \in 1 .. c, n = <<Used + m, h[m]>> PROVE n[1] \in 1 .. Used + c
      BY <2>2, <1>1
    <2> QED BY <2>1, <2>2, <1>3
  <1>8. \A x \in 1 .. Used + c : \E n \in names : n[1] = x
    <2> SUFFICES ASSUME NEW x \in 1 .. Used + c PROVE \E n \in names : n[1] = x
      OBVIOUS
    <2>1. CASE x \in 1 .. Used
      <3>1. x \in Taken
        BY <2>1 DEF UInv
      <3> QED BY <3>1, <1>0 DEF Taken
    <2>2. CASE x \notin 1 .. Used
      <3>1. x - Used \in 1 .. c /\ Used + (x - Used) = x
        BY <2>2, <1>1
      <3>2. <<Used + (x - Used), h[x - Used]>> \in names
        BY <3>1, <1>0
      <3> QED BY <3>1, <3>2
    <2> QED BY <2>1, <2>2
  <1> QED BY <1>5, <1>6, <1>7, <1>8 DEF names

-----------------------------------------------------------------------------
(* A refreshed list.                                                       *)

\* Some positions, not none, have a last one.
LEMMA LastOf ==
  ASSUME NEW n \in Nat, NEW I \in SUBSET (1 .. n), I # {}
  PROVE  \E i \in I : \A j \in I : j <= i
  <1>1. IsFiniteSet(I) /\ Cardinality(I) \in Nat
    BY RankNumbers
  <1>2. Cardinality(I) # 0
    BY <1>1, FS_EmptySet
  <1>3. PICK i \in I : Rank(I, i) = Cardinality(I)
    <2>1. Cardinality(I) \in 1 .. Cardinality(I)
      BY <1>1, <1>2
    <2> QED BY <2>1, RankNumbers
  <1> DEFINE J == {j \in I : j <= i}
  <1>4. J \in SUBSET I /\ Cardinality(I) = Cardinality(J)
    BY <1>3 DEF Rank
  <1>5. I = J
    <2> HIDE DEF J
    <2> QED BY <1>1, <1>4, FS_Subset
  <1> QED BY <1>5

\* An entry of the map is a proxy of the subscription with that key.
LEMMA PrevIs ==
  ASSUME TypeOK, NEW s, NEW k, Indices(s, k) # {}
  PROVE  \E i \in Indices(s, k) : Prev(s, k) = mem.proxies[i]
  <1>1. mem.proxies \in Seq(Proxy) /\ Len(mem.proxies) \in Nat /\ DOMAIN mem.proxies = 1 .. Len(mem.proxies)
    BY LenProperties DEF TypeOK, IsData
  <1>2. Indices(s, k) \in SUBSET (1 .. Len(mem.proxies))
    BY <1>1 DEF Indices
  <1>3. \E i \in Indices(s, k) : \A j \in Indices(s, k) : j <= i
    BY <1>1, <1>2, LastOf
  <1> QED BY <1>3 DEF Prev

\* The part of the list that ReplaceSubProxies makes from the keys.
Renewed(s, keys) ==
  [i \in DOMAIN keys |-> IF Carries(s, keys, i) THEN [Prev(s, keys[i]) EXCEPT !.key = keys[i]]
                         ELSE Fresh(Rank(News(s, keys), i), s, keys[i])]

\* What carries an endpoint over is an old proxy as it was, the rest is new.
LEMMA RenewedIs ==
  ASSUME TypeOK, NEW s \in Subs, NEW n \in Nat, NEW keys \in [1 .. n -> Keys], NEW i \in 1 .. n
  PROVE  /\ Carries(s, keys, i) => \E p \in Indices(s, keys[i]) : Renewed(s, keys)[i] = mem.proxies[p]
         /\ ~Carries(s, keys, i) => Renewed(s, keys)[i] = Fresh(Rank(News(s, keys), i), s, keys[i])
  <1>1. CASE Carries(s, keys, i)
    <2>1. PICK p \in Indices(s, keys[i]) : Prev(s, keys[i]) = mem.proxies[p]
      BY <1>1, PrevIs DEF Carries
    <2>2. mem.proxies[p] \in Proxy /\ mem.proxies[p].key = keys[i]
      BY LenProperties, ElementOfSeq DEF TypeOK, IsData, Indices
    <2>3. [mem.proxies[p] EXCEPT !.key = keys[i]] = mem.proxies[p]
      BY <2>2 DEF Proxy
    <2>4. Renewed(s, keys)[i] = [Prev(s, keys[i]) EXCEPT !.key = keys[i]]
      BY <1>1 DEF Renewed
    <2> QED BY <1>1, <2>1, <2>3, <2>4
  <1>2. CASE ~Carries(s, keys, i)
    BY <1>2 DEF Renewed
  <1> QED BY <1>1, <1>2

\* The renewed part is sound, with the next ids for what is new.
LEMMA RenewedSound ==
  ASSUME UInv, NEW s \in Subs, NEW n \in Nat, NEW keys \in [1 .. n -> Keys],
         Used + Added(s, keys) <= MaxIds
  PROVE  /\ Renewed(s, keys) \in Seq(Proxy) /\ Len(Renewed(s, keys)) = n
         /\ DOMAIN Renewed(s, keys) = 1 .. n
         /\ DistinctIds(Renewed(s, keys)) /\ Measured(Renewed(s, keys))
         /\ \E h \in [1 .. Added(s, keys) -> Keys] :
              named \cup Names(Renewed(s, keys)) = Growth(Added(s, keys), h)
  <1> DEFINE new == Renewed(s, keys)
             old == mem.proxies
             I == News(s, keys)
             c == Added(s, keys)
  <1>t. TypeOK /\ old \in Seq(Proxy) /\ Sound(old)
    BY DEF UInv, TypeOK, IsData
  <1>u. Used \in Nat
    BY <1>t, UsedIsNat
  <1>r. /\ I \in SUBSET (1 .. n) /\ c \in Nat
        /\ \A i \in I : Rank(I, i) \in 1 .. c
        /\ \A i, j \in I : Rank(I, i) = Rank(I, j) => i = j
        /\ \A m \in 1 .. c : \E i \in I : Rank(I, i) = m
    <2>1. I \in SUBSET (1 .. n) /\ c = Cardinality(I)
      BY DEF News, Added
    <2> HIDE DEF I, c
    <2> QED BY <2>1, RankNumbers
  <1>1. \A i \in (1 .. n) \ I : \E p \in DOMAIN old :
          /\ new[i] = old[p] /\ old[p].sub = s /\ old[p].key = keys[i] /\ Carries(s, keys, i)
    <2> SUFFICES ASSUME NEW i \in (1 .. n) \ I
                 PROVE  \E p \in DOMAIN old : /\ new[i] = old[p] /\ old[p].sub = s /\ old[p].key = keys[i]
                                              /\ Carries(s, keys, i)
      OBVIOUS
    <2>1. Carries(s, keys, i)
      BY DEF News
    <2>2. PICK p \in Indices(s, keys[i]) : new[i] = old[p]
      BY <2>1, <1>t, RenewedIs
    <2> QED BY <2>1, <2>2 DEF Indices
  <1>2. \A i \in I : new[i] = [id |-> Used + Rank(I, i), sub |-> s, key |-> keys[i], lat |-> None]
    <2> SUFFICES ASSUME NEW i \in I
                 PROVE  new[i] = Fresh(Rank(I, i), s, keys[i])
      BY DEF Fresh
    <2>1. ~Carries(s, keys, i) /\ i \in 1 .. n
      BY <1>r DEF News
    <2> QED BY <2>1, <1>t, RenewedIs
  <1>3. DOMAIN new = 1 .. n /\ new = [i \in 1 .. n |-> new[i]]
    BY DEF Renewed
  <1> HIDE DEF new, I, c
  <1>4. \A p \in DOMAIN old : /\ old[p] \in Proxy /\ old[p].id \in 1 .. Used
                              /\ <<old[p].id, old[p].key>> \in named
                              /\ old[p].lat \in {None, old[p].key}
    BY <1>t, SoundTaken
  <1>5. \A i \in I : /\ new[i] \in Proxy /\ new[i].id = Used + Rank(I, i) /\ new[i].key = keys[i]
                     /\ new[i].lat = None
    <2> SUFFICES ASSUME NEW i \in I
                 PROVE  /\ new[i] \in Proxy /\ new[i].id = Used + Rank(I, i) /\ new[i].key = keys[i]
                        /\ new[i].lat = None
      OBVIOUS
    <2>1. Rank(I, i) \in 1 .. c /\ Used + c <= MaxIds
      BY <1>r DEF c
    <2>2. Used + Rank(I, i) \in Ids
      BY <2>1, <1>u, <1>r, StoreAssumption DEF Ids
    <2>3. i \in 1 .. n /\ keys[i] \in Keys
      BY <1>r
    <2> DEFINE id == Used + Rank(I, i)
    <2>4. new[i] = [id |-> id, sub |-> s, key |-> keys[i], lat |-> None]
      BY <1>2
    <2> HIDE DEF id
    <2>5. new[i].id = id /\ new[i].key = keys[i] /\ new[i].lat = None
      BY <2>4
    <2>6. id \in Ids
      BY <2>2 DEF id
    <2>7. new[i] \in Proxy
      BY <2>3, <2>4, <2>6 DEF Proxy
    <2> QED BY <2>5, <2>7 DEF id
  <1>6. new \in [1 .. n -> Proxy]
    BY <1>1, <1>3, <1>4, <1>5
  <1>7. new \in Seq(Proxy) /\ Len(new) = n
    BY <1>6, SeqDef
  <1>8. DistinctIds(new)
    <2> SUFFICES ASSUME NEW i \in 1 .. n, NEW j \in 1 .. n, new[i].id = new[j].id PROVE i = j
      BY <1>3 DEF DistinctIds
    <2>1. CASE i \in I /\ j \in I
      <3>1. Rank(I, i) = Rank(I, j)
        <4>1. Rank(I, i) \in Nat /\ Rank(I, j) \in Nat
          BY <2>1, <1>r
        <4> QED BY <2>1, <4>1, <1>5, <1>u
      <3> QED BY <2>1, <3>1, <1>r
    <2>2. ASSUME NEW x \in I, NEW y \in (1 .. n) \ I PROVE new[x].id # new[y].id
      <3>1. new[y].id \in 1 .. Used
        BY <1>1, <1>4
      <3>2. Rank(I, x) \in 1 .. c /\ new[x].id = Used + Rank(I, x)
        BY <1>r, <1>5
      <3> QED BY <3>1, <3>2, <1>u, <1>r
    <2>3. CASE i \notin I /\ j \notin I
      <3>1. PICK p \in DOMAIN old : new[i] = old[p] /\ old[p].key = keys[i] /\ Carries(s, keys, i)
        BY <1>1, <2>3
      <3>2. PICK q \in DOMAIN old : new[j] = old[q] /\ old[q].key = keys[j] /\ Carries(s, keys, j)
        BY <1>1, <2>3
      <3>3. keys[i] = keys[j]
        BY <3>1, <3>2, <1>t DEF Sound, DistinctIds
      <3>4. ~ i < j /\ ~ j < i
        BY <3>1, <3>2, <3>3 DEF Carries
      <3> QED BY <3>4
    <2> QED BY <2>1, <2>2, <2>3
  <1>9. Measured(new)
    <2> SUFFICES ASSUME NEW i \in 1 .. n PROVE new[i].lat \in {None, new[i].key}
      BY <1>3 DEF Measured
    <2> QED BY <1>1, <1>4, <1>5
  <1>10. PICK at \in [1 .. c -> I] : \A m \in 1 .. c : Rank(I, at[m]) = m
    <2> DEFINE f == [m \in 1 .. c |-> CHOOSE i \in I : Rank(I, i) = m]
    <2>1. f \in [1 .. c -> I] /\ \A m \in 1 .. c : Rank(I, f[m]) = m
      BY <1>r
    <2> QED BY <2>1
  <1> DEFINE h == [m \in 1 .. c |-> keys[at[m]]]
             more == {<<Used + m, h[m]>> : m \in 1 .. c}
  <1>11. h \in [1 .. c -> Keys]
    BY <1>r
  <1>12. Names(new) \subseteq named \cup more
    <2> SUFFICES ASSUME NEW i \in 1 .. n PROVE <<new[i].id, new[i].key>> \in named \cup more
      BY <1>3 DEF Names
    <2>1. CASE i \in I
      <3>1. Rank(I, i) \in 1 .. c
        BY <2>1, <1>r
      <3>2. at[Rank(I, i)] = i
        BY <2>1, <3>1, <1>10, <1>r
      <3> QED BY <2>1, <3>1, <3>2, <1>5
    <2>2. CASE i \notin I
      BY <2>2, <1>1, <1>4
    <2> QED BY <2>1, <2>2
  <1>13. more \subseteq Names(new)
    <2> SUFFICES ASSUME NEW m \in 1 .. c PROVE <<Used + m, h[m]>> \in Names(new)
      OBVIOUS
    <2>1. at[m] \in I /\ Rank(I, at[m]) = m /\ at[m] \in 1 .. n
      BY <1>10, <1>r
    <2>2. new[at[m]].id = Used + m /\ new[at[m]].key = h[m]
      BY <2>1, <1>5
    <2> QED BY <2>1, <2>2, <1>3 DEF Names
  <1>14. named \cup Names(new) = Growth(c, h)
    BY <1>12, <1>13 DEF Growth
  <1> HIDE DEF more, h
  <1> QED BY <1>3, <1>7, <1>8, <1>9, <1>11, <1>14 DEF new, c

-----------------------------------------------------------------------------
(* Each step keeps the ids.                                                *)

\* The defaults name nothing.
LEMMA InitUInv == Init => UInv
  <1> SUFFICES ASSUME Init PROVE UInv
    OBVIOUS
  <1>1. /\ DOMAIN mem = Files /\ mem.proxies = <<>> /\ mem.active = None
        /\ \A f \in Others : mem[f] = 0
    BY StoreAssumption DEF Init, Defaults, Files
  <1>2. <<>> \in Seq(Proxy) /\ Len(<<>>) = 0 /\ <<>> \in Seq(Files)
    BY EmptySeq
  <1>3. IsData(mem) /\ mem = disk
    BY <1>1, <1>2, StoreAssumption DEF Init, IsData
  <1>4. TypeOK
    <2>1. todo \in Seq(Files) /\ Len(todo) <= 2
      BY <1>2 DEF Init
    <2>2. IsData(mem) /\ IsData(disk)
      BY <1>3
    <2> QED BY <2>1, <2>2 DEF Init, TypeOK
  <1>5. Sound(mem.proxies)
    BY <1>1 DEF Sound, DistinctIds, Measured, Names
  <1>6. Taken = {}
    BY DEF Init, Taken
  <1>7. Taken = 1 .. Used
    <2>1. Used = 0
      BY <1>4, <1>6, UsedIsNat, FS_EmptySet
    <2> QED BY <1>6, <2>1
  <1> QED BY <1>3, <1>4, <1>5, <1>7 DEF Init, UInv, OneName

\* A list keeps its soundness when more names are known.
LEMMA SoundStays ==
  ASSUME NEW list, Sound(list), named \subseteq named'
  PROVE  DistinctIds(list) /\ Measured(list) /\ Names(list) \subseteq named'
  BY DEF Sound

\* Any operation that leaves the list sound and takes its new ids in order.
LEMMA OperateUInv ==
  ASSUME UInv, NEW new, NEW files, Operate(new, files), Writable(files), IsData(new),
         DistinctIds(new.proxies), Measured(new.proxies), named' \subseteq Ids \X Keys,
         OneName(named'), \E n \in Nat : Taken' = 1 .. n
  PROVE  UInv'
  <1>1. files \in Seq(Files) /\ Len(files) <= 2
    <2>1. CASE files = <<"active", "proxies">>
      <3>1. "active" \in Files /\ "proxies" \in Files
        BY DEF Files
      <3> QED BY <2>1, <3>1
    <2>2. ASSUME NEW f \in Files, files = <<f>> PROVE files \in Seq(Files) /\ Len(files) <= 2
      BY <2>2
    <2> QED BY <2>1, <2>2 DEF Writable
  <1>2. IsData(mem)' /\ IsData(disk)'
    BY DEF Operate, UInv, TypeOK, IsData
  <1>3. dangled' \in BOOLEAN
    BY DEF Operate
  <1>4. TypeOK'
    BY <1>1, <1>2, <1>3 DEF Operate, UInv, TypeOK
  <1>5. Sound(mem.proxies)'
    BY DEF Operate, Sound, DistinctIds, Measured, Names
  <1>6. Sound(disk.proxies)'
    <2>1. disk' = disk /\ named \subseteq named' /\ Sound(disk.proxies)
      BY DEF Operate, UInv
    <2> QED BY <2>1 DEF Sound, DistinctIds, Measured, Names
  <1>7. Taken' = (1 .. Used)'
    <2>1. PICK n \in Nat : Taken' = 1 .. n
      OBVIOUS
    <2>2. 1 \in Int /\ n \in Int
      OBVIOUS
    <2>3. Cardinality(1 .. n) = n
      BY <2>2, FS_Interval
    <2>4. Used' = Cardinality(Taken)'
      BY DEF Used, Taken
    <2> QED BY <2>1, <2>3, <2>4
  <1> QED BY <1>4, <1>5, <1>6, <1>7 DEF UInv

\* An operation that changes the proxies alone.
LEMMA SetProxiesUInv ==
  ASSUME UInv, NEW list \in Seq(Proxy), SetProxies(list),
         DistinctIds(list), Measured(list),
         NEW c \in Nat, NEW h \in [1 .. c -> Keys], Used + c <= MaxIds,
         named \cup Names(list) = Growth(c, h)
  PROVE  UInv'
  <1> DEFINE new == [mem EXCEPT !.proxies = list]
             files == <<"proxies">>
  <1>1. Operate(new, files) /\ Len(list) <= MaxList
    BY DEF SetProxies
  <1>2. Writable(files)
    BY DEF Writable, Files
  <1>3. DOMAIN mem = Files /\ "proxies" \in Files /\ "active" \in Files /\ "proxies" \notin Others
    BY StoreAssumption DEF UInv, TypeOK, IsData, Files
  <1>4. new.proxies = list /\ DOMAIN new = Files /\ \A f \in Files \ {"proxies"} : new[f] = mem[f]
    BY <1>3
  <1> HIDE DEF new, files
  <1>5. IsData(new)
    <2>1. Others \subseteq Files \ {"proxies"} /\ "active" \in Files \ {"proxies"} /\ "active" # "proxies"
      BY <1>3 DEF Files
    <2>2. new.active = mem.active /\ \A f \in Others : new[f] = mem[f]
      BY <2>1, <1>4
    <2>3. new.active \in Ids \cup {None} /\ \A f \in Others : new[f] \in 0 .. MaxEdits
      BY <2>2 DEF UInv, TypeOK, IsData
    <2> QED BY <2>3, <1>1, <1>4 DEF IsData
  <1>6. named' = Growth(c, h)
    BY <1>1, <1>4 DEF Operate
  <1>7. named' \subseteq Ids \X Keys /\ OneName(named') /\ {n[1] : n \in named'} = 1 .. Used + c
    BY <1>6, MoreNames
  <1>8. Used + c \in Nat /\ Taken' = 1 .. Used + c
    <2>1. Used \in Nat
      BY UsedIsNat DEF UInv
    <2>2. Taken' = 1 .. Used + c
      BY <1>7 DEF Taken
    <2> QED BY <2>1, <2>2
  <1> QED BY <1>1, <1>2, <1>4, <1>5, <1>7, <1>8, OperateUInv

\* An operation that takes no new id.
LEMMA NoNewNames ==
  ASSUME UInv, NEW new, NEW files, Operate(new, files), Writable(files), IsData(new),
         Sound(new.proxies)
  PROVE  UInv'
  <1>1. named' = named
    BY DEF Operate, Sound
  <1>2. Taken' = 1 .. Used /\ Used \in Nat
    BY <1>1, UsedIsNat DEF Taken, UInv
  <1> QED BY <1>1, <1>2, OperateUInv DEF UInv, TypeOK, Sound

\* The fields stay data when one of them changes to a value of its kind.
LEMMA FieldChanges ==
  ASSUME NEW d, IsData(d), NEW f \in Files, NEW v,
         f = "proxies" => v \in Seq(Proxy) /\ Len(v) <= MaxList,
         f = "active" => v \in Ids \cup {None},
         f \in Others => v \in 0 .. MaxEdits
  PROVE  /\ IsData([d EXCEPT ![f] = v])
         /\ [d EXCEPT ![f] = v].proxies = IF f = "proxies" THEN v ELSE d.proxies
  <1> DEFINE new == [d EXCEPT ![f] = v]
  <1>1. /\ DOMAIN d = Files /\ "proxies" \in Files /\ "active" \in Files /\ Others \subseteq Files
        /\ "proxies" \notin Others /\ "active" \notin Others
    BY StoreAssumption DEF IsData, Files
  <1>2. new[f] = v /\ DOMAIN new = Files /\ \A g \in Files \ {f} : new[g] = d[g]
    BY <1>1
  <1> HIDE DEF new
  <1>4. new.proxies \in Seq(Proxy) /\ Len(new.proxies) <= MaxList
    BY <1>1, <1>2 DEF IsData
  <1>5. new.active \in Ids \cup {None}
    BY <1>1, <1>2 DEF IsData
  <1>6. \A g \in Others : new[g] \in 0 .. MaxEdits
    BY <1>1, <1>2 DEF IsData
  <1>7. new.proxies = IF f = "proxies" THEN v ELSE d.proxies
    BY <1>1, <1>2
  <1> QED BY <1>2, <1>4, <1>5, <1>6, <1>7 DEF IsData, new

\* AddProxy, AddProxies: the new proxies come after the old ones.
LEMMA AddUInv ==
  ASSUME UInv, NEW n \in Nat, NEW keys \in [1 .. n -> Keys], AddProxies(keys)
  PROVE  UInv'
  <1> DEFINE new == [i \in 1 .. n |-> Fresh(i, Manual, keys[i])]
             old == mem.proxies
  <1>1. Len(keys) = n /\ DOMAIN keys = 1 .. n
    OBVIOUS
  <1>2. Used + n <= MaxIds /\ SetProxies(old \o new)
    BY <1>1 DEF AddProxies
  <1>3. Used \in Nat /\ old \in Seq(Proxy) /\ Sound(old)
    BY UsedIsNat DEF UInv, TypeOK, IsData
  <1>4. \A i \in 1 .. n : /\ new[i] \in Proxy /\ new[i].id = Used + i /\ new[i].key = keys[i]
                          /\ new[i].lat = None
    <2> SUFFICES ASSUME NEW i \in 1 .. n
                 PROVE  /\ new[i] \in Proxy /\ new[i].id = Used + i /\ new[i].key = keys[i]
                        /\ new[i].lat = None
      OBVIOUS
    <2>1. Used + i \in Ids /\ keys[i] \in Keys
      BY <1>2, <1>3, StoreAssumption DEF Ids
    <2> DEFINE id == Used + i
    <2>2. new[i] = [id |-> id, sub |-> Manual, key |-> keys[i], lat |-> None] /\ id \in Ids
      BY <2>1 DEF Fresh
    <2> HIDE DEF id
    <2> QED BY <2>1, <2>2 DEF Proxy, id
  <1>5. DOMAIN new = 1 .. n
    OBVIOUS
  <1>6. new \in Seq(Proxy) /\ Len(new) = n
    <2>1. new \in [1 .. n -> Proxy]
      BY <1>4
    <2> HIDE DEF new
    <2> QED BY <2>1, SeqDef
  <1> HIDE DEF new
  <1>7. DistinctIds(new) /\ Measured(new)
    <2>1. \A i, j \in 1 .. n : Used + i = Used + j => i = j
      BY <1>3
    <2> QED BY <2>1, <1>4, <1>5 DEF DistinctIds, Measured
  <1>8. \A i \in DOMAIN old : old[i].id \in 1 .. Used
    BY <1>3, SoundTaken
  <1>9. \A i \in DOMAIN old, j \in DOMAIN new : old[i].id # new[j].id
    <2>1. \A j \in 1 .. n : new[j].id \notin 1 .. Used
      BY <1>3, <1>4
    <2> QED BY <2>1, <1>5, <1>8
  <1>10. /\ old \o new \in Seq(Proxy) /\ DistinctIds(old \o new) /\ Measured(old \o new)
         /\ Names(old \o new) = Names(old) \cup Names(new)
    BY <1>3, <1>6, <1>7, <1>9, Appended DEF Sound
  <1>11. Names(new) = {<<Used + m, keys[m]>> : m \in 1 .. n}
    BY <1>4, <1>5 DEF Names
  <1>12. named \cup Names(old \o new) = Growth(n, keys)
    BY <1>3, <1>10, <1>11 DEF Sound, Growth
  <1> QED BY <1>2, <1>10, <1>12, SetProxiesUInv

\* A test of an endpoint reports: by its id the proxy has that endpoint.
LEMMA UpdateUInv ==
  ASSUME UInv, NEW id, NEW key, UpdateProxy(id, key)
  PROVE  UInv'
  <1> DEFINE old == mem.proxies
             new == [i \in DOMAIN old |->
                       IF old[i].id = id THEN [old[i] EXCEPT !.lat = key] ELSE old[i]]
  <1>1. old \in Seq(Proxy) /\ Sound(old) /\ Len(old) \in Nat /\ DOMAIN old = 1 .. Len(old)
    BY LenProperties DEF UInv, TypeOK, IsData
  <1>2. <<id, key>> \in named /\ key \in Keys
    BY DEF UpdateProxy, UInv, TypeOK
  <1>3. \A i \in DOMAIN old : /\ old[i] \in Proxy /\ <<old[i].id, old[i].key>> \in named
                              /\ old[i].lat \in {None, old[i].key}
    BY <1>1, SoundTaken
  <1>4. ASSUME NEW i \in DOMAIN old, old[i].id = id PROVE old[i].key = key
    <2> DEFINE m == <<id, key>>
               n == <<old[i].id, old[i].key>>
    <2>1. m \in named /\ n \in named /\ m[1] = n[1]
      BY <1>2, <1>3, <1>4
    <2>2. m = n
      <3> HIDE DEF m, n
      <3> QED BY <2>1 DEF UInv, OneName
    <2> QED BY <2>2
  <1>5. \A i \in DOMAIN old : /\ new[i] \in Proxy /\ new[i].id = old[i].id /\ new[i].key = old[i].key
                              /\ new[i].lat \in {None, new[i].key}
    <2> SUFFICES ASSUME NEW i \in DOMAIN old
                 PROVE  /\ new[i] \in Proxy /\ new[i].id = old[i].id /\ new[i].key = old[i].key
                        /\ new[i].lat \in {None, new[i].key}
      OBVIOUS
    <2>1. CASE old[i].id = id
      <3>1. new[i] = [old[i] EXCEPT !.lat = key] /\ old[i] \in Proxy /\ old[i].key = key
        BY <1>3, <1>4, <2>1
      <3> QED BY <3>1, <1>2 DEF Proxy
    <2>2. CASE old[i].id # id
      BY <1>3, <2>2
    <2> QED BY <2>1, <2>2
  <1>6. DOMAIN new = DOMAIN old
    OBVIOUS
  <1>7. new \in Seq(Proxy) /\ Len(new) = Len(old)
    <2>1. new \in [1 .. Len(old) -> Proxy]
      BY <1>1, <1>5
    <2> HIDE DEF new
    <2> QED BY <2>1, <1>1, SeqDef
  <1>8. SetProxies(new)
    BY DEF UpdateProxy
  <1> HIDE DEF new
  <1>9. Sound(new)
    <2>1. DistinctIds(new) /\ Measured(new)
      BY <1>1, <1>5, <1>6 DEF Sound, DistinctIds, Measured
    <2>2. Names(new) = Names(old)
      BY <1>5, <1>6 DEF Names
    <2> QED BY <2>1, <2>2, <1>1 DEF Sound
  <1> DEFINE next == [mem EXCEPT !.proxies = new]
  <1>10. IsData(next) /\ next.proxies = new
    <2>1. "proxies" \in Files /\ "proxies" \notin Others /\ Len(new) <= MaxList /\ IsData(mem)
      BY <1>8, StoreAssumption DEF Files, SetProxies, UInv, TypeOK
    <2> QED BY <2>1, <1>7, FieldChanges
  <1>11. Operate(next, <<"proxies">>) /\ Writable(<<"proxies">>)
    BY <1>8 DEF SetProxies, Writable, Files
  <1> HIDE DEF next
  <1> QED BY <1>9, <1>10, <1>11, NoNewNames

\* DeleteProxy, DeleteProxiesBySub: what is left was there.
LEMMA RemoveUInv ==
  ASSUME UInv, NEW ids, Remove(ids)
  PROVE  UInv'
  <1> DEFINE list == Without(ids)
             left == [mem EXCEPT !.proxies = list]
             new == [left EXCEPT !.active = None]
  <1>1. IsData(mem) /\ mem.proxies \in Seq(Proxy) /\ Len(mem.proxies) <= MaxList /\ Sound(mem.proxies)
        /\ Len(mem.proxies) \in Nat /\ MaxList \in Nat
    BY LenProperties, StoreAssumption DEF UInv, TypeOK, IsData
  <1>2. list \in Seq(Proxy) /\ Len(list) <= Len(mem.proxies) /\ Sound(list)
    <2> DEFINE I == {i \in DOMAIN mem.proxies : mem.proxies[i].id \notin ids}
    <2>1. list = Select(mem.proxies, I) /\ I \in SUBSET DOMAIN mem.proxies
      BY DEF Without
    <2> HIDE DEF I, list
    <2> QED BY <2>1, <1>1, SelectedSound
  <1> HIDE DEF list
  <1>3. Len(list) <= MaxList
    BY <1>1, <1>2, LenProperties
  <1>4. "proxies" \in Files /\ "active" \in Files /\ "proxies" \notin Others /\ "active" \notin Others
        /\ "active" # "proxies"
    BY StoreAssumption DEF Files
  <1>5. IsData(left) /\ left.proxies = list
    BY <1>1, <1>2, <1>3, <1>4, FieldChanges
  <1>6. CASE mem.active \in ids
    <2>1. Operate(new, <<"active", "proxies">>)
      BY <1>6 DEF Remove, list
    <2> HIDE DEF left
    <2>2. IsData(new) /\ new.proxies = list
      BY <1>4, <1>5, FieldChanges
    <2>3. Writable(<<"active", "proxies">>)
      BY DEF Writable
    <2> HIDE DEF new
    <2> QED BY <1>2, <2>1, <2>2, <2>3, NoNewNames
  <1>7. CASE mem.active \notin ids
    <2>1. Operate(left, <<"proxies">>)
      BY <1>7 DEF Remove, list
    <2>2. Writable(<<"proxies">>)
      BY <1>4 DEF Writable
    <2> HIDE DEF left
    <2> QED BY <1>2, <1>5, <2>1, <2>2, NoNewNames
  <1> QED BY <1>6, <1>7

\* ReplaceSubProxies: the others' proxies, and the renewed ones after them.
LEMMA ReplaceUInv ==
  ASSUME UInv, NEW s \in Subs, NEW n \in Nat, NEW keys \in [1 .. n -> Keys],
         ReplaceSubProxies(s, keys)
  PROVE  UInv'
  <1> DEFINE old == mem.proxies
             a == NotOf(old, s)
             b == Renewed(s, keys)
             I == {i \in DOMAIN old : old[i].sub # s}
  <1>1. Used + Added(s, keys) <= MaxIds /\ SetProxies(a \o b)
    BY DEF ReplaceSubProxies, Replaced, Renewed
  <1>2. TypeOK /\ old \in Seq(Proxy) /\ Sound(old)
    BY DEF UInv, TypeOK, IsData
  <1>3. Used \in Nat
    BY <1>2, UsedIsNat
  <1>c. Added(s, keys) \in Nat
    <2>1. News(s, keys) \in SUBSET (1 .. n)
      BY DEF News
    <2> QED BY <2>1, RankNumbers DEF Added
  <1>4. /\ b \in Seq(Proxy) /\ DOMAIN b = 1 .. n /\ DistinctIds(b) /\ Measured(b)
    BY <1>1, RenewedSound
  <1>5. PICK h \in [1 .. Added(s, keys) -> Keys] : named \cup Names(b) = Growth(Added(s, keys), h)
    BY <1>1, RenewedSound
  <1>6. a = Select(old, I) /\ I \in SUBSET DOMAIN old
    BY DEF NotOf
  <1>7. a \in Seq(Proxy) /\ Sound(a)
    <2> HIDE DEF a, I, old
    <2> QED BY <1>2, <1>6, SelectedSound
  <1>8. \A m \in DOMAIN a : \E p \in DOMAIN old : a[m] = old[p] /\ old[p].sub # s
    <2>1. \A p \in I : p \in DOMAIN old /\ old[p].sub # s
      OBVIOUS
    <2> HIDE DEF a, I, old
    <2> QED BY <2>1, <1>2, <1>6, SelectedFrom
  <1>9. \A j \in 1 .. n :
          \/ \E q \in DOMAIN old : b[j] = old[q] /\ old[q].sub = s
          \/ b[j].id \notin 1 .. Used
    <2> SUFFICES ASSUME NEW j \in 1 .. n
                 PROVE  \/ \E q \in DOMAIN old : b[j] = old[q] /\ old[q].sub = s
                        \/ b[j].id \notin 1 .. Used
      OBVIOUS
    <2>1. CASE Carries(s, keys, j)
      <3>1. PICK q \in Indices(s, keys[j]) : b[j] = old[q]
        BY <2>1, <1>2, RenewedIs
      <3> QED BY <3>1 DEF Indices
    <2>2. CASE ~Carries(s, keys, j)
      <3> DEFINE N == News(s, keys)
      <3>1. b[j] = Fresh(Rank(N, j), s, keys[j])
        BY <2>2, <1>2, RenewedIs
      <3>2. N \in SUBSET (1 .. n) /\ j \in N
        BY <2>2 DEF News
      <3> HIDE DEF N, b
      <3>3. Rank(N, j) \in Nat /\ Rank(N, j) >= 1
        BY <3>2, RankNumbers
      <3>4. b[j].id = Used + Rank(N, j)
        BY <3>1 DEF Fresh
      <3> QED BY <3>3, <3>4, <1>3
    <2> QED BY <2>1, <2>2
  <1>10. \A i \in DOMAIN a, j \in DOMAIN b : a[i].id # b[j].id
    <2> SUFFICES ASSUME NEW i \in DOMAIN a, NEW j \in 1 .. n PROVE a[i].id # b[j].id
      BY <1>4
    <2>1. PICK p \in DOMAIN old : a[i] = old[p] /\ old[p].sub # s
      BY <1>8
    <2>2. old[p].id \in 1 .. Used
      BY <1>2, SoundTaken
    <2>3. ASSUME NEW q \in DOMAIN old, b[j] = old[q], old[q].sub = s PROVE a[i].id # b[j].id
      <3>1. p # q
        BY <2>1, <2>3
      <3> HIDE DEF a, b, old
      <3> QED BY <3>1, <2>1, <2>3, <1>2 DEF Sound, DistinctIds
    <2> HIDE DEF a, b, old
    <2> QED BY <2>1, <2>2, <2>3, <1>9
  <1> HIDE DEF a, b, I, old
  <1>11. /\ a \o b \in Seq(Proxy) /\ DistinctIds(a \o b) /\ Measured(a \o b)
         /\ Names(a \o b) = Names(a) \cup Names(b)
    BY <1>4, <1>7, <1>10, Appended DEF Sound
  <1>12. named \cup Names(a \o b) = Growth(Added(s, keys), h)
    BY <1>5, <1>7, <1>11 DEF Sound
  <1> QED BY <1>1, <1>c, <1>11, <1>12, SetProxiesUInv

\* SetActive, and the edits of the other files.
LEMMA OneFileUInv ==
  ASSUME UInv, NEW f \in Files, f # "proxies", NEW v,
         f = "active" => v \in Ids, f \in Others => v \in 0 .. MaxEdits,
         Operate([mem EXCEPT ![f] = v], <<f>>)
  PROVE  UInv'
  <1> DEFINE new == [mem EXCEPT ![f] = v]
  <1>1. IsData(mem) /\ Writable(<<f>>) /\ Sound(mem.proxies)
    BY DEF UInv, TypeOK, Writable
  <1>2. IsData(new) /\ new.proxies = mem.proxies
    <2>1. f = "active" => v \in Ids \cup {None}
      OBVIOUS
    <2>2. /\ IsData([mem EXCEPT ![f] = v])
          /\ [mem EXCEPT ![f] = v].proxies = IF f = "proxies" THEN v ELSE mem.proxies
      BY <1>1, <2>1, FieldChanges
    <2> QED BY <2>2
  <1>3. Operate(new, <<f>>)
    OBVIOUS
  <1> HIDE DEF new
  <1> QED BY <1>1, <1>2, <1>3, NoNewNames

\* A file reaches the disk, or does not.
LEMMA WriteUInv ==
  ASSUME UInv, Write \/ WriteFails
  PROVE  UInv'
  <1>1. todo \in Seq(Files) /\ todo # <<>> /\ Len(todo) <= 2
    BY DEF Write, WriteFails, UInv, TypeOK
  <1>2. Head(todo) \in Files /\ todo' \in Seq(Files) /\ Len(todo') <= 2
    <2>1. Head(todo) \in Files /\ Tail(todo) \in Seq(Files) /\ Len(Tail(todo)) = Len(todo) - 1
          /\ Len(todo) \in Nat
      BY <1>1, HeadTailProperties, LenProperties
    <2> QED BY <2>1, <1>1 DEF Write, WriteFails, Done
  <1>3. behind' \subseteq Files
    BY <1>2 DEF Write, WriteFails, UInv, TypeOK
  <1>4. IsData(disk') /\ Sound(disk'.proxies)
    <2>1. CASE Write
      <3> DEFINE f == Head(todo)
      <3>1. IsData(mem) /\ IsData(disk) /\ f \in Files /\ disk' = [disk EXCEPT ![f] = mem[f]]
        BY <1>2, <2>1 DEF Write, UInv, TypeOK
      <3> HIDE DEF f
      <3>2. /\ IsData(disk')
            /\ disk'.proxies = IF f = "proxies" THEN mem.proxies ELSE disk.proxies
        BY <3>1, FieldChanges DEF IsData
      <3> QED BY <3>2 DEF UInv
    <2>2. CASE WriteFails
      BY <2>2 DEF WriteFails, UInv, TypeOK
    <2> QED BY <2>1, <2>2
  <1>5. mem' = mem /\ dangled' = dangled /\ named' = named
    BY DEF Write, WriteFails
  <1>6. TypeOK'
    BY <1>2, <1>3, <1>4, <1>5 DEF UInv, TypeOK, IsData
  <1>7. Sound(mem.proxies)' /\ Sound(disk.proxies)'
    BY <1>4, <1>5 DEF UInv, Sound, DistinctIds, Measured, Names
  <1> QED BY <1>5, <1>6, <1>7 DEF UInv, Taken, Used

\* A restart takes the disk for memory, and no id is given out again.
LEMMA CrashUInv ==
  ASSUME UInv, Crash
  PROVE  UInv'
  <1>1. mem' = disk /\ disk' = disk /\ named' = named
    BY DEF Crash
  <1>2. <<>> \in Seq(Files) /\ Len(<<>>) = 0 /\ Dangling(disk) \in BOOLEAN
    BY EmptySeq DEF Dangling
  <1>3. TypeOK'
    <2>1. IsData(mem)' /\ IsData(disk)'
      BY <1>1 DEF UInv, TypeOK, IsData
    <2> QED BY <2>1, <1>1, <1>2 DEF Crash, UInv, TypeOK
  <1>4. Sound(mem.proxies)' /\ Sound(disk.proxies)'
    BY <1>1 DEF UInv, Sound, DistinctIds, Measured, Names
  <1> QED BY <1>1, <1>3, <1>4 DEF UInv, Taken, Used

\* The invariant on ids is inductive.
LEMMA NextUInv == UInv /\ [Next]_vars => UInv'
  <1> SUFFICES ASSUME UInv, [Next]_vars PROVE UInv'
    OBVIOUS
  <1>1. ASSUME NEW keys \in Lists PROVE \E n \in Nat : keys \in [1 .. n -> Keys]
    <2>1. 0 .. MaxList \subseteq Nat
      OBVIOUS
    <2> QED BY <1>1, <2>1 DEF Lists
  <1>2. ASSUME NEW keys \in Lists, AddProxies(keys) PROVE UInv'
    BY <1>1, <1>2, AddUInv
  <1>3. ASSUME NEW id, NEW k, UpdateProxy(id, k) PROVE UInv'
    BY <1>3, UpdateUInv
  <1>4. ASSUME NEW id, DeleteProxy(id) PROVE UInv'
    BY <1>4, RemoveUInv DEF DeleteProxy
  <1>5. ASSUME NEW id \in Ids, SetActive(id) PROVE UInv'
    <2>1. "active" \in Files /\ "active" # "proxies" /\ "active" \notin Others
      BY StoreAssumption DEF Files
    <2> QED BY <1>5, <2>1, OneFileUInv DEF SetActive
  <1>6. ASSUME NEW s, DeleteProxiesBySub(s) PROVE UInv'
    BY <1>6, RemoveUInv DEF DeleteProxiesBySub
  <1>7. ASSUME NEW s \in Subs, NEW keys \in Lists, ReplaceSubProxies(s, keys) PROVE UInv'
    BY <1>1, <1>7, ReplaceUInv
  <1>8. ASSUME NEW f \in Others, Edit(f) PROVE UInv'
    <2>1. f \in Files /\ f # "proxies" /\ f # "active"
      BY StoreAssumption DEF Files
    <2>2. mem[f] + 1 \in 0 .. MaxEdits
      BY <1>8, StoreAssumption DEF Edit, UInv, TypeOK, IsData
    <2>3. DOMAIN mem = Files
      BY DEF UInv, TypeOK, IsData
    <2>4. Operate([mem EXCEPT ![f] = mem[f] + 1], <<f>>)
      BY <1>8, <2>1, <2>3 DEF Edit
    <2> QED BY <2>1, <2>2, <2>4, OneFileUInv
  <1>9. CASE UNCHANGED vars
    BY <1>9 DEF vars, UInv, TypeOK, IsData, Sound, DistinctIds, Measured, Names, Taken, Used
  <1> QED BY <1>2, <1>3, <1>4, <1>5, <1>6, <1>7, <1>8, <1>9, WriteUInv, CrashUInv DEF Next

LEMMA IdsInvariance == Spec => []UInv
  BY InitUInv, NextUInv, PTL DEF Spec

-----------------------------------------------------------------------------
\* No two proxies have one id, in memory or on disk, over refreshes that carry
\* ids over, crashes and failed writes (storage.go:205).
THEOREM IdsAreUnique == Spec => []UniqueIds
  <1>1. ASSUME NEW list \in Seq(Proxy), DistinctIds(list)
        PROVE  Cardinality(IdsOf(list)) = Len(list)
    <2> DEFINE n == Len(list)
               f == [i \in 1 .. n |-> list[i].id]
    <2>1. n \in Nat /\ DOMAIN list = 1 .. n
      BY LenProperties
    <2>2. f \in Bijection(1 .. n, IdsOf(list))
      BY <1>1, <2>1 DEF Bijection, Injection, Surjection, IsInjective, IdsOf, DistinctIds
    <2>3. IsFiniteSet(1 .. n) /\ Cardinality(1 .. n) = n
      <3>1. 1 \in Int /\ n \in Int
        BY <2>1
      <3> QED BY <2>1, <3>1, FS_Interval
    <2>4. ExistsBijection(1 .. n, IdsOf(list))
      BY <2>2 DEF ExistsBijection
    <2> HIDE DEF n
    <2>5. Cardinality(IdsOf(list)) = n
      BY <2>3, <2>4, FS_Bijection
    <2> QED BY <2>5 DEF n
  <1>2. UInv => UniqueIds
    BY <1>1 DEF UInv, Sound, TypeOK, IsData, UniqueIds
  <1> QED BY <1>2, IdsInvariance, PTL

\* An id stands for one endpoint for ever, and the latency shown for a proxy
\* was measured at it (storage.go:205, handlers/health.go:74).
THEOREM OneEndpointPerId == Spec => []IdNamesOneEndpoint
  <1>1. UInv => IdNamesOneEndpoint
    BY DEF UInv, OneName, Sound, Measured, IdNamesOneEndpoint
  <1> QED BY <1>1, IdsInvariance, PTL

-----------------------------------------------------------------------------
(* What a refresh keeps.                                                   *)

\* Consecutive positions, and that part of a list.
Stretch(lo, n) == lo + 1 .. lo + n
Part(list, lo, n) == [m \in 1 .. n |-> list[lo + m]]

\* Selecting the positions gives the part.
LEMMA SelectedPart ==
  ASSUME NEW list, NEW lo \in Nat, NEW n \in Nat
  PROVE  Select(list, Stretch(lo, n)) = Part(list, lo, n)
  <1> DEFINE I == lo + 1 .. lo + n
  <1>1. Cardinality(I) = n
    <2>1. lo + 1 \in Int /\ lo + n \in Int
      OBVIOUS
    <2> QED BY <2>1, FS_Interval
  <1>2. \A i \in I : Rank(I, i) = i - lo
    <2> SUFFICES ASSUME NEW i \in I PROVE Rank(I, i) = i - lo
      OBVIOUS
    <2>1. {j \in I : j <= i} = lo + 1 .. i
      OBVIOUS
    <2>2. lo + 1 \in Int /\ i \in Int /\ ~ lo + 1 > i
      OBVIOUS
    <2>3. Cardinality(lo + 1 .. i) = i - (lo + 1) + 1
      BY <2>2, FS_Interval
    <2>4. Rank(I, i) = Cardinality(lo + 1 .. i)
      <3>1. Rank(I, i) = Cardinality({j \in I : j <= i})
        BY DEF Rank
      <3> HIDE DEF I
      <3> QED BY <3>1, <2>1
    <2>5. i \in Int /\ i - (lo + 1) + 1 = i - lo
      BY <2>2
    <2> QED BY <2>3, <2>4, <2>5
  <1>3. \A m \in 1 .. n : (CHOOSE i \in I : Rank(I, i) = m) = lo + m
    <2> SUFFICES ASSUME NEW m \in 1 .. n PROVE (CHOOSE i \in I : Rank(I, i) = m) = lo + m
      OBVIOUS
    <2>1. lo + m \in I /\ \A i \in I : i - lo = m => i = lo + m
      OBVIOUS
    <2>2. Rank(I, lo + m) = m /\ \A i \in I : Rank(I, i) = m => i = lo + m
      BY <1>2, <2>1
    <2> HIDE DEF I
    <2> QED BY <2>1, <2>2
  <1> HIDE DEF I
  <1> DEFINE pos == [m \in 1 .. n |-> CHOOSE i \in I : Rank(I, i) = m]
  <1>4. Select(list, I) = [m \in 1 .. n |-> list[pos[m]]]
    BY <1>1 DEF Select
  <1>5. \A m \in 1 .. n : pos[m] = lo + m
    BY <1>3
  <1> HIDE DEF pos
  <1>6. Select(list, I) = [m \in 1 .. n |-> list[lo + m]]
    BY <1>4, <1>5
  <1> QED BY <1>6 DEF I, Stretch, Part

\* The positions of a subscription's proxies, and their list.
Places(list, s) == {i \in DOMAIN list : list[i].sub = s}

LEMMA OfIs ==
  ASSUME NEW list \in Seq(Proxy), NEW s
  PROVE  /\ \A m \in DOMAIN Of(list, s) : \E p \in Places(list, s) : Of(list, s)[m] = list[p]
         /\ \A p \in Places(list, s) : \E m \in DOMAIN Of(list, s) : Of(list, s)[m] = list[p]
         /\ (\A i, j \in DOMAIN Of(list, s) : Of(list, s)[i].key = Of(list, s)[j].key => i = j)
            => \A p, q \in Places(list, s) : list[p].key = list[q].key => p = q
  <1> DEFINE I == Places(list, s)
             c == Cardinality(I)
             new == Select(list, I)
  <1>1. I \in SUBSET DOMAIN list
    BY DEF Places
  <1>2. new = Of(list, s)
    BY DEF Places, Of
  <1> HIDE DEF I
  <1>3. DOMAIN new = 1 .. c
    BY <1>1, Selected
  <1>4. PICK pos \in [1 .. c -> I] :
          /\ \A m \in 1 .. c : new[m] = list[pos[m]] /\ Rank(I, pos[m]) = m
          /\ \A m, n \in 1 .. c : pos[m] = pos[n] => m = n
          /\ \A i \in I : \E m \in 1 .. c : pos[m] = i
    BY <1>1, Selected
  <1> HIDE DEF c, new
  <1>5. \A m \in DOMAIN new : \E p \in I : new[m] = list[p]
    BY <1>3, <1>4
  <1>6. \A p \in I : \E m \in DOMAIN new : new[m] = list[p]
    BY <1>3, <1>4
  <1>7. ASSUME \A i, j \in DOMAIN new : new[i].key = new[j].key => i = j,
               NEW p \in I, NEW q \in I, list[p].key = list[q].key
        PROVE  p = q
    <2>1. PICK m \in 1 .. c : pos[m] = p
      BY <1>4
    <2>2. PICK n \in 1 .. c : pos[n] = q
      BY <1>4
    <2>3. new[m] = list[p] /\ new[n] = list[q]
      BY <2>1, <2>2, <1>4
    <2>4. m = n
      BY <2>3, <1>3, <1>7
    <2> QED BY <2>1, <2>2, <2>4
  <1> QED BY <1>2, <1>5, <1>6, <1>7 DEF I

\* Proxies whose id may be beyond the bound.
AnyProxy == [id : Nat, sub : Subs \cup {Manual}, key : Keys, lat : Keys \cup {None}]

\* What the i-th key has become: an old proxy as it was, or a new one.
LEMMA RenewedKinds ==
  ASSUME UInv, NEW s \in Subs, NEW n \in Nat, NEW keys \in [1 .. n -> Keys], NEW i \in 1 .. n
  PROVE  /\ Renewed(s, keys)[i] \in AnyProxy
         /\ Renewed(s, keys)[i].sub = s /\ Renewed(s, keys)[i].key = keys[i]
         /\ Carries(s, keys, i) =>
              \E p \in Places(mem.proxies, s) : Renewed(s, keys)[i] = mem.proxies[p]
         /\ ~Carries(s, keys, i) =>
              /\ Rank(News(s, keys), i) \in 1 .. Added(s, keys)
              /\ Renewed(s, keys)[i].id = Used + Rank(News(s, keys), i)
  <1> DEFINE old == mem.proxies
             b == Renewed(s, keys)
             N == News(s, keys)
  <1>1. TypeOK /\ old \in Seq(Proxy) /\ Used \in Nat
    BY UsedIsNat DEF UInv, TypeOK, IsData
  <1>2. CASE Carries(s, keys, i)
    <2>1. PICK p \in Indices(s, keys[i]) : b[i] = old[p]
      BY <1>1, <1>2, RenewedIs
    <2>2. p \in DOMAIN old /\ old[p].sub = s /\ old[p].key = keys[i] /\ p \in Places(old, s)
      BY DEF Indices, Places
    <2>3. old[p] \in Proxy
      BY <2>2, <1>1, LenProperties, ElementOfSeq
    <2>4. old[p] \in AnyProxy
      BY <2>3, StoreAssumption DEF Proxy, AnyProxy, Ids
    <2> QED BY <1>2, <2>1, <2>2, <2>4
  <1>3. CASE ~Carries(s, keys, i)
    <2>1. b[i] = Fresh(Rank(N, i), s, keys[i])
      BY <1>1, <1>3, RenewedIs
    <2>2. N \in SUBSET (1 .. n) /\ i \in N /\ Added(s, keys) = Cardinality(N)
      BY <1>3 DEF News, Added
    <2> HIDE DEF N, b
    <2>3. Rank(N, i) \in 1 .. Cardinality(N) /\ Cardinality(N) \in Nat
      BY <2>2, RankNumbers
    <2> DEFINE id == Used + Rank(N, i)
    <2>4. id \in Nat
      BY <1>1, <2>3
    <2>5. b[i] = [id |-> id, sub |-> s, key |-> keys[i], lat |-> None]
      BY <2>1 DEF Fresh
    <2> HIDE DEF id
    <2>6. b[i] \in AnyProxy /\ b[i].sub = s /\ b[i].key = keys[i] /\ b[i].id = id
      BY <2>4, <2>5 DEF AnyProxy
    <2> QED BY <1>3, <2>2, <2>3, <2>6 DEF N, b, id
  <1> QED BY <1>2, <1>3

\* A refreshed list is the others' proxies as they were and then the renewed ones.
LEMMA RefreshedParts ==
  ASSUME UInv, NEW s \in Subs, NEW n \in Nat, NEW keys \in [1 .. n -> Keys]
  PROVE  /\ NotOf(Replaced(s, keys), s) = NotOf(mem.proxies, s)
         /\ Of(Replaced(s, keys), s) = Renewed(s, keys)
  <1> DEFINE old == mem.proxies
             a == NotOf(old, s)
             b == Renewed(s, keys)
             c == a \o b
             l == Len(a)
             I == {i \in DOMAIN old : old[i].sub # s}
  <1>1. old \in Seq(Proxy)
    BY DEF UInv, TypeOK, IsData
  <1>2. a = Select(old, I) /\ I \in SUBSET DOMAIN old
    BY DEF NotOf
  <1>3. a \in Seq(Proxy) /\ \A m \in DOMAIN a : a[m].sub # s
    <2>1. \A p \in I : old[p].sub # s
      OBVIOUS
    <2> HIDE DEF a, I, old
    <2>2. Select(old, I) \in Seq(Proxy)
      BY <1>1, <1>2, Selected
    <2>3. \A m \in DOMAIN Select(old, I) : \E p \in I : Select(old, I)[m] = old[p]
      BY <1>1, <1>2, SelectedFrom
    <2> QED BY <1>2, <2>1, <2>2, <2>3
  <1>4. DOMAIN b = 1 .. n /\ b = [i \in 1 .. n |-> b[i]]
    BY DEF Renewed
  <1>5. \A i \in 1 .. n : b[i] \in AnyProxy /\ b[i].sub = s
    BY RenewedKinds
  <1>6. Replaced(s, keys) = c
    BY DEF Replaced, Renewed
  <1> HIDE DEF a, b, I, old
  <1>7. b \in Seq(AnyProxy) /\ Len(b) = n
    <2>1. b \in [1 .. n -> AnyProxy]
      BY <1>4, <1>5
    <2> QED BY <2>1, SeqDef
  <1>8. a \in Seq(AnyProxy) /\ l \in Nat /\ DOMAIN a = 1 .. l
    <2>1. Proxy \subseteq AnyProxy
      BY StoreAssumption DEF Proxy, AnyProxy, Ids
    <2>2. l \in Nat /\ DOMAIN a = 1 .. l
      BY <1>3, LenProperties
    <2>3. \A m \in 1 .. l : a[m] \in Proxy
      BY <1>3, <2>2, ElementOfSeq
    <2>4. a \in [1 .. l -> AnyProxy]
      BY <1>3, <2>1, <2>2, <2>3
    <2> HIDE DEF l
    <2> QED BY <2>2, <2>4, SeqDef
  <1>9. /\ Len(c) = l + n /\ c \in Seq(AnyProxy)
        /\ \A i \in 1 .. l + n : c[i] = IF i <= l THEN a[i] ELSE b[i - l]
    BY <1>7, <1>8, ConcatProperties
  <1>10. DOMAIN c = 1 .. l + n
    BY <1>9, LenProperties
  <1> HIDE DEF c, l
  <1>11. \A i \in 1 .. l : i \in DOMAIN c /\ c[i] = a[i] /\ c[i].sub # s
    <2> SUFFICES ASSUME NEW i \in 1 .. l PROVE i \in DOMAIN c /\ c[i] = a[i]
      BY <1>3, <1>8
    <2>1. i \in 1 .. l + n /\ i <= l
      BY <1>8
    <2> QED BY <2>1, <1>9, <1>10
  <1>12. \A m \in 1 .. n : l + m \in DOMAIN c /\ c[l + m] = b[m] /\ c[l + m].sub = s
    <2> SUFFICES ASSUME NEW m \in 1 .. n PROVE l + m \in DOMAIN c /\ c[l + m] = b[m]
      BY <1>5
    <2>1. l + m \in 1 .. l + n /\ ~ l + m <= l /\ (l + m) - l = m
      BY <1>8
    <2> QED BY <2>1, <1>9, <1>10
  <1>13. \A i \in DOMAIN c : i \in 1 .. l \/ \E m \in 1 .. n : i = l + m
    <2> SUFFICES ASSUME NEW i \in 1 .. l + n, i \notin 1 .. l PROVE \E m \in 1 .. n : i = l + m
      BY <1>10
    <2>1. i - l \in 1 .. n /\ i = l + (i - l)
      BY <1>8
    <2> QED BY <2>1
  <1>14. {i \in DOMAIN c : c[i].sub # s} = 1 .. l
    BY <1>11, <1>12, <1>13
  <1>15. {i \in DOMAIN c : c[i].sub = s} = l + 1 .. l + n
    <2>1. \A i \in l + 1 .. l + n : i - l \in 1 .. n /\ i = l + (i - l)
      BY <1>8
    <2>2. \A m \in 1 .. n : l + m \in l + 1 .. l + n
      BY <1>8
    <2> QED BY <2>1, <2>2, <1>11, <1>12, <1>13
  <1>16. NotOf(c, s) = [m \in 1 .. l |-> c[m]]
    <2>1. NotOf(c, s) = Select(c, 1 .. l)
      BY <1>14 DEF NotOf
    <2>2. Select(c, Stretch(0, l)) = Part(c, 0, l)
      BY <1>8, SelectedPart
    <2>3. Stretch(0, l) = 1 .. l /\ Part(c, 0, l) = [m \in 1 .. l |-> c[m]]
      BY <1>8 DEF Stretch, Part
    <2> QED BY <2>1, <2>2, <2>3
  <1>17. NotOf(c, s) = a
    <2>1. a = [m \in 1 .. l |-> a[m]]
      BY <1>3, <1>8
    <2> QED BY <2>1, <1>11, <1>16
  <1>18. Of(c, s) = [m \in 1 .. n |-> c[l + m]]
    <2>1. Of(c, s) = Select(c, Stretch(l, n))
      BY <1>15 DEF Of, Stretch
    <2>2. Select(c, Stretch(l, n)) = Part(c, l, n)
      BY <1>8, SelectedPart
    <2> QED BY <2>1, <2>2 DEF Part
  <1>19. Of(c, s) = b
    BY <1>4, <1>12, <1>18
  <1> QED BY <1>6, <1>17, <1>19 DEF a, b, old

\* The old list names each endpoint once.
KeysDistinct(list, s) == \A p, q \in Places(list, s) : list[p].key = list[q].key => p = q

\* Some positions, not none, have a first one.
LEMMA FirstOf ==
  ASSUME NEW n \in Nat, NEW I \in SUBSET (1 .. n), I # {}
  PROVE  \E i \in I : \A j \in I : i <= j
  <1> DEFINE J == {x \in 1 .. n : n + 1 - x \in I}
  <1>1. \A i \in I : n + 1 - i \in J
    OBVIOUS
  <1>2. J \in SUBSET (1 .. n) /\ J # {}
    BY <1>1
  <1>3. \A x \in J : x \in 1 .. n /\ n + 1 - x \in I
    OBVIOUS
  <1> HIDE DEF J
  <1>4. PICK x \in J : \A y \in J : y <= x
    BY <1>2, LastOf
  <1>5. n + 1 - x \in I /\ \A j \in I : n + 1 - x <= j
    BY <1>1, <1>3, <1>4
  <1> QED BY <1>5

\* An endpoint that both lists name keeps its proxy.
LEMMA CarriedOver ==
  ASSUME UInv, NEW s \in Subs, NEW n \in Nat, NEW keys \in [1 .. n -> Keys],
         KeysDistinct(mem.proxies, s),
         NEW p \in Places(mem.proxies, s), NEW j \in 1 .. n, mem.proxies[p].key = keys[j]
  PROVE  \E m \in 1 .. n : Renewed(s, keys)[m] = mem.proxies[p]
  <1> DEFINE old == mem.proxies
             b == Renewed(s, keys)
             I == {i \in 1 .. n : keys[i] = keys[j]}
  <1>1. I \in SUBSET (1 .. n) /\ I # {}
    OBVIOUS
  <1>2. PICK m \in I : \A i \in I : m <= i
    <2> HIDE DEF I
    <2> QED BY <1>1, FirstOf
  <1>3. m \in 1 .. n /\ keys[m] = keys[j]
    OBVIOUS
  <1>4. Carries(s, keys, m)
    <2>1. Indices(s, keys[m]) # {}
      BY <1>3 DEF Indices, Places
    <2>2. \A i \in 1 .. m - 1 : keys[i] # keys[m]
      <3> SUFFICES ASSUME NEW i \in 1 .. m - 1, keys[i] = keys[m] PROVE FALSE
        OBVIOUS
      <3>1. i \in I /\ ~ m <= i
        BY <1>3
      <3> QED BY <3>1, <1>2
    <2> QED BY <2>1, <2>2 DEF Carries
  <1>5. PICK q \in Places(old, s) : b[m] = old[q]
    BY <1>3, <1>4, RenewedKinds
  <1>6. b[m].key = keys[m]
    BY <1>3, RenewedKinds
  <1>7. p = q
    <2> HIDE DEF b
    <2> QED BY <1>3, <1>5, <1>6 DEF KeysDistinct
  <1> QED BY <1>3, <1>5, <1>7

\* The ids of a subscription's old proxies.
LEMMA OldIds ==
  ASSUME UInv, NEW s
  PROVE  /\ IdsOf(Of(mem.proxies, s)) = {mem.proxies[p].id : p \in Places(mem.proxies, s)}
         /\ \A p \in Places(mem.proxies, s) : mem.proxies[p].id \in 1 .. Used
  <1> DEFINE old == mem.proxies
             new == Of(old, s)
  <1>1. old \in Seq(Proxy) /\ Sound(old)
    BY DEF UInv, TypeOK, IsData
  <1>2. /\ \A m \in DOMAIN new : \E p \in Places(old, s) : new[m] = old[p]
        /\ \A p \in Places(old, s) : \E m \in DOMAIN new : new[m] = old[p]
    BY <1>1, OfIs
  <1>3. \A p \in Places(old, s) : old[p].id \in 1 .. Used
    BY <1>1, SoundTaken DEF Places
  <1> HIDE DEF old, new
  <1>4. IdsOf(new) = {old[p].id : p \in Places(old, s)}
    BY <1>2 DEF IdsOf
  <1> QED BY <1>3, <1>4 DEF old, new

\* The first number is that of the ids that come.
LEMMA AddedCounts ==
  ASSUME UInv, NEW s \in Subs, NEW n \in Nat, NEW keys \in [1 .. n -> Keys]
  PROVE  Added(s, keys) = Cardinality(IdsOf(Renewed(s, keys)) \ IdsOf(Of(mem.proxies, s)))
  <1> DEFINE old == mem.proxies
             b == Renewed(s, keys)
             N == News(s, keys)
             c == Added(s, keys)
             D == IdsOf(b) \ IdsOf(Of(old, s))
  <1>1. Used \in Nat
    BY UsedIsNat DEF UInv
  <1>2. /\ N \in SUBSET (1 .. n) /\ c \in Nat
        /\ \A i \in N : Rank(N, i) \in 1 .. c
        /\ \A m \in 1 .. c : \E i \in N : Rank(N, i) = m
    <2>1. N \in SUBSET (1 .. n) /\ c = Cardinality(N)
      BY DEF News, Added
    <2> HIDE DEF N, c
    <2> QED BY <2>1, RankNumbers
  <1>3. \A i \in N : i \in 1 .. n /\ b[i].id = Used + Rank(N, i)
    BY RenewedKinds DEF News
  <1>4. \A i \in (1 .. n) \ N : \E p \in Places(old, s) : b[i] = old[p]
    <2> SUFFICES ASSUME NEW i \in (1 .. n) \ N PROVE \E p \in Places(old, s) : b[i] = old[p]
      OBVIOUS
    <2>1. Carries(s, keys, i)
      BY DEF News
    <2> QED BY <2>1, RenewedKinds
  <1>5. DOMAIN b = 1 .. n
    BY DEF Renewed
  <1>6. /\ IdsOf(Of(old, s)) = {old[p].id : p \in Places(old, s)}
        /\ \A p \in Places(old, s) : old[p].id \in 1 .. Used
    BY OldIds
  <1> HIDE DEF old, b, N, c
  <1>7. D \subseteq Used + 1 .. Used + c
    <2> SUFFICES ASSUME NEW i \in 1 .. n, b[i].id \notin IdsOf(Of(old, s))
                 PROVE  b[i].id \in Used + 1 .. Used + c
      BY <1>5 DEF IdsOf
    <2>1. i \in N
      BY <1>4, <1>6
    <2>2. Rank(N, i) \in 1 .. c /\ b[i].id = Used + Rank(N, i)
      BY <2>1, <1>2, <1>3
    <2> QED BY <2>2, <1>1, <1>2
  <1>8. Used + 1 .. Used + c \subseteq D
    <2> SUFFICES ASSUME NEW x \in Used + 1 .. Used + c PROVE x \in D
      OBVIOUS
    <2>1. x - Used \in 1 .. c /\ x = Used + (x - Used) /\ x \notin 1 .. Used
      BY <1>1, <1>2
    <2>2. PICK i \in N : Rank(N, i) = x - Used
      BY <2>1, <1>2
    <2>3. b[i].id = x /\ i \in DOMAIN b
      BY <2>1, <2>2, <1>3, <1>5
    <2> QED BY <2>1, <2>3, <1>6 DEF IdsOf
  <1>9. Cardinality(Used + 1 .. Used + c) = c
    <2>1. Used + 1 \in Int /\ Used + c \in Int
      BY <1>1, <1>2
    <2> QED BY <2>1, <1>1, <1>2, FS_Interval
  <1> QED BY <1>7, <1>8, <1>9 DEF c, b, old

\* The second is that of the ids that go.
LEMMA RemovedCounts ==
  ASSUME UInv, NEW s \in Subs, NEW n \in Nat, NEW keys \in [1 .. n -> Keys],
         KeysDistinct(mem.proxies, s)
  PROVE  Removed(s, keys) = Cardinality(IdsOf(Of(mem.proxies, s)) \ IdsOf(Renewed(s, keys)))
  <1> DEFINE old == mem.proxies
             b == Renewed(s, keys)
             D == IdsOf(Of(old, s)) \ IdsOf(b)
             K == {k \in Keys : Indices(s, k) # {} /\ \A i \in 1 .. n : keys[i] # k}
             f == [k \in K |-> Prev(s, k).id]
  <1>1. /\ IdsOf(Of(old, s)) = {old[p].id : p \in Places(old, s)}
        /\ \A p \in Places(old, s) : old[p].id \in 1 .. Used
    BY OldIds
  <1>2. TypeOK /\ old \in Seq(Proxy) /\ DistinctIds(old) /\ Used \in Nat
    BY UsedIsNat DEF UInv, TypeOK, IsData, Sound
  <1>3. IsFiniteSet(D)
    <2>1. D \in SUBSET (1 .. Used)
      BY <1>1
    <2>2. 1 \in Int /\ Used \in Int
      BY <1>2
    <2>3. IsFiniteSet(1 .. Used)
      BY <2>2, FS_Interval
    <2> HIDE DEF D
    <2> QED BY <2>1, <2>3, FS_Subset
  <1>4. \A k \in K : \E p \in Places(old, s) : f[k] = old[p].id /\ old[p].key = k
    <2> SUFFICES ASSUME NEW k \in K
                 PROVE  \E p \in Places(old, s) : Prev(s, k).id = old[p].id /\ old[p].key = k
      OBVIOUS
    <2>1. PICK p \in Indices(s, k) : Prev(s, k) = old[p]
      BY <1>2, PrevIs
    <2> QED BY <2>1 DEF Indices, Places
  <1>5. \A p, q \in Places(old, s) : old[p].id = old[q].id => p = q
    BY <1>2 DEF DistinctIds, Places
  <1>6. DOMAIN b = 1 .. n
    BY DEF Renewed
  <1>7. \A i \in 1 .. n : b[i].key = keys[i]
    BY RenewedKinds
  <1>8. \A i \in 1 .. n : (\E p \in Places(old, s) : b[i] = old[p]) \/ b[i].id \notin 1 .. Used
    <2> SUFFICES ASSUME NEW i \in 1 .. n, ~ \E p \in Places(old, s) : b[i] = old[p]
                 PROVE  b[i].id \notin 1 .. Used
      OBVIOUS
    <2> DEFINE r == Rank(News(s, keys), i)
    <2>1. ~Carries(s, keys, i)
      BY RenewedKinds
    <2>2. r \in 1 .. Added(s, keys) /\ b[i].id = Used + r
      BY <2>1, RenewedKinds
    <2> HIDE DEF r
    <2>3. r >= 1 /\ r \in Int
      BY <2>2
    <2> QED BY <2>2, <2>3, <1>2
  <1>9. \A p \in Places(old, s) : (\E j \in 1 .. n : old[p].key = keys[j]) =>
                                    \E m \in 1 .. n : b[m] = old[p]
    BY CarriedOver
  <1>10. \A p \in Places(old, s) : old[p].key \in Keys /\ p \in Indices(s, old[p].key)
    <2> SUFFICES ASSUME NEW p \in Places(old, s)
                 PROVE  old[p].key \in Keys /\ p \in Indices(s, old[p].key)
      OBVIOUS
    <2>1. p \in DOMAIN old /\ old[p].sub = s
      BY DEF Places
    <2>2. old[p] \in Proxy
      BY <2>1, <1>2, LenProperties, ElementOfSeq
    <2> QED BY <2>1, <2>2 DEF Proxy, Indices
  <1>11. \A k \in K : k \in Keys /\ \A i \in 1 .. n : keys[i] # k
    OBVIOUS
  <1>12. \A p \in Places(old, s) : (\A i \in 1 .. n : keys[i] # old[p].key) => old[p].key \in K
    BY <1>10
  <1>13. DOMAIN f = K /\ f = [k \in K |-> f[k]]
    OBVIOUS
  <1> HIDE DEF old, b, K, f
  <1>14. \A k \in K : f[k] \in D
    <2> SUFFICES ASSUME NEW k \in K PROVE f[k] \in D
      OBVIOUS
    <2>1. PICK p \in Places(old, s) : f[k] = old[p].id /\ old[p].key = k
      BY <1>4
    <2>2. ASSUME NEW i \in 1 .. n, b[i].id = old[p].id PROVE FALSE
      <3>1. PICK q \in Places(old, s) : b[i] = old[q]
        BY <1>1, <1>8, <2>2
      <3>2. q = p
        BY <3>1, <2>2, <1>5
      <3>3. keys[i] = k
        BY <3>1, <3>2, <2>1, <1>7
      <3> QED BY <3>3, <1>11
    <2> QED BY <2>1, <2>2, <1>1, <1>6 DEF IdsOf
  <1>15. \A k, l \in K : f[k] = f[l] => k = l
    BY <1>4, <1>5
  <1>16. \A x \in D : \E k \in K : f[k] = x
    <2> SUFFICES ASSUME NEW x \in D PROVE \E k \in K : f[k] = x
      OBVIOUS
    <2>1. PICK p \in Places(old, s) : x = old[p].id
      BY <1>1
    <2>2. \A m \in 1 .. n : b[m] # old[p]
      BY <2>1, <1>6 DEF IdsOf
    <2>3. old[p].key \in K
      BY <2>2, <1>9, <1>12
    <2>4. PICK q \in Places(old, s) : f[old[p].key] = old[q].id /\ old[q].key = old[p].key
      BY <2>3, <1>4
    <2>5. q = p
      BY <2>4 DEF KeysDistinct, old
    <2> QED BY <2>1, <2>3, <2>4, <2>5
  <1> HIDE DEF D
  <1>17. f \in Injection(K, D) /\ f \in Surjection(K, D)
    <2>1. f \in [K -> D]
      BY <1>13, <1>14
    <2> QED BY <2>1, <1>15, <1>16 DEF Injection, IsInjective, Surjection
  <1>18. Cardinality(K) = Cardinality(D)
    BY <1>3, <1>17, FS_Injection
  <1>19. Removed(s, keys) = Cardinality(K)
    <2>1. DOMAIN keys = 1 .. n
      OBVIOUS
    <2> QED BY <2>1 DEF Removed, K
  <1> QED BY <1>18, <1>19 DEF D, b, old

\* A refresh leaves the other subscriptions' proxies alone, keeps the proxy of an
\* endpoint that both lists name, and returns the numbers of the ids that come
\* and go (storage.go:205).
THEOREM RefreshKeepsProxies == Spec => []RefreshIsFaithful
  <1>1. UInv => RefreshIsFaithful
    <2> SUFFICES ASSUME UInv, NEW s \in Subs, NEW keys \in Lists
                 PROVE  LET old == Of(mem.proxies, s)
                            new == Of(Replaced(s, keys), s)
                            distinct == \A i, j \in DOMAIN old : old[i].key = old[j].key => i = j
                        IN  /\ NotOf(Replaced(s, keys), s) = NotOf(mem.proxies, s)
                            /\ [i \in DOMAIN new |-> new[i].key] = keys
                            /\ distinct =>
                                 /\ \A i \in DOMAIN old, j \in DOMAIN keys :
                                      old[i].key = keys[j] => \E n \in DOMAIN new : new[n] = old[i]
                                 /\ Added(s, keys) = Cardinality(IdsOf(new) \ IdsOf(old))
                                 /\ Removed(s, keys) = Cardinality(IdsOf(old) \ IdsOf(new))
      BY DEF RefreshIsFaithful
    <2>1. PICK n \in Nat : keys \in [1 .. n -> Keys]
      <3>1. 0 .. MaxList \subseteq Nat
        OBVIOUS
      <3> QED BY <3>1 DEF Lists
    <2> DEFINE old == Of(mem.proxies, s)
               new == Of(Replaced(s, keys), s)
    <2>2. NotOf(Replaced(s, keys), s) = NotOf(mem.proxies, s) /\ new = Renewed(s, keys)
      BY <2>1, RefreshedParts
    <2>3. DOMAIN new = 1 .. n /\ DOMAIN keys = 1 .. n
      BY <2>1, <2>2 DEF Renewed
    <2>4. \A i \in 1 .. n : new[i].key = keys[i]
      BY <2>1, <2>2, RenewedKinds
    <2>5. mem.proxies \in Seq(Proxy)
      BY DEF UInv, TypeOK, IsData
    <2>6. \A m \in DOMAIN old : \E p \in Places(mem.proxies, s) : old[m] = mem.proxies[p]
      BY <2>5, OfIs
    <2>7. ASSUME \A i, j \in DOMAIN old : old[i].key = old[j].key => i = j
          PROVE  KeysDistinct(mem.proxies, s)
      BY <2>5, <2>7, OfIs DEF KeysDistinct
    <2> HIDE DEF new, old
    <2>8. [i \in DOMAIN new |-> new[i].key] = keys
      BY <2>1, <2>3, <2>4
    <2>9. ASSUME \A i, j \in DOMAIN old : old[i].key = old[j].key => i = j
          PROVE  /\ \A i \in DOMAIN old, j \in DOMAIN keys :
                      old[i].key = keys[j] => \E m \in DOMAIN new : new[m] = old[i]
                 /\ Added(s, keys) = Cardinality(IdsOf(new) \ IdsOf(old))
                 /\ Removed(s, keys) = Cardinality(IdsOf(old) \ IdsOf(new))
      <3>1. KeysDistinct(mem.proxies, s)
        BY <2>7, <2>9
      <3>2. ASSUME NEW i \in DOMAIN old, NEW j \in 1 .. n, old[i].key = keys[j]
            PROVE  \E m \in DOMAIN new : new[m] = old[i]
        <4>1. PICK p \in Places(mem.proxies, s) : old[i] = mem.proxies[p]
          BY <2>6
        <4> QED BY <4>1, <3>1, <3>2, <2>1, <2>2, <2>3, CarriedOver
      <3>3. Added(s, keys) = Cardinality(IdsOf(new) \ IdsOf(old))
        BY <2>1, <2>2, AddedCounts DEF old
      <3>4. Removed(s, keys) = Cardinality(IdsOf(old) \ IdsOf(new))
        BY <3>1, <2>1, <2>2, RemovedCounts DEF old
      <3> QED BY <3>2, <3>3, <3>4, <2>3
    <2> QED BY <2>2, <2>8, <2>9 DEF new, old
  <1> QED BY <1>1, IdsInvariance, PTL

================================================================================
