--------------------------------- MODULE Store ---------------------------------
(***************************************************************************)
(* The JSON file store (internal/storage/storage.go): what is in memory,   *)
(* what is on disk, writes that fail and a program that dies in between.   *)
(* Store.mu is held for a whole operation, so that operations follow one   *)
(* another, but each of their files reaches the disk in a step of its own. *)
(*                                                                         *)
(* A proxy is its id, its subscription, its endpoint key and the endpoint  *)
(* at which its latency was measured.  The contents of subscriptions.json, *)
(* settings.json and routing.json are the number of the edit that made     *)
(* them; the three are written in one way.                                 *)
(***************************************************************************)
EXTENDS Naturals, FiniteSets, Sequences

CONSTANTS
  Subs,       \* the subscriptions that proxies come from
  Manual,     \* no subscription: added by hand
  Keys,       \* what endpointKey may return
  None,       \* no active proxy, or no latency
  MaxIds,     \* bound: how many proxies are ever stored
  MaxList,    \* bound: how many proxies are stored at once
  Others,     \* of "subs", "settings" and "rules" the files that may change
  MaxEdits    \* bound: how often each of them does

ASSUME StoreAssumption ==
  /\ MaxIds \in Nat /\ MaxList \in Nat /\ MaxEdits \in Nat
  /\ Others \subseteq {"subs", "settings", "rules"}
  /\ Manual \notin Subs /\ None \notin Keys \cup Nat

VARIABLES
  mem,       \* the fields of Store
  disk,      \* the files, as load would read them
  todo,      \* the files the operation that holds mu has still to write
  behind,    \* history: the files whose last write failed
  dangled,   \* history: since the last start the active proxy has been one that is gone
  named      \* history: which endpoint each id has ever stood for

vars == <<mem, disk, todo, behind, dangled, named>>

Ids    == 1 .. MaxIds
Files  == {"proxies", "active"} \cup Others
Proxy  == [id : Ids, sub : Subs \cup {Manual}, key : Keys, lat : Keys \cup {None}]

IsData(d) ==
  /\ DOMAIN d = Files
  /\ d.proxies \in Seq(Proxy) /\ Len(d.proxies) <= MaxList
  /\ d.active \in Ids \cup {None}
  /\ \A f \in Others : d[f] \in 0 .. MaxEdits

IdsOf(list) == {list[i].id : i \in DOMAIN list}
Names(list) == {<<list[i].id, list[i].key>> : i \in DOMAIN list}
Dangling(d) == d.active \notin IdsOf(d.proxies) \cup {None}

TypeOK ==
  /\ IsData(mem) /\ IsData(disk)
  /\ todo \in Seq(Files) /\ Len(todo) <= 2
  /\ behind \subseteq Files
  /\ dangled \in BOOLEAN
  /\ named \subseteq Ids \X Keys

\* New on an empty directory writes the defaults.
Defaults == [f \in Files |-> IF f = "proxies" THEN <<>> ELSE IF f = "active" THEN None ELSE 0]

Init ==
  /\ mem = Defaults /\ disk = Defaults
  /\ todo = <<>> /\ behind = {} /\ dangled = FALSE /\ named = {}

-----------------------------------------------------------------------------
\* An operation takes mu, changes the fields, and has files to write.
Operate(new, files) ==
  /\ todo = <<>>
  /\ mem' = new
  /\ todo' = files
  /\ dangled' = (dangled \/ Dangling(new))
  /\ named' = named \cup Names(new.proxies)
  /\ UNCHANGED <<disk, behind>>

SetProxies(list) ==
  /\ Len(list) <= MaxList
  /\ Operate([mem EXCEPT !.proxies = list], <<"proxies">>)

\* How many ids have been used: NewID returns none of them again.
Used == Cardinality({n[1] : n \in named})

\* The n-th new proxy of an operation.
Fresh(n, s, k) == [id |-> Used + n, sub |-> s, key |-> k, lat |-> None]

\* AddProxy, AddProxies, for proxies added by hand.
AddProxies(keys) ==
  /\ Used + Len(keys) <= MaxIds
  /\ SetProxies(mem.proxies \o [i \in DOMAIN keys |-> Fresh(i, Manual, keys[i])])

\* A probe of a proxy that had this endpoint reports: persistLatency finds the
\* proxy by its id, and drops the result when it is gone.
UpdateProxy(id, key) ==
  /\ <<id, key>> \in named
  /\ id \in IdsOf(mem.proxies)
  /\ SetProxies([i \in DOMAIN mem.proxies |->
       IF mem.proxies[i].id = id THEN [mem.proxies[i] EXCEPT !.lat = key] ELSE mem.proxies[i]])

\* The elements of a list at some of its positions, in their order.
Rank(I, i) == Cardinality({j \in I : j <= i})
Select(list, I) == [n \in 1 .. Cardinality(I) |-> list[CHOOSE i \in I : Rank(I, i) = n]]

Without(ids) == Select(mem.proxies, {i \in DOMAIN mem.proxies : mem.proxies[i].id \notin ids})

\* Variant: the files are written in the other order.
RemoveProxiesFirst(ids) ==
  LET left == [mem EXCEPT !.proxies = Without(ids)]
  IN  IF mem.active \in ids
        THEN Operate([left EXCEPT !.active = None], <<"proxies", "active">>)
        ELSE Operate(left, <<"proxies">>)

\* active.json is written before proxies.json.
Remove(ids) ==
  LET left == [mem EXCEPT !.proxies = Without(ids)]
  IN  IF mem.active \in ids
        THEN Operate([left EXCEPT !.active = None], <<"active", "proxies">>)
        ELSE Operate(left, <<"proxies">>)

DeleteProxy(id) == id \in IdsOf(mem.proxies) /\ Remove({id})

Of(list, s) == Select(list, {i \in DOMAIN list : list[i].sub = s})

DeleteProxiesBySub(s) == Remove(IdsOf(Of(mem.proxies, s)))

-----------------------------------------------------------------------------
(* ReplaceSubProxies: the proxies of subscription s give way to a list     *)
(* with these keys.  An endpoint that was there keeps its id and latency.  *)

NotOf(list, s) == Select(list, {i \in DOMAIN list : list[i].sub # s})

\* Variant: the key leaves something of the endpoint out.
IndicesLoose(s, k) == {i \in DOMAIN mem.proxies : mem.proxies[i].sub = s /\ k \in Keys}

\* prev[k]: of old proxies with the same key the last one is kept in the map.
Indices(s, k) == {i \in DOMAIN mem.proxies : mem.proxies[i].sub = s /\ mem.proxies[i].key = k}

\* Variant: the latency is not carried over.
PrevUntested(s, k) == [mem.proxies[CHOOSE i \in Indices(s, k) : TRUE] EXCEPT !.lat = None]

Prev(s, k) == mem.proxies[CHOOSE i \in Indices(s, k) : \A j \in Indices(s, k) : j <= i]

\* Variant: the entry stays in the map.
CarriesAll(s, keys, i) == Indices(s, keys[i]) # {}

\* The first of equal keys takes the entry and deletes it from the map.
Carries(s, keys, i) == Indices(s, keys[i]) # {} /\ \A j \in 1 .. i - 1 : keys[j] # keys[i]

News(s, keys) == {i \in DOMAIN keys : ~Carries(s, keys, i)}

Replaced(s, keys) == NotOf(mem.proxies, s) \o
  [i \in DOMAIN keys |-> IF Carries(s, keys, i) THEN [Prev(s, keys[i]) EXCEPT !.key = keys[i]]
                         ELSE Fresh(Rank(News(s, keys), i), s, keys[i])]

\* The two numbers it returns.
Added(s, keys) == Cardinality(News(s, keys))
Removed(s, keys) ==
  Cardinality({k \in Keys : Indices(s, k) # {} /\ \A i \in DOMAIN keys : keys[i] # k})

\* The active proxy is left as it is.
ReplaceSubProxies(s, keys) ==
  /\ Used + Added(s, keys) <= MaxIds
  /\ SetProxies(Replaced(s, keys))

\* ActivateProxy looked the id up before: by now it may have been deleted.
SetActive(id) ==
  /\ \E n \in named : n[1] = id
  /\ Operate([mem EXCEPT !.active = id], <<"active">>)

\* The operations on subscriptions, settings and routing rules.
Edit(f) ==
  /\ mem[f] < MaxEdits
  /\ Operate([mem EXCEPT ![f] = @ + 1], <<f>>)

-----------------------------------------------------------------------------
(* writeJSON: a temporary file and a rename, so that a file is the old one *)
(* or the new one.  An operation goes on to its next file when a write     *)
(* fails, and memory keeps the change.                                     *)

Done == todo' = Tail(todo)

\* Variant: the temporary file is never renamed.
WriteTmpOnly ==
  /\ todo # <<>>
  /\ behind' = behind \ {Head(todo)}
  /\ Done
  /\ UNCHANGED <<mem, disk, dangled, named>>

Write ==
  /\ todo # <<>>
  /\ disk' = [disk EXCEPT ![Head(todo)] = mem[Head(todo)]]
  /\ behind' = behind \ {Head(todo)}
  /\ Done
  /\ UNCHANGED <<mem, dangled, named>>

WriteFails ==
  /\ todo # <<>>
  /\ behind' = behind \cup {Head(todo)}
  /\ Done
  /\ UNCHANGED <<mem, disk, dangled, named>>

\* The program is killed, and starts again with what load reads.
Crash ==
  /\ mem' = disk
  /\ todo' = <<>> /\ behind' = {}
  /\ dangled' = Dangling(disk)
  /\ UNCHANGED <<disk, named>>

-----------------------------------------------------------------------------
Lists == UNION {[1 .. n -> Keys] : n \in 0 .. MaxList}

Next ==
  \/ \E keys \in Lists : keys # <<>> /\ AddProxies(keys)
  \/ \E id \in Ids, k \in Keys : UpdateProxy(id, k)
  \/ \E id \in Ids : DeleteProxy(id) \/ SetActive(id)
  \/ \E s \in Subs :
       \/ DeleteProxiesBySub(s)
       \/ \E keys \in Lists : ReplaceSubProxies(s, keys)
  \/ \E f \in Others : Edit(f)
  \/ Write \/ WriteFails \/ Crash

Spec == Init /\ [][Next]_vars

-----------------------------------------------------------------------------
\* When no operation is in progress, memory and disk differ only in files
\* whose last write failed: nothing is forgotten, and a later write of a file
\* makes an earlier failure good.
DiskFollows == todo = <<>> => \A f \in Files \ behind : disk[f] = mem[f]

\* At whatever step the program dies, it starts again without an active proxy
\* that is not in the list, unless memory had one already or a write failed:
\* DeleteProxy and DeleteProxiesBySub clear active.json first.
RestartIsSound == behind = {} /\ ~dangled => ~Dangling(disk)

\* No two proxies have one id, in memory or on disk, however often a server
\* repeats an endpoint in its list: every look-up by id finds the one meant.
UniqueIds ==
  /\ TypeOK
  /\ \A d \in {mem, disk} : Cardinality(IdsOf(d.proxies)) = Len(d.proxies)

\* An id stands for one endpoint for ever, over refreshes that carry ids over,
\* crashes and failed writes: the active proxy never turns into another one,
\* and a probe that reports late reports on the endpoint it has measured.
\* The latency shown for a proxy was measured at its own endpoint.
IdNamesOneEndpoint ==
  /\ \A m, n \in named : m[1] = n[1] => m = n
  /\ \A i \in DOMAIN mem.proxies : mem.proxies[i].lat \in {None, mem.proxies[i].key}

\* A refresh leaves the proxies of other subscriptions alone, and an endpoint
\* that the old list and the new one both name keeps its id and its latency
\* ("so the UI stays stable", storage.go:205).  The numbers it returns are
\* those of the ids that come and go, for an old list that repeats no endpoint.
RefreshIsFaithful == todo = <<>> =>
  \A s \in Subs, keys \in Lists :
    LET old == Of(mem.proxies, s)
        new == Of(Replaced(s, keys), s)
        distinct == \A i, j \in DOMAIN old : old[i].key = old[j].key => i = j
    IN  /\ NotOf(Replaced(s, keys), s) = NotOf(mem.proxies, s)
        /\ [i \in DOMAIN new |-> new[i].key] = keys
        /\ distinct =>
             /\ \A i \in DOMAIN old, j \in DOMAIN keys :
                  old[i].key = keys[j] => \E n \in DOMAIN new : new[n] = old[i]
             /\ Added(s, keys) = Cardinality(IdsOf(new) \ IdsOf(old))
             /\ Removed(s, keys) = Cardinality(IdsOf(old) \ IdsOf(new))

================================================================================
