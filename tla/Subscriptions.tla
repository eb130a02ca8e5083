----------------------------- MODULE Subscriptions -----------------------------
(***************************************************************************)
(* Subscriptions and their proxies: the handlers of                        *)
(* internal/handlers/subscriptions.go over the store.  A fetch takes as    *)
(* long as the remote server likes, and other handlers run meanwhile.      *)
(* Proxies are the endpoints they stand for, kept per subscription id.     *)
(***************************************************************************)
EXTENDS Naturals, FiniteSets, Sequences, SequencesExt

CONSTANTS
  Callers,     \* handlers
  Subs,        \* subscription ids
  Lists,       \* the sets of endpoints a subscription's server may answer with
  MaxFetches,  \* bound: how many fetches are ever answered
  DiskMayFail  \* whether the store may fail to persist what it has in memory

ASSUME MaxFetchesAssumption == MaxFetches \in Nat
ASSUME ListsAssumption == \A l \in Lists : IsFiniteSet(l)

VARIABLES
  ids,       \* the ids handed out by NewID; none is handed out twice
  subs,      \* ids in Store.subs
  count,     \* Subscription.Count of each
  failed,    \* whether Subscription.Error of each is set
  proxies,   \* the endpoints stored for each subscription id
  todo,      \* the subscriptions a handler has still to refresh, in list order
  pc,        \* where each handler is
  list,      \* the proxies it has fetched
  fetches,   \* how many fetches have been answered
  picked,    \* history: those deleted one by one since the list was stored
  answers,   \* history: the lists each subscription's server has ever sent
  removed,   \* history: subscriptions deleted together with their proxies
  disturbed  \* history: those on which two handlers have been at work at once,
             \* or whose proxies could not be persisted

vars == <<ids, subs, count, failed, proxies, picked, todo, pc, list, fetches, answers, removed, disturbed>>
data == <<ids, subs, count, failed, proxies, picked>>

Endpoints == UNION Lists

TypeOK ==
  /\ ids \subseteq Subs /\ subs \subseteq ids
  /\ count \in [Subs -> Nat]
  /\ failed \in [Subs -> BOOLEAN]
  /\ proxies \in [Subs -> SUBSET Endpoints]
  /\ picked \in [Subs -> SUBSET Endpoints]
  /\ todo \in [Callers -> Seq(Subs)]
  /\ pc \in [Callers -> {"idle", "lookup", "fetch", "replace", "update", "fail", "delete"}]
  /\ list \in [Callers -> SUBSET Endpoints]
  /\ fetches \in 0 .. MaxFetches
  /\ answers \in [Subs -> SUBSET SUBSET Endpoints]
  /\ removed \subseteq Subs /\ disturbed \subseteq Subs
  /\ \A c \in Callers : pc[c] = "idle" <=> todo[c] = <<>>

Init ==
  /\ ids = {} /\ subs = {}
  /\ count = [s \in Subs |-> 0]
  /\ failed = [s \in Subs |-> FALSE]
  /\ proxies = [s \in Subs |-> {}]
  /\ picked = [s \in Subs |-> {}]
  /\ todo = [c \in Callers |-> <<>>]
  /\ pc = [c \in Callers |-> "idle"]
  /\ list = [c \in Callers |-> {}]
  /\ fetches = 0
  /\ answers = [s \in Subs |-> {{}}]
  /\ removed = {} /\ disturbed = {}

Goto(c, l) == pc' = [pc EXCEPT ![c] = l]

\* The subscriptions that handlers are at work on.
Busy == UNION {ToSet(todo[c]) : c \in Callers}

\* A handler sets out to work on some subscriptions.
Take(c, some) ==
  /\ todo' = [todo EXCEPT ![c] = some]
  /\ disturbed' = disturbed \cup (ToSet(some) \cap Busy)

\* The refresh of one subscription is over: on to the next, or return.
Advance(c) ==
  /\ todo' = [todo EXCEPT ![c] = Tail(@)]
  /\ Goto(c, IF Tail(todo[c]) = <<>> THEN "idle" ELSE "lookup")
  /\ list' = [list EXCEPT ![c] = {}]

-----------------------------------------------------------------------------
(* AddSubscription, RefreshSubscription, RefreshAllSubscriptions.          *)

AddSubscription(c, s) ==
  /\ pc[c] = "idle"
  /\ s \notin ids
  /\ ids'  = ids \cup {s}
  /\ subs' = subs \cup {s}
  /\ UNCHANGED <<count, failed, proxies, picked, todo, pc, list, fetches, answers, removed, disturbed>>

RefreshSubscription(c, s) ==
  /\ pc[c] = "idle"
  /\ Take(c, <<s>>)
  /\ Goto(c, "lookup")
  /\ UNCHANGED <<data, list, fetches, answers, removed>>

\* The list of subscriptions is read once; they are refreshed one after another.
RefreshAll(c) ==
  /\ pc[c] = "idle" /\ subs # {}
  /\ Take(c, SetToSeq(subs))
  /\ Goto(c, "lookup")
  /\ UNCHANGED <<data, list, fetches, answers, removed>>

\* refreshOne looks the subscription up; one that is gone is an error.
Lookup(c) ==
  /\ pc[c] = "lookup"
  /\ IF Head(todo[c]) \in subs THEN Goto(c, "fetch") /\ UNCHANGED <<todo, list>> ELSE Advance(c)
  /\ UNCHANGED <<data, fetches, answers, removed, disturbed>>

\* FetchAndParse returns a list, which may be empty.
Fetch(c) ==
  /\ pc[c] = "fetch"
  /\ fetches < MaxFetches
  /\ fetches' = fetches + 1
  /\ \E l \in Lists :
       /\ list' = [list EXCEPT ![c] = l]
       /\ answers' = [answers EXCEPT ![Head(todo[c])] = @ \cup {l}]
  /\ Goto(c, "replace")
  /\ UNCHANGED <<data, todo, removed, disturbed>>

\* Variant: a fetch that fails is tried again.
FetchFailsRetries(c) == pc[c] = "fetch" /\ UNCHANGED vars

FetchFails(c) ==
  /\ pc[c] = "fetch"
  /\ Goto(c, "fail")
  /\ UNCHANGED <<data, todo, list, fetches, answers, removed, disturbed>>

\* Variant: a failed refresh empties the subscription.
RecordFailureDrops(c) ==
  /\ pc[c] = "fail"
  /\ LET s == Head(todo[c])
     IN  /\ failed' = [failed EXCEPT ![s] = @ \/ s \in subs]
         /\ proxies' = [proxies EXCEPT ![s] = {}]
  /\ Advance(c)
  /\ UNCHANGED <<ids, subs, count, picked, fetches, answers, removed, disturbed>>

\* The error is recorded if the subscription is still there.
RecordFailure(c) ==
  /\ pc[c] = "fail"
  /\ LET s == Head(todo[c]) IN failed' = [failed EXCEPT ![s] = @ \/ s \in subs]
  /\ Advance(c)
  /\ UNCHANGED <<ids, subs, count, proxies, picked, fetches, answers, removed, disturbed>>

\* Variant: a refresh adds to the proxies.
ReplaceAdds(c) ==
  /\ pc[c] = "replace"
  /\ proxies' = [proxies EXCEPT ![Head(todo[c])] = @ \cup list[c]]
  /\ picked'  = [picked EXCEPT ![Head(todo[c])] = {}]
  /\ Goto(c, "update") /\ UNCHANGED <<todo, list>>
  /\ UNCHANGED <<ids, subs, count, failed, fetches, answers, removed, disturbed>>

\* Store.ReplaceSubProxies, under the store's lock.  When it can not persist
\* the list, memory has it all the same and refreshOne returns the error.
Replace(c) ==
  /\ pc[c] = "replace"
  /\ proxies' = [proxies EXCEPT ![Head(todo[c])] = list[c]]
  /\ picked'  = [picked EXCEPT ![Head(todo[c])] = {}]
  /\ \/ Goto(c, "update") /\ UNCHANGED <<todo, list, disturbed>>
     \/ DiskMayFail /\ Advance(c) /\ disturbed' = disturbed \cup {Head(todo[c])}
  /\ UNCHANGED <<ids, subs, count, failed, fetches, answers, removed>>

\* Variant: the count is that of the proxies which were new.
UpdateCountsNew(c) ==
  /\ pc[c] = "update"
  /\ LET s == Head(todo[c])
     IN  /\ count' = [count EXCEPT ![s] = IF s \in subs /\ @ = 0 THEN Cardinality(list[c]) ELSE @]
         /\ failed' = [failed EXCEPT ![s] = @ /\ s \notin subs]
  /\ Advance(c)
  /\ UNCHANGED <<ids, subs, proxies, picked, fetches, answers, removed, disturbed>>

\* Store.UpdateSubscription; its ErrNotFound is ignored.
Update(c) ==
  /\ pc[c] = "update"
  /\ LET s == Head(todo[c])
     IN  /\ count' = [count EXCEPT ![s] = IF s \in subs THEN Cardinality(list[c]) ELSE @]
         /\ failed' = [failed EXCEPT ![s] = @ /\ s \notin subs]
  /\ Advance(c)
  /\ UNCHANGED <<ids, subs, proxies, picked, fetches, answers, removed, disturbed>>

-----------------------------------------------------------------------------
(* DeleteSubscription.                                                     *)

DeleteKeeping(c, s) ==
  /\ pc[c] = "idle"
  /\ subs' = subs \ {s}
  /\ UNCHANGED <<ids, count, failed, proxies, picked, todo, pc, list, fetches, answers, removed, disturbed>>

\* Variant: the proxies are kept.
DeleteProxiesBySubKeeps(c, s) ==
  /\ pc[c] = "idle"
  /\ Take(c, <<s>>)
  /\ Goto(c, "delete")
  /\ UNCHANGED <<data, list, fetches, answers, removed>>

\* ?keepProxies=false: first the proxies, then the subscription itself, unless
\* the first part returns an error.
DeleteProxiesBySub(c, s) ==
  /\ pc[c] = "idle"
  /\ proxies' = [proxies EXCEPT ![s] = {}]
  /\ picked'  = [picked EXCEPT ![s] = {}]
  /\ \/ Take(c, <<s>>) /\ Goto(c, "delete")
     \/ DiskMayFail /\ disturbed' = disturbed \cup {s} /\ UNCHANGED <<todo, pc>>
  /\ UNCHANGED <<ids, subs, count, failed, list, fetches, answers, removed>>

DeleteSubscription(c) ==
  /\ pc[c] = "delete"
  /\ LET s == Head(todo[c])
     IN  /\ subs' = subs \ {s}
         /\ removed' = removed \cup ({s} \cap subs)
  /\ Advance(c)
  /\ UNCHANGED <<ids, count, failed, proxies, picked, fetches, answers, disturbed>>

-----------------------------------------------------------------------------
(* DeleteProxy of configs.go: one proxy, whatever subscription it is of.    *)
(* When the rest can not be persisted, memory is without it all the same.  *)

DeleteProxy(c, s, e) ==
  /\ pc[c] = "idle"
  /\ e \in proxies[s]
  /\ proxies' = [proxies EXCEPT ![s] = @ \ {e}]
  /\ picked'  = [picked EXCEPT ![s] = @ \cup {e}]
  /\ UNCHANGED <<ids, subs, count, failed, todo, pc, list, fetches, answers, removed, disturbed>>

-----------------------------------------------------------------------------
Step(c) ==
  \/ Lookup(c) \/ Fetch(c) \/ FetchFails(c) \/ RecordFailure(c)
  \/ Replace(c) \/ Update(c) \/ DeleteSubscription(c)

Next == \E c \in Callers :
  \/ RefreshAll(c) \/ Step(c)
  \/ \E s \in Subs :
       \/ AddSubscription(c, s) \/ RefreshSubscription(c, s)
       \/ DeleteKeeping(c, s) \/ DeleteProxiesBySub(c, s)
       \/ \E e \in Endpoints : DeleteProxy(c, s, e)

Spec == Init /\ [][Next]_vars

\* Handlers are scheduled; the HTTP client gives up on a slow server.
FairSpec == Spec /\ \A c \in Callers : WF_vars(Step(c))

-----------------------------------------------------------------------------
\* What is stored for a subscription, with what was deleted singly since.
Listed(s) == proxies[s] \cup picked[s]

\* What is stored for a subscription is one list its server sent, whole but for
\* the proxies the user has deleted one by one since it was stored, or nothing:
\* refreshes that overlap, and deletions between them, do not mix their lists.
OneWholeList == TypeOK /\ \A s \in Subs : Listed(s) \in answers[s]

\* "Failed refreshes are surfaced without dropping the proxies you already
\* have" (README.md:26): a proxy goes away only by a deletion, its own or its
\* subscription's, or by a list, fetched in full, that does not have it.
DropsAreDeliberate ==
  [][\A s \in Subs : ~(proxies[s] \subseteq proxies'[s]) =>
       \E c \in Callers :
         \/ DeleteProxiesBySub(c, s) \/ \E e \in Endpoints : DeleteProxy(c, s, e)
         \/ pc[c] = "replace" /\ Head(todo[c]) = s /\ list[c] = proxies'[s]]_vars

\* A refresh of all subscriptions comes to an end, whatever is deleted
\* meanwhile and whichever servers fail.
RefreshReturns == \A c \in Callers : pc[c] # "idle" ~> pc[c] = "idle"

\* "?keepProxies=false removes its proxies" (README.md:251): for good, unless
\* another handler was at work on the subscription.  A refresh that is fetching
\* when it is deleted stores its proxies again.
DeletedTakesItsProxies == \A s \in removed \ disturbed : proxies[s] = {}

\* Count is the "number of proxies fetched" (models.go:57), that is of the list
\* that is stored, of which DeleteProxy may have taken some since: it leaves the
\* count alone.  Refreshes of one subscription that overlap may leave the count
\* of one and the list of another.
CountIsOfTheList == \A s \in subs \ (disturbed \cup Busy) : count[s] = Cardinality(Listed(s))

================================================================================
