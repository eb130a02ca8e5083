-------------------------- MODULE SubscriptionsProofs --------------------------
(***************************************************************************)
(* What is kept of a subscription, for any number of handlers and          *)
(* subscriptions, servers that send whatever they like, and refreshes,     *)
(* failures and deletions in any order.                                    *)
(***************************************************************************)
EXTENDS Subscriptions, SequenceTheorems, FiniteSetTheorems, TLAPS

\* A handler that has found s and is refreshing it.
At(c, s) == pc[c] \in {"fetch", "replace", "update", "fail"} /\ Head(todo[c]) = s

\* The lists are finite, and so are the subscriptions.
Wellformed ==
  /\ TypeOK
  /\ IsFiniteSet(subs)
  /\ \A c \in Callers : list[c] \in Lists \cup {{}}

\* What is stored, or about to be, is one of the lists sent, or nothing.
Whole ==
  /\ \A s \in Subs : {} \in answers[s] /\ Listed(s) \in answers[s]
  /\ \A c \in Callers : pc[c] \in {"replace", "update"} => list[c] \in answers[Head(todo[c])]

\* Two handlers at work on one subscription have disturbed it.
Shared == \A c, d \in Callers : c # d => ToSet(todo[c]) \cap ToSet(todo[d]) \subseteq disturbed

\* Nothing is known of an id that was not handed out.
Unknown ==
  /\ \A s \in Subs \ ids : Listed(s) = {} /\ count[s] = 0
  /\ \A c \in Callers, s \in Subs : At(c, s) => s \in ids

\* Between the two parts of a deletion the proxies are gone already, and
\* between the two of a refresh they are those fetched.
Midway ==
  \A c \in Callers :
    /\ pc[c] = "delete" => Len(todo[c]) = 1
    /\ pc[c] = "delete" /\ Head(todo[c]) \notin disturbed => Listed(Head(todo[c])) = {}
    /\ pc[c] = "update" /\ Head(todo[c]) \notin disturbed => Listed(Head(todo[c])) = list[c]

\* Once the subscription is gone too no refresh gets past its lookup.
Gone ==
  /\ removed \subseteq ids \ subs
  /\ \A s \in removed \ disturbed : Listed(s) = {} /\ \A c \in Callers : ~At(c, s)

\* The count is behind the list only while the one handler at work on the
\* subscription is about to set it, or to delete the subscription.
Counted(s) == count[s] = Cardinality(Listed(s))

Behind(c, s) == pc[c] \in {"update", "delete"} /\ Head(todo[c]) = s

Counts == \A s \in subs \ disturbed : Counted(s) \/ \E c \in Callers : Behind(c, s)

IInv == Wellformed /\ Whole /\ Shared /\ Unknown /\ Midway /\ Gone /\ Counts

-----------------------------------------------------------------------------
\* What a handler at work has before it and what it has next.
LEMMA Working ==
  ASSUME TypeOK, NEW c \in Callers, pc[c] # "idle"
  PROVE  /\ todo[c] \in Seq(Subs) /\ todo[c] # <<>>
         /\ Head(todo[c]) \in Subs /\ Head(todo[c]) \in ToSet(todo[c])
         /\ Tail(todo[c]) \in Seq(Subs) /\ ToSet(Tail(todo[c])) \subseteq ToSet(todo[c])
  <1>1. todo[c] \in Seq(Subs) /\ todo[c] # <<>>
    BY DEF TypeOK
  <1>2. /\ Head(todo[c]) \in Subs /\ Tail(todo[c]) \in Seq(Subs)
        /\ Len(Tail(todo[c])) = Len(todo[c]) - 1
        /\ \A i \in 1 .. Len(Tail(todo[c])) : Tail(todo[c])[i] = todo[c][i + 1]
    BY <1>1, HeadTailProperties
  <1>3. /\ DOMAIN todo[c] = 1 .. Len(todo[c]) /\ DOMAIN Tail(todo[c]) = 1 .. Len(Tail(todo[c]))
        /\ Len(todo[c]) \in Nat \ {0}
    BY <1>1, <1>2, LenProperties, EmptySeq
  <1>4. Head(todo[c]) \in ToSet(todo[c])
    <2>1. 1 \in DOMAIN todo[c] /\ Head(todo[c]) = todo[c][1]
      BY <1>1, <1>3
    <2> QED BY <2>1 DEF ToSet
  <1>5. ASSUME NEW i \in DOMAIN Tail(todo[c])
        PROVE  Tail(todo[c])[i] \in ToSet(todo[c])
    <2>1. i + 1 \in DOMAIN todo[c] /\ Tail(todo[c])[i] = todo[c][i + 1]
      BY <1>2, <1>3
    <2> QED BY <2>1 DEF ToSet
  <1> QED BY <1>1, <1>2, <1>4, <1>5 DEF ToSet

\* The list of subscriptions that RefreshAll works through.
LEMMA AllInOrder ==
  ASSUME NEW S, IsFiniteSet(S), S # {}
  PROVE  SetToSeq(S) \in Seq(S) /\ SetToSeq(S) # <<>>
  <1> DEFINE n == Cardinality(S)
  <1>1. n \in Nat /\ n # 0
    BY FS_CardinalityType, FS_EmptySet
  <1>2. ExistsBijection(1 .. n, S)
    BY <1>1, FS_NatBijection, FS_CountingElements, FS_CardinalityType
  <1>3. PICK f \in Bijection(1 .. n, S) : TRUE
    BY <1>2 DEF ExistsBijection
  <1>4. f \in [1 .. n -> S] /\ IsInjective(f)
    BY <1>3 DEF Bijection, Injection, IsInjective
  <1>5. SetToSeq(S) \in [1 .. n -> S]
    BY <1>4 DEF SetToSeq
  <1> HIDE DEF n
  <1>6. SetToSeq(S) \in Seq(S)
    BY <1>1, <1>5, SeqDef
  <1>7. DOMAIN SetToSeq(S) = 1 .. n /\ DOMAIN <<>> = {} /\ 1 \in 1 .. n
    BY <1>1, <1>5
  <1> QED BY <1>6, <1>7

LEMMA OneElement ==
  ASSUME NEW s \in Subs
  PROVE  /\ <<s>> \in Seq(Subs) /\ <<s>> # <<>> /\ Len(<<s>>) = 1
         /\ Head(<<s>>) = s /\ ToSet(<<s>>) = {s}
  BY DEF ToSet

\* What Advance leaves the handler with.
LEMMA Advanced ==
  ASSUME TypeOK, NEW c \in Callers, pc[c] # "idle", Advance(c)
  PROVE  /\ todo' \in [Callers -> Seq(Subs)]
         /\ pc' \in [Callers -> {"idle", "lookup", "fetch", "replace", "update", "fail", "delete"}]
         /\ list' \in [Callers -> SUBSET Endpoints]
         /\ \A d \in Callers : pc'[d] = "idle" <=> todo'[d] = <<>>
         /\ \A d \in Callers \ {c} : todo'[d] = todo[d] /\ pc'[d] = pc[d] /\ list'[d] = list[d]
         /\ ToSet(todo'[c]) \subseteq ToSet(todo[c])
         /\ pc'[c] \in {"idle", "lookup"} /\ list'[c] = {}
  <1>1. Tail(todo[c]) \in Seq(Subs) /\ ToSet(Tail(todo[c])) \subseteq ToSet(todo[c])
    BY Working
  <1>2. /\ todo' = [todo EXCEPT ![c] = Tail(todo[c])]
        /\ pc' = [pc EXCEPT ![c] = IF Tail(todo[c]) = <<>> THEN "idle" ELSE "lookup"]
        /\ list' = [list EXCEPT ![c] = {}]
    BY DEF Advance, Goto
  <1> QED BY <1>1, <1>2 DEF TypeOK

\* A handler that takes up work makes what it shares with others disturbed.
LEMMA Taken ==
  ASSUME TypeOK, Shared, NEW c \in Callers, NEW some \in Seq(Subs), Take(c, some)
  PROVE  /\ todo' = [todo EXCEPT ![c] = some] /\ todo' \in [Callers -> Seq(Subs)]
         /\ disturbed \subseteq disturbed' /\ disturbed' \subseteq Subs
         /\ \A d \in Callers \ {c} : ToSet(some) \cap ToSet(todo[d]) \subseteq disturbed'
         /\ Shared'
  <1>1. ToSet(some) \subseteq Subs
    BY ElementOfSeq, LenProperties DEF ToSet
  <1>2. todo' = [todo EXCEPT ![c] = some] /\ disturbed' = disturbed \cup (ToSet(some) \cap Busy)
    BY DEF Take
  <1>3. \A d \in Callers : ToSet(todo[d]) \subseteq Busy
    BY DEF Busy
  <1>4. todo'[c] = some /\ \A d \in Callers \ {c} : todo'[d] = todo[d]
    BY <1>2 DEF TypeOK
  <1>5. \A d \in Callers \ {c} : ToSet(some) \cap ToSet(todo[d]) \subseteq disturbed'
    BY <1>2, <1>3
  <1>6. Shared'
    BY <1>2, <1>4, <1>5 DEF Shared
  <1> QED BY <1>1, <1>2, <1>5, <1>6 DEF TypeOK

\* Work that is done, and not taken up, is shared no more than before.
LEMMA SharedShrinks ==
  ASSUME Shared, disturbed \subseteq disturbed',
         \A d \in Callers : ToSet(todo'[d]) \subseteq ToSet(todo[d])
  PROVE  Shared'
  BY DEF Shared

-----------------------------------------------------------------------------
\* At first there is nothing.
LEMMA InitIInv == Init => IInv
  <1> SUFFICES ASSUME Init PROVE IInv
    OBVIOUS
  <1>1. IsFiniteSet({}) /\ Cardinality({}) = 0
    BY FS_EmptySet
  <1>2. <<>> \in Seq(Subs) /\ ToSet(<<>>) = {}
    BY DEF ToSet
  <1>3. TypeOK
    BY <1>2, MaxFetchesAssumption DEF Init, TypeOK
  <1> QED BY <1>1, <1>2, <1>3
      DEF Init, IInv, Wellformed, Whole, Shared, Unknown, At, Midway, Gone, Counts, Counted, Listed

\* A new subscription has no proxies, and no handler refreshes it yet.
LEMMA AddSubscriptionIInv ==
  ASSUME IInv, NEW c \in Callers, NEW s \in Subs, AddSubscription(c, s)
  PROVE  IInv'
  <1> USE DEF IInv, Wellformed, Listed
  <1>1. TypeOK'
    BY DEF AddSubscription, TypeOK
  <1>2. IsFiniteSet(subs')
    BY FS_AddElement DEF AddSubscription
  <1>3. Wellformed'
    BY <1>1, <1>2 DEF AddSubscription
  <1>4. Whole' /\ Shared' /\ Midway'
    BY DEF AddSubscription, Whole, Shared, Midway
  <1>5. Unknown'
    BY DEF AddSubscription, Unknown, At
  <1>6. Gone'
    BY DEF AddSubscription, Gone, At
  <1>7. Counts'
    <2>1. Counted(s)
      BY FS_EmptySet DEF AddSubscription, Unknown, Counted
    <2> QED BY <2>1 DEF AddSubscription, Counts, Counted, Behind
  <1> QED BY <1>3, <1>4, <1>5, <1>6, <1>7

\* Setting out to refresh changes nothing that is stored.
LEMMA SetOutIInv ==
  ASSUME IInv, NEW c \in Callers, NEW some \in Seq(Subs), some # <<>>,
         pc[c] = "idle", Take(c, some), Goto(c, "lookup"),
         UNCHANGED <<data, list, fetches, answers, removed>>
  PROVE  IInv'
  <1> USE DEF IInv, Wellformed, data, Listed
  <1>1. /\ todo' = [todo EXCEPT ![c] = some] /\ todo' \in [Callers -> Seq(Subs)]
        /\ disturbed \subseteq disturbed' /\ disturbed' \subseteq Subs
        /\ Shared'
    BY Taken
  <1>2. /\ pc'[c] = "lookup"
        /\ \A d \in Callers \ {c} : pc'[d] = pc[d] /\ todo'[d] = todo[d]
    BY <1>1 DEF Goto, TypeOK
  <1>3. Wellformed'
    BY <1>1, <1>2 DEF Goto, TypeOK
  <1>4. Whole'
    BY <1>2 DEF Whole
  <1>5. \A d \in Callers, s \in Subs : At(d, s)' => At(d, s)
    BY <1>2 DEF At
  <1>6. Unknown' /\ Midway' /\ Gone'
    <2>1. Unknown' /\ Gone'
      BY <1>1, <1>5 DEF Unknown, Gone, TypeOK
    <2>2. Midway'
      BY <1>1, <1>2 DEF Midway
    <2> QED BY <2>1, <2>2
  <1>7. \A d \in Callers, s \in Subs : Behind(d, s) => Behind(d, s)'
    BY <1>2 DEF Behind
  <1>8. Counts'
    BY <1>1, <1>7 DEF Counts, Counted, TypeOK
  <1> QED BY <1>1, <1>3, <1>4, <1>6, <1>8

LEMMA RefreshIInv ==
  ASSUME IInv, NEW c \in Callers, RefreshAll(c) \/ \E s \in Subs : RefreshSubscription(c, s)
  PROVE  IInv'
  <1>1. CASE RefreshAll(c)
    <2>1. SetToSeq(subs) \in Seq(subs) /\ SetToSeq(subs) # <<>>
      BY <1>1, AllInOrder DEF RefreshAll, IInv, Wellformed
    <2>2. subs \subseteq Subs
      BY DEF IInv, Wellformed, TypeOK
    <2>3. SetToSeq(subs) \in Seq(Subs)
      BY <2>1, <2>2, SeqMonotonic
    <2> QED BY <1>1, <2>1, <2>3, SetOutIInv DEF RefreshAll
  <1>2. ASSUME NEW s \in Subs, RefreshSubscription(c, s)
        PROVE  IInv'
    BY <1>2, OneElement, SetOutIInv DEF RefreshSubscription
  <1> QED BY <1>1, <1>2

\* Only a subscription that is there is fetched.
LEMMA LookupIInv ==
  ASSUME IInv, NEW c \in Callers, Lookup(c)
  PROVE  IInv'
  <1> USE DEF IInv, Wellformed, data, Listed
  <1>1. /\ pc[c] = "lookup" /\ UNCHANGED <<data, fetches, answers, removed, disturbed>>
        /\ Head(todo[c]) \in Subs
    BY Working DEF Lookup
  <1>2. /\ todo' \in [Callers -> Seq(Subs)]
        /\ pc' \in [Callers -> {"idle", "lookup", "fetch", "replace", "update", "fail", "delete"}]
        /\ list' \in [Callers -> SUBSET Endpoints]
        /\ \A d \in Callers : pc'[d] = "idle" <=> todo'[d] = <<>>
        /\ \A d \in Callers \ {c} : todo'[d] = todo[d] /\ pc'[d] = pc[d] /\ list'[d] = list[d]
        /\ ToSet(todo'[c]) \subseteq ToSet(todo[c])
        /\ list'[c] \in {list[c], {}}
        /\ \/ pc'[c] = "fetch" /\ Head(todo'[c]) \in subs
           \/ pc'[c] \in {"idle", "lookup"}
    <2>1. CASE Head(todo[c]) \in subs
      BY <1>1, <2>1 DEF Lookup, Goto, TypeOK
    <2>2. CASE Head(todo[c]) \notin subs
      <3>1. Advance(c)
        BY <2>2 DEF Lookup
      <3> QED BY <1>1, <3>1, Advanced
    <2> QED BY <2>1, <2>2
  <1>3. Wellformed'
    BY <1>1, <1>2 DEF TypeOK
  <1>4. Whole'
    BY <1>1, <1>2 DEF Whole
  <1>5. Shared'
    BY <1>1, <1>2, SharedShrinks
  <1>6. \A d \in Callers, s \in Subs : At(d, s)' => At(d, s) \/ s \in subs
    BY <1>2 DEF At
  <1>7. Unknown'
    BY <1>1, <1>6 DEF Unknown, TypeOK
  <1>8. Midway'
    <2>1. \A d \in Callers : pc'[d] \in {"update", "delete"} =>
            pc[d] = pc'[d] /\ todo[d] = todo'[d] /\ list[d] = list'[d]
      BY <1>1, <1>2
    <2> QED BY <1>1, <2>1 DEF Midway
  <1>9. Gone'
    BY <1>1, <1>6 DEF Gone, TypeOK
  <1>10. \A d \in Callers, s \in Subs : Behind(d, s) => Behind(d, s)'
    BY <1>1, <1>2 DEF Behind
  <1>11. Counts'
    BY <1>1, <1>10 DEF Counts, Counted, TypeOK
  <1> QED BY <1>3, <1>4, <1>5, <1>7, <1>8, <1>9, <1>11

\* A list that arrives is from then on one of those sent.
LEMMA FetchIInv ==
  ASSUME IInv, NEW c \in Callers, Fetch(c) \/ FetchFails(c)
  PROVE  IInv'
  <1> USE DEF IInv, Wellformed, data, Listed
  <1>1. /\ pc[c] = "fetch" /\ UNCHANGED <<data, todo, removed, disturbed>>
        /\ Head(todo[c]) \in Subs
    BY Working DEF Fetch, FetchFails
  <1>2. /\ pc' = [pc EXCEPT ![c] = "replace"] \/ pc' = [pc EXCEPT ![c] = "fail"]
        /\ fetches' \in 0 .. MaxFetches
    BY MaxFetchesAssumption DEF Fetch, FetchFails, Goto, TypeOK
  <1>3. PICK l \in Lists \cup {{}} :
          /\ list' = list \/ list' = [list EXCEPT ![c] = l]
          /\ answers' = [answers EXCEPT ![Head(todo[c])] = @ \cup {l}] \/ answers' = answers
          /\ pc'[c] = "replace" => /\ list' = [list EXCEPT ![c] = l]
                                   /\ answers' = [answers EXCEPT ![Head(todo[c])] = @ \cup {l}]
    <2>1. CASE Fetch(c)
      BY <2>1 DEF Fetch
    <2>2. CASE FetchFails(c)
      <3>1. pc'[c] # "replace"
        BY <2>2 DEF FetchFails, Goto, TypeOK
      <3> QED BY <2>2, <3>1 DEF FetchFails
    <2> QED BY <2>1, <2>2
  <1>4. l \subseteq Endpoints
    BY DEF Endpoints
  <1>5. /\ answers' \in [Subs -> SUBSET SUBSET Endpoints]
        /\ \A s \in Subs : answers[s] \subseteq answers'[s]
    <2>1. answers \in [Subs -> SUBSET SUBSET Endpoints]
      BY DEF TypeOK
    <2>2. answers[Head(todo[c])] \cup {l} \in SUBSET SUBSET Endpoints
      BY <1>1, <1>4, <2>1
    <2> QED BY <1>1, <1>3, <2>1, <2>2
  <1>6. /\ \A d \in Callers \ {c} : pc'[d] = pc[d] /\ list'[d] = list[d]
        /\ pc'[c] \in {"replace", "fail"}
        /\ pc'[c] = "replace" => list'[c] \in answers'[Head(todo[c])]
    BY <1>1, <1>2, <1>3 DEF TypeOK
  <1>7. Wellformed'
    <2>1. list' \in [Callers -> SUBSET Endpoints] /\ \A d \in Callers : list'[d] \in Lists \cup {{}}
      BY <1>3, <1>4 DEF TypeOK
    <2>2. pc' \in [Callers -> {"idle", "lookup", "fetch", "replace", "update", "fail", "delete"}]
      BY <1>2 DEF TypeOK
    <2>3. \A d \in Callers : pc'[d] = "idle" <=> todo'[d] = <<>>
      BY <1>1, <1>6 DEF TypeOK
    <2> QED BY <1>1, <1>2, <1>5, <2>1, <2>2, <2>3 DEF TypeOK
  <1>8. Whole'
    <2>1. \A s \in Subs : {} \in answers'[s] /\ Listed(s)' \in answers'[s]
      BY <1>1, <1>5 DEF Whole
    <2>2. ASSUME NEW d \in Callers, pc'[d] \in {"replace", "update"}
          PROVE  list'[d] \in answers'[Head(todo'[d])]
      <3>1. CASE d = c
        BY <1>1, <1>6, <2>2, <3>1
      <3>2. CASE d # c
        <4>1. pc[d] = pc'[d] /\ list'[d] = list[d] /\ Head(todo[d]) \in Subs
          BY <1>6, <2>2, <3>2, Working
        <4> QED BY <1>1, <1>5, <2>2, <4>1 DEF Whole
      <3> QED BY <3>1, <3>2
    <2> QED BY <2>1, <2>2 DEF Whole
  <1>9. Shared' /\ Midway'
    BY <1>1, <1>6 DEF Shared, Midway
  <1>10. \A d \in Callers, s \in Subs : At(d, s)' => At(d, s)
    BY <1>1, <1>6 DEF At
  <1>11. Unknown' /\ Gone'
    BY <1>1, <1>10 DEF Unknown, Gone, TypeOK
  <1>12. \A d \in Callers, s \in Subs : Behind(d, s) => Behind(d, s)'
    BY <1>1, <1>6 DEF Behind
  <1>13. Counts'
    BY <1>1, <1>12 DEF Counts, Counted, TypeOK
  <1> QED BY <1>7, <1>8, <1>9, <1>11, <1>13

\* A failure is recorded and nothing else.
LEMMA RecordFailureIInv ==
  ASSUME IInv, NEW c \in Callers, RecordFailure(c)
  PROVE  IInv'
  <1> USE DEF IInv, Wellformed, data, Listed
  <1>1. pc[c] = "fail" /\ UNCHANGED <<ids, subs, count, proxies, picked, fetches, answers, removed, disturbed>>
    BY DEF RecordFailure
  <1>2. /\ todo' \in [Callers -> Seq(Subs)]
        /\ pc' \in [Callers -> {"idle", "lookup", "fetch", "replace", "update", "fail", "delete"}]
        /\ list' \in [Callers -> SUBSET Endpoints]
        /\ \A d \in Callers : pc'[d] = "idle" <=> todo'[d] = <<>>
        /\ \A d \in Callers \ {c} : todo'[d] = todo[d] /\ pc'[d] = pc[d] /\ list'[d] = list[d]
        /\ ToSet(todo'[c]) \subseteq ToSet(todo[c])
        /\ pc'[c] \in {"idle", "lookup"} /\ list'[c] = {}
    BY <1>1, Advanced DEF RecordFailure
  <1>3. failed' \in [Subs -> BOOLEAN]
    BY DEF RecordFailure, TypeOK
  <1>4. Wellformed'
    BY <1>1, <1>2, <1>3 DEF TypeOK
  <1>5. Whole' /\ Midway'
    <2>1. \A d \in Callers : pc'[d] \in {"replace", "update", "delete"} =>
            pc[d] = pc'[d] /\ todo[d] = todo'[d] /\ list[d] = list'[d]
      BY <1>2
    <2> QED BY <1>1, <2>1 DEF Whole, Midway
  <1>6. Shared'
    BY <1>1, <1>2, SharedShrinks
  <1>7. \A d \in Callers, s \in Subs : At(d, s)' => At(d, s)
    BY <1>2 DEF At
  <1>8. Unknown' /\ Gone'
    BY <1>1, <1>7 DEF Unknown, Gone, TypeOK
  <1>9. \A d \in Callers, s \in Subs : Behind(d, s) => Behind(d, s)'
    BY <1>1, <1>2 DEF Behind
  <1>10. Counts'
    BY <1>1, <1>9 DEF Counts, Counted, TypeOK
  <1> QED BY <1>4, <1>5, <1>6, <1>8, <1>10

\* A list that is stored is the one just fetched; only its count is behind.
LEMMA ReplaceIInv ==
  ASSUME IInv, NEW c \in Callers, Replace(c)
  PROVE  IInv'
  <1> USE DEF IInv, Wellformed, Listed
  <1> DEFINE Later(t) == proxies'[t] \cup picked'[t]
  <1> DEFINE s == Head(todo[c])
  <1>1. /\ pc[c] = "replace" /\ s \in Subs /\ s \in ToSet(todo[c]) /\ At(c, s) /\ s \in ids
        /\ UNCHANGED <<ids, subs, count, failed, fetches, answers, removed>>
        /\ list[c] \in answers[s] /\ list[c] \subseteq Endpoints
        /\ todo[c] # <<>>
    BY Working DEF Replace, At, Unknown, Whole, TypeOK
  <1>2. proxies' = [proxies EXCEPT ![s] = list[c]] /\ picked' = [picked EXCEPT ![s] = {}]
    BY DEF Replace
  <1>3. /\ todo' \in [Callers -> Seq(Subs)]
        /\ pc' \in [Callers -> {"idle", "lookup", "fetch", "replace", "update", "fail", "delete"}]
        /\ list' \in [Callers -> SUBSET Endpoints]
        /\ \A d \in Callers : pc'[d] = "idle" <=> todo'[d] = <<>>
        /\ \A d \in Callers \ {c} : todo'[d] = todo[d] /\ pc'[d] = pc[d] /\ list'[d] = list[d]
        /\ ToSet(todo'[c]) \subseteq ToSet(todo[c])
        /\ disturbed \subseteq disturbed' /\ disturbed' \subseteq disturbed \cup {s}
        /\ \/ pc'[c] = "update" /\ todo'[c] = todo[c] /\ list'[c] = list[c]
           \/ pc'[c] \in {"idle", "lookup"} /\ list'[c] = {} /\ s \in disturbed'
    <2>1. CASE Goto(c, "update") /\ UNCHANGED <<todo, list, disturbed>>
      BY <1>1, <2>1 DEF Goto, TypeOK
    <2>2. CASE Advance(c) /\ disturbed' = disturbed \cup {s}
      BY <1>1, <2>2, Advanced
    <2> QED BY <2>1, <2>2 DEF Replace
  <1> HIDE DEF s
  <1>4. \A d \in Callers, t \in Subs : At(d, t)' => At(d, t)
    BY <1>1, <1>3 DEF At, s
  <1>5. Later(s) = list[c] /\ \A t \in Subs \ {s} : Later(t) = Listed(t)
    BY <1>1, <1>2 DEF TypeOK
  <1>6. Wellformed'
    <2>1. proxies' \in [Subs -> SUBSET Endpoints] /\ picked' \in [Subs -> SUBSET Endpoints]
      BY <1>1, <1>2 DEF TypeOK
    <2>2. disturbed' \subseteq Subs
      BY <1>1, <1>3 DEF TypeOK
    <2>3. \A d \in Callers : list'[d] \in Lists \cup {{}}
      BY <1>3
    <2> QED BY <1>1, <1>3, <2>1, <2>2, <2>3 DEF TypeOK
  <1>7. Whole'
    <2>1. \A t \in Subs : {} \in answers[t] /\ Later(t) \in answers[t]
      BY <1>1, <1>5 DEF Whole
    <2>2. ASSUME NEW d \in Callers, pc'[d] \in {"replace", "update"}
          PROVE  list'[d] \in answers[Head(todo'[d])]
      <3>1. pc[d] \in {"replace", "update"} /\ list'[d] = list[d] /\ todo'[d] = todo[d]
        BY <1>1, <1>3, <2>2
      <3> QED BY <3>1 DEF Whole
    <2> QED BY <1>1, <2>1, <2>2 DEF Whole
  <1>8. Shared'
    BY <1>3, SharedShrinks
  <1>9. Unknown'
    BY <1>1, <1>4, <1>5 DEF Unknown
  <1>10. \A d \in Callers \ {c} : s \in ToSet(todo[d]) => s \in disturbed
    BY <1>1 DEF Shared
  <1>11. Midway'
    <2> SUFFICES ASSUME NEW d \in Callers, pc'[d] \in {"update", "delete"}
                 PROVE  /\ pc'[d] = "delete" => Len(todo'[d]) = 1
                        /\ pc'[d] = "delete" /\ Head(todo'[d]) \notin disturbed' =>
                             Later(Head(todo'[d])) = {}
                        /\ pc'[d] = "update" /\ Head(todo'[d]) \notin disturbed' =>
                             Later(Head(todo'[d])) = list'[d]
      BY DEF Midway
    <2>1. CASE d = c
      BY <1>3, <1>5, <2>1 DEF s
    <2>2. CASE d # c
      <3>1. pc[d] = pc'[d] /\ todo'[d] = todo[d] /\ list'[d] = list[d]
        BY <1>3, <2>2
      <3>2. Head(todo[d]) \in Subs /\ Head(todo[d]) \in ToSet(todo[d])
        BY <3>1, Working
      <3>3. CASE Head(todo[d]) = s
        <4>1. Head(todo'[d]) \in disturbed'
          BY <1>3, <1>10, <2>2, <3>1, <3>2, <3>3
        <4> QED BY <3>1, <4>1 DEF Midway
      <3>4. CASE Head(todo[d]) # s
        <4>1. Later(Head(todo[d])) = Listed(Head(todo[d]))
          BY <1>5, <3>2, <3>4
        <4> QED BY <1>3, <3>1, <4>1 DEF Midway
      <3> QED BY <3>3, <3>4
    <2> QED BY <2>1, <2>2
  <1>12. Gone'
    <2>1. s \notin removed \ disturbed
      BY <1>1 DEF Gone
    <2> QED BY <1>1, <1>3, <1>4, <1>5, <2>1 DEF Gone, TypeOK
  <1>13. Counts'
    <2> SUFFICES ASSUME NEW t \in subs \ disturbed'
                 PROVE  Counted(t)' \/ \E d \in Callers : Behind(d, t)'
      BY <1>1 DEF Counts
    <2>1. CASE t = s
      <3>1. pc'[c] = "update" /\ todo'[c] = todo[c] /\ list'[c] = list[c]
        BY <1>3, <2>1
      <3>2. Behind(c, t)'
        BY <1>1, <1>5, <2>1, <3>1 DEF Behind, s
      <3> QED BY <3>2
    <2>2. CASE t # s
      <3>1. t \in Subs /\ t \in subs \ disturbed /\ Later(t) = Listed(t) /\ count'[t] = count[t]
        BY <1>1, <1>3, <1>5, <2>2 DEF TypeOK
      <3>2. ASSUME NEW d \in Callers, Behind(d, t)
            PROVE  Behind(d, t)'
        <4>1. d # c
          BY <1>1, <2>2, <3>2 DEF Behind, s
        <4> QED BY <1>3, <3>1, <3>2, <4>1 DEF Behind
      <3> QED BY <3>1, <3>2 DEF Counts, Counted
    <2> QED BY <2>1, <2>2
  <1> QED BY <1>6, <1>7, <1>8, <1>9, <1>11, <1>12, <1>13

\* The count that is set is that of the list just stored.
LEMMA UpdateIInv ==
  ASSUME IInv, NEW c \in Callers, Update(c)
  PROVE  IInv'
  <1> USE DEF IInv, Wellformed, Listed
  <1> DEFINE s == Head(todo[c])
  <1>1. /\ pc[c] = "update" /\ s \in Subs /\ At(c, s) /\ s \in ids /\ IsFiniteSet(list[c])
        /\ s \in ToSet(todo[c])
        /\ UNCHANGED <<ids, subs, proxies, picked, fetches, answers, removed, disturbed>>
    BY Working, ListsAssumption, FS_EmptySet DEF Update, At, Unknown
  <1>2. /\ todo' \in [Callers -> Seq(Subs)]
        /\ pc' \in [Callers -> {"idle", "lookup", "fetch", "replace", "update", "fail", "delete"}]
        /\ list' \in [Callers -> SUBSET Endpoints]
        /\ \A d \in Callers : pc'[d] = "idle" <=> todo'[d] = <<>>
        /\ \A d \in Callers \ {c} : todo'[d] = todo[d] /\ pc'[d] = pc[d] /\ list'[d] = list[d]
        /\ ToSet(todo'[c]) \subseteq ToSet(todo[c])
        /\ pc'[c] \in {"idle", "lookup"} /\ list'[c] = {}
    BY <1>1, Advanced DEF Update
  <1>3. /\ count' = [count EXCEPT ![s] = IF s \in subs THEN Cardinality(list[c]) ELSE @]
        /\ failed' \in [Subs -> BOOLEAN]
    BY DEF Update, TypeOK
  <1> HIDE DEF s
  <1>4. /\ count' \in [Subs -> Nat]
        /\ \A t \in Subs \ {s} : count'[t] = count[t]
        /\ count'[s] = IF s \in subs THEN Cardinality(list[c]) ELSE count[s]
    <2>1. Cardinality(list[c]) \in Nat
      BY <1>1, FS_CardinalityType
    <2> QED BY <1>1, <1>3, <2>1 DEF TypeOK
  <1>5. Wellformed'
    BY <1>1, <1>2, <1>3, <1>4 DEF TypeOK
  <1>6. Whole' /\ Midway'
    <2>1. \A d \in Callers : pc'[d] \in {"replace", "update", "delete"} =>
            pc[d] = pc'[d] /\ todo[d] = todo'[d] /\ list[d] = list'[d]
      BY <1>2
    <2> QED BY <1>1, <2>1 DEF Whole, Midway
  <1>7. Shared'
    BY <1>1, <1>2, SharedShrinks
  <1>8. \A d \in Callers, t \in Subs : At(d, t)' => At(d, t)
    BY <1>2 DEF At
  <1>9. Unknown' /\ Gone'
    BY <1>1, <1>4, <1>8 DEF Unknown, Gone, TypeOK
  <1>10. Counts'
    <2> SUFFICES ASSUME NEW t \in subs \ disturbed
                 PROVE  Counted(t)' \/ \E d \in Callers : Behind(d, t)'
      BY <1>1 DEF Counts
    <2>1. CASE t = s
      <3>1. count'[s] = Cardinality(list[c]) /\ Listed(s) = list[c]
        BY <1>1, <1>4, <2>1 DEF Midway, s
      <3> QED BY <1>1, <2>1, <3>1 DEF Counted
    <2>2. CASE t # s
      <3>1. t \in Subs /\ count'[t] = count[t]
        BY <1>4, <2>2 DEF TypeOK
      <3>2. ASSUME NEW d \in Callers, Behind(d, t)
            PROVE  Behind(d, t)'
        <4>1. d # c
          BY <1>1, <2>2, <3>2 DEF Behind, s
        <4> QED BY <1>1, <1>2, <3>2, <4>1 DEF Behind
      <3> QED BY <1>1, <3>1, <3>2 DEF Counts, Counted
    <2> QED BY <2>1, <2>2
  <1> QED BY <1>5, <1>6, <1>7, <1>9, <1>10

\* A deletion that keeps the proxies takes the subscription only.
LEMMA DeleteKeepingIInv ==
  ASSUME IInv, NEW c \in Callers, NEW s \in Subs, DeleteKeeping(c, s)
  PROVE  IInv'
  <1> USE DEF IInv, Wellformed, Listed
  <1>1. Wellformed'
    BY FS_RemoveElement DEF DeleteKeeping, TypeOK
  <1>2. Whole' /\ Shared' /\ Unknown' /\ Midway'
    BY DEF DeleteKeeping, Whole, Shared, Unknown, At, Midway
  <1>3. Gone'
    BY DEF DeleteKeeping, Gone, At
  <1>4. Counts'
    BY DEF DeleteKeeping, Counts, Counted, Behind
  <1> QED BY <1>1, <1>2, <1>3, <1>4

\* The first part of a deletion empties the subscription.
LEMMA DeleteProxiesIInv ==
  ASSUME IInv, NEW c \in Callers, NEW s \in Subs, DeleteProxiesBySub(c, s)
  PROVE  IInv'
  <1> USE DEF IInv, Wellformed, Listed
  <1> DEFINE Later(t) == proxies'[t] \cup picked'[t]
  <1>1. /\ pc[c] = "idle" /\ proxies' = [proxies EXCEPT ![s] = {}]
        /\ picked' = [picked EXCEPT ![s] = {}]
        /\ UNCHANGED <<ids, subs, count, failed, list, fetches, answers, removed>>
    BY DEF DeleteProxiesBySub
  <1>2. Later(s) = {} /\ \A t \in Subs \ {s} : Later(t) = Listed(t)
    BY <1>1 DEF TypeOK
  <1>3. /\ todo' \in [Callers -> Seq(Subs)]
        /\ pc' \in [Callers -> {"idle", "lookup", "fetch", "replace", "update", "fail", "delete"}]
        /\ \A d \in Callers : pc'[d] = "idle" <=> todo'[d] = <<>>
        /\ \A d \in Callers \ {c} : todo'[d] = todo[d] /\ pc'[d] = pc[d]
        /\ disturbed \subseteq disturbed' /\ disturbed' \subseteq Subs
        /\ Shared'
        /\ \/ /\ pc'[c] = "delete" /\ Head(todo'[c]) = s /\ Len(todo'[c]) = 1
              /\ \A d \in Callers \ {c} : s \in ToSet(todo[d]) => s \in disturbed'
           \/ pc'[c] = "idle" /\ s \in disturbed'
    <2>1. CASE Take(c, <<s>>) /\ Goto(c, "delete")
      <3>1. /\ todo' = [todo EXCEPT ![c] = <<s>>] /\ todo' \in [Callers -> Seq(Subs)]
            /\ disturbed \subseteq disturbed' /\ disturbed' \subseteq Subs
            /\ \A d \in Callers \ {c} : ToSet(<<s>>) \cap ToSet(todo[d]) \subseteq disturbed'
            /\ Shared'
        BY <2>1, OneElement, Taken
      <3>2. /\ \A d \in Callers \ {c} : s \in ToSet(todo[d]) => s \in disturbed'
            /\ todo'[c] = <<s>> /\ <<s>> # <<>> /\ Head(<<s>>) = s /\ Len(<<s>>) = 1
        BY <3>1, OneElement DEF TypeOK
      <3> QED BY <2>1, <3>1, <3>2 DEF Goto, TypeOK
    <2>2. CASE disturbed' = disturbed \cup {s} /\ UNCHANGED <<todo, pc>>
      BY <1>1, <2>2 DEF TypeOK, Shared
    <2> QED BY <2>1, <2>2 DEF DeleteProxiesBySub
  <1>4. Wellformed'
    BY <1>1, <1>3 DEF TypeOK
  <1>5. Whole'
    <2>1. \A t \in Subs : {} \in answers[t] /\ Later(t) \in answers[t]
      BY <1>2 DEF Whole
    <2>2. \A d \in Callers : pc'[d] \in {"replace", "update"} => pc[d] = pc'[d] /\ todo'[d] = todo[d]
      BY <1>3
    <2> QED BY <1>1, <2>1, <2>2 DEF Whole
  <1>6. \A d \in Callers, t \in Subs : At(d, t)' => At(d, t)
    BY <1>3 DEF At
  <1>7. Unknown' /\ Gone'
    BY <1>1, <1>2, <1>3, <1>6 DEF Unknown, Gone, TypeOK
  <1>8. Midway'
    <2> SUFFICES ASSUME NEW d \in Callers, pc'[d] \in {"update", "delete"}
                 PROVE  /\ pc'[d] = "delete" => Len(todo'[d]) = 1
                        /\ pc'[d] = "delete" /\ Head(todo'[d]) \notin disturbed' =>
                             Later(Head(todo'[d])) = {}
                        /\ pc'[d] = "update" /\ Head(todo'[d]) \notin disturbed' =>
                             Later(Head(todo'[d])) = list'[d]
      BY DEF Midway
    <2>1. CASE d = c
      BY <1>2, <1>3, <2>1
    <2>2. CASE d # c
      <3>1. pc[d] = pc'[d] /\ todo'[d] = todo[d] /\ list'[d] = list[d]
        BY <1>1, <1>3, <2>2
      <3>2. Head(todo[d]) \in Subs /\ Head(todo[d]) \in ToSet(todo[d])
        BY <3>1, Working
      <3>3. CASE Head(todo[d]) = s
        <4>1. Head(todo'[d]) \in disturbed'
          <5>1. s \in ToSet(todo[d])
            BY <3>2, <3>3
          <5> QED BY <1>3, <2>2, <3>1, <3>3, <5>1
        <4> QED BY <3>1, <4>1 DEF Midway
      <3>4. CASE Head(todo[d]) # s
        <4>1. Later(Head(todo[d])) = Listed(Head(todo[d]))
          BY <1>2, <3>2, <3>4
        <4> QED BY <1>3, <3>1, <4>1 DEF Midway
      <3> QED BY <3>3, <3>4
    <2> QED BY <2>1, <2>2
  <1>9. Counts'
    <2> SUFFICES ASSUME NEW t \in subs \ disturbed'
                 PROVE  Counted(t)' \/ \E d \in Callers : Behind(d, t)'
      BY <1>1 DEF Counts
    <2>1. CASE t = s
      BY <1>3, <2>1 DEF Behind
    <2>2. CASE t # s
      <3>1. t \in Subs /\ t \in subs \ disturbed /\ Later(t) = Listed(t) /\ count'[t] = count[t]
        BY <1>1, <1>2, <1>3, <2>2 DEF TypeOK
      <3>2. \A d \in Callers : Behind(d, t) => Behind(d, t)'
        BY <1>1, <1>3 DEF Behind
      <3> QED BY <3>1, <3>2 DEF Counts, Counted
    <2> QED BY <2>1, <2>2
  <1> QED BY <1>3, <1>4, <1>5, <1>7, <1>8, <1>9

\* A proxy deleted singly is still one of the list that was stored.
LEMMA DeleteProxyIInv ==
  ASSUME IInv, NEW c \in Callers, NEW s \in Subs, NEW e \in Endpoints, DeleteProxy(c, s, e)
  PROVE  IInv'
  <1> USE DEF IInv, Wellformed
  <1>1. /\ proxies' = [proxies EXCEPT ![s] = @ \ {e}] /\ e \in proxies[s]
        /\ picked' = [picked EXCEPT ![s] = @ \cup {e}]
        /\ UNCHANGED <<ids, subs, count, failed, todo, pc, list, fetches, answers, removed, disturbed>>
    BY DEF DeleteProxy
  <1>2. \A t \in Subs : Listed(t)' = Listed(t)
    BY <1>1 DEF Listed, TypeOK
  <1>3. Wellformed'
    BY <1>1 DEF TypeOK
  <1>4. Whole' /\ Shared'
    BY <1>1, <1>2 DEF Whole, Shared
  <1>5. Unknown' /\ Gone'
    BY <1>1, <1>2 DEF Unknown, Gone, At, TypeOK
  <1>6. Midway'
    BY <1>1, <1>2, Working DEF Midway
  <1>7. Counts'
    BY <1>1, <1>2 DEF Counts, Counted, Behind, TypeOK
  <1> QED BY <1>3, <1>4, <1>5, <1>6, <1>7

\* The second part takes the subscription, which only now is gone for good.
LEMMA DeleteSubscriptionIInv ==
  ASSUME IInv, NEW c \in Callers, DeleteSubscription(c)
  PROVE  IInv'
  <1> USE DEF IInv, Wellformed, Listed
  <1> DEFINE s == Head(todo[c])
  <1>1. /\ pc[c] = "delete" /\ s \in Subs /\ s \in ToSet(todo[c])
        /\ subs' = subs \ {s} /\ removed' = removed \cup ({s} \cap subs)
        /\ UNCHANGED <<ids, count, failed, proxies, picked, fetches, answers, disturbed>>
    BY Working DEF DeleteSubscription
  <1>2. /\ todo' \in [Callers -> Seq(Subs)]
        /\ pc' \in [Callers -> {"idle", "lookup", "fetch", "replace", "update", "fail", "delete"}]
        /\ list' \in [Callers -> SUBSET Endpoints]
        /\ \A d \in Callers : pc'[d] = "idle" <=> todo'[d] = <<>>
        /\ \A d \in Callers \ {c} : todo'[d] = todo[d] /\ pc'[d] = pc[d] /\ list'[d] = list[d]
        /\ ToSet(todo'[c]) \subseteq ToSet(todo[c])
        /\ pc'[c] \in {"idle", "lookup"} /\ list'[c] = {}
    BY <1>1, Advanced DEF DeleteSubscription
  <1> HIDE DEF s
  <1>3. Wellformed'
    <2>1. IsFiniteSet(subs')
      BY <1>1, FS_RemoveElement
    <2> QED BY <1>1, <1>2, <2>1 DEF TypeOK
  <1>4. Whole' /\ Midway'
    <2>1. \A d \in Callers : pc'[d] \in {"replace", "update", "delete"} =>
            pc[d] = pc'[d] /\ todo[d] = todo'[d] /\ list[d] = list'[d]
      BY <1>2
    <2> QED BY <1>1, <2>1 DEF Whole, Midway
  <1>5. Shared'
    BY <1>1, <1>2, SharedShrinks
  <1>6. \A d \in Callers, t \in Subs : At(d, t)' => At(d, t)
    BY <1>2 DEF At
  <1>7. Unknown'
    BY <1>1, <1>6 DEF Unknown
  <1>8. s \notin disturbed => Listed(s) = {} /\ \A d \in Callers : ~At(d, s)
    <2>1. s \notin disturbed => Listed(s) = {}
      BY <1>1 DEF Midway, s
    <2>2. ASSUME NEW d \in Callers, At(d, s) PROVE s \in disturbed
      <3>1. d # c /\ s \in ToSet(todo[d])
        BY <1>1, <2>2, Working DEF At
      <3> QED BY <1>1, <3>1 DEF Shared
    <2> QED BY <2>1, <2>2
  <1>9. Gone'
    BY <1>1, <1>6, <1>8 DEF Gone, TypeOK
  <1>10. Counts'
    <2> SUFFICES ASSUME NEW t \in subs \ disturbed, t # s
                 PROVE  Counted(t)' \/ \E d \in Callers : Behind(d, t)'
      BY <1>1 DEF Counts
    <2>1. \A d \in Callers : Behind(d, t) => d # c
      BY DEF Behind, s
    <2>2. \A d \in Callers : Behind(d, t) => Behind(d, t)'
      BY <1>2, <2>1 DEF Behind
    <2> QED BY <1>1, <2>2 DEF Counts, Counted
  <1> QED BY <1>3, <1>4, <1>5, <1>7, <1>9, <1>10

\* The invariant is inductive.
LEMMA NextIInv == IInv /\ [Next]_vars => IInv'
  <1> SUFFICES ASSUME IInv, [Next]_vars PROVE IInv'
    OBVIOUS
  <1>1. CASE UNCHANGED vars
    BY <1>1 DEF vars, IInv, Wellformed, TypeOK, Whole, Shared, Unknown, At, Midway, Gone, Counts,
       Counted, Behind, Listed
  <1>2. CASE Next
    BY <1>2, AddSubscriptionIInv, RefreshIInv, LookupIInv, FetchIInv, RecordFailureIInv,
       ReplaceIInv, UpdateIInv, DeleteKeepingIInv, DeleteProxiesIInv, DeleteProxyIInv,
       DeleteSubscriptionIInv
       DEF Next, Step
  <1> QED BY <1>1, <1>2

LEMMA Invariance == Spec => []IInv
  BY InitIInv, NextIInv, PTL DEF Spec

-----------------------------------------------------------------------------
\* Refreshes that overlap never leave a mixture of their lists, nor does a proxy
\* deleted between them (subscriptions.go:132, storage.go:141, 187).
THEOREM ListsStayWhole == Spec => []OneWholeList
  <1>1. IInv => OneWholeList
    BY DEF IInv, Wellformed, Whole, OneWholeList
  <1> QED BY <1>1, Invariance, PTL

\* A deletion without keepProxies takes the proxies for good, unless another
\* handler was at work on the subscription (subscriptions.go:54).
THEOREM DeletionIsForGood == Spec => []DeletedTakesItsProxies
  <1>1. IInv => DeletedTakesItsProxies
    BY DEF IInv, Gone, Listed, DeletedTakesItsProxies
  <1> QED BY <1>1, Invariance, PTL

\* When nobody is at work on a subscription that was never disturbed its count
\* is that of the list stored, which single deletions since have left shorter
\* (subscriptions.go:136, storage.go:141).
THEOREM CountsAgree == Spec => []CountIsOfTheList
  <1>1. IInv => CountIsOfTheList
    <2> SUFFICES ASSUME IInv, NEW s \in subs \ (disturbed \cup Busy)
                 PROVE  Counted(s)
      BY DEF CountIsOfTheList, Counted
    <2>1. ASSUME NEW c \in Callers, Behind(c, s) PROVE FALSE
      BY <2>1, Working DEF Behind, Busy, IInv, Wellformed
    <2> QED BY <2>1 DEF IInv, Counts
  <1> QED BY <1>1, Invariance, PTL

\* No step takes a proxy away but a deletion, of it or of its subscription, or a
\* refresh that fetched a whole list (subscriptions.go:119, configs.go:73).
THEOREM OnlyDeliberateDrops == Spec => DropsAreDeliberate
  <1> DEFINE Deliberate ==
        \A s \in Subs : ~(proxies[s] \subseteq proxies'[s]) =>
          \E c \in Callers :
            \/ DeleteProxiesBySub(c, s) \/ \E e \in Endpoints : DeleteProxy(c, s, e)
            \/ pc[c] = "replace" /\ Head(todo[c]) = s /\ list[c] = proxies'[s]
  <1>1. IInv /\ [Next]_vars => [Deliberate]_vars
    <2> SUFFICES ASSUME IInv, Next, NEW s \in Subs, ~(proxies[s] \subseteq proxies'[s])
                 PROVE  \E c \in Callers :
                          \/ DeleteProxiesBySub(c, s) \/ \E e \in Endpoints : DeleteProxy(c, s, e)
                          \/ pc[c] = "replace" /\ Head(todo[c]) = s /\ list[c] = proxies'[s]
      BY DEF Deliberate
    <2>1. PICK c \in Callers :
            \/ Replace(c)
            \/ \E t \in Subs : DeleteProxiesBySub(c, t) \/ \E e \in Endpoints : DeleteProxy(c, t, e)
      BY DEF Next, Step, RefreshAll, RefreshSubscription, AddSubscription, DeleteKeeping, Lookup,
         Fetch, FetchFails, RecordFailure, Update, DeleteSubscription, data
    <2>2. proxies \in [Subs -> SUBSET Endpoints]
      BY DEF IInv, Wellformed, TypeOK
    <2>3. CASE Replace(c)
      <3>1. pc[c] = "replace" /\ proxies' = [proxies EXCEPT ![Head(todo[c])] = list[c]]
        BY <2>3 DEF Replace
      <3>2. Head(todo[c]) = s /\ proxies'[s] = list[c]
        BY <2>2, <3>1
      <3> QED BY <3>1, <3>2
    <2>4. ASSUME NEW t \in Subs, DeleteProxiesBySub(c, t)
          PROVE  DeleteProxiesBySub(c, s)
      <3>1. proxies' = [proxies EXCEPT ![t] = {}]
        BY <2>4 DEF DeleteProxiesBySub
      <3>2. t = s
        BY <2>2, <3>1
      <3> QED BY <2>4, <3>2
    <2>5. ASSUME NEW t \in Subs, NEW e \in Endpoints, DeleteProxy(c, t, e)
          PROVE  DeleteProxy(c, s, e)
      <3>1. proxies' = [proxies EXCEPT ![t] = @ \ {e}]
        BY <2>5 DEF DeleteProxy
      <3>2. t = s
        BY <2>2, <3>1
      <3> QED BY <2>5, <3>2
    <2> QED BY <2>1, <2>3, <2>4, <2>5
  <1> HIDE DEF Deliberate
  <1>2. Spec => [][Deliberate]_vars
    BY <1>1, Invariance, PTL DEF Spec
  <1> QED BY <1>2 DEF DropsAreDeliberate, Deliberate

================================================================================
