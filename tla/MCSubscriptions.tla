---------------------------- MODULE MCSubscriptions ----------------------------
(* Subscriptions on a small instance. *)
EXTENDS Subscriptions

CONSTANT First  \* one of the subscriptions

ASSUME FirstAssumption == First \in Subs

\* Bound: one of the subscriptions is always the first to be added (they differ
\* in nothing else), and what was deleted singly is one proxy of that one.
OneIsPicked ==
  /\ ids # {} => First \in ids
  /\ Cardinality(picked[First]) < 2
  /\ \A s \in Subs \ {First} : picked[s] = {}

================================================================================
