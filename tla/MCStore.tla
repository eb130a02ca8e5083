-------------------------------- MODULE MCStore --------------------------------
EXTENDS Store, TLC

\* Subscriptions and endpoints are interchangeable.
StoreSymmetry == Permutations(Subs) \cup Permutations(Keys)

================================================================================
