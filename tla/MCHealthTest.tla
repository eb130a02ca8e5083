----------------------------- MODULE MCHealthTest -----------------------------
(* Test-all with a bound on the lists of overlapping runs. *)
EXTENDS HealthTest

\* Only one run has a list of the full length.  A length is chosen once, by a
\* request, and no fair action depends on it having been another.
OneLongList == \A r, s \in Runs : r # s => size[r] + size[s] < 2 * MaxProxies

================================================================================
