\* Three probes and two ports: two of the probes may be given one port, and the
\* third a port that a probe before it has left, or that a lost xray holds.
CONSTANTS
  Probes = {q1, q2, q3}
  Ports  = {a, b}
  Nobody = Nobody
SPECIFICATION FairProbeSpec
INVARIANT
  LeavesNothing
PROPERTIES
  MeasuresItsProxy
  ProbeReturns
\* Every probe has returned or is lost.
CHECK_DEADLOCK FALSE
