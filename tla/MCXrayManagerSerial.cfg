\* Calls one after the other, four processes.
CONSTANTS
  Callers  = {c1, c2}
  MaxProcs = 4
SPECIFICATION SerialSpec
INVARIANT
  NoOrphan
PROPERTY
  IsSupervisor
