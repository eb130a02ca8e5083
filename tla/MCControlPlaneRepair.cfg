\* Requests overlap: two writers of the config, a deletion or a refresh in the
\* middle of an activation, failed writes.
CONSTANTS
  Callers  = {c1, c2}
  MaxProcs = 1
  Proxies  = {pa, pb}
  None     = None
  Torn     = Torn
  MaxDns   = 1
  MaxRules = 0
  DiskMayFail = TRUE
SYMMETRY ProxySymmetry
SPECIFICATION RepairSpec
INVARIANT
  LoneActivationRepairs
CHECK_DEADLOCK FALSE
