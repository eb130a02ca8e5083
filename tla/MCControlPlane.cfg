\* Requests one at a time, some of which fail: two proxies, two launches, two
\* edits of the DNS list, one of the rules.
CONSTANTS
  Callers  = {c1}
  MaxProcs = 2
  Proxies  = {pa, pb}
  None     = None
  Torn     = Torn
  MaxDns   = 2
  MaxRules = 1
  DiskMayFail = TRUE
SYMMETRY ProxySymmetry
SPECIFICATION SerialSpec
INVARIANTS
  ActiveIsWired
  ServesActive
  ViaIsTruthful
  ManagerMirrorsStore
  DnsInForce
CHECK_DEADLOCK FALSE
