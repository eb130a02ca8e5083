\* A rule is edited, while xray runs or before it is started.
CONSTANTS
  Callers  = {c1}
  MaxProcs = 2
  Proxies  = {pa, pb}
  None     = None
  Torn     = Torn
  MaxDns   = 0
  MaxRules = 1
  DiskMayFail = FALSE
SPECIFICATION SerialSpec
INVARIANT
  RulesTakeEffect
CHECK_DEADLOCK FALSE
