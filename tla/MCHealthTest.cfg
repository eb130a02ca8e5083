\* Two requests, lists of up to three proxies, two probes at once: the list is
\* empty, shorter or longer than the semaphore; clients disconnect midway.
CONSTANTS
  Runs        = {r1, r2}
  MaxProxies  = 3
  Concurrency = 2
SPECIFICATION FairSpec
CONSTRAINT OneLongList
INVARIANTS
  PoolBounded
  ClosedIsComplete
  OverlapNeedsALeaver
PROPERTIES
  PoolWindsUp
  TestRunningIsReset
\* Every request has been answered and every worker has ended.
CHECK_DEADLOCK FALSE
