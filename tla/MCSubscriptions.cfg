\* Two handlers, two subscriptions, lists that are empty or have nothing in
\* common: overlapping refreshes of one and of all, failures, deletions midway,
\* and of one proxy of two, which leaves what no server has sent.
CONSTANTS
  First      = s1
  Callers    = {c1, c2}
  Subs       = {s1, s2}
  Lists      = {{ea, eb}, {ec}}
  MaxFetches = 2
  DiskMayFail = TRUE
CONSTRAINT OneIsPicked
SPECIFICATION FairSpec
INVARIANTS
  OneWholeList
  DeletedTakesItsProxies
  CountIsOfTheList
PROPERTIES
  DropsAreDeliberate
  RefreshReturns
