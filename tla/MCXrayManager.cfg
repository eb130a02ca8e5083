\* Two handlers overlap, three processes: stop/stop, stop/start and
\* restart/restart races, crashes, and a process that ignores SIGINT.
CONSTANTS
  Callers  = {c1, c2}
  MaxProcs = 3
SPECIFICATION FairSpec
INVARIANT
  RecordIsSound
PROPERTIES
  OnlyStaleStopForgets
  DeadIsForgotten
  StopEndsItsProcess
  CallsReturn
