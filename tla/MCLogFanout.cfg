\* A scanner and a handler, two clients, a channel of one line: replays, drops, a client
\* that leaves or stops reading, and the buffer at its limit.
CONSTANTS
  Writers  = {w1, w2}
  Handlers = {w2}
  Sessions = {s1, s2}
  LogCap   = 2
  SubCap   = 1
  MaxLines = 3
SPECIFICATION FairSpec
INVARIANTS
  NoDuplicates
  NothingSilentlyLost
  PanicNeedsALeaver
PROPERTY
  WritersNeverBlock
\* A panic ends the program, and the lines are bounded.
CHECK_DEADLOCK FALSE
