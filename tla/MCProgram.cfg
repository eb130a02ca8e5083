\* One handler beside the shutdown goroutine, two processes, one restart; tokens
\* that last two ticks of a clock of three.
CONSTANTS
  Handlers = {h1}
  Shutter  = shutter
  MaxProcs = 2
  TTL      = 2
  MaxTime  = 3
  MaxLives = 2
  NoCookie = NoCookie
SPECIFICATION Spec
INVARIANT
  ShutdownStopsXray
PROPERTY
  SessionLasts
\* The starts and the clock are bounded.
CHECK_DEADLOCK FALSE
