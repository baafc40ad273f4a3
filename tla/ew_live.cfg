\* The boot order of the library: every client waits before anyone shuts down.
SPECIFICATION FairSpec
CONSTANTS
  Clients = {c1, c2}
  Tasks = {k1, k2}
  MaxShutdowns = 1
  Spurious = FALSE
  EarlyShutdown = FALSE
INVARIANT LoopThreadKnown
PROPERTIES
  ShutdownStops
  ExecutorSpec
CHECK_DEADLOCK FALSE
