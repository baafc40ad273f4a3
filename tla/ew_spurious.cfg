\* cond.wait returns without a notification.
SPECIFICATION Spec
CONSTANTS
  Clients = {c1}
  Tasks = {k1}
  MaxShutdowns = 1
  Spurious = TRUE
  EarlyShutdown = FALSE
INVARIANT LoopThreadKnown
CHECK_DEADLOCK FALSE
