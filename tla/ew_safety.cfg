\* Two clients, three tasks, up to two shutdown requests at any moment, and
\* spurious wake-ups of the condition variable.
SPECIFICATION Spec
CONSTANTS
  Clients = {c1, c2}
  Tasks = {k1, k2, k3}
  MaxShutdowns = 2
  Spurious = TRUE
  EarlyShutdown = TRUE
SYMMETRY Symmetry
INVARIANTS
  TypeOK
  ExactlyOnceInOrder
  NoStrandedTask
  NoSleepOnWork
  NoLostNotify
  LoneShutdownHonoured
CHECK_DEADLOCK FALSE
