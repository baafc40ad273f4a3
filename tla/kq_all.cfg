\* One descriptor, opened twice: its second channel may be registered while changes of
\* its first are still on the list.
SPECIFICATION FairSpec
CONSTANTS
  Idents = {1}
  WriteSpin = 2
  Room = 1
  MaxOpens = 2
  MaxBytes = 2
  MaxInput = 1
  Resets = TRUE
  Throws = TRUE
INVARIANTS
  TypeOK
  KernelAgrees
  NothingStranded
PROPERTY ShutdownStops
CHECK_DEADLOCK FALSE
