\* Handlers set `success` and stop a worker while the main thread boots, serves and ends.
SPECIFICATION FairSpec
CONSTANTS
  b = b
  c = c
  d = d
  Boss <- MCBoss
  Child <- MCChild
  IndexMod = 3
  MaxChannels = 5
  MaxStops = 1
INVARIANTS
  TypeOK
  OneShutdownEach
  NoThreadLeft
PROPERTIES
  FinalizeReturns
CHECK_DEADLOCK FALSE
