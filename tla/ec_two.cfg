\* Two channels: the handlers of one act on the other, whose event of the same
\* batch is then out of date.
SPECIFICATION Spec
CONSTANTS
  Chans = {a, b}
  Hops = 1
  WriteSpin = 2
  Room = 1
  MaxBytes = 2
  MaxInput = 0
  MaxPosts = 0
  MaxDisconnects = 1
  Kinds = {"stream"}
  Resets = FALSE
  Throws = FALSE
  Stops = FALSE
SYMMETRY Symmetry
INVARIANTS
  WatchedAsWanted
  FinishDrains
CHECK_DEADLOCK FALSE
