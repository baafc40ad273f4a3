\* One channel, its handlers, a peer, and other threads posting up to two tasks ahead.
SPECIFICATION Spec
CONSTANTS
  Chans = {a}
  Hops = 2
  WriteSpin = 2
  Room = 2
  MaxBytes = 3
  MaxInput = 1
  MaxPosts = 1
  MaxDisconnects = 1
  Kinds = {"stream", "file"}
  Resets = TRUE
  Throws = TRUE
  Stops = TRUE
INVARIANTS
  TypeOK
  NoOvertaking
PROPERTY LifeSpec
CHECK_DEADLOCK FALSE
