\* Three channels and three descriptors, made by both ways and reused.
SPECIFICATION Spec
CONSTANTS
  Chans = {c1, c2, c3}
  Fds = {f1, f2, f3}
  Candidates = 2
  MaxLost = 1
  MaxPosts = 1
  Stops = TRUE
SYMMETRY MCSymmetry
INVARIANTS
  TypeOK
  DescriptorOwned
  NoLeak
  ClosedIsReleased
PROPERTIES
  EventReachesOwner
CHECK_DEADLOCK FALSE
