\* One channel whose peer may close or reset it, whose handlers may throw, and whose
\* worker may be shut down: what was asked of it, and the peer's close, still come to
\* an end, and it is closed for no other reason.
SPECIFICATION FairSpec
CONSTANTS
  Chans = {a}
  Hops = 2
  WriteSpin = 2
  Room = 2
  MaxBytes = 2
  MaxInput = 1
  MaxPosts = 1
  MaxDisconnects = 1
  Kinds = {"stream"}
  Resets = TRUE
  Throws = TRUE
  Stops = TRUE
INVARIANT FinishNeedsDisconnect
PROPERTIES
  FlushedIsSent
  DisconnectEnds
  PeerCloseSeen
CHECK_DEADLOCK FALSE
