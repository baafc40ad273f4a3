\* Frames cut every way, handlers that throw twice.
SPECIFICATION Spec
CONSTANTS
  Items = {0, 1, 2}
  Inputs <- MCInputs
  MaxItems = 6
  MaxThrows = 2
INVARIANTS
  TypeOK
  FramesInOrder
  NothingWaits
CHECK_DEADLOCK FALSE
