\* The output buffers of one channel against a slow peer that may reset it.
SPECIFICATION Spec
CONSTANTS
  Bytes = {0, 1}
  Inputs <- MCInputs
  WriteSpin = 2
  Room = 3
  MaxBytes = 5
  Resets = TRUE
INVARIANTS
  TypeOK
  StreamIntact
PROPERTY LoopOutcomes
