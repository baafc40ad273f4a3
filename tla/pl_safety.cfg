\* Three handlers, one of them a logic_adapter, added in any order while two
\* calls travel.
SPECIFICATION Spec
CONSTANTS
  Handlers = {h1, h2, h3}
  Logic = {h3}
  NoLayer = NoLayer
  MaxCalls = 2
INVARIANTS
  TypeOK
  ChainsMirror
  EachOnceInOrder
CHECK_DEADLOCK FALSE
