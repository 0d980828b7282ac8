SPECIFICATION Spec
CONSTANTS
  Writers = {w1}
  Readers = {r1}
  Size = 3
  Byte = {0, 1}
  MaxWrite = 3
  MaxRead = 2
CHECK_DEADLOCK FALSE
INVARIANTS TypeOK
PROPERTIES ImplementsStream ReadReturns WriteReturns
