SPECIFICATION Spec
CONSTANTS
  Writers = {w1}
  Readers = {r1}
  Size = 3
  Byte = {0, 1}
  MaxWrite = 1
  MaxRead = 1
CHECK_DEADLOCK FALSE
PROPERTIES ReadEndsAtEof
