CONSTANTS
  a1 = a1
  a2 = a2
  Arrays <- MCArrays
  HEADER = 1
  MaxSize = 3
  ALIGNMENT = 2
  CAPACITY = 8
  MaxRegions = 2
SPECIFICATION Spec
SYMMETRY Symmetry
\* An allocation that fails throws or ends the program, and a freed array is not used again.
CHECK_DEADLOCK FALSE
INVARIANTS
  TypeOK
  ContentsKept
  BlocksApart
  RoomWhenWritten
