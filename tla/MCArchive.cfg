SPECIFICATION Spec
CONSTANTS
  Names = {n1, n2}
  a = a
  b = b
  Buffers <- MCBuffers
  Levels = {0, 6}
  MaxData = 2
  MAX_FILES = 4
  MAX_OFFSET = 17
  MaxOpens = 2
  MaxFaults = 1
SYMMETRY Symmetry
INVARIANTS
    
    NothingForged
    FreshAllOrNothing
    
CHECK_DEADLOCK FALSE
