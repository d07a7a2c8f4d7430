SPECIFICATION Spec
CONSTANTS
  Bytes = {0, 1, 2, 4}
  Fills = {0, 4}
  SizeMod = 8
  PowersOfTwo = {1, 2, 4}
  Buffers <- MCBuffers
  Items <- MCItems
  Strings <- MCStrings
  Counts = {0, 4}
  Positions = {0, 3, 7}
INVARIANTS TypeOK
PROPERTIES Survives FileSpec WrittenReadsBack
CHECK_DEADLOCK FALSE
