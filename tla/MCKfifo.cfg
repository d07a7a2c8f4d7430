SPECIFICATION Spec
CONSTANTS
  Bytes = {a, b}
  Junk = junk
  IndexMod = 8
  PowersOfTwo = {1, 2, 4}
  RequestedSizes = {0, 3}
  Records <- MCRecords
  GetLens = {1, 3}
INVARIANTS
  TypeOK
  FillsWithinSize
  NoUnreadOverwritten
PROPERTIES
  FifoSpec
