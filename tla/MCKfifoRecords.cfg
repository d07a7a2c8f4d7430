SPECIFICATION Spec
CONSTANTS
  Bytes = {a, b}
  Junk = junk
  IndexMod = 8
  PowersOfTwo = {1, 2, 4}
  RequestedSizes = {4}
  Records <- MCPairs
  GetLens = {2}
INVARIANTS
  RecordsWhole
