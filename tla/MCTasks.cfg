SPECIFICATION Spec
CONSTANTS
  Tasks = {t1, t2, t3}
  IdMod = 4
  IdsWrap = FALSE
  MaxReady = 2
  TaskCalls = {"_Suspend", "_Join"}
  Coroutines = {c1, c2, c3}
  Main = main
  NULL = NULL
  StackSize = 2
  CustomSizes = {}
  Lwm = 0
  Hwm = 2
  CreateFailures = {"malloc"}
SYMMETRY MCSymmetry
PROPERTIES
  BatchesSpec
