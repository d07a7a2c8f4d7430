SPECIFICATION Spec
CONSTANTS
  Tasks = {t1, t2, t3}
  IdMod = 3
  IdsWrap = TRUE
  MaxReady = 2
  TaskCalls = {"_Suspend", "_Yield", "_Join"}
  Coroutines = {c1, c2, c3}
  Main = main
  NULL = NULL
  StackSize = 2
  CustomSizes = {}
  Lwm = 1
  Hwm = 2
  CreateFailures = {"setup"}
SYMMETRY MCSymmetry
INVARIANTS
  TypeOK
  TablesNeverDangle
  TaskOwnsCoroutine
  NoticeMatchesList
  NeverStackless
  JoinerWoken
PROPERTIES
  OneSlicePerNotice
  EndedSleeps
