SPECIFICATION ServerSpec
CONSTANTS
  Tasks = {t1, t2}
  IdMod = 4
  IdsWrap = FALSE
  MaxReady = 2
  TaskCalls = {"_Suspend", "_Join"}
  Coroutines = {c1, c2}
  Main = main
  NULL = NULL
  StackSize = 2
  CustomSizes = {}
  Lwm = 0
  Hwm = 2
  CreateFailures = {}
  PFPE_MAX = 2
  Cmds <- MCCmds
INVARIANTS
  CallsRegistered
PROPERTIES
  EntersWithItsEvent
  StartedRuns
  ResumedRuns
  NoticeReturns
