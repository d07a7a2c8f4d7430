\* Three addresses, every failure of create_coroutine, and a cache that
\* starts above the high watermark.
SPECIFICATION FairSpec
CONSTANTS
  Coroutines = {c1, c2, c3}
  Main = main
  Data = {d1, d2}
  NULL = NULL
  StackSize = 2
  CustomSizes = {5}
  Lwm = 2
  Hwm = 1
  CreateFailures = {"malloc", "setup", "valloc"}
CHECK_DEADLOCK FALSE
INVARIANTS
  TypeOK
  CoroutineInOnePlace
  CacheServesDefault
  OnlyWaitingSurvive
PROPERTIES
  ReadyRuns
