SPECIFICATION Spec
CONSTANTS
  BEAT_TICK = 2
  Delays = {1, 4}
  ClockSteps <- MCClockSteps
  IntHalf = 5
  MaxTimers = 2
  MaxTick = 7
INVARIANTS TypeOK OneTriggerEach NotLate WakesInTime
PROPERTIES NotEarly OncePerUpdate ReleasedOnce UpdateReturns
CHECK_DEADLOCK FALSE
