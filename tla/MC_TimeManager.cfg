CONSTANTS
  NsPerUs = 1
  UsPerMs = 2
  MsPerSec = 2
  HalfWord = 2
  t1 = t1
  t2 = t2
  NoTask = NoTask
  Tasks <- MCTasks
  Extended <- MCExtended
  MayCall <- MCMayCall
  Delays <- MCDelays
  MaxTime = 1
  MaxWakeup = 2
  wakeup_time_max = 9
SPECIFICATION Spec
INVARIANTS
  TypeOK
  NoLostWakeup
  SleepsUntilWakeupTime
  StoppedDuringUpdate
PROPERTY ImplementsTimerService
CHECK_DEADLOCK FALSE
