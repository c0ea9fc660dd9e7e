CONSTANTS
  NsPerUs = 1
  UsPerMs = 2
  MsPerSec = 2
  HalfWord = 2
  t1 = t1
  t2 = t2
  NoTask = NoTask
  Tasks <- OneTask
  Extended <- OneTask
  MayCall <- OneMayCall
  Delays <- MoreDelays
  MaxTime = 2
  MaxWakeup = 4
  wakeup_time_max = 9
SPECIFICATION FairSpec
PROPERTIES
  PrimeTimeReturns
CHECK_DEADLOCK FALSE
