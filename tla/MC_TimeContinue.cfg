CONSTANTS
  NsPerUs = 2
  UsPerMs = 3
  MsPerSec = 2
  HalfWord = 16
  Seconds <- MCSeconds
SPECIFICATION Spec
INVARIANTS
  SavedDelayIsContinued
CHECK_DEADLOCK FALSE
