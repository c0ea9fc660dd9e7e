CONSTANTS
  NsPerUs = 2
  UsPerMs = 3
  MsPerSec = 2
  HalfWord = 16
  Seconds <- MCSeconds
SPECIFICATION Spec
INVARIANTS
  TimesExact
  DelayRoundTrip
  RemainingTimeKept
CHECK_DEADLOCK FALSE
