SPECIFICATION Spec
PROPERTIES
  KilledNotReported
CHECK_DEADLOCK FALSE
