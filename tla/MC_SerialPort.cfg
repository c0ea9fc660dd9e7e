SPECIFICATION FairSpec
INVARIANTS
  TypeOK
  RequestTracked
  CompletionDue
  ThreadHasRequest
PROPERTIES
  RequestEnds
  ClosingEnds
CHECK_DEADLOCK FALSE
