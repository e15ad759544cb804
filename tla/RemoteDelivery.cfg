SPECIFICATION FairSpec
CONSTANTS
  MaxCalls = 2
  Workers = {w1, w2}
  MaxConcurrent = 1
  MaxFaults = 2
  None = None
INVARIANTS
  TypeOK
  NothingLost
PROPERTIES
  ImplementsDelivery
  Answered
CHECK_DEADLOCK FALSE
