\* Three runs of one profile on one work item, up to three processes.
SPECIFICATION FairSpec
CONSTANTS
  Runs = {r1, r2, r3}
  MaxSessions = 3
  MaxTurns = 1
  MaxTokens = 1
  None = None
INVARIANTS TypeOK NoProcessLost
PROPERTIES AcquireReturns
CHECK_DEADLOCK FALSE
