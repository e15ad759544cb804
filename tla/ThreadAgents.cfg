\* Three calls on one agent of one thread, two memberships, two processes, a restart.
SPECIFICATION FairSpec
CONSTANTS
  Callers = {c1, c2, c3}
  MaxRows = 2
  MaxSessions = 2
  MaxRestarts = 1
  None = None
INVARIANTS TypeOK PooledIsOpen NoPromptWhileLeaving
PROPERTIES CallsReturn
CHECK_DEADLOCK FALSE
