CONSTANTS
  a = a
  b = b
  c = c
  WorkItems = {a, b}
  DependsOn <- ChainDependsOn
  Launchable = {a, b}
  Clients = {c1}
  Recoverer = recoverer
  Runners = {g1, g2}
  MaxConcurrent = 1
  RecoverStatuses <- LocalRecovery
  MidRun <- CleanMidRun
  FailStatuses = {}
  MaxOps = 2
  MaxRestarts = 1
  None = None
SPECIFICATION FairSpec
INVARIANTS QueuedIsTracked
PROPERTIES QueuedLeaves DependentsFollow ShutdownCompletes
CHECK_DEADLOCK FALSE
