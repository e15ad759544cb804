CONSTANTS
  a = a
  b = b
  c = c
  WorkItems = {a, b}
  DependsOn <- ChainDependsOn
  Launchable = {a, b}
  Clients = {c1, c2}
  Recoverer = recoverer
  Runners = {g1, g2, g3}
  MaxConcurrent = 1
  RecoverStatuses <- LocalRecovery
  MidRun <- FailingMidRun
  FailStatuses <- Failures
  MaxOps = 3
  MaxRestarts = 0
  None = None
SPECIFICATION Spec
INVARIANTS TypeOK CapacityRespected NoLostWakeup QueuedIsTracked RunsAfterDependencies
SYMMETRY Symmetry
CHECK_DEADLOCK FALSE
