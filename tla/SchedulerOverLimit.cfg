CONSTANTS
  a = a
  b = b
  c = c
  WorkItems = {a, b, c}
  DependsOn <- Independent
  Launchable = {a, b, c}
  Clients = {c1}
  Recoverer = recoverer
  Runners = {g1, g2, g3}
  MaxConcurrent = 2
  RecoverStatuses <- LocalRecovery
  MidRun <- FailingMidRun
  FailStatuses <- Failures
  MaxOps = 4
  MaxRestarts = 0
  None = None
SPECIFICATION Spec
INVARIANTS LiveRunsWithinLimit
SYMMETRY IndependentSymmetry
CHECK_DEADLOCK FALSE
