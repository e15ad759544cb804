SPECIFICATION FairSpec
CONSTANTS
  Actions <- ChainActions
  DependsOn <- ChainDependsOn
  Gates = {2, 3}
  Plans = {}
  MaxRetries <- ChainMaxRetries
  MaxReworkRounds <- TwoRounds
  ClosureGates = {3}
  Engines = {e1}
  Concurrency = 1
  Unblockers = {u1}
  Rerunners = {r1}
  Outcomes = {"transient", "permanent", "need_help", "help_signal"}
  Verdicts = {"pass", "reject", "manifest"}
  Merges = {"merged", "conflict", "refused"}
  Decisions = {"approve", "reject"}
  Faults = {}
  MaxSignals = 1
  MaxUnblocks = 1
  MaxReruns = 1
  MaxCancels = 1
  MaxCrashes = 0
  None = None
INVARIANTS
  TypeOK
  UpstreamDone
  RejectionAnswered
  
  BlockedIsEscalated
  RunningIsStarted
PROPERTIES
  RunsReturn
CHECK_DEADLOCK FALSE
