SPECIFICATION FairSpec
CONSTANTS
  Actions <- DagActions
  DependsOn <- DagDependsOn
  Gates = {}
  Plans = {2}
  MaxRetries <- DagMaxRetries
  MaxReworkRounds <- NoRounds
  ClosureGates = {}
  Engines = {e1}
  Concurrency = 1
  Unblockers = {u1}
  Rerunners = {r1}
  Outcomes = {"transient", "permanent", "need_help"}
  Verdicts = {"pass", "reject"}
  Merges = {"merged", "conflict", "refused"}
  Decisions = {"approve", "reject"}
  Faults = {"expand", "prepare", "persist"}
  MaxSignals = 0
  MaxUnblocks = 0
  MaxReruns = 0
  MaxCancels = 0
  MaxCrashes = 2
  None = None
INVARIANTS
  UpstreamDone
PROPERTIES
  ComesToRest
CHECK_DEADLOCK FALSE
