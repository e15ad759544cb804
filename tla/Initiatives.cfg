\* Two callers, up to two initiatives of three drafts; four requests from a proposal, or three from a proposed initiative.
SPECIFICATION FairSpec
CONSTANTS
  r1 = r1
  r2 = r2
  d1 = d1
  Drafts = {r1, r2, d1}
  DependsOn <- JoinDependsOn
  MaxInitiatives = 2
  Callers = {c1, c2}
  MaxCalls = 4
  None = None
INVARIANTS TypeOK NothingLeftBehind
PROPERTIES DoneWhenCompleted ApprovedAreCompleted
CHECK_DEADLOCK FALSE
