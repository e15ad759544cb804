\* One process, a budget of one prompt: the second run is refused, the third one waits.
SPECIFICATION FairSpec
CONSTANTS
  Runs = {r1, r2, r3}
  MaxSessions = 1
  MaxTurns = 2
  MaxTokens = 1
  None = None
PROPERTIES RunsEnd
CHECK_DEADLOCK FALSE
