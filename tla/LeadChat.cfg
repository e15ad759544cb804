\* Three messages to one chat, three agent processes, one request of another kind or a restart.
SPECIFICATION FairSpec
CONSTANTS
  Messages = {m1, m2, m3}
  MaxClients = 3
  MaxOps = 1
  None = None
INVARIANTS TypeOK OneRunAtATime NoClientLost
PROPERTIES RunsEnd
CHECK_DEADLOCK FALSE
