\* Two calls, two drivers, one edit by hand, up to five snapshots.
SPECIFICATION Spec
CONSTANTS
  Calls = {c1, c2}
  Drivers = {d1, d2}
  MaxVersions = 5
  MaxEdits = 1
  Watcher = Watcher
  None = None
INVARIANTS TypeOK InSyncOrReported
PROPERTIES NewestWins
CHECK_DEADLOCK FALSE
