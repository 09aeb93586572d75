\* One atom, one change of epoch.
SPECIFICATION Spec
CONSTANTS
  MaxNodeId = 1
  MaxRowId = 4
  MaxUpdates = 4
  MaxBatch = 1
  MaxEpoch = 1
  MaxGarbled = 0
  MaxRestarts = 0
  PollLimit = 10
  TimerOn = TRUE
  SourceKey = {}
  Hash = {}
  Caller = {}
  NoDoc = NoDoc
  NoHash = NoHash
  Timer = Timer
INVARIANTS BaselineKept
\* The bounds on ids, updates and restarts stop the system.
CHECK_DEADLOCK FALSE
