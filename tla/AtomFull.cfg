\* Every operation: documents come, change and go, atoms are compacted, peers are ahead and behind.
SPECIFICATION Spec
CONSTANTS
  MaxNodeId = 2
  MaxRowId = 4
  MaxUpdates = 3
  MaxBatch = 2
  MaxEpoch = 1
  MaxGarbled = 1
  MaxRestarts = 1
  PollLimit = 10
  TimerOn = TRUE
  SourceKey = {k1}
  Hash = {h1, h2}
  Caller = {}
  NoDoc = NoDoc
  NoHash = NoHash
  Timer = Timer
INVARIANTS TypeOK ViewAgrees OneMergePerNode
\* The bounds on ids, updates and restarts stop the system.
CHECK_DEADLOCK FALSE
