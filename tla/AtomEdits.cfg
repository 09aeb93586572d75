\* Edits, peers and restarts over one shard, polls of two events at a time.
SPECIFICATION FairEditSpec
CONSTANTS
  MaxNodeId = 2
  MaxRowId = 4
  MaxUpdates = 3
  MaxBatch = 2
  MaxEpoch = 0
  MaxGarbled = 0
  MaxRestarts = 1
  PollLimit = 2
  TimerOn = TRUE
  SourceKey = {}
  Hash = {}
  Caller = {c1}
  NoDoc = NoDoc
  NoHash = NoHash
  Timer = Timer
INVARIANTS SyncedEventsShown
PROPERTIES EventuallyMerged SyncNowReturns
\* The bounds on ids, updates and restarts stop the system.
CHECK_DEADLOCK FALSE
