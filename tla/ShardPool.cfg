SPECIFICATION FairSpec
CONSTANTS
  Shard = {s1, s2, s3}
  Caller = {c1, c2}
  MaxOpen = 2
  MaxEngines = 4
  MaxRefs = 2
INVARIANTS InUseIsOpen OneLiveEngine EnginesTracked
PROPERTIES AcquireReturns
CHECK_DEADLOCK FALSE
