\* Up to six candidates, in a wave of five and one of one, probed two at a time.
SPECIFICATION FairSpec
CONSTANTS
  MaxShard = 7
  Nominations <- MCNominations
  MaxTerms = 2
  MaxShards = 6
  ProbeWave = 5
  Parallelism = 2
  MaxHung = 1
INVARIANTS AllAccountedFor StrictIsExact SubjectsProbed
PROPERTIES SearchReturns
\* A search returns once.
CHECK_DEADLOCK FALSE
