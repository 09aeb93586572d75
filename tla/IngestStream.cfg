\* Two readers at most, the second one under load; a buffer of two documents.
SPECIFICATION FairSpec
CONSTANTS
  MinReaders = 1
  MaxReaders = 2
  ScaleThreshold = 1
  MaxDeaths = 1
  HighWaterMark = 2
  MaxBatch = 2
  MaxDocs = 2
  MaxOther = 1
  MaxSettling = 2
INVARIANTS CallsInLine StreamIsWhole
PROPERTIES CallsSettle IngestEnds
\* Everything may have been said.
CHECK_DEADLOCK FALSE
