\* One process with two slots and two workers: two tasks of a shard, three ingests.
SPECIFICATION FairSpec
CONSTANTS
  Process = {p1}
  Shard = {s1}
  Crawl = {c1}
  Ingest = {i1, i2, i3}
  Slots = 2
  MaxTasks = 2
  MaxCrashes = 1
INVARIANTS RunningIsHeld IngestsSerialized SlotsKept IngestingIsBusy
PROPERTIES DrainedOnReturn DrainsReturn IngestsReturn
CHECK_DEADLOCK FALSE
