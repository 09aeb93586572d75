\* The three connectors over a source that changes, with a crawl that breaks off.
SPECIFICATION Spec
CONSTANTS
  Kinds = {"filesystem", "git-org", "confluence"}
  MaxPath = 2
  MaxChanges = 2
  MaxFaults = 1
  BatchSize = 1
  Reverting = {"filesystem", "git-org", "confluence"}
INVARIANTS CoveredIsStored NoGhosts
\* The bounds on changes stop the source; crawls go on.
CHECK_DEADLOCK FALSE
