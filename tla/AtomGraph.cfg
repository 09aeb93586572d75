\* Three texts, one document, one edge at a time, a search at any time.
SPECIFICATION Spec
CONSTANTS
  a1 = a1
  a2 = a2
  b1 = b1
  Cluster <- MCCluster
  GraphOf <- MCGraphOf
  Key = {k}
  NoKey = NoKey
  Vectors = TRUE
  MaxText = 3
  MaxEdges = 1
SYMMETRY Alike
INVARIANTS LockStep SummariesTrue Firewall
CHECK_DEADLOCK FALSE
