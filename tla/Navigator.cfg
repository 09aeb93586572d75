SPECIFICATION RunSpec
CONSTANTS
  Name = {d, e}
  MaxVersion = 2
  MaxLine = 4
  Torn = Torn
  Session = {s, t}
  TornRecord = TornRecord
  NoState = NoState
  Single = {"flag"}
  MaxEntry = 2
  MaxToolIterations = 1
  MinHits = 1
SYMMETRY Alike
INVARIANTS TypeOK CatalogTrue IndexTrue Grounded
PROPERTY ImplementsNotebook
CHECK_DEADLOCK FALSE
