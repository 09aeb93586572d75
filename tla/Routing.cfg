\* The statistics may have more terms than a signature.
SPECIFICATION Spec
CONSTANTS
  s1 = s1
  t1 = t1
  t2 = t2
  Process = {p1, p2}
  Routers = {p1}
  Shard = {s1, s2}
  Term = {t1, t2}
  MaxTerms = 2
  TopN = 1
  HeadN = 1
  Limit = 1
  Inside <- MCInside
  Shares <- MCShares
  Named <- MCNamed
  None = None
INVARIANTS DfIsRecount RoutedWhereHeld
CHECK_DEADLOCK FALSE
