SPECIFICATION FairSpec
CONSTANTS
  Ids = {1, 2}
  Groups = 2
  Bounds <- SessionBounds
INVARIANT StopsHeard
PROPERTY OneOutcome
PROPERTY InOrder
PROPERTY NobodyWaits
CHECK_DEADLOCK FALSE
