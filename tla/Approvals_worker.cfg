SPECIFICATION FairSpec

CONSTANTS
  Deposits = {stake}
  Ids = {i, j}
  Coins = {x}
  None = None
  Atoms <- UnitAtoms
  DayCap = 0
  TableCap = 0
  MaxPending = 1
  MaxLog = 1
  MaxFaults = 2
  MaxChanges = 1

INVARIANT NeverTwice
PROPERTIES ChargesOnce PublishingEnds

CHECK_DEADLOCK FALSE
