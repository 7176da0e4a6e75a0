SPECIFICATION Spec

CONSTANTS
  Deposits = {1, 2}
  Ids = {i, j}
  Coins = {x, y}
  None = None
  Atoms <- NumberAtoms
  DayCap = 2
  TableCap = 2
  MaxPending = 2
  MaxLog = 3
  MaxFaults = 2
  MaxChanges = 0

SYMMETRY Symmetry
INVARIANTS RefusedIsUnpaid PayableIsShown CapsHold
PROPERTY DecidedStands

CHECK_DEADLOCK FALSE
