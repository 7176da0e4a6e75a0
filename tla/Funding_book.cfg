SPECIFICATION FairSpec

CONSTANTS
  Deposits = {bond}
  Bonds = {bond}
  Ids = {i, j}
  None = None
  Callers = {c1, c2}
  MaxFaults = 5

INVARIANTS Watched NeverAmbiguous
PROPERTIES LandsOnce PaymentLands

CHECK_DEADLOCK FALSE
