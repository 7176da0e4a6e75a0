SPECIFICATION Spec

CONSTANTS
  Peers = {a, b}
  Seats = 2
  Equivocators = {}
  StartHeight = 1
  Until = 1
  FundingBlocks = 1
  MaxHeight = 4
  MaxFaults = 2
  Redelivery = TRUE

SYMMETRY Symmetry
INVARIANTS TypeOK DurableWhenHealthy SeatedKeepsMembership
PROPERTY SettledStands

CHECK_DEADLOCK FALSE
