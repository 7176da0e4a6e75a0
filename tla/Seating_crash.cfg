SPECIFICATION BondedSpec

CONSTANTS
  Peers = {a, b, c}
  Seats = 2
  Equivocators = {}
  StartHeight = 1
  Until = 1
  FundingBlocks = 1
  MaxHeight = 1
  MaxFaults = 2
  Redelivery = TRUE

SYMMETRY Symmetry
INVARIANTS SingleCommit
PROPERTY KeepsPromise

CHECK_DEADLOCK FALSE
