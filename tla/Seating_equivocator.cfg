SPECIFICATION BondedSpec

CONSTANTS
  Peers = {a, b, c}
  Seats = 2
  Equivocators = {c}
  StartHeight = 1
  Until = 1
  FundingBlocks = 1
  MaxHeight = 2
  MaxFaults = 0
  Redelivery = TRUE

SYMMETRY Symmetry
INVARIANTS Agreement NoFalseConflict OneSeating FinancialRosterIsBound

CHECK_DEADLOCK FALSE
