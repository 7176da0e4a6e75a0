SPECIFICATION FairSpec

CONSTANTS
  Peers = {a, b}
  Seats = 2
  Equivocators = {}
  StartHeight = 1
  Until = 1
  FundingBlocks = 1
  MaxHeight = 2
  MaxFaults = 0
  Redelivery = FALSE

PROPERTY AgreedIsSeated

CHECK_DEADLOCK FALSE
