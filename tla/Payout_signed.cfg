\* A payout and two refund quotes; one send is refused, one bridge restarts, or
\* the chain takes one transaction back.
SPECIFICATION PayoutSpec
CONSTANTS
  a = a  b = b  t1 = t1  t2 = t2
  Bridges = {a, b}
  Outsiders = {}
  MaxFaults = 1
  Payouts = {p}
  Quotes <- TwoQuotes
  None = None
INVARIANTS PaidTogether SignedOnce
PROPERTIES AssembledStands
SYMMETRY Symmetry
CHECK_DEADLOCK FALSE
