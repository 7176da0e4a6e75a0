\* One payout beside a refund quote of one owner, an outsider's key, and the payouts
\* that games of two and three seats may propose.
SPECIFICATION ProposedSpec
CONSTANTS
  a = a  b = b  t1 = t1  t2 = t2
  Bridges = {a, b}
  Outsiders = {x}
  MaxFaults = 0
  Payouts = {p}
  Quotes <- OneQuote
  None = None
  MaxMembers = 3
  MaxAtoms = 24
  FeeRates = {1, 2}
INVARIANTS OneRoster PayoutsAddUp
PROPERTIES SpendIsSeen SignedIsPaid RosterCompletes
CHECK_DEADLOCK FALSE
