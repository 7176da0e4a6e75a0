SPECIFICATION FairSpec
CONSTANTS
  a = a
  b = b
  c = c
  Seats = {a, b, c}
  Cheaters = {c}
  Durable = {a, b}
  Turn <- CheaterThenA
  Moves = {fold, call}
  Heights = {0}
  Decks = {d1, d2}
  MaxSaid = 2
  MaxLies = 2
  MaxFaults = 1
INVARIANTS StraightKeysStaySecret 
PROPERTY StraightTablesFinish
CHECK_DEADLOCK FALSE
