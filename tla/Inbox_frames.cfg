SPECIFICATION Spec
CONSTANTS
  Frames = {f, g, m}
  Table = {f, m}
  Financial = {m}
  Strangers = {f}
  Buffer = 1
  MaxFaults = 1
INVARIANTS KeptOnceAcked  OnlyOvertakenAreLost NothingWaits
CHECK_DEADLOCK FALSE
