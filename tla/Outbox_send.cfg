SPECIFICATION AssemblySpec
CONSTANTS
  Frames <- Ours
  Foreign <- Theirs
  Senders = {s, t}
  MaxSendFaults = 2
  Traced <- None
  Authorized = {"us", "x"}
  MaxPendingPerSender = 1
  MaxMessageBytes = 2
  MaxTotalBytes = 2
  Timeout = 1
  MaxNow = 2
INVARIANTS SentOnce ClaimsAreTrue Reassembly
CHECK_DEADLOCK FALSE
