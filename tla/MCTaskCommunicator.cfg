SPECIFICATION CommunicatorSpec
CONSTANTS
  Brokers = {b1, b2}
  Workers = {w1}
  None = None
  Outcomes = {"rendered"}
  StyleFormats = {"png", "jpg"}
  MaxTimeouts = 2
  MaxCrashes = 1
INVARIANTS
  WorkerInv
  JobsDroppedOnlyAfterTimeout
