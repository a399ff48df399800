SPECIFICATION FairSpec
CONSTANTS
  METATILE = 2
  ZombieTime = 1
  Formats = {"png"}
  Requests <- MCMerging
  Brokers = {b1}
  Workers = {w1}
  AnnounceHWM = 1
  WorkerHWM = 1
  None = None
  Outcomes = {"rendered"}
  StyleFormats = {"png"}
  MaxTimeouts = 1
  MaxCrashes = 1
  MonitorCommands = {"RESUBMIT"}
PROPERTIES
  EveryRequestAnswered
  AvailableWorkIsTaken
