SPECIFICATION FairMonitorSpec
CONSTANTS
  heartbeat_interval = 4
  resubmit_interval = 7
  OperatorCommands = {"STATS", "SHUTDOWN"}
PROPERTIES
  ShutdownCompletes
CHECK_DEADLOCK FALSE
