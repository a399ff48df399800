SPECIFICATION MCSpec
CONSTANTS
  c1 = c1
  b1 = b1
  b2 = b2
  Connections = {1, 2, 3}
  MaxRequests = 3
  Concurrencies = {0, 1, 2, 5}
  ExpiryClients = {c1}
  ExpiryCalls = {"set"}
  MaxFaults = 2
  SubmitBrokers = {b1, b2}
  Inputs <- MCInputs
  short_queue_length = 2
  MaxQueue = 2
  MaxBrokerDeaths = 1
  TileCount = 2
  HostCount = 2
  HashedHost <- MCHost
  MaxVersion = 1
  m_down_recheck_time = 2
  METATILE = 2
  LTS_QUEUE_BATCH_SIZE = 1
  ExpireInputs <- MCExpireInputs
  MinZooms <- MCMinZooms
  MaxZooms <- MCMaxZooms
  ThreadCounts = {1, 2}
  UrlHosts <- MCUrlHosts
  OrderOf <- MCOrderOf
  MaxBatchErrors = 1
  heartbeat_interval = 4
  resubmit_interval = 7
  OperatorCommands = {"STATS", "SHUTDOWN"}
INVARIANTS
  ClientsInv
  OneMaster
  NothingForgotten
PROPERTIES
  ImplementsBatch
  CallEnds
  FailoverIsLateEnough
  EveryCallReturns
  SubmissionEnds
  FoundAgain
  CommandsKeepComing
  SleepingThreadStops
CHECK_DEADLOCK FALSE
