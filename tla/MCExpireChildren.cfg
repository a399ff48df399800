SPECIFICATION ExpireSpec
CONSTANTS
  METATILE = 2
  LTS_QUEUE_BATCH_SIZE = 1
  ExpireInputs <- MCExpireInputs
  MinZooms = {1}
  MaxZooms = {3}
  ThreadCounts = {1, 2}
  UrlHosts <- MCUrlHosts
  OrderOf <- MCOrderOf
  MaxBatchErrors = 0
INVARIANT
  DescendantsExpired
CHECK_DEADLOCK FALSE
