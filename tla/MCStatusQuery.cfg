SPECIFICATION HandlerSpec
CONSTANTS
  base = base
  overlay = overlay
  Tiles <- MCTiles
  dirty_list <- MCDirtyList
  max_io_threads = 2
  Clients = {1, 2, 3}
  Asks <- MCAsks
  m_queue_threshold_stale = 1
  m_queue_threshold_satisfy = 1
  m_queue_threshold_max = 2
  MaxQueueLength = 2
INVARIANT
  StatusQueryStaysOne
CHECK_DEADLOCK FALSE
