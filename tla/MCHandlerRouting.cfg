SPECIFICATION RoutingSpec
CONSTANTS
  b1 = b1
  b2 = b2
  b3 = b3
  Brokers = {b1, b2, b3}
  Points <- MCPoints
  Keys = {0, 2, 3, 4, 7, 9}
  key_hash <- MCKeyHash
  QueueSizes = {1}
  m_queue_threshold_max = 2
  liveness_time = 4
  heartbeat_time = 1
  m_sub_reconnect_interval = 2
  SettleTime = 2
  MaxDeaths = 1
INVARIANTS
  RoutingTypeOK
  RingHoldsTheLive
PROPERTIES
  OnlyNecessaryMoves
  PunctualBrokerStays
  RunningBrokerIsUsed
  SilentBrokerIsDead
