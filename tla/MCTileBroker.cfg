SPECIFICATION BrokerSpec
CONSTANTS
  METATILE = 2
  ZombieTime = 2
  Formats = {"png", "jpg"}
  Requests <- MCRequests
  Brokers = {b1}
  Workers = {w1}
  AnnounceHWM = 1
  WorkerHWM = 1
INVARIANTS
  BrokerTypeOK
  TaskSumsUpSubscribers
  AnsweredAtMostOnce
PROPERTIES
  NewWorkIsAnnounced
  ImplementsRenderService
