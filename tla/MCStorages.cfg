SPECIFICATION MCSpec
CONSTANTS
  clientA = clientA
  clientB = clientB
  TileCount = 2
  HostCount = 2
  HashedHost <- MCHost
  MaxVersion = 2
  Clients = {clientA, clientB}
  OperationsOf <- MCOperations
  FormatOf <- MCFormat
  PutFormats = {{"png"}}
  MaxOperations = 3
  MaxFailures = 1
  MaxPuts = 2
  MaxCuts = 1
  MaxSize = 2
  MaxDescriptors = 1
  DiskFormats = {"png"}
  Putters = {1, 2}
  MaxExpiries = 3
  MaxStores = 3
  TileStyles = {"map", "hyb"}
  OwnStyle = "map"
  TileFormats = {"png"}
  MaxStoragePuts = 3
  LeafTypes = {"disk"}
  ChildNames = {"a", "b"}
  MetaSide = 4
  MetaFormats <- MCFormats
  SizeTables <- MCSizeTables
  Zooms = {0, 1, 2}
  IndexTiles <- MCIndexTiles
  MaxMarks = 1
  Sizes = {0, 1, 4, 5}
  Buffers = {1, 2, 3}
INVARIANTS
  StoragesInv
  PutIsStored
  ExpiredIsNotFresh
  FreshWasFresh
  FreshIsNotStale
  UnionServesLast
  MadeAsDescribed
  ReadBack
  TileIndexesAgree
CHECK_DEADLOCK FALSE
