\* A batch of two stages; two orders for two units of material more than either
\* location has; two counts of three units; two cached keys under one prefix; two
\* lots on two places and two documents; a pick list of two lines and a shipment.
SPECIFICATION MCSpec
CONSTANTS
  Batches = {b1}
  Last = 2
  Warehouses = {finished, w1}
  Finished = finished
  Procs = {p1, p2}
  Nobody = nobody
  Quantities = {0, 1, 2}
  MaxStageRequests = 6
  l1 = l1
  l2 = l2
  Orders = {r1, r2}
  Locations = {l1, l2}
  Default = l1
  Opening <- MCOpening
  Makers = {p1, p2}
  NoOrder = none
  OrderQuantities = {1, 2}
  MaxOrderRequests = 5
  Counts = {r1, r2}
  NoCount = none
  Counters = {p1, p2}
  InStock = 3
  MaxCountRequests = 5
  Keys = {r1, r2}
  Prefixes <- MCPrefixes
  NoKey = none
  Calls = {p1, p2}
  Ttl = 1
  MaxWrites = 1
  MaxTime = 2
  Lots = {1, 2}
  Shelves = {l1, l2}
  Dock = l1
  Arrived <- MCArrived
  Hands = {p1, p2}
  NoHand = nobody
  Papers = {r1, r2}
  NoPaper = none
  Units = {2}
  MaxBatchRequests = 3
  PickLists = {k1}
  PickLines = {r1, r2}
  Wanted = 2
  Shipments = {s1}
  NoTarget = none
  Pickers = {p1, p2}
  MaxFulfilmentRequests = 4
SYMMETRY Symmetry
INVARIANTS
  FactoryTypeOK
  StagesAccountForUnits
  BalancesMatchTransfers
  MaterialAddsUp
  NothingOnTheShelfIsWrittenOff
  OnlyMissedEntriesAreStale
  SingleFlight
  BatchesAddUp
  FulfilmentIsTraced
PROPERTY LockedCostIsKept
CHECK_DEADLOCK FALSE
