\* Two orders, two requests at a time, four requests in all.
SPECIFICATION MCSpec
CONSTANTS
  r1 = r1
  r2 = r2
  Rows <- MCRows
  Opening <- MCOpening
  Procs = {p1, p2}
  NoProc = none
  Scripts <- MCScripts
  Orders = {o1, o2}
  NoOrder = none
  Numbers = {g1}
  Generated = generated
  ItemLists <- MCItemLists
  Deliveries <- MCDeliveries
  MaxRequests = 4
SYMMETRY Symmetry
INVARIANTS
  PurchaseTypeOK
  ReceiptsAreKept
  StockAndLinesMatchReceipts
  OrdersFollowReceipts
CHECK_DEADLOCK FALSE
