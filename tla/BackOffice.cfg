\* Two invoices of a customer who may owe three; one bill of a supplier; one van
\* and two of its sales; a table of two rows at two sites; two leaves of two
\* employees; two requests at a time.
SPECIFICATION MCSpec
CONSTANTS
  Invoices = {i1, i2}
  NoInvoice = none
  Clerks = {p1, p2}
  Lines = {1, 2}
  Amounts = {1, 2}
  Limit = 3
  MaxSalesRequests = 5
  Bills = {b1}
  NoBill = none
  Buyers = {p1, p2}
  BillUnits = {1, 2}
  Payments = {1, 2}
  MaxPurchaseRequests = 6
  Agents = {p1, p2}
  NoAgent = none
  Sales = {i1, i2}
  NoSale = none
  Baskets <- MCBaskets
  OnShelf = 3
  MaxVanRequests = 4
  Rows = {1, 2}
  PageSize = 1
  Overlap = 2
  Delay = 1
  Longest = 0
  MaxSyncSteps = 5
  MaxTime = 3
  Leaves = {i1, i2}
  NoLeave = none
  Employees = {e1, e2}
  Spans <- MCSpans
  MonthOf <- MCMonthOf
  DeskClerks = {p1, p2}
  MaxLeaveRequests = 3
SYMMETRY Symmetry
INVARIANTS
  OfficeTypeOK
  GoodsMatchNotesAndBooks
  MoneyIsKept
  PurchasesMoveGoodsOnce
  GoodsAndCashAreTraced
  VersionsAreKept
  LeavesAddUp
CHECK_DEADLOCK FALSE
