\* Two orders, two requests at a time, four requests in all.
SPECIFICATION MCSpec
CONSTANTS
  r1 = r1
  r2 = r2
  Rows <- MCRows
  Opening <- MCOpening
  Procs = {p1, p2}
  NoProc = none
  Scripts <- MCScripts
  Orders = {o1, o2}
  NoOrder = none
  Payments = {m1}
  ItemLists <- MCItemLists
  Amounts = {1}
  MaxRequests = 4
SYMMETRY Symmetry
INVARIANT ConfirmedOrdersAreBacked
CHECK_DEADLOCK FALSE
