\* Two requests, two rows, three transactions each.
SPECIFICATION MCSpec
CONSTANTS
  r1 = r1
  r2 = r2
  Rows <- MCRows
  Procs = {p1, p2}
  NoProc = none
  Opening <- MCOpening
  Scripts <- MCScripts
  MaxTransactions = 3
INVARIANTS
  StockTypeOK
  ReservedMatchesJournal
  OnHandCoversJournal
  NoLostAvailability
PROPERTIES
  TransactionsEnd
  TransactionsAreAtomic
CHECK_DEADLOCK FALSE
