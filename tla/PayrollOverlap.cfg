\* Two calculations at a time, both of them queued.
SPECIFICATION MCSafety
CONSTANTS
  Runs = {a1, a2}
  NoRun = none
  Procs = {p1, p2}
  NoProc = none
  NumBatches = 1
  MaxAttempts = 2
  MaxStalls = 1
  MaxDisturbances = 0
  AsyncRuns = {a1, a2}
SYMMETRY Symmetry
INVARIANT OverlappingCalculationsLeaveARun
CHECK_DEADLOCK FALSE
