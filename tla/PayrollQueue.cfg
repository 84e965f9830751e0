\* One run as a job of the queue, with up to three attempts and two crashes.
SPECIFICATION MCSpec
CONSTANTS
  Runs = {a1}
  NoRun = none
  Procs = {p1, p2}
  NoProc = none
  NumBatches = 1
  MaxAttempts = 3
  MaxStalls = 1
  MaxDisturbances = 2
  AsyncRuns = {a1}
PROPERTY JobsGetDone
CHECK_DEADLOCK FALSE
