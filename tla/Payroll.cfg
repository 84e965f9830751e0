\* Two processes, two runs of two batches, one of which may become a job; two requests
\* about three punches of one employee on two days; three requests about the salaries of two
\* employees, and three about their employment and two buses in two months;
\* three about what two months of four days pay two employees.
SPECIFICATION MCPersonnelSpec
CONSTANTS
  Runs = {a1, a2}
  NoRun = none
  Procs = {p1, p2}
  NoProc = none
  NumBatches = 2
  MaxAttempts = 2
  MaxStalls = 0
  MaxDisturbances = 1
  AsyncRuns = {a1}
  Slots = 6
  Start = 3
  End = 1
  Grace = 1
  Covered <- MCCovered
  Staff = {e1}
  Times = {4, 5, 8}
  Punches = {1, 2, 3}
  NoPunch = none
  DayLeaves = {1, 2}
  Clerks = {p1, p2}
  Gap = 1
  Window = 1
  MaxJobs = 2
  MaxAttendanceRequests = 2
  Employees = {m1, m2}
  Amounts = {1, 3}
  Raise = 1
  Desks = {p1, p2}
  Buses = {b1, b2}
  Capacities = {1, 2}
  LastMonth = 2
  MaxSalaryRequests = 3
  MaxStaffRequests = 3
  Workers = {m1, m2}
  Claims = {c1}
  NoClaim = none
  Figures = {3}
  WorkDays = 2
  Inputs <- MCInputs
  Unit = 3
  Flat = 1
  FinalMonth = 2
  Secretaries = {p1, p2}
  LastDay = 4
  Fridays = {8}
  Saturdays = {4}
  DayMinutes = 2
  Opens = 1
  Closes = 3
  MaxSlipRequests = 3
SYMMETRY PersonnelSymmetry
INVARIANTS
  PersonnelTypeOK
  RunsEndComplete
  PeriodKeepsARun
  AttendanceAddsUp
  StaffAddsUp
  ClaimsSettleOnce
  PayAddsUp
CHECK_DEADLOCK FALSE
