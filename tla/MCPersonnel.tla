----------------------------- MODULE MCPersonnel -----------------------------
(***************************************************************************)
(* Payroll, attendance and employment for TLC.  A behaviour runs the one   *)
(* that `part' names: the runs of a payroll period as in MCPayrollRuns,    *)
(* what they pay, requests about the punches of a few instants, or         *)
(* requests about salaries, about employees or about these and their       *)
(* buses.  In part `pay' nothing happens: there are only the first states. *)
(***************************************************************************)
EXTENDS MCPayrollRuns, Personnel

CONSTANTS MaxAttendanceRequests, MaxSalaryRequests, MaxStaffRequests, MaxSlipRequests

VARIABLE part   \* the component that runs

staffVars == <<employmentVars, salaryVars>>

\* A shift from slot 3 of a day to slot 1 of the next; the leave covers its first slot.
MCCovered == [from |-> 3, to |-> 4]

\* One employee has come once, and the day is calculated.  It may be the day of a sick
\* leave that was removed.
OnePunch ==
  \E e \in Staff, at \in Times :
    LET row == Row(e, "IN", at, Day(at))
    IN  /\ punch = [x \in Punches |-> IF x = 1 THEN row ELSE NoPunch]
        /\ \/ off = NobodyIsOff
           \/ /\ at = Max(Times)
              /\ off = [NobodyIsOff EXCEPT ![Key(row)][1] =
                          [kind |-> "hard", removed |-> TRUE]]
        /\ logs = [k \in Keys |-> IF k = Key(row) THEN LogsOf({row}, FALSE) ELSE Unlogged]

SmallBuses == \A b \in Buses : bus[b].capacity = 1
LowSalaries == \A e \in Employees : mirror[e] = 1

\* One may have left, and one, who may be the same, has a seat.
AtWork ==
  \E gone, riders \in SUBSET Employees :
    /\ Cardinality(gone) <= 1 /\ Cardinality(riders) <= 1
    /\ employee = [e \in Employees |->
         IF e \in gone THEN [Hired EXCEPT !.active = FALSE, !.left = 1] ELSE Hired]
    /\ LET b == CHOOSE b \in Buses : TRUE
       IN  seat = [c \in Buses |-> [e \in Employees |->
             IF c = b /\ e \in riders THEN [NoSeat EXCEPT !.state = "active"] ELSE NoSeat]]

-----------------------------------------------------------------------------
(* What the runs pay, in months of four days *)

OnTime == [in |-> Opens, out |-> Closes, delay |-> 0, early |-> 0]
Prolonged == [OnTime EXCEPT !.out = Closes + 1]
LateAndLong == [in |-> Opens + 1, out |-> Closes + 1, delay |-> 1, early |-> 0]
Shortened == [in |-> Opens, out |-> Closes - 1, delay |-> 0, early |-> 1]
Unfinished == [in |-> Opens, out |-> 0, delay |-> 0, early |-> 0]

Regular ==
  [base |-> 12, transport |-> 2, insurance |-> 1, fare |-> 1, joined |-> 1,
   until |-> FinalDay(FinalMonth) + 1, leaves |-> {},
   days |-> [d \in AllDays |-> CASE d \in RestDays -> NoPunches [] d = 2 -> Prolonged
                                 [] OTHER -> OnTime]]

\* The days of the last month, of which the first three may be worked in most ways, and
\* the days around it
SomeDays ==
  {[d \in AllDays |-> CASE d = 5 -> a [] d = 6 -> b [] d = 7 -> c [] d = 8 -> f
                         [] d \in {4, 9} -> g [] OTHER -> NoPunches] :
     a \in {NoPunches, OnTime, LateAndLong, Unfinished},
     b \in {NoPunches, OnTime, LateAndLong, Unfinished},
     c \in {NoPunches, OnTime, LateAndLong, Shortened},
     f \in {NoPunches, LateAndLong},
     g \in {NoPunches, OnTime}}

\* One leave at most, which may begin before the month or end after it
SomeLeaves ==
  {{}} \cup
  {{[type |-> t, from |-> 5 - early, to |-> 6 + late, hourly |-> FALSE, starts |-> 0, rate |-> 2]} :
     t \in LeaveTypes, early \in {0, 1}, late \in {0, 3}}
  \cup {{[type |-> t, from |-> 6, to |-> 6, hourly |-> TRUE, starts |-> 2, rate |-> 1]} :
           t \in {"SICK", "OTHER"}}

MCInputs ==
  {NoInput,
   [NoInput EXCEPT !.bonus = 0, !.penalty = 0, !.advance = 1, !.clothing = 1],
   [NoInput EXCEPT !.absence = 0, !.sick = 1, !.transport = 0]}

\* A bonus from before there were periods, a penalty and an advance in instalments
SomeClaims ==
  {[kind |-> "bonus", who |-> e, when |-> NoMonth, created |-> 1, total |-> 3,
    instalment |-> 0, remaining |-> 0] : e \in Workers}
  \cup {[kind |-> "penalty", who |-> e, when |-> 1, created |-> 1, total |-> 3,
         instalment |-> 0, remaining |-> 0] : e \in Workers}
  \cup {[kind |-> "advance", who |-> e, when |-> 1, created |-> 1, total |-> 3,
         instalment |-> 1, remaining |-> 3] : e \in Workers}

NobodyIsPaid == worker = << >> /\ claim = [c \in Claims |-> NoClaim]

PayInit ==
  /\ claim = [c \in Claims |-> NoClaim]
  /\ \E e \in Workers, days \in SomeDays, leaves \in SomeLeaves, joined \in {1, 7} :
       worker = [f \in Workers |->
         IF f = e THEN [Regular EXCEPT !.days = days, !.leaves = leaves, !.joined = joined]
         ELSE Regular]

SlipsInit ==
  /\ worker = [e \in Workers |-> Regular]
  /\ \/ claim = [c \in Claims |-> NoClaim]
     \/ \E k \in Claims, x \in SomeClaims :
          claim = [c \in Claims |-> IF c = k THEN x ELSE NoClaim]

-----------------------------------------------------------------------------
PersonnelInit ==
  /\ part \in {"payroll", "attendance", "salaries", "staff", "pay", "slips"}
  /\ left = CASE part = "payroll" -> MaxDisturbances
              [] part = "attendance" -> MaxAttendanceRequests
              [] part = "salaries" -> MaxSalaryRequests
              [] part = "slips" -> MaxSlipRequests
              [] part = "pay" -> 0
              [] OTHER -> MaxStaffRequests
  /\ Init
  /\ IF part = "staff" THEN OfficeOpens /\ AtWork ELSE EmploymentInit
  /\ CASE part = "pay" -> PayInit
       [] part = "slips" -> SlipsInit
       [] OTHER -> NobodyIsPaid
  /\ PayslipsInit
  /\ SmallBuses
  /\ SalariesInit /\ (part # "salaries" => LowSalaries)
  /\ \/ AttendanceInit
     \/ /\ part = "attendance"
        /\ OnePunch
        /\ NothingInProgress

\* Rows are numbers, and new ones are taken in turn.
InTurn ==
  /\ \A x, y \in Unused : y < x /\ punch'[x] # NoPunch => punch'[y] # NoPunch
  /\ \A p \in Clerks : clerk[p] = Idle /\ clerk'[p].op = "leave" =>
       \A x \in 1 .. clerk'[p].leave.row - 1 :
         \/ off[clerk'[p].key][x] # NoLeave
         \/ \E q \in Clerks : clerk[q].op = "leave" /\ clerk[q].leave.row = x

AttendanceDesk ==
  \/ /\ left > 0 /\ left' = left - 1
     /\ \/ (\E p \in Clerks : StartAttendance(p)) /\ InTurn
        \/ \E k \in Keys : AskForDay(k) \/ \E x \in DayLeaves : RestoreLeave(k, x)
  \/ /\ UNCHANGED left
     /\ ((\E p \in Clerks : ContinueAttendance(p)) /\ InTurn) \/ CalculateDays

\* A clerk serves one request at a time; a fresh start wipes the salary of a rehired employee.
SalaryDesk ==
  \/ /\ left > 0 /\ left' = left - 1
     /\ \E p \in Desks :
          /\ sheet[p].op = "none" /\ office[p].op = "none"
          /\ \/ (StartSalary(p) /\ UNCHANGED employmentVars) \/ RaiseAll(p)
             \/ TerminateSimply(p) \/ ReadForRehire(p)
  \/ /\ UNCHANGED left
     /\ \E p \in Desks :
          (ContinueSalary(p) /\ UNCHANGED employmentVars) \/ ContinueOffice(p)

StaffDesk ==
  \/ /\ left > 0 /\ left' = left - 1
     /\ \E p \in Desks : office[p].op = "none" /\ (StartStaff(p) \/ StartBus(p))
  \/ UNCHANGED left /\ ((\E p \in Desks : ContinueOffice(p)) \/ NextMonth)

\* Receipts are signed for the first month.
FirstReceipts == \A e \in Workers, m \in Months \ {1} : receipt'[e][m] = receipt[e][m]

SlipsDesk ==
  \/ /\ left > 0 /\ left' = left - 1
     /\ StartSlips
     /\ FirstReceipts
  \/ UNCHANGED left /\ ContinueSlips

PersonnelNext ==
  /\ UNCHANGED part
  /\ \/ part = "payroll" /\ (MCWork \/ MCDisturb) /\ UNCHANGED <<attendanceVars, staffVars, payslipVars>>
     \/ part = "attendance" /\ AttendanceDesk /\ UNCHANGED <<vars, staffVars, payslipVars>>
     \/ part = "salaries" /\ SalaryDesk /\ UNCHANGED <<vars, attendanceVars, payslipVars>>
     \/ part = "staff" /\ StaffDesk /\ UNCHANGED <<vars, attendanceVars, payslipVars>>
     \/ part = "slips" /\ SlipsDesk /\ UNCHANGED <<vars, attendanceVars, staffVars>>

MCPersonnelSpec ==
  PersonnelInit /\ [][PersonnelNext]_<<vars, attendanceVars, staffVars, payslipVars, part, left>>

PersonnelSymmetry == Symmetry \cup Permutations(Workers)
=============================================================================
