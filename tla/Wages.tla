------------------------------- MODULE Wages -------------------------------
(***************************************************************************)
(* What an employee has earned in a period: computeEarnedSalaryFromData of *)
(* PayrollService (src/backend-nest/src/payroll/payroll.service.ts), from  *)
(* the punches, the leaves, the daily logs and what a manager entered.     *)
(* Money is exact, and not rounded to cents: a wage is counted in halves   *)
(* of a minute's wage, of which W working days have 2 * W * DayMinutes.    *)
(***************************************************************************)
EXTENDS Integers, FiniteSetsExt, Functions

CONSTANTS
  LastDay,     \* the days of a month; those of all months are numbered through
  Fridays,     \* those days that are Fridays
  Saturdays,   \* ... and Saturdays
  DayMinutes,  \* hoursPerDay, in minutes
  Opens,       \* scheduledStart
  Closes       \* scheduledEnd

ASSUME DaysAssumption ==
  /\ {LastDay, DayMinutes} \subseteq Nat \ {0} /\ Fridays \cup Saturdays \subseteq Nat
  /\ Opens \in Nat /\ Closes \in Nat /\ Opens < Closes

\* The days of a month, and those on which nobody has to come
FirstDay(m) == (m - 1) * LastDay + 1
FinalDay(m) == m * LastDay
MonthOfDay(d) == 1 + (d - 1) \div LastDay
RestDays == Fridays \cup Saturdays

\* A day of an employee: the first IN, the last OUT and what the day's logs charge.
\* Times are later than 0, which stands for no punch.
NoPunches == [in |-> 0, out |-> 0, delay |-> 0, early |-> 0]
Attends(day) == day.in > 0

\* PAID stands for the types that are paid alike: PAID, ADMIN and DEATH.
LeaveTypes == {"SICK", "PAID", "OTHER", "UNPAID"}

\* Days as they may be
DayRows == [in : Nat, out : Nat, delay : Nat, early : Nat]

\* A leave of some days; one of hours begins at `starts'; `rate' is the multiplier of a
\* public holiday.
LeaveRows ==
  [type : LeaveTypes, from : Nat, to : Nat, hourly : BOOLEAN, starts : Nat, rate : Nat]

Positive(n) == IF n > 0 THEN n ELSE 0
Least(m, n) == IF m < n THEN m ELSE n
Greatest(m, n) == IF m > n THEN m ELSE n

-----------------------------------------------------------------------------
(* PayrollInput: what a manager entered for an employee and a month *)

Unset == -1
Entries == Nat \cup {Unset}
InputRows ==
  [absence : Entries, sick : Nat, paid : Nat, unpaid : Nat, unpaidMinutes : Nat,
   late : Nat, early : Nat, overtime : Nat, weekend : Nat,
   penalty : Entries, bonus : Entries, advance : Entries, insurance : Entries,
   transport : Entries, clothing : Nat]

\* A row with nothing entered counts like none.
NoInput ==
  [absence |-> Unset, sick |-> 0, paid |-> 0, unpaid |-> 0, unpaidMinutes |-> 0,
   late |-> 0, early |-> 0, overtime |-> 0, weekend |-> 0,
   penalty |-> Unset, bonus |-> Unset, advance |-> Unset, insurance |-> Unset,
   transport |-> Unset, clothing |-> 0]

Or(entered, automatic) == IF entered # Unset THEN entered ELSE automatic

EntersDays(i) ==
  i.absence # Unset \/ \E f \in {"unpaid", "sick", "paid", "unpaidMinutes"} : i[f] > 0

\* Mutant of EntersAttendance: any input replaces the attendance.
EntersAnything(i) == i # NoInput

\* hasAttendanceOverride
EntersAttendance(i) ==
  EntersDays(i) \/ \E f \in {"late", "early", "overtime", "weekend"} : i[f] > 0

-----------------------------------------------------------------------------
(* computeEarnedSalaryFromData, of the days `from' to `to' with the punches of `window' *)

\* The days of a leave that fall into a period, and the leaves that have some
Within(l, from, to) == Greatest(l.from, from) .. Least(l.to, to)
LeavesIn(who, from, to) == {l \in who.leaves : Within(l, from, to) # {}}
LeaveDays(who, from, to) == UNION {Within(l, from, to) : l \in LeavesIn(who, from, to)}

\* Days on leaves of some types; two leaves of one day count twice.
DaysOn(who, types, from, to) ==
  LET leaves == {l \in LeavesIn(who, from, to) : l.type \in types}
  IN  SumFunctionOnSet([l \in leaves |-> Cardinality(Within(l, from, to))], leaves)

\* Full days only: hourly ones are paid by their remainder.
SickDays(who, from, to) ==
  DaysOn([who EXCEPT !.leaves = {l \in @ : ~l.hourly}], {"SICK"}, from, to)
PaidDays(who, from, to) == DaysOn(who, {"PAID"}, from, to)

\* computeSickRemainderMinutesFromLeaves
Remainder(l) == IF l.starts > Opens THEN Positive(Closes - l.starts) ELSE 0
SickRemainder(who, from, to) ==
  LET leaves == {l \in LeavesIn(who, from, to) : l.type = "SICK" /\ l.hourly}
  IN  SumFunctionOnSet([l \in leaves |-> Remainder(l)], leaves)

\* Mutant of PresentDays: leaves do not count.
PresentDespiteLeave(who, from, to, window) ==
  {d \in window : Attends(who.days[d]) /\ d \notin RestDays}

\* presentDaysRaw: days off and days of leave are not days of presence.
PresentDays(who, from, to, window) ==
  {d \in window : /\ Attends(who.days[d])
                  /\ d \notin RestDays /\ d \notin LeaveDays(who, from, to)}

\* From the first IN to the last OUT
WorkedMinutes(who, days) ==
  LET worked == {d \in days : Attends(who.days[d]) /\ who.days[d].out > 0}
  IN  SumFunctionOnSet([d \in worked |-> Positive(who.days[d].out - who.days[d].in)], worked)

\* What counts as overtime: everything on days off, and what is after the end of others
WeekendMinutes(who, window) == WorkedMinutes(who, window \cap RestDays)

OvertimeMinutes(who, window) ==
  LET days == window \ RestDays
  IN  SumFunctionOnSet([d \in days |-> Positive(who.days[d].out - Closes)], days)

\* Public holidays: what was worked on them, times the multiplier in the notes.  The
\* hours of an hourly one would count without punches, but no query selects its end.
HolidayMinutes(who, from, to, window) ==
  LET leaves == {l \in LeavesIn(who, from, to) : l.type = "OTHER"}
  IN  SumFunctionOnSet(
        [l \in leaves |-> l.rate * WorkedMinutes(who, Within(l, from, to) \cap window)], leaves)

\* Mutant of ContractualMinutes: days beyond the contract are paid.
UncappedMinutes(W, who, from, to, window, i) ==
  Cardinality(PresentDays(who, from, to, window)) * DayMinutes

\* Whoever enters days enters all that are not worked.
ContractualMinutes(W, who, from, to, window, i) ==
  IF EntersDays(i)
  THEN Positive(Positive(W - Positive(i.absence) - i.unpaid - i.sick - i.paid) * DayMinutes
                  - i.unpaidMinutes)
  ELSE Least(Cardinality(PresentDays(who, from, to, window)), W) * DayMinutes

\* Wages per minute: overtime 1.5, days off 2, lateness 1.5, leaving early 1, sick leave 0.5.
Halves(W, who, from, to, window, late, early, i) ==
  LET entered == EntersAttendance(i)
      Choose(manual, automatic) == IF entered THEN manual ELSE automatic
  IN  2 * ContractualMinutes(W, who, from, to, window, i)
      + SickRemainder(who, from, to)
      + DayMinutes * Choose(i.sick, SickDays(who, from, to))
      + 2 * DayMinutes * Choose(i.paid, PaidDays(who, from, to))
      + 3 * Choose(i.overtime, OvertimeMinutes(who, window))
      + 4 * Choose(i.weekend, WeekendMinutes(who, window))
      + 2 * HolidayMinutes(who, from, to, window)
      - 3 * Choose(i.late, late)
      - 2 * Choose(i.early, early)

\* Out of Scale(W)
Earned(W, g3, who, from, to, window, late, early, i) ==
  g3 * Positive(Halves(W, who, from, to, window, late, early, i))

\* The halves of a minute's wage that a month of W days has; and what the logs charge
Scale(W) == 2 * W * DayMinutes

Charged(who, field, days) ==
  SumFunctionOnSet([d \in days |-> who.days[d][field]], days)

\* roundUpToNearestThousand, of net out of scale
RoundUp(net, scale, unit) == unit * ((net + unit * scale - 1) \div (unit * scale))
=============================================================================
