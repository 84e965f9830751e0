----------------------------- MODULE Employment -----------------------------
(***************************************************************************)
(* Employees come, leave, are settled and come back, and subscribe to the  *)
(* factory's buses: EmployeesService (src/backend-nest/src/employees) and  *)
(* TransportationService (src/transportation).  A request reads an         *)
(* employee and checks it, and writes later without checking again; only   *)
(* the seats of a bus are counted under a lock.  The employees manage no   *)
(* department, and dates are those of the day.                             *)
(***************************************************************************)
EXTENDS Salaries, FiniteSets

CONSTANTS
  Buses,       \* the buses
  Capacities,  \* capacities that buses are given
  LastMonth    \* the months are 1 .. LastMonth

ASSUME EmploymentAssumption == Capacities \subseteq Nat /\ LastMonth \in Nat \ {0}
ASSUME EmployeesAssumption == IsFiniteSet(Employees)

VARIABLES
  employee,   \* employee[e]: status and settlement
  archive,    \* the employees among deleted_record_history
  bus,        \* bus[b]: the row
  seat,       \* seat[b][e]: the bus_passengers row
  month,      \* the month
  approved,   \* a payroll run of the month is approved
  office,     \* office[p]: what request p has read and will write
  paidOut,    \* paidOut[e]: financial_settlements since e was last hired or restored
  closed,     \* employees taken off the payroll as settled since they last left
  sealed,     \* the subscriptions when the month was approved
  irregular,  \* employees who left twice in a row, were settled while employed or twice
              \* at a time, or came back as settled
  seatedTwice,     \* employees whom two requests gave a seat at a time
  squeezed,   \* buses made too small, or smaller while a seat was given
  swept,      \* employees whose seat was given or given up after they had left
  excused     \* employees who left, lost their bus or whose request had been checked
              \* before the month was approved

employmentVars ==
  <<employee, archive, bus, seat, month, approved, office, paidOut, closed, sealed,
    irregular, seatedTwice, squeezed, swept, excused>>

Never == 0
NoSeat == [state |-> "none", ended |-> Never]
Hired == [active |-> TRUE, completed |-> FALSE, settled |-> FALSE, left |-> Never]
NoBus == [there |-> FALSE, active |-> FALSE, capacity |-> 0]
Unoccupied == [op |-> "none", who |-> {}, on |-> {}, size |-> 0, riders |-> 0, marks |-> {}]

Active(e) == employee[e].active
LongGone(e) == ~Active(e) /\ employee[e].left # month
Riders(b) == {e \in Employees : seat[b][e].state = "active"}
Subscriptions == {s \in Buses \X Employees : s[2] \in Riders(s[1])}

\* Buses, and no request yet.
OfficeOpens ==
  /\ bus \in [Buses -> [there : {TRUE}, active : {TRUE}, capacity : Capacities]]
  /\ archive = << >> /\ month = 1 /\ approved = FALSE
  /\ office = [p \in Desks |-> Unoccupied]
  /\ paidOut = [e \in Employees |-> 0]
  /\ closed = {} /\ sealed = {} /\ irregular = {} /\ seatedTwice = {} /\ squeezed = {}
  /\ swept = {} /\ excused = {}

EmploymentInit ==
  /\ OfficeOpens
  /\ employee = [e \in Employees |-> Hired]
  /\ seat = [b \in Buses |-> [e \in Employees |-> NoSeat]]

\* Request p has changed something that others may have read: `mark' goes to those
\* that concern employees E and buses B.
Marks(p, mark, E, B) ==
  [q \in Desks |->
    IF q = p THEN Unoccupied
    ELSE IF office[q].who \cap E # {} /\ (office[q].on = {} \/ office[q].on \cap B # {})
    THEN [office[q] EXCEPT !.marks = @ \cup {mark}] ELSE office[q]]

Asking(p, next) == office[p].op = "none" /\ office' = [office EXCEPT ![p] = next]
Marked(p, mark) == mark \in office[p].marks

OnlyAsked ==
  UNCHANGED <<employee, archive, bus, seat, month, approved, paidOut, closed, sealed,
              irregular, seatedTwice, squeezed, swept, excused, salaryVars>>
SameBuses == UNCHANGED <<bus, month, approved, sealed, seatedTwice, squeezed>>
SameSeats == UNCHANGED <<seat, swept, excused>> /\ SameBuses
SameStaff == UNCHANGED <<employee, archive, paidOut, closed, irregular, salaryVars>>

-----------------------------------------------------------------------------
(* Leaving *)

\* Mutant of Leaver: isSettled is not reset.
LeaverAsSettled(e) ==
  [active |-> FALSE, completed |-> FALSE, settled |-> employee[e].settled, left |-> month]

\* The update of each termination, whatever the employee's status has become.
Leaver(e) == [active |-> FALSE, completed |-> FALSE, settled |-> FALSE, left |-> month]

Leave(E) ==
  /\ employee' = [e \in Employees |-> IF e \in E THEN Leaver(e) ELSE employee[e]]
  /\ irregular' = irregular \cup {e \in E : ~Active(e)}
  /\ closed' = closed \ E

\* The row of one active subscription is deleted.
GiveUpSeat(e) ==
  IF \E b \in Buses : e \in Riders(b)
  THEN \E b \in Buses :
         /\ e \in Riders(b)
         /\ seat' = [seat EXCEPT ![b][e] = NoSeat]
         /\ excused' = excused \cup {e}
  ELSE UNCHANGED <<seat, excused>>

\* terminate and resign do not look at the status.
TerminateSimply(p) == \E e \in Employees :
  /\ office[p].op = "none"
  /\ Leave({e}) /\ GiveUpSeat(e)
  /\ office' = Marks(p, "status", {e}, Buses)
  /\ SameBuses /\ UNCHANGED <<archive, paidOut, swept, salaryVars>>

ReadForTermination(p) == \E e \in Employees :
  /\ Active(e)
  /\ Asking(p, [Unoccupied EXCEPT !.op = "terminate", !.who = {e}])
  /\ OnlyAsked

TerminateEmployee(p) == \E e \in office[p].who :
  /\ office[p].op = "terminate"
  /\ Leave({e}) /\ GiveUpSeat(e)
  /\ office' = Marks(p, "status", {e}, Buses)
  /\ SameBuses /\ UNCHANGED <<archive, paidOut, swept, salaryVars>>

ReadForDepartment(p) ==
  /\ \E e \in Employees : Active(e)
  /\ Asking(p, [Unoccupied EXCEPT !.op = "bulk", !.who = {e \in Employees : Active(e)}])
  /\ OnlyAsked

\* The seats stay.
TerminateDepartment(p) ==
  /\ office[p].op = "bulk"
  /\ Leave(office[p].who)
  /\ office' = Marks(p, "status", office[p].who, Buses)
  /\ SameSeats /\ UNCHANGED <<archive, paidOut, salaryVars>>

\* remove: archived with the status that was read, settled or not.
ReadForArchive(p) == \E e \in Employees :
  /\ Asking(p, [Unoccupied EXCEPT !.op = "archive", !.who = {e}, !.size = employee[e].left])
  /\ OnlyAsked

ArchiveEmployee(p) == \E e \in office[p].who :
  LET was == employee[e]
  IN  /\ office[p].op = "archive"
      /\ archive' = Append(archive, [who |-> e, open |-> TRUE])
      /\ employee' = [employee EXCEPT
           ![e].active = FALSE,
           ![e].left = IF office[p].size = Never THEN month ELSE office[p].size]
      /\ closed' = IF was.active THEN closed \ {e} ELSE closed
      /\ irregular' = IF (was.active /\ (was.settled \/ was.completed)) \/ Marked(p, "status")
                      THEN irregular \cup {e} ELSE irregular
      /\ office' = Marks(p, "status", {e}, Buses)
      /\ SameSeats /\ UNCHANGED <<paidOut, salaryVars>>

-----------------------------------------------------------------------------
(* Being settled *)

\* settle does not look at the status.
Settle(p) == \E e \in Employees :
  /\ office[p].op = "none"
  /\ employee' = [employee EXCEPT ![e].settled = TRUE]
  /\ closed' = closed \cup {e}
  /\ office' = Marks(p, "settled", {e}, Buses)
  /\ SameSeats /\ UNCHANGED <<archive, paidOut, irregular, salaryVars>>

\* Mutant of MayBeSettled: only the status is looked at.
HasLeft(e) == ~Active(e)

MayBeSettled(e) == ~Active(e) /\ ~employee[e].completed

ReadForSettlement(p) == \E e \in Employees :
  /\ MayBeSettled(e)
  /\ Asking(p, [Unoccupied EXCEPT !.op = "settle", !.who = {e}])
  /\ OnlyAsked

\* processFinancialSettlement: a record, and the employee's flags.
CompleteSettlement(p) == \E e \in office[p].who :
  /\ office[p].op = "settle"
  /\ employee' = [employee EXCEPT ![e].completed = TRUE, ![e].settled = TRUE]
  /\ paidOut' = [paidOut EXCEPT ![e] = @ + 1]
  /\ closed' = closed \cup {e}
  /\ irregular' = IF Marked(p, "paid") \/ Marked(p, "status")
                  THEN irregular \cup {e} ELSE irregular
  /\ office' = Marks(p, "paid", {e}, Buses)
  /\ SameSeats /\ UNCHANGED <<archive, salaryVars>>

-----------------------------------------------------------------------------
(* Coming back *)

ReadForRehire(p) == \E e \in Employees, fresh \in {0, 1} :
  /\ ~Active(e)
  /\ Asking(p, [Unoccupied EXCEPT !.op = "rehire", !.who = {e}, !.size = fresh])
  /\ OnlyAsked

\* A fresh start deletes the salary's record; the employee's column stays.
StartFresh(p, e) ==
  /\ pay' = [pay EXCEPT ![e] = NoRecord]
  /\ due' = [due EXCEPT ![e] = 0]
  /\ questioned' = questioned \cup {e}
  /\ sheet' = [q \in Desks |-> [sheet[q] EXCEPT !.stale = @ \cup ({e} \cap sheet[q].who)]]
  /\ UNCHANGED <<mirror, bin, split>>

Rehire(p) == \E e \in office[p].who :
  /\ office[p].op = "rehire"
  /\ employee' = [employee EXCEPT ![e] = Hired]
  /\ paidOut' = [paidOut EXCEPT ![e] = 0]
  /\ closed' = closed \ {e} /\ irregular' = irregular \ {e}
  /\ IF office[p].size = 1 THEN StartFresh(p, e) ELSE UNCHANGED salaryVars
  /\ office' = Marks(p, "status", {e}, Buses)
  /\ SameSeats /\ UNCHANGED archive

ReadForReinstatement(p) == \E h \in DOMAIN archive :
  /\ archive[h].open
  /\ Asking(p, [Unoccupied EXCEPT !.op = "reinstate", !.who = {archive[h].who}, !.size = h])
  /\ OnlyAsked

\* restoreEmployee leaves the settlement as it is.
Reinstate(p) == \E e \in office[p].who :
  /\ office[p].op = "reinstate"
  /\ employee' = [employee EXCEPT ![e].active = TRUE, ![e].left = Never]
  /\ archive' = [archive EXCEPT ![office[p].size].open = FALSE]
  /\ paidOut' = [paidOut EXCEPT ![e] = 0]
  /\ office' = Marks(p, "status", {e}, Buses)
  /\ SameSeats /\ UNCHANGED <<closed, irregular, salaryVars>>

-----------------------------------------------------------------------------
(* Buses and their seats *)

\* Mutant of SeatsAreOpen: riders may be changed in an approved month.
AlwaysOpen == TRUE

\* hasApprovedPayrollForCurrentMonth
SeatsAreOpen == ~approved

ReadForSeat(p) == \E e \in Employees, b \in Buses :
  /\ bus[b].there /\ SeatsAreOpen
  /\ \A c \in Buses \ {b} : e \notin Riders(c)
  /\ Asking(p, [Unoccupied EXCEPT !.op = "seat", !.who = {e}, !.on = {b},
                                  !.size = bus[b].capacity, !.riders = Cardinality(Riders(b))])
  /\ OnlyAsked

\* Mutant of HasRoom: as it was before the bus was locked.
HadRoom(p, b) == office[p].riders < office[p].size

\* The riders are counted under the lock of the bus, whose capacity was read before.
HasRoom(p, b) == Cardinality(Riders(b)) < office[p].size

TakeSeat(p) == \E e \in office[p].who, b \in office[p].on :
  /\ office[p].op = "seat"
  /\ bus[b].there /\ HasRoom(p, b) /\ seat[b][e].state # "active"
  /\ seat' = [seat EXCEPT ![b][e].state = "active"]
  /\ office' = Marks(p, "seat", {e}, Buses)
  /\ seatedTwice' = IF Marked(p, "seat") THEN seatedTwice \cup {e} ELSE seatedTwice
  /\ squeezed' = IF Marked(p, "capacity") THEN squeezed \cup {b} ELSE squeezed
  /\ swept' = IF LongGone(e) THEN swept \cup {e} ELSE swept
  /\ excused' = IF Marked(p, "approved") THEN excused \cup {e} ELSE excused
  /\ SameStaff /\ UNCHANGED <<bus, month, approved, sealed>>

ReadForLeavingBus(p) == \E e \in Employees, b \in Buses :
  /\ bus[b].there /\ SeatsAreOpen /\ e \in Riders(b)
  /\ Asking(p, [Unoccupied EXCEPT !.op = "unseat", !.who = {e}, !.on = {b}])
  /\ OnlyAsked

\* By its id: whatever has become of the row, unless it was deleted.
LeaveBus(p) == \E e \in office[p].who, b \in office[p].on :
  /\ office[p].op = "unseat" /\ seat[b][e].state # "none"
  /\ seat' = [seat EXCEPT ![b][e] = [state |-> "inactive", ended |-> month]]
  /\ office' = [office EXCEPT ![p] = Unoccupied]
  /\ swept' = IF LongGone(e) THEN swept \cup {e} ELSE swept
  /\ excused' = IF Marked(p, "approved") THEN excused \cup {e} ELSE excused
  /\ SameStaff /\ UNCHANGED <<bus, month, approved, sealed, seatedTwice, squeezed>>

UpdateBus(p) == \E b \in Buses, size \in Capacities, active \in BOOLEAN :
  /\ office[p].op = "none" /\ bus[b].there
  /\ bus' = [bus EXCEPT ![b].capacity = size, ![b].active = active]
  /\ office' = Marks(p, "capacity", Employees, {b})
  /\ squeezed' = IF Cardinality(Riders(b)) > size THEN squeezed \cup {b} ELSE squeezed \ {b}
  /\ SameStaff /\ UNCHANGED <<seat, month, approved, sealed, seatedTwice, swept, excused>>

\* With its subscriptions.
DeleteBus(p) == \E b \in Buses :
  /\ office[p].op = "none" /\ bus[b].there
  /\ bus' = [bus EXCEPT ![b] = NoBus]
  /\ seat' = [seat EXCEPT ![b] = [e \in Employees |-> NoSeat]]
  /\ excused' = excused \cup Riders(b)
  /\ SameStaff /\ UNCHANGED <<office, month, approved, sealed, seatedTwice, squeezed, swept>>

\* Of the payroll: a run of the month is approved, or no longer.
DecideMonth(p) ==
  /\ office[p].op = "none"
  /\ approved' = ~approved /\ sealed' = Subscriptions /\ excused' = {}
  /\ office' = Marks(p, "approved", Employees, Buses)
  /\ SameStaff /\ UNCHANGED <<bus, seat, month, seatedTwice, squeezed, swept>>

NextMonth ==
  /\ month < LastMonth /\ month' = month + 1
  /\ approved' = FALSE
  /\ SameStaff /\ UNCHANGED <<bus, seat, office, sealed, seatedTwice, squeezed, swept, excused>>

-----------------------------------------------------------------------------
\* A handler refuses, throws or dies; its transaction leaves nothing behind.
AbandonOffice(p) ==
  /\ office[p].op # "none"
  /\ office' = [office EXCEPT ![p] = Unoccupied]
  /\ OnlyAsked

RaiseAll(p) == ReadForRaise(p, {e \in Employees : Active(e)}) /\ UNCHANGED employmentVars

StartStaff(p) ==
  \/ TerminateSimply(p) \/ ReadForTermination(p) \/ ReadForDepartment(p) \/ ReadForArchive(p)
  \/ Settle(p) \/ ReadForSettlement(p) \/ ReadForRehire(p) \/ ReadForReinstatement(p)

StartBus(p) ==
  \/ ReadForSeat(p) \/ ReadForLeavingBus(p) \/ UpdateBus(p) \/ DeleteBus(p)
  \/ DecideMonth(p)

ContinueOffice(p) ==
  \/ TerminateEmployee(p) \/ TerminateDepartment(p) \/ ArchiveEmployee(p)
  \/ CompleteSettlement(p) \/ Rehire(p) \/ Reinstate(p)
  \/ TakeSeat(p) \/ LeaveBus(p) \/ AbandonOffice(p)

EmploymentNext ==
  \/ \E p \in Desks : StartStaff(p) \/ StartBus(p) \/ ContinueOffice(p) \/ RaiseAll(p)
  \/ NextMonth
  \/ SalariesNext /\ UNCHANGED employmentVars

EmploymentSpec ==
  EmploymentInit /\ SalariesInit /\ [][EmploymentNext]_<<employmentVars, salaryVars>>

-----------------------------------------------------------------------------
EmploymentTypeOK ==
  /\ SalariesTypeOK
  /\ employee \in [Employees -> [active : BOOLEAN, completed : BOOLEAN, settled : BOOLEAN,
                                 left : 0 .. LastMonth]]
  /\ bus \in [Buses -> [there : BOOLEAN, active : BOOLEAN, capacity : Nat]]
  /\ seat \in [Buses -> [Employees -> [state : {"none", "active", "inactive"},
                                       ended : 0 .. LastMonth]]]
  /\ month \in 1 .. LastMonth /\ paidOut \in [Employees -> Nat]

\* Nobody is paid out twice for one employment, and a leaver's flags say whether a
\* settlement was recorded, so that whoever has not had one can have it; except who left
\* twice in a row, was settled by two requests at a time, or came back as settled.
SettledOnce ==
  \A e \in Employees \ irregular :
    /\ paidOut[e] <= 1
    /\ ~Active(e) => (employee[e].completed <=> paidOut[e] = 1)

\* payroll.service.ts:1777 keeps unsettled leavers on the payroll: who has left is not
\* dropped from it before a settlement, with the same exceptions.
OnPayroll(e) == Active(e) \/ ~employee[e].settled
LeaversArePaid == \A e \in Employees \ irregular : OnPayroll(e) \/ e \in closed

\* "two concurrent adds cannot both see one seat left": the riders never exceed the
\* capacity, unless it was lowered.
SeatsWithinCapacity ==
  \A b \in Buses \ squeezed : bus[b].there => Cardinality(Riders(b)) <= bus[b].capacity

\* An employee rides one bus, unless two requests gave him seats at a time.
OneSeatEach == \A e \in Employees \ seatedTwice : Cardinality({b \in Buses : e \in Riders(b)}) <= 1

\* Mutant of MayBeCharged: of who has left, the subscription decides.
ChargedBySeat(e) ==
  \E b \in Buses : bus[b].active /\ (seat[b][e].state = "active" \/ seat[b][e].ended = month)

\* eligibleSubscribers, for a subscription that may be the latest
MayBeCharged(e) ==
  \E b \in Buses :
    /\ bus[b].active
    /\ seat[b][e].state = "active" \/ (seat[b][e].state = "inactive" /\ seat[b][e].ended = month)
    /\ Active(e) \/ seat[b][e].ended = month \/ employee[e].left = month

\* transportation.service.ts:894: who is charged is employed or left during the month;
\* except leavers whose stale subscription was ended, or begun, after they had left.
ChargedWhileEmployed ==
  \A e \in Employees \ (swept \cup irregular) : MayBeCharged(e) => Active(e) \/ employee[e].left = month

\* Once the month's payroll is approved, nobody takes or gives up a seat in it, but by
\* leaving, with the bus, or by a request that was checked before.
ApprovedSeatsStay ==
  approved =>
    \A s \in Buses \X Employees :
      (s \in Subscriptions) # (s \in sealed) => s[2] \in excused

EmploymentAddsUp ==
  /\ SettledOnce /\ LeaversArePaid /\ SeatsWithinCapacity /\ OneSeatEach
  /\ ChargedWhileEmployed /\ ApprovedSeatsStay

\* What employees are paid, charged and given adds up, a fresh start included.
StaffAddsUp == SalariesAddUp /\ EmploymentAddsUp
=============================================================================
