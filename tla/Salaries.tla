------------------------------ MODULE Salaries ------------------------------
(***************************************************************************)
(* An employee's base salary is kept twice: in the employee_salaries       *)
(* record, which payroll reads, and in a column of the employee, its       *)
(* mirror, which it reads when there is no record.  SalaryService and its  *)
(* trash (src/backend-nest/src/salary, src/trash), the salary increase of  *)
(* BonusesService (src/bonuses) and EmployeesService.update                *)
(* (src/employees) write them.  Allowances are kept in the same way.       *)
(***************************************************************************)
EXTENDS Integers, Sequences

CONSTANTS
  Employees,   \* the employees
  Amounts,     \* base salaries that are entered
  Raise,       \* the amount of a raise
  Desks        \* the requests in progress

ASSUME AmountsAssumption == Amounts \subseteq Nat \ {0} /\ Raise \in Nat \ {0}

VARIABLES
  pay,      \* pay[e]: the employee_salaries record
  mirror,   \* mirror[e]: employees.baseSalary
  bin,      \* the salaries among deleted_record_history
  sheet,    \* sheet[p]: what request p has read and will write
  due,      \* due[e]: what the last entry and the raises since come to
  split,    \* employees whose mirror was moved without the record, or the other way round
  questioned  \* employees whose pay was written from a stale reading, raised in the
            \* mirror alone or left behind by a fresh start

salaryVars == <<pay, mirror, bin, sheet, due, split, questioned>>

NoRecord == [there |-> FALSE, base |-> 0]
Paying(a) == [there |-> TRUE, base |-> a]
Blank == [op |-> "none", who |-> {}, read |-> << >>, amount |-> 0, stale |-> {}]

\* No entry: an edit that leaves the salary alone.
Unchanged == 0

SalariesInit ==
  \E start \in [Employees -> Amounts] :
    /\ pay = [e \in Employees |-> Paying(start[e])]
    /\ mirror = start
    /\ due = start
    /\ bin = << >>
    /\ sheet = [p \in Desks |-> Blank]
    /\ split = {}
    /\ questioned = {}

\* resolveSalary: the record first, the employee's column as fallback.
Resolved(e) == IF pay[e].there THEN pay[e].base ELSE mirror[e]

\* Request p has written about employees E and goes on with `next'; what others
\* have read about them is stale.
Writes(p, E, next) ==
  sheet' = [q \in Desks |->
    IF q = p THEN next ELSE [sheet[q] EXCEPT !.stale = @ \cup (E \cap sheet[q].who)]]

Looks(p, next) == sheet[p].op = "none" /\ sheet' = [sheet EXCEPT ![p] = next]
InRecords == UNCHANGED <<pay, mirror, bin, due, split, questioned>>

\* The record of e has been saved and its mirror not yet.
HalfSaved(e) == \E p \in Desks : sheet[p].op = "mirror" /\ e \in sheet[p].who
MirrorMayLag(e) == e \in split \/ HalfSaved(e)

-----------------------------------------------------------------------------
(* upsert: the record, and the mirror in a statement of its own *)

SaveSalary(p) == \E e \in Employees, a \in Amounts :
  /\ sheet[p].op = "none"
  /\ pay' = [pay EXCEPT ![e] = Paying(a)]
  /\ due' = [due EXCEPT ![e] = a]
  /\ questioned' = questioned \ {e}
  /\ Writes(p, {e}, [Blank EXCEPT !.op = "mirror", !.who = {e}, !.amount = a])
  /\ UNCHANGED <<mirror, bin, split>>

SaveMirror(p) == \E e \in sheet[p].who :
  /\ sheet[p].op = "mirror"
  /\ mirror' = [mirror EXCEPT ![e] = sheet[p].amount]
  /\ LET overtaken == e \in sheet[p].stale
     IN  /\ split' = IF overtaken THEN split \cup {e} ELSE split \ {e}
         /\ questioned' = IF overtaken THEN questioned \cup {e} ELSE questioned
  /\ Writes(p, {e}, Blank)
  /\ UNCHANGED <<pay, bin, due>>

-----------------------------------------------------------------------------
(* remove, restoreSalary and TrashService.permanentDelete *)

ReadForBin(p) == \E e \in Employees :
  /\ pay[e].there
  /\ Looks(p, [Blank EXCEPT !.op = "bin", !.who = {e}, !.read = pay])
  /\ InRecords

\* Without its record an employee is paid by the mirror.
Unrecorded(e) ==
  /\ pay' = [pay EXCEPT ![e] = NoRecord]
  /\ questioned' = IF MirrorMayLag(e) /\ pay[e].there THEN questioned \cup {e} ELSE questioned

BinSalary(p) == \E e \in sheet[p].who :
  /\ sheet[p].op = "bin" /\ pay[e].there
  /\ Unrecorded(e)
  /\ bin' = Append(bin, [who |-> e, base |-> sheet[p].read[e].base, state |-> "open"])
  /\ Writes(p, {e}, Blank)
  /\ UNCHANGED <<mirror, due, split>>

ReadForReturn(p) == \E h \in DOMAIN bin :
  /\ bin[h].state = "open"
  /\ Looks(p, [Blank EXCEPT !.op = "return", !.who = {bin[h].who}, !.amount = h])
  /\ InRecords

\* The mirror is not told.
ReturnSalary(p) ==
  LET h == sheet[p].amount
      e == bin[h].who
  IN  /\ sheet[p].op = "return" /\ bin[h].state # "gone"
      /\ pay' = [pay EXCEPT ![e] = Paying(bin[h].base)]
      /\ due' = [due EXCEPT ![e] = bin[h].base]
      /\ bin' = [bin EXCEPT ![h].state = "restored"]
      /\ split' = split \cup {e}
      /\ questioned' = questioned \ {e}
      /\ Writes(p, {e}, Blank)
      /\ UNCHANGED mirror

\* Deletes whatever record the employee has by now, then the entry.
PurgeRecord(p) == \E h \in DOMAIN bin :
  /\ bin[h].state # "gone" /\ sheet[p].op = "none"
  /\ Unrecorded(bin[h].who)
  /\ Writes(p, {bin[h].who}, [Blank EXCEPT !.op = "purge", !.amount = h])
  /\ UNCHANGED <<mirror, bin, due, split>>

PurgeEntry(p) ==
  /\ sheet[p].op = "purge"
  /\ bin' = [bin EXCEPT ![sheet[p].amount].state = "gone"]
  /\ Writes(p, {}, Blank)
  /\ UNCHANGED <<pay, mirror, due, split, questioned>>

-----------------------------------------------------------------------------
(* bulkRaise and the salary increase among the bonuses *)

ReadForRaise(p, E) ==
  LET paid == {e \in E : pay[e].there}
  IN  /\ paid # {}
      /\ Looks(p, [Blank EXCEPT !.op = "raise", !.who = paid, !.read = pay])
      /\ InRecords

Raised(p) == [e \in sheet[p].who |-> sheet[p].read[e].base + Raise]

\* Mutant of RaiseSalaries: the mirrors are not raised.
RaiseRecords(p) ==
  /\ sheet[p].op = "raise" /\ \A e \in sheet[p].who : pay[e].there
  /\ pay' = [e \in Employees |-> IF e \in sheet[p].who THEN Paying(Raised(p)[e]) ELSE pay[e]]
  /\ due' = [e \in Employees |-> IF e \in sheet[p].who THEN due[e] + Raise ELSE due[e]]
  /\ split' = split \ sheet[p].who
  /\ questioned' = questioned \cup sheet[p].stale
  /\ Writes(p, sheet[p].who, Blank)
  /\ UNCHANGED <<bin, mirror>>

RaiseSalaries(p) ==
  /\ sheet[p].op = "raise" /\ \A e \in sheet[p].who : pay[e].there
  /\ pay' = [e \in Employees |-> IF e \in sheet[p].who THEN Paying(Raised(p)[e]) ELSE pay[e]]
  /\ mirror' = [e \in Employees |-> IF e \in sheet[p].who THEN Raised(p)[e] ELSE mirror[e]]
  /\ due' = [e \in Employees |-> IF e \in sheet[p].who THEN due[e] + Raise ELSE due[e]]
  /\ split' = split \ sheet[p].who
  /\ questioned' = questioned \cup sheet[p].stale
  /\ Writes(p, sheet[p].who, Blank)
  /\ UNCHANGED bin

\* Atomic, in the mirror alone.
IncreaseSalary(p) == \E e \in Employees :
  /\ sheet[p].op = "none"
  /\ mirror' = [mirror EXCEPT ![e] = @ + Raise]
  /\ due' = [due EXCEPT ![e] = @ + Raise]
  /\ split' = IF pay[e].there THEN split \cup {e} ELSE split
  /\ questioned' = IF pay[e].there THEN questioned \cup {e} ELSE questioned
  /\ Writes(p, {e}, Blank)
  /\ UNCHANGED <<pay, bin>>

-----------------------------------------------------------------------------
(* EmployeesService.update *)

ReadForChange(p) == \E e \in Employees, a \in Amounts \cup {Unchanged} :
  /\ Looks(p, [Blank EXCEPT !.op = "change", !.who = {e}, !.amount = a,
                            !.read = [record |-> pay[e], column |-> mirror[e]]])
  /\ InRecords

\* Mutant of Entered: without an entry, the employee's column is written to the record.
EnteredOrColumn(p, e) ==
  IF sheet[p].amount # Unchanged THEN sheet[p].amount ELSE sheet[p].read.column

\* The entry, or what was read of the record and else of the employee.
Entered(p, e) ==
  LET read == sheet[p].read
  IN  CASE sheet[p].amount # Unchanged -> sheet[p].amount
        [] sheet[p].amount = Unchanged /\ read.record.there -> read.record.base
        [] OTHER -> read.column

ChangeEmployee(p) == \E e \in sheet[p].who :
  LET entered == sheet[p].amount # Unchanged
  IN  /\ sheet[p].op = "change"
      /\ pay' = [pay EXCEPT ![e] = Paying(Entered(p, e))]
      /\ mirror' = [mirror EXCEPT ![e] = Entered(p, e)]
      /\ due' = IF entered THEN [due EXCEPT ![e] = sheet[p].amount] ELSE due
      /\ split' = split \ {e}
      /\ questioned' = IF entered THEN questioned \ {e} ELSE questioned \cup sheet[p].stale
      /\ Writes(p, {e}, Blank)
      /\ UNCHANGED bin

-----------------------------------------------------------------------------
\* A handler throws or its process dies: an upsert may have saved the record.
AbandonSalary(p) ==
  /\ sheet[p].op # "none"
  /\ split' = IF sheet[p].op = "mirror" THEN split \cup sheet[p].who ELSE split
  /\ Writes(p, {}, Blank)
  /\ UNCHANGED <<pay, mirror, bin, due, questioned>>

StartSalary(p) ==
  \/ SaveSalary(p) \/ ReadForBin(p) \/ ReadForReturn(p) \/ PurgeRecord(p)
  \/ IncreaseSalary(p) \/ ReadForChange(p) \/ (\E e \in Employees : ReadForRaise(p, {e}))

ContinueSalary(p) ==
  \/ SaveMirror(p) \/ BinSalary(p) \/ ReturnSalary(p) \/ PurgeEntry(p)
  \/ RaiseSalaries(p) \/ ChangeEmployee(p) \/ AbandonSalary(p)

SalariesNext == \E p \in Desks : StartSalary(p) \/ ContinueSalary(p)

SalariesSpec == SalariesInit /\ [][SalariesNext]_salaryVars

-----------------------------------------------------------------------------
SalariesTypeOK ==
  /\ pay \in [Employees -> [there : BOOLEAN, base : Nat]]
  /\ mirror \in [Employees -> Nat]
  /\ due \in [Employees -> Nat]
  /\ \A h \in DOMAIN bin :
       bin[h] \in [who : Employees, base : Nat, state : {"open", "restored", "gone"}]
  /\ \A p \in Desks : sheet[p].who \subseteq Employees /\ sheet[p].stale \subseteq sheet[p].who
  /\ split \subseteq Employees /\ questioned \subseteq Employees

\* buildEmployeeSalaryMirror: "Keep legacy Employee columns in sync with EmployeeSalary".
\* Each path that writes one writes the other; a restored record, an increase among the
\* bonuses and an upsert that is overtaken or cut short do not, until the next full write.
MirrorFollowsRecord ==
  \A e \in Employees : pay[e].there /\ ~MirrorMayLag(e) => mirror[e] = pay[e].base

\* Payroll pays what was last entered with the raises since, whether or not the record was
\* deleted meanwhile; except after two requests that had read the same salary, an increase
\* beside a record, a record deleted while the mirror lagged, and a fresh start.
PayIsWhatIsDue == \A e \in Employees \ questioned : Resolved(e) = due[e]

SalariesAddUp == MirrorFollowsRecord /\ PayIsWhatIsDue
=============================================================================
