-------------------------------- MODULE Leaves --------------------------------
(***************************************************************************)
(* Leave requests and what they leave in the payroll inputs: LeavesService *)
(* (src/backend-nest/src/leaves/leaves.service.ts).  An approved leave     *)
(* takes its days of its employee, who cannot have another one on them,    *)
(* and counts them in the input of the month in which it begins; a change  *)
(* takes the old effect back and adds the new one.  A request reads its    *)
(* leave, looks for others on the same days and then writes.               *)
(***************************************************************************)
EXTENDS Integers, Sequences, FiniteSets, Functions

CONSTANTS
  Leaves,      \* leave_requests rows
  NoLeave,     \* the leave of a request that has none
  Employees,
  Spans,       \* first and last day of leaves: pairs of days
  MonthOf,     \* MonthOf[d]: the month of day d
  DeskClerks   \* the requests in progress

ASSUME LeavesAssumption == NoLeave \notin Leaves /\ IsFiniteSet(Leaves)
ASSUME SpansAssumption ==
  \A s \in Spans : s \in (DOMAIN MonthOf) \X (DOMAIN MonthOf) /\ s[1] \in Int /\ s[2] \in Int
                     /\ s[1] <= s[2]

VARIABLES
  leave,      \* leave[x]: the row
  archive,    \* archive[x]: its deleted_record_history, as long as it is not restored
  input,      \* input[e][m]: the payroll_inputs row of a month
  desk,       \* desk[p]: what request p has read and will write
  skewed,     \* employees whose leave was given to or taken from another, or written
              \* by a request that had read an older version
  overlaid     \* employees for whom two requests had looked, or a restore did not look

leaveVars == <<leave, archive, input, desk, skewed, overlaid>>

\* PENDING stands for all other statuses.  The type is one that has a field of days.
Decisions == {"PENDING", "APPROVED"}
Months == {MonthOf[d] : d \in DOMAIN MonthOf}
LeaveRow == [status : Decisions, who : Employees, span : Spans]

ASSUME NoRowAssumption == NoLeave \notin LeaveRow

\* The field that a request changes.
Change ==
  [field : {"status"}, to : Decisions] \cup [field : {"who"}, to : Employees]
    \cup [field : {"span"}, to : Spans]
NoChange == [field |-> "none", to |-> NoLeave]

NewLeave == [id : Leaves, row : LeaveRow]

Desk ==
  [op : {"none", "create", "change", "write", "remove", "restore"},
   at : Leaves \cup {NoLeave}, read : LeaveRow \cup {NoLeave},
   change : Change \cup {NoChange}, news : Seq(NewLeave)]

MonthInput == [there : BOOLEAN, days : Int]

Deskless ==
  [op |-> "none", at |-> NoLeave, read |-> NoLeave, change |-> NoChange, news |-> << >>]

LeavesInit ==
  /\ leave = [x \in Leaves |-> NoLeave]
  /\ archive = [x \in Leaves |-> NoLeave]
  /\ input = [e \in Employees |-> [m \in Months |-> [there |-> FALSE, days |-> 0]]]
  /\ desk = [p \in DeskClerks |-> Deskless]
  /\ skewed = {}
  /\ overlaid = {}

Approved(row) == row # NoLeave /\ row.status = "APPROVED"

\* Mutant of Meet: a leave may begin on the last day of another.
MeetInside(s, t) == s[1] < t[2] /\ t[1] < s[2]

Meet(s, t) == s[1] <= t[2] /\ t[1] <= s[2]

Clash(v, w) == v.who = w.who /\ Meet(v.span, w.span)

\* assertNoOverlappingLeave, which sees what is committed
NoOverlap(v, except) == \A x \in Leaves \ except : Approved(leave[x]) => ~Clash(leave[x], v)

\* Mutant of Effect: days are counted whatever was decided.
EffectAnyway(row) == row.span[2] - row.span[1] + 1

\* computeLeaveDelta, of an approved leave
Effect(row) == IF row.status = "APPROVED" THEN row.span[2] - row.span[1] + 1 ELSE 0

\* applyPayrollDelta: a row that is not there yet never begins below zero.
InputAfter(in, e, span, n) ==
  IF n = 0 THEN in
  ELSE [in EXCEPT ![e][MonthOf[span[1]]] =
          [there |-> TRUE, days |-> IF @.there THEN @.days + n ELSE IF n > 0 THEN n ELSE 0]]

DeskEnds(p) == desk' = [desk EXCEPT ![p] = Deskless]
Takes(p, d) == desk[p] = Deskless /\ desk' = [desk EXCEPT ![p] = d]
InFiles == UNCHANGED <<leave, archive, input, skewed, overlaid>>

\* A row with the field of a change.
With(row, change) ==
  CASE change.field = "status" -> [row EXCEPT !.status = change.to]
    [] change.field = "who" -> [row EXCEPT !.who = change.to]
    [] change.field = "span" -> [row EXCEPT !.span = change.to]

\* The employee for whom a request has looked for other leaves.
LookedFor(d) ==
  CASE d.op = "create" -> {d.news[i].row.who : i \in DOMAIN d.news}
    [] d.op = "write" -> {With(d.read, d.change).who}
    [] OTHER -> {}
Rivalled(p, E) == {e \in E : \E q \in DeskClerks \ {p} : e \in LookedFor(desk[q])}

-----------------------------------------------------------------------------
(* create and bulkCreate *)

\* A bulk's rows are looked for one after the other, each seeing those before.
CheckNew(p) ==
  \E n \in {1, 2} : \E news \in [1 .. n -> NewLeave] :
    /\ \A i \in 1 .. n :
         /\ leave[news[i].id] = NoLeave /\ archive[news[i].id] = NoLeave
         /\ \A q \in DeskClerks : \A j \in DOMAIN desk[q].news : desk[q].news[j].id # news[i].id
         /\ NoOverlap(news[i].row, {})
         /\ \A j \in 1 .. i - 1 :
              /\ news[j].id # news[i].id
              /\ Approved(news[j].row) => ~Clash(news[j].row, news[i].row)
    /\ Takes(p, [Deskless EXCEPT !.op = "create", !.news = news])
    /\ InFiles

\* Its effect is counted with the row.
InputWith(in, v) == InputAfter(in, v.row.who, v.row.span, Effect(v.row))

CommitNew(p) ==
  LET news == desk[p].news
      first == InputWith(input, news[1])
  IN  /\ desk[p].op = "create"
      /\ leave' = [x \in Leaves |->
           IF \E i \in DOMAIN news : news[i].id = x
           THEN news[CHOOSE i \in DOMAIN news : news[i].id = x].row ELSE leave[x]]
      /\ input' = IF Len(news) = 1 THEN first ELSE InputWith(first, news[2])
      /\ overlaid' = overlaid \cup Rivalled(p, {news[i].row.who : i \in DOMAIN news})
      /\ DeskEnds(p)
      /\ UNCHANGED <<archive, skewed>>

-----------------------------------------------------------------------------
(* update *)

ReadForChange(p, x) ==
  /\ leave[x] # NoLeave
  /\ \E change \in Change :
       Takes(p, [Deskless EXCEPT !.op = "change", !.at = x, !.read = leave[x],
                                 !.change = change])
  /\ InFiles

\* The check is made on what was read before the transaction.
CheckChange(p) ==
  /\ desk[p].op = "change"
  /\ NoOverlap(With(desk[p].read, desk[p].change), {desk[p].at})
  /\ desk' = [desk EXCEPT ![p].op = "write"]
  /\ InFiles

\* Mutant of TakenBack: the old effect is that of the new row.
TakenBackLate(d, row) == InputAfter(input, row.who, row.span, -Effect(row))

\* The old effect, as it was read, is taken back from the employee of the new row.
TakenBack(d, row) == InputAfter(input, row.who, d.read.span, -Effect(d.read))

CommitChange(p) ==
  LET d == desk[p]
      row == With(leave[d.at], d.change)
      touched == {d.read.who, leave[d.at].who, row.who}
  IN  /\ d.op = "write"
      /\ leave[d.at] # NoLeave
      /\ leave' = [leave EXCEPT ![d.at] = row]
      /\ input' = InputAfter(TakenBack(d, row), row.who, row.span, Effect(row))
      /\ skewed' = IF leave[d.at] # d.read \/ row.who # d.read.who
                   THEN skewed \cup touched ELSE skewed
      /\ overlaid' = IF leave[d.at] # d.read THEN overlaid \cup touched
                    ELSE overlaid \cup Rivalled(p, {row.who})
      /\ DeskEnds(p)
      /\ UNCHANGED archive

-----------------------------------------------------------------------------
(* remove and restore *)

ReadForRemoval(p, x) ==
  /\ leave[x] # NoLeave
  /\ Takes(p, [Deskless EXCEPT !.op = "remove", !.at = x, !.read = leave[x]])
  /\ InFiles

\* The row that was read is archived, and its effect taken back.
RemoveLeave(p) ==
  LET d == desk[p]
  IN  /\ d.op = "remove"
      /\ leave[d.at] # NoLeave
      /\ archive' = [archive EXCEPT ![d.at] = d.read]
      /\ leave' = [leave EXCEPT ![d.at] = NoLeave]
      /\ input' = InputAfter(input, d.read.who, d.read.span, -Effect(d.read))
      /\ skewed' = IF leave[d.at] # d.read THEN skewed \cup {d.read.who, leave[d.at].who}
                   ELSE skewed
      /\ DeskEnds(p)
      /\ UNCHANGED overlaid

ReadForRestore(p, x) ==
  /\ archive[x] # NoLeave
  /\ Takes(p, [Deskless EXCEPT !.op = "restore", !.at = x, !.read = archive[x]])
  /\ InFiles

\* The primary key keeps a second restore out; nobody looks for other leaves.
RestoreLeave(p) ==
  LET d == desk[p]
  IN  /\ d.op = "restore"
      /\ leave[d.at] = NoLeave
      /\ leave' = [leave EXCEPT ![d.at] = d.read]
      /\ archive' = [archive EXCEPT ![d.at] = IF @ = d.read THEN NoLeave ELSE @]
      /\ input' = InputAfter(input, d.read.who, d.read.span, Effect(d.read))
      /\ overlaid' = overlaid \cup {d.read.who}
      /\ DeskEnds(p)
      /\ UNCHANGED skewed

-----------------------------------------------------------------------------
FailLeave(p) == desk[p] # Deskless /\ DeskEnds(p) /\ InFiles

StartLeave(p) ==
  \/ CheckNew(p)
  \/ \E x \in Leaves : ReadForChange(p, x) \/ ReadForRemoval(p, x) \/ ReadForRestore(p, x)

ContinueLeave(p) ==
  \/ CommitNew(p) \/ CheckChange(p) \/ CommitChange(p) \/ RemoveLeave(p) \/ RestoreLeave(p)
  \/ FailLeave(p)

LeavesNext == \E p \in DeskClerks : StartLeave(p) \/ ContinueLeave(p)

LeavesSpec == LeavesInit /\ [][LeavesNext]_leaveVars

-----------------------------------------------------------------------------
(* Properties *)

\* Types.
LeavesTypeOK ==
  /\ {leave, archive} \subseteq [Leaves -> LeaveRow \cup {NoLeave}]
  /\ input \in [Employees -> [Months -> MonthInput]]
  /\ desk \in [DeskClerks -> Desk]
  /\ skewed \subseteq Employees
  /\ overlaid \subseteq Employees

Days(x) == leave[x].span[1] .. leave[x].span[2]
LeavesOf(e) == {x \in Leaves : Approved(leave[x]) /\ leave[x].who = e}

\* A month's payroll input shows the days of the approved leaves that begin in it,
\* however they were created, changed, decided, removed and restored.  Excepted
\* are employees whose leave moved to or from another one, and those for whom a
\* request wrote over a version it had not read.
InputsFollowLeaves ==
  \A e \in Employees \ skewed, m \in Months :
    LET begun == {x \in LeavesOf(e) : MonthOf[leave[x].span[1]] = m}
    IN  input[e][m].days = SumFunctionOnSet([x \in begun |-> Cardinality(Days(x))], begun)

\* Nobody is on two leaves on one day.
NoDayIsTakenTwice ==
  \A e \in Employees \ overlaid : \A x, y \in LeavesOf(e) :
    x # y => Days(x) \cap Days(y) = {}

\* Leaves and payroll inputs agree, and leaves do not overlap, unless two requests
\* had looked for others of the same employee at once, or one was restored.
LeavesAddUp == InputsFollowLeaves /\ NoDayIsTakenTwice
=============================================================================
