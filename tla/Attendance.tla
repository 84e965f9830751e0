----------------------------- MODULE Attendance -----------------------------
(***************************************************************************)
(* Punches and the daily logs that are calculated from them:               *)
(* AttendanceService, PublicAttendanceController, BiometricService and     *)
(* AttendanceAggregationService (src/backend-nest/src/attendance and       *)
(* biometric).  A request checks against the punches and leaves it reads   *)
(* and writes later; most, but not all, then start a calculation of the    *)
(* days they touched, which nobody waits for.  A calculation reads, and    *)
(* replaces the day's calculated logs in a transaction.                    *)
(***************************************************************************)
EXTENDS DayLogs

CONSTANTS
  Staff,      \* employees
  Times,      \* the instants of punches: slots since the first day
  Punches,    \* attendance_records rows
  NoPunch,    \* the row of a request that has none
  DayLeaves,  \* leave_requests rows that may cover a day of an employee
  Clerks,     \* the requests in progress
  Gap,        \* punches of one type are this far apart
  Window,     \* or duplicates of a device's readings, if not farther apart than this
  MaxJobs     \* bound: calculations that run at once

Types == {"IN", "OUT", "check-in", "check-out", "CHECK-IN", "CHECK-OUT"}
Day(at) == at \div Slots
PunchRow == [who : Staff, type : Types, at : Times, day : {Day(at) : at \in Times}, hours : Int]

ASSUME TimesAssumption ==
  Times \subseteq Nat /\ IsFiniteSet(Punches) /\ NoPunch \notin Punches \cup PunchRow

VARIABLES
  punch,     \* punch[x]: the row
  trash,     \* trash[x]: its deleted_record_history, as long as it is not restored
  off,       \* off[k][x]: the approved leave x on an employee's day, or what was removed of it
  logs,      \* logs[k]: the calculated daily_attendance_logs rows, 0 if there is none
  clerk,     \* clerk[p]: what request p has read and will write
  calcs,     \* the calculations that run
  doubtful,  \* days changed by what starts no calculation since one began, or by a
             \* request that had read the punch on another day, or whose calculation
             \* failed or met another one
  rushed     \* days on which a request wrote what another one had looked for, or on which
             \* a restored leave, which looks for nothing, met punches, leaves or requests

attendanceVars == <<punch, trash, off, logs, clerk, calcs, doubtful, rushed>>

Keys == Staff \X {Day(at) : at \in Times}
Idle == [op |-> "none", at |-> NoPunch, read |-> NoPunch, rows |-> {}, key |-> << >>,
         leave |-> << >>]

\* hard: SICK, ADMIN, DEATH or UNPAID; soft: PAID or OTHER; a Friday is like a soft one.
Absences == {"none", "hard", "soft", "hourly"}
DayLeave == [kind : Absences, removed : BOOLEAN]
NoLeave == [kind |-> "none", removed |-> FALSE]
NobodyIsOff == [k \in Keys |-> [x \in DayLeaves |-> NoLeave]]

NothingInProgress ==
  /\ trash = [x \in Punches |-> NoPunch]
  /\ clerk = [p \in Clerks |-> Idle]
  /\ calcs = {}
  /\ doubtful = {}
  /\ rushed = {}

AttendanceInit ==
  /\ punch = [x \in Punches |-> NoPunch]
  /\ off = NobodyIsOff
  /\ logs = [k \in Keys |-> Unlogged]
  /\ NothingInProgress

\* The leaves of a day; only racing requests and a restored leave make them several.
On(k, x) == off[k][x].kind # "none" /\ ~off[k][x].removed
OffFor(k) == {off[k][x].kind : x \in {y \in DayLeaves : On(k, y)}}
Hard(k) == "hard" \in OffFor(k)
Hourly(k) == "hourly" \in OffFor(k)
FullDay(k) == OffFor(k) \cap {"hard", "soft"} # {}

\* Mutant of Refused: all leaves are only warned of.
OnlyWarned(k) == FALSE

\* checkLeaveConflictForAttendance judges any one of the day's leaves of a whole day.
Refused(k) == Hard(k) /\ "soft" \notin OffFor(k)

Stored == {x \in Punches : punch[x] # NoPunch}
Key(row) == <<row.who, row.day>>
Of(k) == {x \in Stored : Key(punch[x]) = k}
RowsOf(k) == {punch[x] : x \in Of(k)}
Same(r, s) == r.who = s.who /\ r.type = s.type /\ r.at = s.at
Taken(row, except) == \E x \in Stored \ except : Same(punch[x], row)
Distance(m, n) == IF m < n THEN n - m ELSE m - n
Latest(X) == CHOOSE x \in X : \A y \in X : punch[y].at <= punch[x].at

\* resolveAttendanceDate: an OUT belongs to the day of the IN before it.
DayOf(e, type, at) ==
  LET ins == {x \in Stored : punch[x].who = e /\ punch[x].type = "IN" /\ punch[x].at < at}
  IN  IF type = "OUT" /\ ins # {} THEN punch[Latest(ins)].day ELSE Day(at)

Row(e, type, at, day) == [who |-> e, type |-> type, at |-> at, day |-> day, hours |-> 0]

\* The last punch of the day is of the same type and less than 30 minutes away.
TooSoon(row) ==
  /\ Of(Key(row)) # {}
  /\ LET last == punch[Latest(Of(Key(row)))]
     IN  last.type = row.type /\ Distance(last.at, row.at) < Gap

Unused == {x \in Punches : punch[x] = NoPunch /\ trash[x] = NoPunch}

\* The days that a request has looked at before it writes.
LookedAt(c) == IF c.op = "leave" THEN {c.key} ELSE {Key(r) : r \in c.rows}
Rushed(p, K) ==
  rushed' = rushed \cup {k \in K : \E q \in Clerks \ {p} : k \in LookedAt(clerk[q])}

Asks(p, c) ==
  /\ clerk[p] = Idle
  /\ clerk' = [clerk EXCEPT ![p] = c]
  /\ UNCHANGED <<punch, trash, off, logs, calcs, doubtful, rushed>>
Answered(p) == clerk' = [clerk EXCEPT ![p] = Idle]

DayJob(k, n) == [key |-> k, no |-> n, stage |-> "read", rows |-> {}, hourly |-> FALSE, kept |-> {}]
RunningOn(k) == {j \in calcs : j.key = k}

\* Mutant of Recalculate: only one of the days is calculated again.
RecalculateOne(K, D) ==
  LET free == CHOOSE n \in 0 .. MaxJobs : \A j \in calcs : j.no # n
      k == CHOOSE k \in K : TRUE
  IN  /\ Cardinality(calcs) < MaxJobs
      /\ calcs' = calcs \cup {DayJob(k, free)}
      /\ doubtful' = {d \in doubtful : d \notin K \/ RunningOn(d) # {}}
                       \cup {d \in K : RunningOn(d) # {}} \cup D

\* Calculations of the days K begin; nobody waits for them.  The days D change too.
Recalculate(K, D) ==
  LET free == CHOOSE n \in 0 .. MaxJobs : \A j \in calcs : j.no # n
  IN  /\ Cardinality(calcs) + Cardinality(K) <= MaxJobs
      /\ calcs' = calcs \cup {DayJob(k, free) : k \in K}
      /\ doubtful' = {d \in doubtful : d \notin K \/ RunningOn(d) # {}}
                       \cup {d \in K : RunningOn(d) # {}} \cup D

\* Nothing calculates the days K again.
LeftAlone(K) == doubtful' = doubtful \cup K /\ UNCHANGED calcs

-----------------------------------------------------------------------------
(* create, bulkCreate, upload, check-in, check-out and the devices' readings *)

\* What a person does at an instant is one thing.
Plausible(row) ==
  \A x \in Stored : punch[x].who = row.who /\ punch[x].at = row.at => punch[x].type = row.type

\* A clerk's new punches, whose days take no note of each other
Acceptable(row) == ~Refused(Key(row)) /\ ~TooSoon(row) /\ Plausible(row)

ReadForNew(p) ==
  \E e \in Staff, type \in {"IN", "OUT"}, at \in Times :
    LET row == Row(e, type, at, DayOf(e, type, at))
    IN  Acceptable(row) /\ Asks(p, [Idle EXCEPT !.op = "create", !.rows = {row}])

ReadForBulk(p) ==
  \E e \in Staff, at, later \in Times :
    LET rows == {Row(e, "IN", at, DayOf(e, "IN", at)),
                 Row(e, "OUT", later, DayOf(e, "OUT", later))}
    IN  /\ at < later
        /\ \A row \in rows : Acceptable(row)
        /\ Asks(p, [Idle EXCEPT !.op = "bulk", !.rows = rows])

\* A row of an uploaded file, whose day is the one it says
ReadRow(p) ==
  \E e \in Staff, type \in {"IN", "OUT"}, at \in Times :
    LET row == Row(e, type, at, Day(at))
    IN  /\ ~Refused(Key(row)) /\ Plausible(row)
        /\ Asks(p, [Idle EXCEPT !.op = "row", !.rows = {row}])

\* check-in and check-out: an OUT needs an IN of the same day, the last of which it is
\* paired with.
ReadForDevice(p) ==
  \E e \in Staff, type \in {"IN", "OUT"}, at \in Times :
    LET row == Row(e, type, at, Day(at))
        ins == {x \in Of(Key(row)) : punch[x].type = "IN"}
        mate == IF type = "OUT" THEN Latest(ins) ELSE NoPunch
    IN  /\ type = "OUT" => ins # {}
        /\ Acceptable(row)
        /\ Asks(p, [Idle EXCEPT !.op = "device", !.at = mate,
                                !.rows = {IF type = "IN" THEN row
                                          ELSE [row EXCEPT !.hours = at - punch[mate].at]}])

\* The first of the day's readings of a type within the window, if any
Duplicates(row) ==
  {x \in Of(Key(row)) : punch[x].type = row.type /\ Distance(punch[x].at, row.at) <= Window}
Earliest(X) == CHOOSE x \in X : \A y \in X : punch[x].at <= punch[y].at
\* KEEP_EARLIEST: the earliest check-in and the latest check-out
Better(row, x) ==
  IF row.type = "check-in" THEN row.at < punch[x].at ELSE row.at > punch[x].at

ReadFromDevice(p) ==
  \E e \in Staff, type \in {"check-in", "check-out"}, at \in Times :
    LET row == Row(e, type, at, Day(at))
        same == Duplicates(row)
    IN  \/ /\ same = {}
           /\ ~Refused(Key(row))
           /\ Asks(p, [Idle EXCEPT !.op = "sync", !.rows = {row}])
        \/ /\ same # {} /\ Better(row, Earliest(same))
           /\ Asks(p, [Idle EXCEPT !.op = "resync", !.at = Earliest(same), !.rows = {row}])

\* Duplicates are skipped; a clerk's or a device's is not an error, and starts nothing.
InsertPunches(p) ==
  LET c == clerk[p]
      news == {r \in c.rows : ~Taken(r, {})}
      K == {Key(r) : r \in news}
  IN  /\ c.op \in {"create", "bulk", "row", "device", "sync"}
      /\ c.at # NoPunch => punch[c.at] # NoPunch
      /\ \E place \in [news -> Unused] :
           /\ \A r, s \in news : place[r] = place[s] => r = s
           /\ punch' = [x \in Punches |->
                CASE \E r \in news : place[r] = x -> CHOOSE r \in news : place[r] = x
                  [] x = c.at /\ news # {} ->
                       [punch[x] EXCEPT !.hours = (CHOOSE r \in news : TRUE).hours]
                  [] OTHER -> punch[x]]
      /\ IF c.op = "row" THEN LeftAlone(K)
         ELSE Recalculate(IF c.op = "bulk" THEN {Key(r) : r \in c.rows} ELSE K,
                          {Key(punch[x]) : x \in {c.at} \ {NoPunch}} \ K)
      /\ Rushed(p, K)
      /\ Answered(p)
      /\ UNCHANGED <<trash, off, logs>>

-----------------------------------------------------------------------------
(* update, remove, restore *)

\* With a new time the day is looked up again, from all punches, this one among them.
ReadForEdit(p, x) ==
  /\ punch[x] # NoPunch
  /\ \E type \in {"IN", "OUT", punch[x].type}, at \in Times :
       LET old == punch[x]
           row == IF at = old.at THEN [old EXCEPT !.type = type]
                  ELSE [old EXCEPT !.type = type, !.at = at, !.day = DayOf(old.who, type, at)]
       IN  /\ row # old /\ ~Refused(Key(row))
           /\ Asks(p, [Idle EXCEPT !.op = "edit", !.at = x, !.read = old, !.rows = {row}])

\* The edit of a clerk, or the better time of a reading, as far as it differs from what
\* was read
Edited(c) ==
  LET row == CHOOSE r \in c.rows : TRUE
      old == punch[c.at]
  IN  IF c.op = "resync" THEN [old EXCEPT !.at = row.at]
      ELSE [old EXCEPT !.type = IF row.type = c.read.type THEN @ ELSE row.type,
                       !.at = IF row.at = c.read.at THEN @ ELSE row.at,
                       !.day = IF row.at = c.read.at THEN @ ELSE row.day]

\* Mutant of DaysToRecalculate: only the day the punch is on now.
NewDayOnly(c) == {Key(Edited(c))}

\* The day the punch is on, and the day it was on when it was read
DaysToRecalculate(c) ==
  IF c.op = "edit" THEN {Key(Edited(c)), Key(c.read)} ELSE {Key(CHOOSE r \in c.rows : TRUE)}

EditPunch(p) ==
  LET c == clerk[p]
  IN  /\ c.op \in {"edit", "resync"}
      /\ punch[c.at] # NoPunch
      /\ ~Taken(Edited(c), {c.at})
      /\ punch' = [punch EXCEPT ![c.at] = Edited(c)]
      /\ Recalculate(DaysToRecalculate(c),
                     {k \in {Key(punch[c.at])} : c.op = "resync" \/ punch[c.at] # c.read})
      /\ Rushed(p, {Key(Edited(c))})
      /\ Answered(p)
      /\ UNCHANGED <<trash, off, logs>>

ReadForRemoval(p, x) ==
  /\ punch[x] # NoPunch
  /\ Asks(p, [Idle EXCEPT !.op = "remove", !.at = x, !.read = punch[x]])

RemovePunch(p) ==
  LET c == clerk[p]
  IN  /\ c.op = "remove"
      /\ punch[c.at] # NoPunch
      /\ trash' = [trash EXCEPT ![c.at] = c.read]
      /\ punch' = [punch EXCEPT ![c.at] = NoPunch]
      /\ LeftAlone({Key(punch[c.at])})
      /\ Answered(p)
      /\ UNCHANGED <<off, logs, rushed>>

\* A restored type is in capitals: a reading of a device is not one any more.
Capitals(type) ==
  CASE type = "check-in" -> "CHECK-IN" [] type = "check-out" -> "CHECK-OUT" [] OTHER -> type

\* Any leave of a whole day refuses a restore.
ReadForRestore(p, x) ==
  /\ trash[x] # NoPunch
  /\ ~FullDay(Key(trash[x]))
  /\ Asks(p, [Idle EXCEPT !.op = "restore", !.at = x, !.read = trash[x],
                         !.rows = {[trash[x] EXCEPT !.type = Capitals(@)]}])

RestorePunch(p) ==
  LET c == clerk[p]
      row == CHOOSE r \in c.rows : TRUE
  IN  /\ c.op = "restore"
      /\ punch[c.at] = NoPunch /\ ~Taken(row, {})
      /\ punch' = [punch EXCEPT ![c.at] = row]
      /\ trash' = [trash EXCEPT ![c.at] = IF @ = c.read THEN NoPunch ELSE @]
      /\ LeftAlone({Key(row)})
      /\ Rushed(p, {Key(row)})
      /\ Answered(p)
      /\ UNCHANGED <<off, logs>>

-----------------------------------------------------------------------------
(* Leaves, as LeavesService creates, changes, removes and restores them *)

\* checkAttendanceConflictForLeave and assertNoOverlappingLeave.  What is new is a row
\* of its own; what is changed may come to the day or leave it.
CheckLeave(p, k) ==
  \E x \in DayLeaves, kind \in Absences :
    /\ kind # off[k][x].kind /\ ~off[k][x].removed
    /\ ~On(k, x) => \A q \in Clerks : clerk[q].op = "leave" => clerk[q].leave.row # x
    /\ kind # "none" => \A y \in DayLeaves \ {x} : ~On(k, y)
    /\ kind = "hard" => Of(k) = {}
    /\ Asks(p, [Idle EXCEPT !.op = "leave", !.key = k,
                           !.leave = [row |-> x, now |-> [NoLeave EXCEPT !.kind = kind]]])

\* remove looks for nothing but the leave.
ReadLeave(p, k) ==
  \E x \in DayLeaves :
    /\ On(k, x)
    /\ Asks(p, [Idle EXCEPT !.op = "unleave", !.key = k,
                           !.leave = [row |-> x, now |-> [off[k][x] EXCEPT !.removed = TRUE]]])

DecideLeave(p) ==
  LET c == clerk[p]
  IN  /\ c.op \in {"leave", "unleave"}
      /\ ~off[c.key][c.leave.row].removed
      /\ off' = [off EXCEPT ![c.key][c.leave.row] = c.leave.now]
      /\ LeftAlone({c.key})
      /\ Rushed(p, {c.key})
      /\ Answered(p)
      /\ UNCHANGED <<punch, trash, logs>>

\* A restored leave is what it was, whatever punches and leaves its days have got.
RestoreLeave(k, x) ==
  /\ off[k][x].removed
  /\ off' = [off EXCEPT ![k][x].removed = FALSE]
  /\ LeftAlone({k})
  /\ rushed' = IF \/ Of(k) # {} \/ OffFor(k) # {}
                  \/ \E q \in Clerks : k \in LookedAt(clerk[q])
               THEN rushed \cup {k} ELSE rushed
  /\ UNCHANGED <<punch, trash, logs, clerk>>

-----------------------------------------------------------------------------
(* aggregateEmployeeDay *)

\* aggregateAllForDate, and payroll before it computes
AskForDay(k) ==
  Recalculate({k}, {}) /\ UNCHANGED <<punch, trash, off, logs, clerk, rushed>>

Becomes(j, i) == calcs' = (calcs \ {j}) \cup {i}
Cleared(j) == logs' = [logs EXCEPT ![j.key] = Unlogged] /\ calcs' = calcs \ {j}
Elsewhere == UNCHANGED <<punch, trash, off, clerk, rushed>>

\* The leaves of a whole day, the punches and the hourly leaves are read in turn; a
\* change between these reads makes the day doubtful like one right after them.
ReadDay(j) ==
  /\ j.stage = "read"
  /\ IF FullDay(j.key) \/ Of(j.key) = {} THEN Cleared(j)
     ELSE /\ Becomes(j, [j EXCEPT !.stage = "delete", !.rows = RowsOf(j.key),
                                  !.hourly = Hourly(j.key)])
          /\ UNCHANGED logs
  /\ UNCHANGED doubtful /\ Elsewhere

DeleteLogs(j) ==
  /\ j.stage = "delete"
  /\ Becomes(j, [j EXCEPT !.stage = "create"])
  /\ UNCHANGED <<logs, doubtful>> /\ Elsewhere

\* The transaction ends.  Rows that another one has created since the delete stay, and
\* the unique key refuses a second one.  Overtime is deleted only when there is some.
CreateLogs(j) ==
  LET news == LogsOf(j.rows, j.hourly)
      made == {f \in LogTypes : news[f] > 0}
      stays == {f \in LogTypes \ made : f = "overtime" \/ f \in j.kept}
  IN  /\ j.stage = "create"
      /\ \A f \in made \ {"overtime"} : f \in j.kept => logs[j.key][f] = 0
      /\ logs' = [logs EXCEPT ![j.key] =
                    [f \in LogTypes |-> IF f \in stays THEN @[f] ELSE news[f]]]
      /\ calcs' = {IF i.key = j.key /\ i.stage = "create" THEN [i EXCEPT !.kept = @ \cup made]
                  ELSE i : i \in calcs \ {j}}
      /\ UNCHANGED doubtful /\ Elsewhere

\* A calculation that throws is logged, and no more.
FailJob(j) ==
  /\ calcs' = calcs \ {j}
  /\ doubtful' = doubtful \cup {j.key}
  /\ UNCHANGED logs /\ Elsewhere

-----------------------------------------------------------------------------
FailRequest(p) ==
  clerk[p] # Idle /\ Answered(p)
    /\ UNCHANGED <<punch, trash, off, logs, calcs, doubtful, rushed>>

StartAttendance(p) ==
  \/ ReadForNew(p) \/ ReadForBulk(p) \/ ReadRow(p) \/ ReadForDevice(p) \/ ReadFromDevice(p)
  \/ \E x \in Punches : ReadForEdit(p, x) \/ ReadForRemoval(p, x) \/ ReadForRestore(p, x)
  \/ \E k \in Keys : CheckLeave(p, k) \/ ReadLeave(p, k)

ContinueAttendance(p) ==
  InsertPunches(p) \/ EditPunch(p) \/ RemovePunch(p) \/ RestorePunch(p) \/ DecideLeave(p)
    \/ FailRequest(p)

CalculateDays ==
  \E j \in calcs : ReadDay(j) \/ DeleteLogs(j) \/ CreateLogs(j) \/ FailJob(j)

AttendanceNext ==
  \/ \E p \in Clerks : StartAttendance(p) \/ ContinueAttendance(p)
  \/ \E k \in Keys : AskForDay(k) \/ \E x \in DayLeaves : RestoreLeave(k, x)
  \/ CalculateDays

AttendanceSpec == AttendanceInit /\ [][AttendanceNext]_attendanceVars

-----------------------------------------------------------------------------
(* Properties *)

\* Types, and the unique key of the punches.
AttendanceTypeOK ==
  /\ {punch, trash} \subseteq [Punches -> PunchRow \cup {NoPunch}]
  /\ \A x \in Stored : ~Taken(punch[x], {x})
  /\ off \in [Keys -> [DayLeaves -> DayLeave]]
  /\ logs \in [Keys -> [LogTypes -> Nat]]
  /\ \A p \in Clerks : clerk[p].rows \subseteq PunchRow /\ clerk[p].at \in Punches \cup {NoPunch}
  /\ \A j \in calcs : j.key \in Keys /\ j.rows \subseteq PunchRow /\ j.kept \subseteq LogTypes
  /\ doubtful \subseteq Keys /\ rushed \subseteq Keys

\* What the punches and leaves of a day amount to
Due(k) ==
  IF FullDay(k) \/ Of(k) = {} THEN Unlogged ELSE LogsOf(RowsOf(k), Hourly(k))

\* Once no calculation of a day runs, its logs are those of its punches and leave,
\* whichever requests had created, moved and changed them: excepted are days last
\* changed by what starts no calculation (uploads, removals, restores, leaves), and
\* those whose calculation failed or ran beside another.  Overtime that is gone stays
\* in the logs.
LogsFollowPunches ==
  \A k \in Keys \ doubtful :
    RunningOn(k) = {} =>
      LET due == Due(k)
      IN  /\ \A f \in LogTypes \ {"overtime"} : logs[k][f] = due[f]
          /\ due.overtime > 0 \/ FullDay(k) \/ Of(k) = {} => logs[k].overtime = due.overtime

\* Nobody has punched on a day of sick or unpaid leave, unless a punch and a leave
\* were looking at the day at once, or the leave was removed and restored, which looks
\* for no punches, to a day that has some, or has another leave, or is looked at.
NobodyPunchesOnLeave == \A k \in Keys \ rushed : Hard(k) => Of(k) = {}

\* The logs are those of the punches, charge nothing twice, and leaves and punches
\* exclude each other.
AttendanceAddsUp ==
  /\ LogsFollowPunches
  /\ NobodyPunchesOnLeave
  /\ \A k \in Keys : NothingIsChargedTwice(RowsOf(k), Hourly(k))
=============================================================================
