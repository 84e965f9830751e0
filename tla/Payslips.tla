------------------------------ MODULE Payslips ------------------------------
(***************************************************************************)
(* The contents of a payroll run: what PayrollService computes for every   *)
(* employee from the attendance, the manual inputs and the advances,       *)
(* penalties and bonuses of a month, and the receipts signed for it        *)
(* (src/backend-nest/src/payroll/payroll.service.ts); and the requests     *)
(* that record advances, penalties and bonuses, move them to the trash and *)
(* restore them (src/advances, src/penalties, src/bonuses, src/trash).     *)
(* How runs follow and hinder each other is the subject of PayrollRuns:    *)
(* here one calculation runs at a time.                                    *)
(***************************************************************************)
EXTENDS Wages, Sequences

CONSTANTS
  Workers,        \* employees
  Claims,         \* identifiers of advances, penalties and bonuses
  NoClaim,
  Figures,        \* amounts that are recorded
  WorkDays,       \* workDaysInPeriod
  Inputs,         \* what managers enter
  Unit,           \* PAYROLL_ROUNDING_UNIT
  Flat,           \* FLAT_PAYROLL_DEDUCTION
  FinalMonth,     \* the last month
  Secretaries     \* requests in progress

Months == 1 .. FinalMonth
Kinds == {"advance", "penalty", "bonus"}

\* `when' is the month of issue, or the period of a bonus; bonuses from before there
\* were periods have none, and count by the month they were created in.
NoMonth == 0
ClaimRows ==
  [kind : Kinds, who : Workers, when : Months \cup {NoMonth}, created : Months,
   total : Nat, instalment : Nat, remaining : Nat]

\* The days of the months, and the day after them.
AllDays == 1 .. FinalDay(FinalMonth) + 1

\* An employee: what he is paid and charged, when he came and leaves, his leaves and his days
WorkerRows ==
  [base : Nat, transport : Nat, insurance : Nat, fare : Nat, joined : Nat, until : Nat,
   leaves : {L \in SUBSET LeaveRows : IsFiniteSet(L)}, days : [AllDays -> DayRows]]

ASSUME PayslipsAssumption ==
  /\ IsFiniteSet(Workers) /\ IsFiniteSet(Claims)
  /\ Figures \subseteq Nat \ {0} /\ Inputs \subseteq InputRows
  /\ {WorkDays, Unit, FinalMonth} \subseteq Nat \ {0} /\ Flat \in Nat
  /\ NoClaim \notin Claims /\ NoClaim \notin ClaimRows

VARIABLES
  worker,   \* worker[e], of those who are on the payroll: salary, employment,
            \* punches and leaves of e
  claim,    \* claim[c]: an advance, a penalty or a bonus
  trashed,  \* deleted_record_history, in the order of deletion
  input,    \* input[e][m]: payroll_inputs
  run,      \* run[m]: the run of month m, its items and its totals
  work,     \* the calculation in progress
  receipt,  \* receipt[e][m]: payroll_receipts
  today,    \* the current month
  letter,   \* letter[p]: what request p has read
  edited,   \* claims whose month was edited
  unread    \* months of which something changed since their run read it

payslipVars ==
  <<worker, claim, trashed, input, run, work, receipt, today, letter, edited, unread>>

NoTotals == [of |-> 0, deducted |-> 0, net |-> 0]
NotRun ==
  [number |-> 0, state |-> "none", fares |-> TRUE, slips |-> << >>, totals |-> NoTotals]
NoWork == [month |-> NoMonth, stage |-> "none", claim |-> << >>, input |-> << >>, todo |-> {},
           totals |-> NoTotals]
NoLetter == [op |-> "none", id |-> NoClaim, read |-> NoClaim, entry |-> 0]
NotReceived == [received |-> FALSE, run |-> 0]

PayslipsInit ==
  /\ DOMAIN worker \subseteq Workers /\ worker \in [DOMAIN worker -> WorkerRows]
  /\ claim \in [Claims -> ClaimRows \cup {NoClaim}]
  /\ trashed = << >>
  /\ input = [e \in Workers |-> [m \in Months |-> NoInput]]
  /\ run = [m \in Months |-> NotRun]
  /\ work = NoWork
  /\ receipt = [e \in Workers |-> [m \in Months |-> NotReceived]]
  /\ today = 1
  /\ letter = [p \in Secretaries |-> NoLetter]
  /\ edited = {}
  /\ unread = {}

-----------------------------------------------------------------------------
(* What a month owes and pays, from the claims and inputs that were read *)

MonthOf(c) == IF c.when = NoMonth THEN c.created ELSE c.when

\* Mutant of DueIn: the advances of earlier months are due again.
DueSince(c, m) ==
  /\ c # NoClaim
  /\ IF c.kind = "advance" THEN c.when <= m /\ c.remaining > 0 ELSE MonthOf(c) = m

DueIn(c, m) ==
  /\ c # NoClaim
  /\ MonthOf(c) = m
  /\ c.kind = "advance" => c.remaining > 0

\* An advance in instalments is deducted by these, another at once.
Deductible(c) ==
  IF c.kind # "advance" THEN c.total
  ELSE IF c.instalment > 0 THEN Least(c.instalment, c.remaining) ELSE c.remaining

Total(claims, due) == SumFunctionOnSet([c \in due |-> Deductible(claims[c])], due)
DueClaims(claims, e, m, kind) ==
  {c \in Claims : DueIn(claims[c], m) /\ claims[c].who = e /\ claims[c].kind = kind}

\* The working days of those who came or left during the month, rounded to the nearest
PaidWorkDays(who, m) ==
  LET days == Least(who.until, FinalDay(m)) - Greatest(who.joined, FirstDay(m)) + 1
  IN  IF days >= LastDay THEN WorkDays
      ELSE Greatest(1, (2 * WorkDays * days + LastDay) \div (2 * LastDay))

\* calculateBatchBusDeductions may fail, which is only logged, or a run is asked to leave
\* the fares out: then nobody has one.
Riding(who, fares) == IF fares THEN who ELSE [who EXCEPT !.fare = 0]

\* The item of an employee; gross and earned are out of the scale.
Slip(who, e, m, claims, i) ==
  LET days == FirstDay(m) .. FinalDay(m)
      W == PaidWorkDays(who, m)
      g3 == who.base + Or(i.transport, who.transport)
      earned == Earned(W, g3, who, FirstDay(m), FinalDay(m), days,
                       Charged(who, "delay", days \ Fridays),
                       Charged(who, "early", days \ Fridays), i)
      gross == earned + Scale(W) * Or(i.bonus, Total(claims, DueClaims(claims, e, m, "bonus")))
      deducted == Or(i.penalty, Total(claims, DueClaims(claims, e, m, "penalty")))
                  + i.clothing
                  + Or(i.advance, Total(claims, DueClaims(claims, e, m, "advance")))
                  + Or(i.insurance, who.insurance)
                  + who.fare + Flat
  IN  [scale |-> Scale(W), earned |-> earned, gross |-> gross, deducted |-> deducted,
       net |-> RoundUp(Positive(gross - Scale(W) * deducted), Scale(W), Unit),
       took |-> {c \in Claims : DueIn(claims[c], m) /\ claims[c].who = e}]

\* computeEarnedSalaryForPeriod: the punches of the day before and of the day after are
\* read as well, and the lateness of all days is charged.
EarnedUntil(who, day) ==
  LET first == FirstDay(MonthOfDay(day))
      days == first .. day
  IN  Earned(WorkDays, who.base + who.transport, who, first, day,
             (first - 1 .. day + 1) \cap DOMAIN who.days,
             Charged(who, "delay", days), Charged(who, "early", days), NoInput)

\* calculateProvisionalSettlement, of an employee who leaves on a day: the advances and
\* penalties of earlier months are due again.
Settlement(who, e, day, claims) ==
  LET m == MonthOfDay(day)
      Owed(kind) == Total(claims, UNION {DueClaims(claims, e, n, kind) : n \in 1 .. m})
      deducted == Owed("advance") + Owed("penalty") + who.insurance + who.fare + Flat
      gross == EarnedUntil(who, day)
               + Scale(WorkDays) * Total(claims, DueClaims(claims, e, m, "bonus"))
  IN  RoundUp(Positive(gross - Scale(WorkDays) * deducted), Scale(WorkDays), Unit)

-----------------------------------------------------------------------------
(* AdvancesService, PenaltiesService and BonusesService *)

\* What the runs of some months have read of claims and inputs is out of date.
Touches(M) == unread' = unread \cup (M \ {NoMonth})
MonthsOf(c, d) == {MonthOf(x) : x \in {c, d} \ {NoClaim}}

SameRuns == UNCHANGED <<worker, run, work, receipt, today>>
SameClaims == UNCHANGED <<claim, trashed, edited>>

\* Claim c, whose month was that of `old', becomes d.
Rewrite(c, old, d) ==
  /\ claim' = [claim EXCEPT ![c] = d]
  /\ Touches(MonthsOf(old, d))
  /\ edited' = IF Cardinality(MonthsOf(old, d)) > 1 THEN edited \cup {c} ELSE edited

EntriesOf(c) == {h \in DOMAIN trashed : trashed[h].id = c}

\* create: the month is that of a date that is given, or the current one.
CreateClaim(c) == \E e \in Workers, m \in Months, total \in Figures, kind \in Kinds :
  \E instalment \in IF kind = "advance" THEN {0} \cup Figures ELSE {0} :
    /\ claim[c] = NoClaim /\ EntriesOf(c) = {}
    /\ Rewrite(c, NoClaim,
               [kind |-> kind, who |-> e, when |-> m, created |-> today, total |-> total,
                instalment |-> instalment,
                remaining |-> IF kind = "advance" THEN total ELSE 0])
    /\ UNCHANGED <<trashed, input, letter>> /\ SameRuns

\* update: what is left of an advance or its instalments, the amount or the month of
\* another.  No run writes down what it has deducted of an advance.
UpdateClaim(c) ==
  LET old == claim[c]
      Changes(d) == d # old /\ Rewrite(c, old, d)
  IN  /\ old # NoClaim
      /\ \E n \in {0} \cup Figures, m \in Months :
           IF old.kind = "advance"
           THEN Changes([old EXCEPT !.remaining = n]) \/ Changes([old EXCEPT !.instalment = n])
           ELSE Changes([old EXCEPT !.total = n]) \/ Changes([old EXCEPT !.when = m])
      /\ UNCHANGED <<trashed, input, letter>> /\ SameRuns

Notes(p, next) == letter' = [letter EXCEPT ![p] = next]

\* remove: the record is read, and then archived as it was read and deleted.
ReadForTrash(p, c) ==
  /\ letter[p] = NoLetter /\ claim[c] # NoClaim
  /\ Notes(p, [op |-> "trash", id |-> c, read |-> claim[c], entry |-> 0])
  /\ SameClaims /\ UNCHANGED <<input, unread>> /\ SameRuns

TrashClaim(p) ==
  LET c == letter[p].id
  IN  /\ letter[p].op = "trash" /\ claim[c] # NoClaim
      /\ trashed' = Append(trashed, [id |-> c, read |-> letter[p].read, state |-> "open"])
      /\ Rewrite(c, claim[c], NoClaim)
      /\ Notes(p, NoLetter)
      /\ UNCHANGED input /\ SameRuns

\* restore: the entry is looked up, and then the record created under its old id.
ReadFromTrash(p, h) ==
  /\ letter[p] = NoLetter /\ trashed[h].state = "open"
  /\ Notes(p, [op |-> "restore", id |-> trashed[h].id, read |-> trashed[h].read, entry |-> h])
  /\ SameClaims /\ UNCHANGED <<input, unread>> /\ SameRuns

\* A bonus without a period becomes one of the current month.
Restored(p) ==
  LET l == letter[p]
  IN  /\ l.op = "restore" /\ claim[l.id] = NoClaim /\ trashed[l.entry].state # "gone"
      /\ Rewrite(l.id, l.read, [l.read EXCEPT !.created = today])
      /\ trashed' = [trashed EXCEPT ![l.entry].state = "restored"]
      /\ Notes(p, NoLetter)
      /\ UNCHANGED input /\ SameRuns

\* Mutant of RestoreClaim: the entry is marked without the record being created.
RestoreInTwoSteps(p) ==
  \/ Restored(p)
  \/ /\ letter[p].op = "restore" /\ trashed[letter[p].entry].state = "open"
     /\ trashed' = [trashed EXCEPT ![letter[p].entry].state = "restored"]
     /\ Notes(p, NoLetter)
     /\ UNCHANGED <<claim, input, edited, unread>> /\ SameRuns

RestoreClaim(p) == Restored(p)

\* A request that fails has written nothing: its writes are one transaction.
AbandonLetter(p) ==
  /\ letter[p] # NoLetter
  /\ Notes(p, NoLetter)
  /\ SameClaims /\ UNCHANGED <<input, unread>> /\ SameRuns

\* TrashService.permanentDelete
DeleteEntry(h) ==
  /\ trashed[h].state # "gone"
  /\ trashed' = [trashed EXCEPT ![h].state = "gone"]
  /\ UNCHANGED <<claim, input, letter, edited, unread>> /\ SameRuns

\* upsertInput writes every field of the row.
UpsertInput(e, m) == \E i \in Inputs \ {input[e][m]} :
  /\ input' = [input EXCEPT ![e][m] = i]
  /\ Touches({m})
  /\ UNCHANGED letter /\ SameClaims /\ SameRuns

-----------------------------------------------------------------------------
(* calculate, calculateAsync and processPayrollRun *)

SameBooks == UNCHANGED <<worker, input, letter>> /\ SameClaims

\* The run that was there is deleted with its items; receipts no longer name one.
OpenRun(m) ==
  /\ work = NoWork
  /\ run' = [run EXCEPT ![m] = [NotRun EXCEPT !.number = run[m].number + 1,
                                                  !.state = "queued"]]
  /\ receipt' = [e \in Workers |-> [receipt[e] EXCEPT ![m].run = 0]]
  /\ work' = [NoWork EXCEPT !.month = m, !.stage = "read"]
  /\ UNCHANGED <<today, unread>> /\ SameBooks

\* The queue tries a job that failed again.
RetryRun(m) ==
  /\ work = NoWork /\ run[m].state = "failed"
  /\ work' = [NoWork EXCEPT !.month = m, !.stage = "read"]
  /\ UNCHANGED <<run, receipt, today, unread>> /\ SameBooks

\* All tables are read, the fares if that does not fail, and the run begins with these
\* items.
BooksRead(slips) ==
  /\ work.stage = "read"
  /\ work' = [work EXCEPT !.stage = "pay", !.claim = claim, !.todo = DOMAIN worker,
                          !.input = [e \in DOMAIN worker |-> input[e][work.month]]]
  /\ \E fares \in BOOLEAN :
       run' = [run EXCEPT ![work.month].state = "processing", ![work.month].slips = slips,
                          ![work.month].fares = fares]
  /\ unread' = unread \ {work.month}
  /\ UNCHANGED <<receipt, today>> /\ SameBooks

\* Mutant of ReadBooks: the items of an earlier attempt stay.
ReadBooksAnew == BooksRead(run[work.month].slips)

\* "Ensures idempotent retry": the items of an earlier attempt are deleted.
ReadBooks == BooksRead(<< >>)

Plus(t, slip) ==
  [of |-> t.of + 1, deducted |-> t.deducted + slip.deducted, net |-> t.net + slip.net]

\* The item of an employee, whose batch is inserted
PayWorker(e) ==
  /\ work.stage = "pay" /\ e \in work.todo
  /\ LET m == work.month
         slip == Slip(Riding(worker[e], run[m].fares), e, m, work.claim, work.input[e])
     IN  /\ run' = [run EXCEPT ![m].slips =
                        [f \in DOMAIN @ \cup {e} |-> IF f = e THEN slip ELSE @[f]]]
         /\ work' = [work EXCEPT !.todo = @ \ {e}, !.totals = Plus(@, slip)]
  /\ UNCHANGED <<receipt, today, unread>> /\ SameBooks

\* An employee whose data throw is passed over.
SkipWorker(e) ==
  /\ work.stage = "pay" /\ e \in work.todo
  /\ work' = [work EXCEPT !.todo = @ \ {e}]
  /\ UNCHANGED <<run, receipt, today, unread>> /\ SameBooks

CloseRun ==
  /\ work.stage = "pay" /\ work.todo = {}
  /\ run' = [run EXCEPT ![work.month].state = "completed",
                        ![work.month].totals = work.totals]
  /\ work' = NoWork
  /\ UNCHANGED <<receipt, today, unread>> /\ SameBooks

\* markPayrollRunFailed: the items so far stay.
FailRun ==
  /\ work # NoWork
  /\ run' = [run EXCEPT ![work.month].state = "failed"]
  /\ work' = NoWork
  /\ UNCHANGED <<receipt, today, unread>> /\ SameBooks

-----------------------------------------------------------------------------
(* upsertReceipt and bulkUpsertReceipts: of whatever run the month has *)

SameWork == UNCHANGED <<run, work, today, unread>>

SignReceipts(E, m) ==
  /\ receipt' = [e \in Workers |->
       IF e \in E THEN [receipt[e] EXCEPT ![m] = [received |-> TRUE, run |-> run[m].number]]
       ELSE receipt[e]]
  /\ SameWork /\ SameBooks

WithdrawReceipts(E, m) ==
  /\ receipt' = [e \in Workers |->
       IF e \in E THEN [receipt[e] EXCEPT ![m] = NotReceived] ELSE receipt[e]]
  /\ SameWork /\ SameBooks

MonthPasses ==
  /\ today < FinalMonth
  /\ today' = today + 1
  /\ UNCHANGED <<run, work, receipt, unread>> /\ SameBooks

-----------------------------------------------------------------------------
StartSlips ==
  \/ \E c \in Claims : CreateClaim(c) \/ UpdateClaim(c)
  \/ \E p \in Secretaries :
       \/ \E c \in Claims : ReadForTrash(p, c)
       \/ \E h \in DOMAIN trashed : ReadFromTrash(p, h)
  \/ \E h \in DOMAIN trashed : DeleteEntry(h)
  \/ \E e \in Workers, m \in Months : UpsertInput(e, m)
  \/ \E m \in Months : OpenRun(m) \/ RetryRun(m)
  \/ \E E \in (SUBSET Workers) \ {{}}, m \in Months :
       SignReceipts(E, m) \/ WithdrawReceipts(E, m)
  \/ MonthPasses

ContinueSlips ==
  \/ \E p \in Secretaries : TrashClaim(p) \/ RestoreClaim(p) \/ AbandonLetter(p)
  \/ ReadBooks \/ (\E e \in Workers : PayWorker(e) \/ SkipWorker(e)) \/ CloseRun \/ FailRun

PayslipsNext == StartSlips \/ ContinueSlips

PayslipsSpec == PayslipsInit /\ [][PayslipsNext]_payslipVars

-----------------------------------------------------------------------------
(* Properties *)

Booked(m) == {e \in Workers : e \in DOMAIN run[m].slips}

PayslipsTypeOK ==
  /\ DOMAIN worker \subseteq Workers /\ worker \in [DOMAIN worker -> WorkerRows]
  /\ input \in [Workers -> [Months -> InputRows]]
  /\ claim \in [Claims -> ClaimRows \cup {NoClaim}]
  /\ \A h \in DOMAIN trashed : trashed[h].id \in Claims /\ trashed[h].read \in ClaimRows
  /\ \A m \in Months :
       /\ run[m].state \in {"none", "queued", "processing", "completed", "failed"}
       /\ run[m].fares \in BOOLEAN
       /\ DOMAIN run[m].slips \subseteq Workers
  /\ work.todo \subseteq Workers /\ today \in Months
  /\ edited \subseteq Claims /\ unread \subseteq Months

\* An advance, a penalty or a bonus is in the slips of one month at most, whatever is
\* recalculated, retried, trashed and restored, unless its own month was edited.
TakenOnce ==
  \A c \in Claims \ edited : \A m, n \in Months :
    (\E e \in Booked(m), f \in Booked(n) :
       c \in run[m].slips[e].took /\ c \in run[n].slips[f].took) => m = n

\* A receipt that names a run names the one that its month has.
ReceiptsNameTheRun ==
  \A e \in Workers, m \in Months : receipt[e][m].run \in {0, run[m].number}

\* What was trashed is there again or can be restored, until it is deleted for good.
TrashIsRestorable ==
  \A c \in Claims : claim[c] = NoClaim /\ EntriesOf(c) # {} =>
    \E h \in EntriesOf(c) : trashed[h].state # "restored"

\* Claims are settled by one run and never lost, and receipts belong to runs.
ClaimsSettleOnce ==
  /\ TakenOnce
  /\ ReceiptsNameTheRun
  /\ TrashIsRestorable

-----------------------------------------------------------------------------
\* The items of a completed run are what its month's books say now, unless something of
\* that month has changed since they were read; if the fares could not be read, then
\* nobody's item has one, and nothing tells this run from another.
SlipsAreCurrent ==
  \A m \in Months \ unread : run[m].state = "completed" =>
    \A e \in Booked(m) :
      run[m].slips[e] = Slip(Riding(worker[e], run[m].fares), e, m, claim, input[e][m])

SlipsSum(slips, field) ==
  SumFunctionOnSet([e \in DOMAIN slips |-> slips[e][field]], DOMAIN slips)

\* The totals of a completed run are those of its items, also after failed attempts and
\* employees that were passed over.
TotalsMatchSlips ==
  \A m \in Months : run[m].state = "completed" =>
    LET t == run[m].totals
    IN  /\ t.of = Cardinality(Booked(m))
        /\ t.net = SlipsSum(run[m].slips, "net")
        /\ t.deducted = SlipsSum(run[m].slips, "deducted")

\* What a day is worth by itself, in halves of a minute's wage: what was worked on it...
Minutes(day) == IF day.in > 0 /\ day.out > day.in THEN day.out - day.in ELSE 0

\* ...what a leave pays of it...
LeaveHalves(l, day) ==
  CASE l.type = "SICK" /\ l.hourly ->
         IF Opens < l.starts /\ l.starts < Closes THEN Closes - l.starts ELSE 0
    [] l.type = "SICK" /\ ~l.hourly -> DayMinutes
    [] l.type = "PAID" -> 2 * DayMinutes
    [] l.type = "OTHER" -> 2 * l.rate * Minutes(day)
    [] l.type = "UNPAID" -> 0

\* ...and all of it.
DayHalves(who, d) ==
  LET day == who.days[d]
      on == {l \in who.leaves : d \in l.from .. l.to}
  IN  (IF on = {} THEN IF Attends(day) /\ d \notin RestDays THEN 2 * DayMinutes ELSE 0
       ELSE LeaveHalves(CHOOSE l \in on : TRUE, day))
      + (IF d \in RestDays THEN 4 * Minutes(day) ELSE 3 * Positive(day.out - Closes))
      - (IF d \in Fridays THEN 0 ELSE 3 * day.delay + 2 * day.early)

\* Days beyond those that are worked in the month are not paid.
Surplus(who, m) ==
  Positive(Cardinality({d \in FirstDay(m) .. FinalDay(m) :
                          /\ Attends(who.days[d]) /\ d \notin RestDays
                          /\ \A l \in who.leaves : d \notin l.from .. l.to})
             - PaidWorkDays(who, m))

\* No day is of two leaves, and a sick leave of hours is of one day: of several it would
\* be paid its hours once.
LeavesAreClear(who) ==
  /\ \A k, l \in who.leaves : k # l => (k.from .. k.to) \cap (l.from .. l.to) = {}
  /\ \A l \in who.leaves : l.type = "SICK" /\ l.hourly => l.from = l.to

\* The pay of a month is the sum of its days: none is paid or charged twice, or in
\* another month, whatever leaves begin before it or end after it, if these are clear.
PayIsOfTheDays ==
  \A e \in DOMAIN worker, m \in Months :
    LET who == worker[e]
        days == FirstDay(m) .. FinalDay(m)
        halves == SumFunctionOnSet([d \in days |-> DayHalves(who, d)], days)
                  - 2 * DayMinutes * Surplus(who, m)
    IN  LeavesAreClear(who) =>
          Slip(who, e, m, claim, NoInput).earned = (who.base + who.transport) * Positive(halves)

AttendanceFields ==
  {"absence", "sick", "paid", "unpaid", "unpaidMinutes", "late", "early", "overtime", "weekend"}

\* An input that says nothing of the attendance leaves what the punches have earned alone.
MoneyLeavesAttendance ==
  \A e \in DOMAIN worker, m \in Months :
    LET i == input[e][m]
        money == [f \in DOMAIN i |-> IF f \in AttendanceFields THEN NoInput[f] ELSE i[f]]
        transport == [NoInput EXCEPT !.transport = i.transport]
    IN  i = money /\ i # NoInput =>
          Slip(worker[e], e, m, claim, i).earned = Slip(worker[e], e, m, claim, transport).earned

\* Whoever leaves on the last day of a month is settled with what the month's slip pays,
\* if the books hold nothing that only one of them reads: punches on the days around
\* the month, lateness on Fridays, older advances and penalties, and inputs; and if both
\* could read the fares or neither could.
SettlementIsTheSlip ==
  \A e \in DOMAIN worker, m \in Months :
    LET who == worker[e]
        around == {FirstDay(m) - 1, FinalDay(m) + 1} \cap DOMAIN who.days
        fridays == Fridays \cap (FirstDay(m) .. FinalDay(m))
    IN  /\ \A d \in around : who.days[d] = NoPunches
        /\ \A d \in fridays : who.days[d].delay = 0 /\ who.days[d].early = 0
        /\ \A n \in 1 .. m - 1, kind \in {"advance", "penalty"} :
             DueClaims(claim, e, n, kind) = {}
        /\ who.joined <= FirstDay(m) /\ who.until >= FinalDay(m)
        => \A fares \in BOOLEAN :
             Settlement(Riding(who, fares), e, FinalDay(m), claim)
               = Slip(Riding(who, fares), e, m, claim, NoInput).net

\* What a completed run pays is what its month's books and days say.
PayAddsUp ==
  /\ SlipsAreCurrent
  /\ TotalsMatchSlips
  /\ PayIsOfTheDays
  /\ MoneyLeavesAttendance
  /\ SettlementIsTheSlip
=============================================================================
