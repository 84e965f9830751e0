------------------------------- MODULE DayLogs -------------------------------
(***************************************************************************)
(* What an employee's punches of a day cost: the computation of            *)
(* AttendanceAggregationService.aggregateEmployeeDay                       *)
(* (src/backend-nest/src/attendance/attendance-aggregation.service.ts) in  *)
(* slots of time instead of minutes.  A shift begins at slot Start of a    *)
(* day and ends at End, of the next day if that is not later.              *)
(***************************************************************************)
EXTENDS Integers, FiniteSetsExt, Functions

CONSTANTS
  Slots,   \* slots of a day
  Start,   \* scheduledStart
  End,     \* scheduledEnd
  Grace,   \* gracePeriodMinutes
  Covered  \* the slots from .. to that an hourly leave covers

ASSUME ShiftAssumption ==
  /\ Slots \in Nat \ {0} /\ Grace \in Nat
  /\ Start \in 0 .. Slots - 1 /\ End \in 0 .. Slots - 1
  /\ Covered.from \in 0 .. Slots - 1 /\ Covered.to \in Covered.from .. Slots - 1

AtLeast0(n) == IF n > 0 THEN n ELSE 0
Later(m, n) == IF m > n THEN m ELSE n
Earlier(m, n) == IF m < n THEN m ELSE n

IsNightShift == End <= Start
EndEff == IF IsNightShift THEN End + Slots ELSE End
Required == EndEff - Start

Local(p) == p.at % Slots
\* In a night shift, whoever leaves before its start leaves on the next day.
Departure(p) == IF IsNightShift /\ Local(p) < Start THEN Local(p) + Slots ELSE Local(p)

\* An IN and the OUT that follows it; the types of biometric devices are neither.
Pairs(punches) ==
  LET moves == {p \in punches : p.type \in {"IN", "OUT"}}
  IN  {q \in moves \X moves :
         /\ q[1].type = "IN" /\ q[2].type = "OUT" /\ q[1].at < q[2].at
         /\ \A m \in moves : m.at <= q[1].at \/ q[2].at <= m.at}

InShift(pair) ==
  AtLeast0(Earlier(Departure(pair[2]), EndEff) - Later(Local(pair[1]), Start))

AfterShift(pair) ==
  IF Departure(pair[2]) > EndEff
  THEN Departure(pair[2]) - Later(Local(pair[1]), EndEff) ELSE 0

\* calculateWorkedMinutesSplit: when no pair lies in the shift, the hours that a device
\* wrote into its punches count instead.
Worked(punches) ==
  LET paired == SumFunctionOnSet([q \in Pairs(punches) |-> InShift(q)], Pairs(punches))
  IN  IF paired > 0 THEN paired
      ELSE Earlier(Max({0} \cup {p.hours : p \in punches}), Required)

Overtime(punches) ==
  AtLeast0(SumFunctionOnSet([q \in Pairs(punches) |-> AfterShift(q)], Pairs(punches)))

\* calculateLateArrivalMinutes: after the start, today's or tomorrow's, that is nearer
Late(punches, start) ==
  LET ins == {p \in punches : p.type = "IN"}
      arrival == Local(CHOOSE p \in ins : \A q \in ins : p.at <= q.at)
      distance(n) == IF arrival < n THEN n - arrival ELSE arrival - n
  IN  IF ins = {} \/ distance(start + Slots) < distance(start) THEN 0
      ELSE AtLeast0(arrival - start)

Unlogged == [delay |-> 0, missing |-> 0, leave |-> 0, overtime |-> 0]
LogTypes == DOMAIN Unlogged

\* Mutant of MissingAfter: the delay is charged again as missing time.
MissingWithDelay(missing, delay, forgiven) == AtLeast0(missing - forgiven)

\* Missing time is not charged twice, nor where the grace period forgives it.
MissingAfter(missing, delay, forgiven) == AtLeast0(missing - delay - forgiven)

Forgiven(late) == Earlier(late, Grace)

\* A leave at the start of the shift postpones it.
ExpectedFrom(hourly) ==
  IF hourly /\ Covered.from <= Start THEN Later(Start, Covered.to) ELSE Start

\* The rows of a day with punches, some of its slots being covered by a leave or not
LogsOf(punches, hourly) ==
  LET leave == IF hourly THEN Covered.to - Covered.from ELSE 0
      start == ExpectedFrom(hourly)
      late == Late(punches, start)
      delay == AtLeast0(AtLeast0(late - Grace) - (start - Start))
      unworked == AtLeast0(Required - Worked(punches))
      missing == MissingAfter(unworked, delay, Forgiven(late))
  IN  [delay |-> delay, missing |-> AtLeast0(missing - leave), leave |-> leave,
       overtime |-> Overtime(punches)]

\* What is charged of a day, and the lateness that is forgiven, are no more than the
\* lateness or what was not worked of the shift, whichever is more; and no more than the
\* shift, for those who came before it was over.
NothingIsChargedTwice(punches, hourly) ==
  LET logs == LogsOf(punches, hourly)
      late == Late(punches, ExpectedFrom(hourly))
      charged == logs.delay + logs.missing + Forgiven(late)
      ins == {p \in punches : p.type = "IN"}
  IN  /\ charged <= Later(late, AtLeast0(Required - Worked(punches)))
      /\ (\A p \in ins : (\A q \in ins : p.at <= q.at) => Local(p) < EndEff)
           => charged <= Required
=============================================================================
