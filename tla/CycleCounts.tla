----------------------------- MODULE CycleCounts -----------------------------
(***************************************************************************)
(* CycleCountsService                                                      *)
(* (src/backend-nest/src/cycle-counts/cycle-counts.service.ts): counts of  *)
(* one product at one location while goods keep moving.  A count freezes   *)
(* the book's quantity, somebody counts the shelf, and the approval posts  *)
(* the difference.  A request reads the count and then writes.             *)
(***************************************************************************)
EXTENDS Integers

CONSTANTS
  Counts,      \* cycle_counts rows, each with one line
  NoCount,     \* the count of a request that has none
  Counters,    \* the requests in progress
  InStock      \* the quantity on the book and on the shelf at first

ASSUME InStockAssumption == InStock \in Nat
ASSUME NoCountAssumption == NoCount \notin Counts

VARIABLES
  book,       \* quantity of the stock_levels row
  shelf,      \* what lies on the shelf
  count,      \* count[c]: its row and its line
  counting,   \* counting[p]: what request p has read
  moved,      \* counts whose snapshot the book had left when the shelf was counted
  rivals,     \* counts during which another adjusted the book, or requests overlapped
  spoiled     \* one of those has been approved

countVars == <<book, shelf, count, counting, moved, rivals, spoiled>>

CountStatuses == {"absent", "DRAFT", "IN_PROGRESS", "REVIEW", "COMPLETED", "CANCELLED"}

\* done: countedQuantity is not null; recount: recountRequired.
CountRow ==
  [status : CountStatuses, system : Nat, done : BOOLEAN, variance : Int,
   recount : BOOLEAN, approved : BOOLEAN]

NoCountYet ==
  [status |-> "absent", system |-> 0, done |-> FALSE, variance |-> 0,
   recount |-> FALSE, approved |-> FALSE]

\* n: countedQuantity of a record, the adjustment of an approval.
Counting ==
  [op : {"none", "start", "record", "approve", "cancel"}, at : Counts \cup {NoCount}, n : Int]

Idle == [op |-> "none", at |-> NoCount, n |-> 0]

CountInit ==
  /\ book = InStock
  /\ shelf = InStock
  /\ count = [c \in Counts |-> NoCountYet]
  /\ counting = [p \in Counters |-> Idle]
  /\ moved = {}
  /\ rivals = {}
  /\ spoiled = FALSE

Distance(n) == IF n < 0 THEN -n ELSE n

\* 10% off, or 5 units
NeedsRecount(variance, system) ==
  /\ variance # 0
  /\ \/ Distance(variance) >= 5
     \/ system > 0 /\ 10 * Distance(variance) >= system

Started(c) == count[c].status \in {"DRAFT", "IN_PROGRESS", "REVIEW"}

Finish(p) == counting' = [counting EXCEPT ![p] = Idle]

-----------------------------------------------------------------------------
(* The warehouse *)

\* Goods leave with a document, through applyStockChangeWithin...
Ship ==
  /\ shelf > 0 /\ book > 0
  /\ shelf' = shelf - 1
  /\ book' = book - 1
  /\ UNCHANGED <<count, counting, moved, rivals, spoiled>>

\* ...or without one.
Lose ==
  /\ shelf > 0
  /\ shelf' = shelf - 1
  /\ UNCHANGED <<book, count, counting, moved, rivals, spoiled>>

-----------------------------------------------------------------------------
(* The service *)

\* create: only rows with a quantity are counted.
CreateCount(c) ==
  /\ count[c].status = "absent"
  /\ book > 0
  /\ count' = [count EXCEPT ![c].status = "DRAFT", ![c].system = book]
  /\ UNCHANGED <<book, shelf, counting, moved, rivals, spoiled>>

ReadCount(p, c, op, n) ==
  /\ counting[p] = Idle
  /\ counting' = [counting EXCEPT ![p] = [op |-> op, at |-> c, n |-> n]]
  /\ rivals' = IF \E q \in Counters : counting[q].at = c THEN rivals \cup {c} ELSE rivals
  /\ UNCHANGED <<book, shelf, count, spoiled>>

ReadForCountStart(p, c) ==
  count[c].status = "DRAFT" /\ ReadCount(p, c, "start", 0) /\ UNCHANGED moved

\* The shelf has been counted when the request arrives.
ReadForRecord(p, c) ==
  /\ count[c].status = "IN_PROGRESS"
  /\ ReadCount(p, c, "record", shelf)
  /\ moved' = IF book = count[c].system THEN moved ELSE moved \cup {c}

\* Mutant of MayApprove: a completed count may be approved.
MayApproveAgain(c) == count[c].status \notin {"absent", "CANCELLED"}

MayApprove(c) == Started(c)

\* Lines that are not counted, or are to be counted again, need `force', which
\* any caller may give: a count in review cannot be recorded again.
ReadForApprove(p, c) ==
  /\ MayApprove(c)
  /\ ReadCount(p, c, "approve", IF count[c].done THEN count[c].variance ELSE 0)
  /\ UNCHANGED moved

ReadForCountCancel(p, c) ==
  /\ count[c].status \notin {"absent", "COMPLETED"}
  /\ ReadCount(p, c, "cancel", 0)
  /\ UNCHANGED moved

StartCount(p) ==
  /\ counting[p].op = "start"
  /\ count' = [count EXCEPT ![counting[p].at].status = "IN_PROGRESS"]
  /\ Finish(p)
  /\ UNCHANGED <<book, shelf, moved, rivals, spoiled>>

\* The only line is counted: the count goes to review, whatever it was by now.
RecordCount(p) ==
  LET c == counting[p].at
      variance == counting[p].n - count[c].system
  IN  /\ counting[p].op = "record"
      /\ count' = [count EXCEPT ![c] =
           [@ EXCEPT !.status = "REVIEW", !.done = TRUE, !.variance = variance,
                     !.recount = NeedsRecount(variance, count[c].system), !.approved = FALSE]]
      /\ Finish(p)
      /\ UNCHANGED <<book, shelf, moved, rivals, spoiled>>

\* Other counts that have counted the shelf, or are being handled.
Rivals(c) ==
  {d \in Counts \ {c} : \/ Started(d) /\ count[d].done
                        \/ \E q \in Counters : counting[q].at = d}

\* Mutant of Covered: the book may go below zero.
CoveredAnyway(n) == TRUE

\* applyStockChangeWithin refuses to take more than there is.
Covered(n) == book + n >= 0

\* The variance that was read is posted, if the book has so much.
ApproveCount(p) ==
  LET c == counting[p].at
      n == counting[p].n
  IN  /\ counting[p].op = "approve"
      /\ Covered(n)
      /\ book' = book + n
      /\ count' = [count EXCEPT ![c].status = "COMPLETED", ![c].approved = @ \/ n # 0]
      /\ rivals' = IF n = 0 THEN rivals ELSE rivals \cup Rivals(c)
      /\ spoiled' = (spoiled \/ (n # 0 /\ c \in moved \cup rivals))
      /\ Finish(p)
      /\ UNCHANGED <<shelf, moved>>

CancelCount(p) ==
  /\ counting[p].op = "cancel"
  /\ count' = [count EXCEPT ![counting[p].at].status = "CANCELLED"]
  /\ Finish(p)
  /\ UNCHANGED <<book, shelf, moved, rivals, spoiled>>

FailCount(p) ==
  /\ counting[p] # Idle
  /\ Finish(p)
  /\ UNCHANGED <<book, shelf, count, moved, rivals, spoiled>>

StartCounting(p) ==
  \E c \in Counts :
    \/ ReadForCountStart(p, c) \/ ReadForRecord(p, c)
    \/ ReadForApprove(p, c) \/ ReadForCountCancel(p, c)

ContinueCounting(p) ==
  \/ StartCount(p) \/ RecordCount(p) \/ ApproveCount(p) \/ CancelCount(p) \/ FailCount(p)

CountNext ==
  \/ Ship \/ Lose
  \/ \E c \in Counts : CreateCount(c)
  \/ \E p \in Counters : StartCounting(p) \/ ContinueCounting(p)

CountSpec == CountInit /\ [][CountNext]_countVars

-----------------------------------------------------------------------------
(* Properties *)

\* Types.
CountTypeOK ==
  /\ book \in Nat
  /\ shelf \in Nat
  /\ count \in [Counts -> CountRow]
  /\ counting \in [Counters -> Counting]
  /\ moved \subseteq Counts
  /\ rivals \subseteq Counts
  /\ spoiled \in BOOLEAN

\* A count writes off what is missing and no more: goods that leave after the
\* shelf was counted, losses in between and repeated requests do not make the
\* book show less than the shelf has.  Excepted are counts whose snapshot the
\* book had left when the shelf was counted, and rival adjustments.
NothingOnTheShelfIsWrittenOff == spoiled \/ shelf <= book
=============================================================================
