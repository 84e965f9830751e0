------------------------------- MODULE Batches -------------------------------
(***************************************************************************)
(* The batches of one batch-tracked product, wherever documents move them: *)
(* BatchesService, ExpiryService and QualityService                        *)
(* (src/backend-nest/src/batches, src/backend-nest/src/quality), the       *)
(* batch branches of the invoices and of cycle counts, and putaway         *)
(* (src/backend-nest/src/locations).                                       *)
(*                                                                         *)
(* What there is of a batch is written in three ledgers: in the batch, in  *)
(* its level at each place, and in the place's stock level.  A request     *)
(* reads its document and then runs a transaction, a script of parts, one  *)
(* per line of the document; each statement of a part locks a row until    *)
(* the transaction ends.  A hold on a batch is its status.                 *)
(***************************************************************************)
EXTENDS Integers, Sequences, FiniteSets, Functions

CONSTANTS
  Lots,       \* product_batches rows, numbered in the order of their expiry dates
  Shelves,     \* locations
  Dock,       \* the place where the first goods arrived
  Arrived,    \* Arrived[b]: how many units of b have arrived there
  Hands,      \* the requests in progress
  NoHand,     \* who holds a row that is free
  Papers,     \* invoices, putaway tasks and inspections
  NoPaper,
  Units       \* the quantities of requests

ASSUME LotsAssumption == IsFiniteSet(Lots) /\ Lots \subseteq Nat \ {0}
ASSUME ShelvesAssumption == IsFiniteSet(Shelves) /\ Shelves \cap Lots = {}
ASSUME DockAssumption == Dock \in Shelves
ASSUME ArrivedAssumption == Arrived \in [Lots -> Nat]
ASSUME NoHandAssumption == NoHand \notin Hands
ASSUME NoPaperAssumption == NoPaper \notin Papers
ASSUME UnitsAssumption == Units \subseteq Nat \ {0}

VARIABLES
  row,        \* row[r]: the committed version of a row of the three ledgers
  latest,     \* its newest version
  owner,      \* who has locked it
  hand,       \* hand[p]: what request p does
  paper,      \* paper[d]
  scanned,    \* scanned[b]: the status the expiry scan has read and not yet handled
  forced,     \* places and batches whose ledgers an unchecked document has parted
  overruled   \* inspections whose hold another request has lifted

batchVars == <<row, latest, owner, hand, paper, scanned, forced, overruled>>

InLot(b) == <<"lot", b, Dock>>
InLevel(b, l) == <<"level", b, l>>
InStockLevel(l) == <<"stock", 0, l>>
LedgerRows ==
  {InLot(b) : b \in Lots} \cup {InLevel(b, l) : b \in Lots, l \in Shelves}
    \cup {InStockLevel(l) : l \in Shelves}

\* "none": there is no such row; "row": a level or stock row, which has no status.
LotStatuses == {"AVAILABLE", "NEAR_EXPIRY", "QUARANTINE", "EXPIRED", "REJECTED", "CONSUMED"}
Sellable == {"AVAILABLE", "NEAR_EXPIRY"}

\* A statement: by how much it changes the row, what it needs, what it does to
\* the status.
Statement(r, by, need, status) == [row |-> r, by |-> by, need |-> need, status |-> status]

Statements ==
  [row : LedgerRows, by : Int, need : {"nothing", "check", "units", "new"},
   status : LotStatuses \cup {"keep", "drain", "row"}]

\* named: the invoice line has a batchNumber; lines: what a delivery note says left.
NoDocument ==
  [kind |-> "none", status |-> "absent", lot |-> 0, place |-> Dock, n |-> 0, named |-> TRUE,
   lines |-> << >>]

\* read: the status of its batch that a receipt has read.
Allocated == [lot : Lots, place : Shelves, n : Nat]

Paper ==
  [kind : {"none", "bill", "sale", "task", "inspection"},
   status : {"absent", "open", "posted", "cancelled"}, lot : Lots \cup {0}, place : Shelves,
   n : Nat, named : BOOLEAN, lines : Seq(Allocated)]

Part == Seq(Statements)

Hand ==
  [op : {"none", "receive", "unreceive", "allocate", "sell", "unsell", "putaway", "count",
         "inspect"},
   paper : Papers \cup {NoPaper}, script : Seq(Part), lines : Seq(Allocated),
   read : LotStatuses \cup {"none", "row"}]

HandIdle ==
  [op |-> "none", paper |-> NoPaper, script |-> << >>, lines |-> << >>, read |-> "none"]

BatchInit ==
  /\ row = [r \in LedgerRows |->
       CASE r[1] = "lot" ->
              [n |-> Arrived[r[2]], status |-> IF Arrived[r[2]] = 0 THEN "none" ELSE "AVAILABLE"]
         [] r[1] = "level" /\ r[3] = Dock /\ Arrived[r[2]] > 0 ->
              [n |-> Arrived[r[2]], status |-> "row"]
         [] r[1] = "stock" /\ r[3] = Dock ->
              [n |-> SumFunctionOnSet(Arrived, Lots), status |-> "row"]
         [] OTHER -> [n |-> 0, status |-> "none"]]
  /\ latest = row
  /\ owner = [r \in LedgerRows |-> NoHand]
  /\ hand = [p \in Hands |-> HandIdle]
  /\ paper = [d \in Papers |-> NoDocument]
  /\ scanned = [b \in Lots |-> "none"]
  /\ forced = {}
  /\ overruled = {}

StatusOf(b) == row[InLot(b)].status
Free(b) == owner[InLot(b)] = NoHand

\* b's level has been booked at l.
Known(b, l) == row[InLevel(b, l)].status = "row"

Take(p, op, d, script) ==
  /\ hand[p].op = "none"
  /\ hand' = [hand EXCEPT ![p] =
       [op |-> op, paper |-> d, script |-> script, lines |-> << >>,
        read |-> IF op = "receive" THEN StatusOf(paper[d].lot) ELSE "none"]]

-----------------------------------------------------------------------------
(* Transactions *)

Seen(p, r) == IF owner[r] = p THEN latest[r] ELSE row[r]

Meets(p, st) ==
  CASE st.need = "check" -> Seen(p, st.row).n + st.by >= 0
    [] st.need = "units" -> latest[st.row].n + st.by >= 0
    [] st.need = "new" -> latest[st.row].status = "none"
    [] OTHER -> TRUE

NewStatus(st, v) ==
  CASE st.status = "drain" -> IF v.n + st.by <= 0 THEN "CONSUMED" ELSE v.status
    [] st.status = "keep" -> v.status
    [] OTHER -> st.status

\* updateMany changes the level p sees, or none.
Misses(p, st) ==
  st.row[1] = "level" /\ st.status = "keep" /\ Seen(p, st.row).status = "none"

\* Stock is cut off at zero (applyStockChangeWithin), the batches are not.
NewAmount(st, v) == IF st.row[1] = "stock" /\ v.n + st.by < 0 THEN 0 ELSE v.n + st.by

Lifts(b, status) == StatusOf(b) \notin Sellable /\ status \in Sellable
HoldsOn(b) == {d \in Papers : paper[d].kind = "inspection" /\ paper[d].status = "open"
                                /\ paper[d].lot = b}

\* What is left of a script after its next statement.
After(script) ==
  IF Len(Head(script)) = 1 THEN Tail(script) ELSE <<Tail(Head(script))>> \o Tail(script)

\* The next statement of p: a check only reads, all others lock the row they change.
Execute(p) ==
  LET st == Head(Head(hand[p].script))
      v == latest[st.row]
      status == NewStatus(st, v)
  IN  /\ hand[p].script # << >>
      /\ Meets(p, st)
      /\ hand' = [hand EXCEPT ![p].script = After(@)]
      /\ \/ st.need = "check" /\ UNCHANGED <<latest, owner, forced, overruled>>
         \/ /\ st.need # "check" /\ Misses(p, st)
            /\ forced' = forced \cup {st.row[2], st.row[3]}
            /\ UNCHANGED <<latest, owner, overruled>>
         \/ /\ st.need # "check" /\ ~Misses(p, st)
            /\ owner[st.row] \in {p, NoHand}
            /\ latest' = [latest EXCEPT ![st.row] = [n |-> NewAmount(st, v), status |-> status]]
            /\ owner' = [owner EXCEPT ![st.row] = p]
            /\ forced' = IF v.n + st.by < 0 /\ st.row[1] # "lot" /\ hand[p].op # "sell"
                         THEN forced \cup {st.row[3]} ELSE forced
            /\ overruled' = IF /\ st.row[1] = "lot" /\ Lifts(st.row[2], status)
                               /\ hand[p].op = "receive" /\ hand[p].read # StatusOf(st.row[2])
                            THEN overruled \cup HoldsOn(st.row[2]) ELSE overruled
      /\ UNCHANGED <<row, paper, scanned>>

Release(p) == [r \in LedgerRows |-> IF owner[r] = p THEN NoHand ELSE owner[r]]

\* The last statement marks the document; then the transaction commits.
Marked(p, doc) ==
  CASE hand[p].op = "receive" -> [doc EXCEPT !.status = "posted"]
    [] hand[p].op = "sell" -> [doc EXCEPT !.status = "posted", !.lines = @ \o hand[p].lines]
    [] hand[p].op \in {"unreceive", "unsell"} -> [doc EXCEPT !.status = "cancelled"]
    [] hand[p].op = "putaway" -> [doc EXCEPT !.status = "posted"]
    [] OTHER -> doc

CommitBatches(p) ==
  /\ hand[p].op \notin {"none", "allocate", "inspect"}
  /\ hand[p].script = << >>
  /\ row' = [r \in LedgerRows |-> IF owner[r] = p THEN latest[r] ELSE row[r]]
  /\ owner' = Release(p)
  /\ paper' = IF hand[p].paper = NoPaper THEN paper
              ELSE [paper EXCEPT ![hand[p].paper] = Marked(p, @)]
  /\ hand' = [hand EXCEPT ![p] = HandIdle]
  /\ UNCHANGED <<latest, scanned, forced, overruled>>

\* A check, a condition or the unique index objects, a deadlock, a crash.
FailBatches(p) ==
  /\ hand[p].op # "none"
  /\ latest' = [r \in LedgerRows |-> IF owner[r] = p THEN row[r] ELSE latest[r]]
  /\ owner' = Release(p)
  /\ hand' = [hand EXCEPT ![p] = HandIdle]
  /\ UNCHANGED <<row, paper, scanned, forced, overruled>>

Ledgers == UNCHANGED <<row, latest, owner, scanned, forced, overruled>>

-----------------------------------------------------------------------------
(* Receipts: post and cancel of a purchase invoice *)

\* Mutant of Topped: the default status is also that of a batch that exists.
ToppedAsNew(status) == "AVAILABLE"

\* A batch that exists keeps the status that was read.
Topped(status) == IF status = "none" THEN "AVAILABLE" ELSE status

\* receiveIntoBatchWithin
Received(b, l, n) ==
  << Statement(InLot(b), n, IF StatusOf(b) = "none" THEN "new" ELSE "nothing",
               Topped(StatusOf(b))),
     Statement(InLevel(b, l), n, "nothing", "row"),
     Statement(InStockLevel(l), n, "nothing", "row") >>

\* Mutant of Corrected: the batch's level is left as it is.
CorrectedButLevel(b, l, n) ==
  << Statement(InStockLevel(l), n, "check", "row"),
     Statement(InStockLevel(l), n, "nothing", "row"),
     Statement(InLot(b), n, "nothing", "keep") >>

\* What corrections post: goods leave the stock if it has them, the batch anyway.
Corrected(b, l, n) ==
  << Statement(InStockLevel(l), n, "check", "row"),
     Statement(InStockLevel(l), n, "nothing", "row"),
     Statement(InLot(b), n, "nothing", "keep"),
     Statement(InLevel(b, l), n, "nothing", "keep") >>

\* A line without a batchNumber makes a batch of its own.
DraftBill(d) ==
  /\ paper[d].status = "absent"
  /\ \E b \in Lots, l \in Shelves, n \in Units, named \in BOOLEAN :
       /\ named \/ StatusOf(b) = "none"
       /\ paper' = [paper EXCEPT ![d] =
            [NoDocument EXCEPT !.kind = "bill", !.status = "open", !.lot = b, !.place = l,
                               !.n = n, !.named = named]]
  /\ UNCHANGED hand
  /\ Ledgers

\* The invoice is locked and its status checked again in the transaction.
PostBill(p, d) ==
  LET bill == paper[d]
  IN  /\ bill.kind = "bill" /\ bill.status = "open"
      /\ \A q \in Hands : hand[q].op = "receive" => hand[q].paper # d
      /\ bill.named \/ StatusOf(bill.lot) = "none"
      /\ Take(p, "receive", d, <<Received(bill.lot, bill.place, bill.n)>>)
      /\ UNCHANGED paper
      /\ Ledgers

\* The batch of a line without a batchNumber is not found again.
CancelBill(p, d) ==
  LET bill == paper[d]
      part == Corrected(bill.lot, bill.place, -bill.n)
  IN  /\ bill.kind = "bill" /\ bill.status = "posted"
      /\ Take(p, "unreceive", d, <<IF bill.named THEN part ELSE SubSeq(part, 1, 2)>>)
      /\ forced' = IF bill.named THEN forced ELSE forced \cup {bill.place}
      /\ UNCHANGED <<row, latest, owner, paper, scanned, overruled>>

-----------------------------------------------------------------------------
(* Sales: post and cancel of a sales invoice *)

DraftSale(d) ==
  /\ paper[d].status = "absent"
  /\ \E l \in Shelves, n \in Units :
       paper' = [paper EXCEPT ![d] =
         [NoDocument EXCEPT !.kind = "sale", !.status = "open", !.place = l, !.n = n]]
  /\ UNCHANGED hand
  /\ Ledgers

ReadSaleForPost(p, d) ==
  /\ paper[d].kind = "sale" /\ paper[d].status = "open"
  /\ hand[p].op = "none"
  /\ hand' = [hand EXCEPT ![p].op = "allocate", ![p].paper = d]
  /\ UNCHANGED paper
  /\ Ledgers

Candidate(b, l) == StatusOf(b) \in Sellable /\ row[InLevel(b, l)].n > 0

\* allocate: each candidate gives what those that expire before it have not.
Share(b, l, n) ==
  LET before == {c \in Lots : c < b /\ Candidate(c, l)}
      open == n - SumFunctionOnSet([c \in before |-> row[InLevel(c, l)].n], before)
  IN  IF ~Candidate(b, l) \/ open <= 0 THEN 0
      ELSE IF open < row[InLevel(b, l)].n THEN open ELSE row[InLevel(b, l)].n

\* The lots of a set, in the order of their expiry dates: there is one such list.
InOrder(lots) ==
  {s \in [1 .. Cardinality(lots) -> lots] : \A i, j \in DOMAIN s : i < j => s[i] < s[j]}

Allocation(lots, l, n) ==
  [i \in DOMAIN lots |-> [lot |-> lots[i], place |-> l, n |-> Share(lots[i], l, n)]]

\* consumeWithin, one allocation
Consumed(line) ==
  << Statement(InLevel(line.lot, line.place), -line.n, "units", "keep"),
     Statement(InLot(line.lot), -line.n, "nothing", "drain"),
     Statement(InStockLevel(line.place), -line.n, "check", "row"),
     Statement(InStockLevel(line.place), -line.n, "nothing", "row") >>

\* The transaction begins; allocate reads outside of it.
PostSale(p) ==
  LET sale == paper[hand[p].paper]
      chosen == {b \in Lots : Share(b, sale.place, sale.n) > 0}
  IN  /\ hand[p].op = "allocate"
      /\ \E lots \in InOrder(chosen) :
           LET lines == Allocation(lots, sale.place, sale.n)
           IN  /\ SumFunctionOnSet([i \in DOMAIN lines |-> lines[i].n], DOMAIN lines) = sale.n
               /\ hand' = [hand EXCEPT ![p].op = "sell", ![p].lines = lines,
                               ![p].script = [i \in DOMAIN lines |-> Consumed(lines[i])]]
      /\ UNCHANGED paper
      /\ Ledgers

\* What the delivery notes say left comes back, whatever its batch's status is.
Returned(line) ==
  << Statement(InLot(line.lot), line.n, "nothing", "keep"),
     Statement(InLevel(line.lot, line.place), line.n, "nothing", "keep"),
     Statement(InStockLevel(line.place), line.n, "nothing", "row") >>

CancelSale(p, d) ==
  /\ paper[d].kind = "sale" /\ paper[d].status = "posted"
  /\ Take(p, "unsell", d, [i \in DOMAIN paper[d].lines |-> Returned(paper[d].lines[i])])
  /\ UNCHANGED paper
  /\ Ledgers

-----------------------------------------------------------------------------
(* Putaway and counts *)

\* A task need not name a batch (lot 0), nor one that is where it says.
CreateTask(d) ==
  /\ paper[d].status = "absent"
  /\ \E b \in Lots \cup {0}, l \in Shelves, n \in Units :
       /\ b # 0 => StatusOf(b) # "none"
       /\ paper' = [paper EXCEPT ![d] =
            [NoDocument EXCEPT !.kind = "task", !.status = "open", !.lot = b, !.place = l, !.n = n]]
  /\ UNCHANGED hand
  /\ Ledgers

\* completeTask: out of one place and into the other.
PutAway(b, from, bin, n) ==
  << Statement(InStockLevel(from), -n, "check", "row"),
     Statement(InStockLevel(from), -n, "nothing", "row"),
     Statement(InStockLevel(bin), n, "nothing", "row"),
     Statement(InLevel(b, from), -n, "nothing", "keep"),
     Statement(InLevel(b, bin), n, "nothing", "row") >>

\* Without a batch only the stock moves.
CompleteTask(p, d, bin) ==
  LET task == paper[d]
      part == PutAway(task.lot, task.place, bin, task.n)
  IN  /\ task.kind = "task" /\ task.status = "open"
      /\ Take(p, "putaway", d, <<IF task.lot = 0 THEN SubSeq(part, 1, 3) ELSE part>>)
      /\ forced' = IF task.lot = 0 THEN forced \cup {task.place, bin} ELSE forced
      /\ UNCHANGED <<row, latest, owner, paper, scanned, overruled>>

\* cancel of a draft invoice, cancelTask
CancelDraft(d) ==
  /\ paper[d].kind \in {"bill", "sale", "task"} /\ paper[d].status = "open"
  /\ paper' = [paper EXCEPT ![d].status = "cancelled"]
  /\ UNCHANGED hand
  /\ Ledgers

\* A cycle count posts the variance of a batch's line.
PostVariance(p, b, l, n) ==
  /\ Known(b, l)
  /\ Take(p, "count", NoPaper, <<Corrected(b, l, n)>>)
  /\ UNCHANGED paper
  /\ Ledgers

-----------------------------------------------------------------------------
(* Holds *)

\* One statement, or one transaction with the inspection: b's status becomes s.
SetTo(b, s) ==
  /\ Free(b)
  /\ StatusOf(b) # "none"
  /\ row' = [row EXCEPT ![InLot(b)].status = s]
  /\ latest' = [latest EXCEPT ![InLot(b)].status = s]
  /\ UNCHANGED <<owner, forced>>

\* setStatus
SetBatchStatus(b, s) ==
  /\ SetTo(b, s)
  /\ overruled' = IF Lifts(b, s) THEN overruled \cup HoldsOn(b) ELSE overruled
  /\ UNCHANGED <<hand, paper, scanned>>

CreateInspection(d, b) ==
  /\ paper[d].status = "absent"
  /\ paper' = [paper EXCEPT ![d] =
       [NoDocument EXCEPT !.kind = "inspection", !.status = "open", !.lot = b]]
  /\ SetTo(b, "QUARANTINE")
  /\ UNCHANGED <<hand, scanned, overruled>>

ReadInspection(p, d) ==
  /\ paper[d].kind = "inspection" /\ paper[d].status = "open"
  /\ hand[p].op = "none"
  /\ hand' = [hand EXCEPT ![p].op = "inspect", ![p].paper = d]
  /\ UNCHANGED paper
  /\ Ledgers

\* passed, partly, failed
RecordInspection(p) ==
  \E s \in {"AVAILABLE", "QUARANTINE", "REJECTED"} :
    LET d == hand[p].paper
        b == paper[d].lot
    IN  /\ hand[p].op = "inspect"
        /\ SetTo(b, s)
        /\ paper' = [paper EXCEPT ![d].status = "posted"]
        /\ overruled' = IF Lifts(b, s) THEN overruled \cup (HoldsOn(b) \ {d}) ELSE overruled
        /\ hand' = [hand EXCEPT ![p] = HandIdle]
        /\ UNCHANGED scanned

\* Mutant of Scannable: the nightly scan takes held batches as well.
ScannableInAnyState(b) == StatusOf(b) # "none" /\ row[InLot(b)].n > 0

Scannable(b) == StatusOf(b) \in Sellable /\ row[InLot(b)].n > 0

\* scan: all batches are read at once...
BeginScan ==
  /\ \A b \in Lots : scanned[b] = "none"
  /\ scanned' = [b \in Lots |-> IF Scannable(b) THEN StatusOf(b) ELSE "none"]
  /\ scanned' # scanned
  /\ UNCHANGED <<row, latest, owner, hand, paper, forced, overruled>>

\* ...and then written one by one, or left alone.
ScanBatch(b) ==
  /\ scanned[b] # "none"
  /\ scanned' = [scanned EXCEPT ![b] = "none"]
  /\ \/ UNCHANGED <<row, latest, owner, forced, overruled>>
     \/ \E s \in {"EXPIRED", "QUARANTINE", "NEAR_EXPIRY"} \ ({"NEAR_EXPIRY"} \cap {scanned[b]}) :
          /\ SetTo(b, s)
          /\ overruled' = IF Lifts(b, s) /\ StatusOf(b) # scanned[b]
                          THEN overruled \cup HoldsOn(b) ELSE overruled
  /\ UNCHANGED <<hand, paper>>

-----------------------------------------------------------------------------
DraftPaper(d) == DraftBill(d) \/ DraftSale(d) \/ CreateTask(d)

StartBatches(p) ==
  \/ \E d \in Papers :
       \/ PostBill(p, d) \/ CancelBill(p, d) \/ ReadSaleForPost(p, d) \/ CancelSale(p, d)
       \/ ReadInspection(p, d)
       \/ \E bin \in Shelves : CompleteTask(p, d, bin)
  \/ \E b \in Lots, l \in Shelves, n \in {-1, 1} : PostVariance(p, b, l, n)

Hold ==
  \/ \E b \in Lots, s \in {"AVAILABLE", "QUARANTINE"} : SetBatchStatus(b, s)
  \/ \E b \in Lots, d \in Papers : CreateInspection(d, b)
  \/ BeginScan

ContinueBatches(p) ==
  \/ Execute(p) \/ CommitBatches(p) \/ FailBatches(p) \/ PostSale(p) \/ RecordInspection(p)

BatchNext ==
  \/ \E d \in Papers : DraftPaper(d) \/ CancelDraft(d)
  \/ \E p \in Hands : StartBatches(p) \/ ContinueBatches(p)
  \/ Hold
  \/ \E b \in Lots : ScanBatch(b)

BatchSpec == BatchInit /\ [][BatchNext]_batchVars

-----------------------------------------------------------------------------
(* Properties *)

\* Types.
BatchTypeOK ==
  /\ {row, latest} \subseteq [LedgerRows -> [n : Int, status : LotStatuses \cup {"none", "row"}]]
  /\ owner \in [LedgerRows -> Hands \cup {NoHand}]
  /\ hand \in [Hands -> Hand]
  /\ paper \in [Papers -> Paper]
  /\ scanned \in [Lots -> {"none"} \cup Sellable]
  /\ forced \subseteq Shelves \cup Lots
  /\ overruled \subseteq Papers

\* The three ledgers agree (batches.service.ts:418: "Both ledgers move together"),
\* and an invoice never takes from a batch what another one has taken.  Excepted
\* are places where a correction, which does not look at the batch, took more of
\* it than there was, where a cancelled bill did not find its batch, or where a
\* putaway task moved goods without naming their batch; and places and batches of
\* a task, or of a document that returns goods, for a batch not booked at its
\* place: there is no level to change (locations.service.ts:536).
BatchLedgersAgree ==
  /\ \A b \in Lots \ forced :
       row[InLot(b)].n = SumFunctionOnSet([l \in Shelves |-> row[InLevel(b, l)].n], Shelves)
  /\ \A l \in Shelves \ forced :
       /\ row[InStockLevel(l)].n = SumFunctionOnSet([b \in Lots |-> row[InLevel(b, l)].n], Lots)
       /\ \A b \in Lots : row[InLevel(b, l)].n >= 0

\* Goods under inspection are not for sale (quality.service.ts:60), whatever is
\* delivered, sold, returned, counted or scanned meanwhile.  Excepted are holds
\* that somebody lifted by hand or with another inspection, and those that a
\* receipt or a scan overwrote with the status it had read before.
InspectedGoodsAreHeld ==
  \A d \in Papers \ overruled :
    paper[d].kind = "inspection" /\ paper[d].status = "open" =>
      StatusOf(paper[d].lot) \notin Sellable

\* Batches agree with the stock, and what is held stays held.
BatchesAddUp == BatchLedgersAgree /\ InspectedGoodsAreHeld
=============================================================================
