-------------------------- MODULE PurchaseInvoices --------------------------
(***************************************************************************)
(* PurchaseInvoicesService                                                 *)
(* (src/backend-nest/src/purchase-invoices/purchase-invoices.service.ts):  *)
(* the invoices of suppliers, called bills here, for one product that      *)
(* costs one.  A request reads and checks the bill, then runs its          *)
(* transaction.  Every transaction ends in recalculate, which reads the    *)
(* bill, its items, landed costs and payments and writes the bill's row:   *)
(* one step where the row was locked before, two where it was not.         *)
(***************************************************************************)
EXTENDS LedgerPosting

CONSTANTS
  Bills,       \* purchase_invoices rows
  NoBill,      \* the bill of a request that has none
  Buyers,      \* the requests in progress
  BillUnits,   \* the units a bill may be of
  Payments     \* the payments that are offered

ASSUME BillUnitsAssumption == BillUnits \subseteq Nat \ {0}
ASSUME PaymentsAssumption == Payments \subseteq Nat \ {0}
ASSUME NoBillAssumption == NoBill \notin Bills

VARIABLES
  bill,          \* bill[b]: its row and its items
  costs,         \* costs[b]: its landed costs, of one each
  payments,      \* payments[b]: the sum of its purchase_payments rows
  brought,       \* brought[b]: the movements of b into the stock, less those out
  credited,      \* credited[b]: the postings that raised the order's receivedQuantity
  billBooks,     \* billBooks[b]: its journal entries
  doing,         \* doing[c]: what request c has read
  contested,     \* bills on which two requests overlapped
  reverted,      \* bills whose status a recalculation set back
  billUnmapped   \* bills an entry of which was skipped for want of an account

purchaseVars ==
  <<bill, costs, payments, brought, credited, billBooks, doing, contested, reverted, billUnmapped>>

Posted == {"POSTED", "PARTIALLY_PAID", "PAID"}
BillStatuses == Posted \cup {"absent", "DRAFT", "CANCELLED", "removed"}

\* edit counts how often the items were replaced.
Bill == [status : BillStatuses, units : Nat, edit : Nat, total : Nat, paid : Nat]

NoBillYet == [status |-> "absent", units |-> 0, edit |-> 0, total |-> 0, paid |-> 0]

\* row: the bill as it was checked; n: the new units or the payment; saw: what
\* recalculate has read of it; next: the row it will write.
Doing ==
  [op : {"none", "update", "remove", "add", "drop", "post", "cancel", "pay"},
   at : Bills \cup {NoBill}, row : Bill, n : Nat, summed : BOOLEAN, saw : BillStatuses, next : Bill]

Nothing ==
  [op |-> "none", at |-> NoBill, row |-> NoBillYet, n |-> 0, summed |-> FALSE,
   saw |-> "absent", next |-> NoBillYet]

PurchaseInit ==
  /\ bill = [b \in Bills |-> NoBillYet]
  /\ costs = [b \in Bills |-> 0]
  /\ payments = [b \in Bills |-> 0]
  /\ brought = [b \in Bills |-> 0]
  /\ credited = [b \in Bills |-> 0]
  /\ billBooks = [b \in Bills |-> NoEntries]
  /\ doing = [c \in Buyers |-> Nothing]
  /\ contested = {}
  /\ reverted = {}
  /\ billUnmapped = {}

Kept(b) == bill[b].status \notin {"absent", "removed"}

\* Inserting a landed cost or a payment locks the key of the bill it refers to:
\* FOR UPDATE and DELETE wait for it, an update of other columns does not.
Referenced(b) ==
  \E c \in Buyers : doing[c].at = b /\ doing[c].summed /\ doing[c].op \in {"add", "pay"}

Ends(c) == doing' = [doing EXCEPT ![c] = Nothing]

\* recalculate: the row with its derived columns, from c landed costs and
\* payments of p in all.
Recalculated(row, c, p) ==
  LET total == row.units + c
  IN  [row EXCEPT !.total = total, !.paid = p,
        !.status = IF @ \notin Posted THEN @
                   ELSE IF p >= total THEN "PAID"
                   ELSE IF p > 0 THEN "PARTIALLY_PAID" ELSE "POSTED"]

-----------------------------------------------------------------------------
(* What a request reads and checks before its transaction *)

CreatePurchaseInvoice(b) ==
  /\ bill[b].status = "absent"
  /\ \E n \in BillUnits :
       bill' = [bill EXCEPT ![b] = Recalculated([@ EXCEPT !.status = "DRAFT", !.units = n], 0, 0)]
  /\ UNCHANGED <<costs, payments, brought, credited, billBooks, doing, contested, reverted, billUnmapped>>

Read(c, b, op, n) ==
  /\ doing[c] = Nothing
  /\ doing' = [doing EXCEPT ![c] = [Nothing EXCEPT !.op = op, !.at = b, !.row = bill[b], !.n = n]]
  /\ contested' = IF \E d \in Buyers : doing[d].at = b THEN contested \cup {b} ELSE contested
  /\ UNCHANGED <<bill, costs, payments, brought, credited, billBooks, reverted, billUnmapped>>

\* requireDraft, and the check of post
ReadDraft(c, b) ==
  /\ bill[b].status = "DRAFT"
  /\ \/ \E n \in BillUnits : Read(c, b, "update", n)
     \/ \E op \in {"remove", "add", "drop", "post"} : Read(c, b, op, 0)

ReadBillForCancel(c, b) ==
  /\ Kept(b)
  /\ bill[b].status # "CANCELLED"
  /\ Read(c, b, "cancel", 0)

ReadBillForPayment(c, b) ==
  /\ bill[b].status \in Posted
  /\ \E n \in Payments : n <= bill[b].total - bill[b].paid /\ Read(c, b, "pay", n)

-----------------------------------------------------------------------------
(* Transactions *)

\* postWithin, which skips an entry of unmapped roles
BookBill(b, ref, value) ==
  \/ billBooks' = [billBooks EXCEPT ![b] = Booked(@, ref, value)] /\ UNCHANGED billUnmapped
  \/ UNCHANGED billBooks /\ billUnmapped' = billUnmapped \cup {b}

UpdatePurchaseInvoice(c) ==
  LET d == doing[c]
      row == [bill[d.at] EXCEPT !.units = d.n, !.edit = @ + 1]
  IN  /\ d.op = "update"
      /\ Kept(d.at)
      /\ bill' = [bill EXCEPT ![d.at] = Recalculated(row, costs[d.at], payments[d.at])]
      /\ Ends(c)
      /\ UNCHANGED <<costs, payments, brought, credited, billBooks, contested, reverted, billUnmapped>>

RemovePurchaseInvoice(c) ==
  LET d == doing[c]
  IN  /\ d.op = "remove"
      /\ Kept(d.at)
      /\ ~Referenced(d.at)
      /\ bill' = [bill EXCEPT ![d.at].status = "removed"]
      /\ Ends(c)
      /\ UNCHANGED <<costs, payments, brought, credited, billBooks, contested, reverted, billUnmapped>>

\* Mutant of StillDraft: the locked row is read but its status not compared.
StillThere(d) == bill[d.at].edit = d.row.edit

\* What post looks at again on the row it has locked; the update of an item
\* that has been replaced throws.
StillDraft(d) == bill[d.at].status = "DRAFT" /\ bill[d.at].edit = d.row.edit

\* The items that were read come in, and onto the line of their order.
PostPurchaseInvoice(c) ==
  LET d == doing[c]
      b == d.at
      row == [bill[b] EXCEPT !.status = "POSTED"]
  IN  /\ d.op = "post"
      /\ Kept(b)
      /\ ~Referenced(b)
      /\ StillDraft(d)
      /\ brought' = [brought EXCEPT ![b] = @ + d.row.units]
      /\ credited' = [credited EXCEPT ![b] = @ + 1]
      /\ bill' = [bill EXCEPT ![b] = Recalculated(row, costs[b], payments[b])]
      /\ BookBill(b, "post", bill'[b].total)
      /\ Ends(c)
      /\ UNCHANGED <<costs, payments, contested, reverted>>

\* A draft is only marked; otherwise the items go out, paid or not, and the
\* order keeps what it was credited with.
CancelPurchaseInvoice(c) ==
  LET d == doing[c]
      b == d.at
  IN  /\ d.op = "cancel"
      /\ Kept(b)
      /\ bill' = [bill EXCEPT ![b].status = "CANCELLED"]
      /\ IF d.row.status = "DRAFT" THEN UNCHANGED <<brought, billBooks, billUnmapped>>
         ELSE /\ brought' = [brought EXCEPT ![b] = @ - d.row.units]
              /\ BookBill(b, "reverse", -d.row.total)
      /\ Ends(c)
      /\ UNCHANGED <<costs, payments, credited, contested, reverted>>

\* Mutant of CostsAfter: a cost that is no longer there is taken off the sum.
CostsUnchecked(d) ==
  costs[d.at] + (IF d.op = "add" THEN 1 ELSE IF d.op = "drop" THEN -1 ELSE 0)

\* addLandedCost, removeLandedCost and addPayment write their own row, which
\* nobody else sees yet, and recalculate reads...
CostsAfter(d) ==
  LET n == costs[d.at]
  IN  CASE d.op = "add" -> n + 1
        [] d.op = "drop" -> IF n > 0 THEN n - 1 ELSE 0
        [] OTHER -> n

PaidAfter(d) == payments[d.at] + (IF d.op = "pay" THEN d.n ELSE 0)

Recalculate(c) ==
  LET d == doing[c]
  IN  /\ d.op \in {"add", "drop", "pay"}
      /\ ~d.summed
      /\ Kept(d.at)
      /\ doing' = [doing EXCEPT ![c].summed = TRUE, ![c].saw = bill[d.at].status,
           ![c].next = Recalculated(bill[d.at], CostsAfter(d), PaidAfter(d))]
      /\ UNCHANGED <<bill, costs, payments, brought, credited, billBooks, contested, reverted, billUnmapped>>

\* ...and writes the columns it has computed over whatever was committed since.
CommitRecalculated(c) ==
  LET d == doing[c]
      b == d.at
  IN  /\ d.summed
      /\ Kept(b)
      /\ costs' = [costs EXCEPT ![b] = CostsAfter(d)]
      /\ payments' = [payments EXCEPT ![b] = PaidAfter(d)]
      /\ bill' = [bill EXCEPT ![b].total = d.next.total, ![b].paid = d.next.paid,
                              ![b].status = d.next.status]
      /\ reverted' = IF bill[b].status # d.saw THEN reverted \cup {b} ELSE reverted
      /\ Ends(c)
      /\ UNCHANGED <<brought, credited, billBooks, contested, billUnmapped>>

\* A check fails, the transaction is rolled back, the process stops.
FailPurchase(c) ==
  /\ doing[c] # Nothing
  /\ Ends(c)
  /\ UNCHANGED <<bill, costs, payments, brought, credited, billBooks, contested, reverted, billUnmapped>>

StartPurchase(c) ==
  \E b \in Bills : ReadDraft(c, b) \/ ReadBillForCancel(c, b) \/ ReadBillForPayment(c, b)

ContinuePurchase(c) ==
  \/ UpdatePurchaseInvoice(c) \/ RemovePurchaseInvoice(c) \/ PostPurchaseInvoice(c)
  \/ CancelPurchaseInvoice(c) \/ Recalculate(c) \/ CommitRecalculated(c) \/ FailPurchase(c)

PurchaseNext ==
  \/ \E b \in Bills : CreatePurchaseInvoice(b)
  \/ \E c \in Buyers : StartPurchase(c) \/ ContinuePurchase(c)

PurchaseSpec == PurchaseInit /\ [][PurchaseNext]_purchaseVars

-----------------------------------------------------------------------------
(* Properties *)

\* Types.
PurchaseInvoicesTypeOK ==
  /\ bill \in [Bills -> Bill]
  /\ costs \in [Bills -> Nat]
  /\ payments \in [Bills -> Nat]
  /\ brought \in [Bills -> Int]
  /\ credited \in [Bills -> Nat]
  /\ \A b \in Bills : DOMAIN billBooks[b] \subseteq {"post", "reverse"}
  /\ doing \in [Buyers -> Doing]
  /\ contested \subseteq Bills
  /\ reverted \subseteq contested
  /\ billUnmapped \subseteq Bills

\* "Taking the row lock here forces the second request to wait, re-read the (now
\* POSTED) row, and stop": however postings, edits, costs and payments overlap,
\* the goods of a bill come in, and onto their order, once.  Only a recalculation
\* that sets the status back lets it be posted again.
GoodsComeInOnce ==
  \A b \in Bills \ reverted :
    /\ credited[b] <= 1
    /\ bill[b].status \in Posted => credited[b] = 1

\* "Books move with the goods": while no two requests on a bill overlap, the stock
\* and the books show its goods exactly while it is posted.
BooksMoveWithGoods ==
  \A b \in Bills \ contested :
    /\ brought[b] = IF bill[b].status \in Posted THEN bill[b].units ELSE 0
    /\ b \notin billUnmapped =>
         Balance(billBooks[b]) = IF bill[b].status \in Posted THEN bill[b].total ELSE 0

\* A bill's goods come in once, and with its books.
PurchasesMoveGoodsOnce == GoodsComeInOnce /\ BooksMoveWithGoods

\* What a bill shows as paid was recorded, whatever recalculations race; and it
\* shows all of it, with the status to it, where requests do not overlap.
PaidWasRecorded ==
  \A b \in Bills :
    /\ bill[b].paid <= payments[b]
    /\ b \notin contested =>
         /\ bill[b].paid = payments[b]
         /\ bill[b].status \in Posted => (bill[b].status = "PAID" <=> payments[b] >= bill[b].total)
=============================================================================
