---------------------------- MODULE SalesInvoices ----------------------------
(***************************************************************************)
(* SalesInvoicesService                                                    *)
(* (src/backend-nest/src/sales-invoices/sales-invoices.service.ts): the    *)
(* invoices of one customer, for one product that costs and sells for one. *)
(* A request reads and checks the invoice, then runs its transaction.  A   *)
(* transaction is one step: two of an invoice wait for each other at the   *)
(* first row both write, and what it does to the stock it does in calls of *)
(* InventoryService, which AtomicStock shows to be one step.               *)
(***************************************************************************)
EXTENDS LedgerPosting, Sequences, Functions

CONSTANTS
  Invoices,    \* sales_invoices rows
  NoInvoice,   \* the invoice of a request that has none
  Clerks,      \* the requests in progress
  Lines,       \* the units an invoice may be of
  Amounts,     \* the payments that are offered
  Limit        \* the customer's creditLimit

ASSUME InvoicesAssumption == IsFiniteSet(Invoices)
ASSUME LimitAssumption == Limit \in Nat \ {0}
ASSUME LinesAssumption == Lines \subseteq Nat \ {0}
ASSUME AmountsAssumption == Amounts \subseteq Nat \ {0}
ASSUME NoInvoiceAssumption == NoInvoice \notin Invoices

VARIABLES
  invoice,     \* invoice[i]: its row and its items
  notes,       \* notes[i]: its delivery notes
  shipped,     \* shipped[i]: the movements of i out of the stock, less those back
  books,       \* books[i]: its journal entries
  received,    \* received[i]: the payments recorded, as its order's payments show
  asked,       \* asked[c]: what request c has read
  overlapped,  \* invoices on which two requests overlapped...
  crossed,     \* ...one of which edits, removes or cancels it
  unmapped,    \* invoices an entry of which was skipped for want of an account
  rushed       \* two postings have checked the credit limit at once

salesVars ==
  <<invoice, notes, shipped, books, received, asked, overlapped, crossed, unmapped, rushed>>

Open == {"POSTED", "PARTIALLY_PAID"}
Statuses == Open \cup {"absent", "DRAFT", "PAID", "CANCELLED", "removed"}

\* edit counts how often the items were replaced: new items have new ids.
Invoice == [status : Statuses, units : Nat, edit : Nat, paid : Nat]

NoneYet == [status |-> "absent", units |-> 0, edit |-> 0, paid |-> 0]

Note == [units : Nat, status : {"issued", "delivered", "cancelled"}]

\* n: the amount, the new units or the note; granted: the credit was checked.
Asked ==
  [op : {"none", "update", "remove", "post", "cancel", "pay", "deliver"},
   at : Invoices \cup {NoInvoice}, row : Invoice, back : Nat, n : Nat, granted : BOOLEAN]

NotAsked ==
  [op |-> "none", at |-> NoInvoice, row |-> NoneYet, back |-> 0, n |-> 0, granted |-> FALSE]

SalesInit ==
  /\ invoice = [i \in Invoices |-> NoneYet]
  /\ notes = [i \in Invoices |-> << >>]
  /\ shipped = [i \in Invoices |-> 0]
  /\ books = [i \in Invoices |-> NoEntries]
  /\ received = [i \in Invoices |-> 0]
  /\ asked = [c \in Clerks |-> NotAsked]
  /\ overlapped = {}
  /\ crossed = {}
  /\ unmapped = {}
  /\ rushed = FALSE

Exists(i) == invoice[i].status \notin {"absent", "removed"}

Done(c) == asked' = [asked EXCEPT ![c] = NotAsked]

\* The units of the notes at positions J of i.
NoteUnits(i, J) == SumFunctionOnSet([j \in DOMAIN notes[i] |-> notes[i][j].units], J)

-----------------------------------------------------------------------------
(* What a request reads and checks before its transaction *)

CreateSalesInvoice(i) ==
  /\ invoice[i].status = "absent"
  /\ \E n \in Lines : invoice' = [invoice EXCEPT ![i].status = "DRAFT", ![i].units = n]
  /\ UNCHANGED <<notes, shipped, books, received, asked, overlapped, crossed, unmapped, rushed>>

Disturbing == {"update", "remove", "cancel"}

Ask(c, i, op, n) ==
  LET others == {asked[d].op : d \in {d \in Clerks : asked[d].at = i}}
  IN  /\ asked[c] = NotAsked
      /\ asked' = [asked EXCEPT ![c] =
           [op |-> op, at |-> i, row |-> invoice[i], n |-> n, granted |-> FALSE,
            back |-> NoteUnits(i, DOMAIN notes[i])]]
      /\ overlapped' = IF others # {} THEN overlapped \cup {i} ELSE overlapped
      /\ crossed' = IF others # {} /\ ({op} \cup others) \cap Disturbing # {}
                    THEN crossed \cup {i} ELSE crossed
      /\ UNCHANGED <<invoice, notes, shipped, books, received, unmapped, rushed>>

\* requireDraft
ReadForUpdate(c, i) == invoice[i].status = "DRAFT" /\ \E n \in Lines : Ask(c, i, "update", n)
ReadForRemove(c, i) == invoice[i].status = "DRAFT" /\ Ask(c, i, "remove", 0)
ReadForPost(c, i) == invoice[i].status = "DRAFT" /\ Ask(c, i, "post", 0)

ReadForCancel(c, i) ==
  /\ Exists(i)
  /\ invoice[i].status # "CANCELLED"
  /\ invoice[i].status # "DRAFT" => invoice[i].paid = 0
  /\ Ask(c, i, "cancel", 0)

\* Mutant of ReadForPayment: the amount is not compared with the balance.
ReadForAnyPayment(c, i) ==
  /\ Exists(i)
  /\ invoice[i].status \notin {"DRAFT", "CANCELLED"}
  /\ \E n \in Amounts : Ask(c, i, "pay", n)

ReadForPayment(c, i) ==
  /\ Exists(i)
  /\ invoice[i].status \notin {"DRAFT", "CANCELLED"}
  /\ \E n \in Amounts : n <= invoice[i].units - invoice[i].paid /\ Ask(c, i, "pay", n)

ReadForDelivery(c, i) ==
  \E j \in DOMAIN notes[i] : notes[i][j].status # "cancelled" /\ Ask(c, i, "deliver", j)

\* What the customer owes on invoices I.
Owed(I) == SumFunctionOnSet([i \in Invoices |-> invoice[i].units - invoice[i].paid],
                            {i \in I : invoice[i].status \in Open})

\* Mutant of CreditLeft: what other invoices are open is not counted.
CreditForThis(i, n) == n <= Limit

CreditLeft(i, n) == Owed(Invoices \ {i}) + n <= Limit

\* assertCreditLimit
AssertCreditLimit(c) ==
  /\ asked[c].op = "post"
  /\ ~asked[c].granted
  /\ CreditLeft(asked[c].at, asked[c].row.units)
  /\ asked' = [asked EXCEPT ![c].granted = TRUE]
  /\ rushed' = (rushed \/ \E d \in Clerks : asked[d].op = "post" /\ asked[d].granted)
  /\ UNCHANGED <<invoice, notes, shipped, books, received, overlapped, crossed, unmapped>>

-----------------------------------------------------------------------------
(* Transactions *)

\* postWithin, which skips an entry of unmapped roles
Book(i, ref, value) ==
  \/ books' = [books EXCEPT ![i] = Booked(@, ref, value)] /\ UNCHANGED unmapped
  \/ UNCHANGED books /\ unmapped' = unmapped \cup {i}

UpdateSalesInvoice(c) ==
  LET a == asked[c]
  IN  /\ a.op = "update"
      /\ Exists(a.at)
      /\ invoice' = [invoice EXCEPT ![a.at].units = a.n, ![a.at].edit = @ + 1]
      /\ Done(c)
      /\ UNCHANGED <<notes, shipped, books, received, overlapped, crossed, unmapped, rushed>>

\* The delivery notes stay behind (ON DELETE SET NULL).
RemoveSalesInvoice(c) ==
  LET a == asked[c]
  IN  /\ a.op = "remove"
      /\ Exists(a.at)
      /\ invoice' = [invoice EXCEPT ![a.at].status = "removed"]
      /\ Done(c)
      /\ UNCHANGED <<notes, shipped, books, received, overlapped, crossed, unmapped, rushed>>

\* The items that were read leave the stock, with a delivery note; the update
\* of an item that is no longer there throws.  The status is not looked at again.
PostSalesInvoice(c) ==
  LET a == asked[c]
      i == a.at
  IN  /\ a.op = "post"
      /\ a.granted
      /\ Exists(i) /\ invoice[i].edit = a.row.edit
      /\ shipped' = [shipped EXCEPT ![i] = @ + a.row.units]
      /\ notes' = [notes EXCEPT ![i] = Append(@, [units |-> a.row.units, status |-> "issued"])]
      /\ invoice' = [invoice EXCEPT ![i].status = "POSTED"]
      /\ Book(i, "post", a.row.units)
      /\ Done(c)
      /\ UNCHANGED <<received, overlapped, crossed, rushed>>

\* Mutant of WithCancelledNotes: the notes of a cancelled invoice stay issued.
WithNotesKept(i) == notes[i]

WithCancelledNotes(i) == [j \in DOMAIN notes[i] |-> [notes[i][j] EXCEPT !.status = "cancelled"]]

\* A draft is only marked; otherwise the goods of the notes that were read return.
CancelSalesInvoice(c) ==
  LET a == asked[c]
      i == a.at
  IN  /\ a.op = "cancel"
      /\ Exists(i)
      /\ invoice' = [invoice EXCEPT ![i].status = "CANCELLED"]
      /\ IF a.row.status = "DRAFT" THEN UNCHANGED <<notes, shipped, books, unmapped>>
         ELSE /\ shipped' = [shipped EXCEPT ![i] = @ - a.back]
              /\ notes' = [notes EXCEPT ![i] = WithCancelledNotes(i)]
              /\ Book(i, "reverse", -a.row.units)
      /\ Done(c)
      /\ UNCHANGED <<received, overlapped, crossed, rushed>>

\* paidAmount and status are what the balance that was read makes them.
AddSalesPayment(c) ==
  LET a == asked[c]
      paid == a.row.paid + a.n
  IN  /\ a.op = "pay"
      /\ Exists(a.at)
      /\ received' = [received EXCEPT ![a.at] = @ + a.n]
      /\ invoice' = [invoice EXCEPT ![a.at].paid = paid,
           ![a.at].status = IF paid >= a.row.units THEN "PAID" ELSE "PARTIALLY_PAID"]
      /\ Done(c)
      /\ UNCHANGED <<notes, shipped, books, overlapped, crossed, unmapped, rushed>>

MarkDelivered(c) ==
  LET a == asked[c]
  IN  /\ a.op = "deliver"
      /\ notes' = [notes EXCEPT ![a.at][a.n].status = "delivered"]
      /\ Done(c)
      /\ UNCHANGED <<invoice, shipped, books, received, overlapped, crossed, unmapped, rushed>>

\* A check fails, the transaction is rolled back, the process stops.
FailSales(c) ==
  /\ asked[c] # NotAsked
  /\ Done(c)
  /\ UNCHANGED <<invoice, notes, shipped, books, received, overlapped, crossed, unmapped, rushed>>

StartSales(c) ==
  \E i \in Invoices :
    \/ ReadForUpdate(c, i) \/ ReadForRemove(c, i) \/ ReadForPost(c, i)
    \/ ReadForCancel(c, i) \/ ReadForPayment(c, i) \/ ReadForDelivery(c, i)

ContinueSales(c) ==
  \/ AssertCreditLimit(c) \/ PostSalesInvoice(c) \/ CancelSalesInvoice(c)
  \/ UpdateSalesInvoice(c) \/ RemoveSalesInvoice(c) \/ AddSalesPayment(c)
  \/ MarkDelivered(c) \/ FailSales(c)

SalesNext ==
  \/ \E i \in Invoices : CreateSalesInvoice(i)
  \/ \E c \in Clerks : StartSales(c) \/ ContinueSales(c)

SalesSpec == SalesInit /\ [][SalesNext]_salesVars

-----------------------------------------------------------------------------
(* Properties *)

\* Types.
SalesInvoicesTypeOK ==
  /\ invoice \in [Invoices -> Invoice]
  /\ notes \in [Invoices -> Seq(Note)]
  /\ shipped \in [Invoices -> Int]
  /\ \A i \in Invoices : DOMAIN books[i] \subseteq {"post", "reverse"}
  /\ received \in [Invoices -> Nat]
  /\ asked \in [Clerks -> Asked]
  /\ overlapped \subseteq Invoices
  /\ crossed \subseteq overlapped
  /\ unmapped \subseteq Invoices
  /\ rushed \in BOOLEAN

Current(i) == {j \in DOMAIN notes[i] : notes[i][j].status # "cancelled"}

\* "issuing it with the invoice keeps the two in step": the goods an invoice has
\* taken out of the stock are those on its delivery notes, even when it is posted
\* twice; it stays true while nobody edits, removes or cancels it as another
\* request runs.  And the books show the same goods, unless requests overlapped
\* or an entry was skipped.
GoodsMatchNotesAndBooks ==
  /\ \A i \in Invoices \ crossed : shipped[i] = NoteUnits(i, Current(i))
  /\ \A i \in Invoices \ (overlapped \cup unmapped) : Balance(books[i]) = shipped[i]

\* No invoice shows more paid than it is worth, whatever payments and postings
\* race; and it shows all the payments recorded if they did not.
PaidWithinTotal ==
  /\ \A i \in Invoices \ crossed : invoice[i].paid <= invoice[i].units
  /\ \A i \in Invoices \ overlapped : invoice[i].paid = received[i]

\* "Credit limit is enforced here and nowhere else": what a customer owes stays
\* within it, unless two postings checked it at once or requests on one invoice
\* overlapped.
OutstandingWithinLimit == rushed \/ overlapped # {} \/ Owed(Invoices) <= Limit
=============================================================================
