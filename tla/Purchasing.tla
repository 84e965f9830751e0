----------------------------- MODULE Purchasing -----------------------------
(***************************************************************************)
(* The purchase orders of PurchasingService                                *)
(* (src/backend-nest/src/purchasing/purchasing.service.ts) and their goods *)
(* receipts, on top of the stock transactions of Inventory.                *)
(*                                                                         *)
(* receiveGoods checks the order it has read, looks the client's receipt   *)
(* number up, and then opens one transaction for the paperwork (received   *)
(* quantities, receipt, order status) and the stock.  The paperwork's row  *)
(* locks are the order's lock here: what a receipt has written is seen,    *)
(* and the lock given up, when it commits.                                 *)
(*                                                                         *)
(* Abstracted: one location per SKU, so that a line of an order names a    *)
(* stock row; prices, totals and the product's cost; what posted bills     *)
(* credit to the received quantities (counted in PurchaseInvoices).        *)
(***************************************************************************)
EXTENDS Inventory, Functions

CONSTANTS
  Orders,      \* identifiers of purchase orders
  NoOrder,     \* the order of a request that has none
  Numbers,     \* the receipt numbers that clients choose
  Generated,   \* stands for the number the server generates
  ItemLists,   \* the lines that clients order
  Deliveries   \* the goods that clients report as received

\* A purchase_order_items row with the edit that created it; one that has been
\* deleted keeps its place with n = 0.  An entry of a receipt: so many of a line.
Line == [row : Rows, n : Nat, received : Nat, edit : Nat]
Entry == [line : Nat \ {0}, n : Nat \ {0}]

ASSUME NoOrderAssumption == NoOrder \notin Orders
ASSUME GeneratedAssumption == Generated \notin Numbers
ASSUME ItemListsAssumption ==
  /\ ItemLists \subseteq Seq(Line)
  /\ \A items \in ItemLists : \A i \in DOMAIN items :
       items[i].n > 0 /\ items[i].received = 0 /\ items[i].edit = 0
ASSUME DeliveriesAssumption == Deliveries \subseteq Seq(Entry)

VARIABLES
  orders,      \* the purchase_orders rows with their items
  receipts,    \* the goods_receipts rows in the order of their commits
  req,         \* req[p]: the request p is handling
  refused,     \* numbers of receipts whose request was refused when sent again
  overlapped,  \* orders on which two requests have overlapped, or of which one
               \* receipt names a line twice
  manual       \* orders whose status was last set by hand

purchaseVars == <<orders, receipts, req, refused, overlapped, manual>>
vars == <<stockVars, purchaseVars>>

Statuses == {"draft", "sent", "received", "cancelled"}

\* edits counts the edits of the items.
Order ==
  [status : Statuses \cup {"absent", "removed"}, items : Seq(Line), edits : Nat]

Receipt ==
  [number : Numbers \cup {Generated}, order : Orders, entries : Seq(Entry)]

NoneYet == [status |-> "absent", items |-> << >>, edits |-> 0]

Exists(o) == orders[o].status \in Statuses

\* What p is doing: the order as it was read, and for a receipt whether its
\* transaction is open.
Request ==
  [op : {"none", "update", "status", "remove", "check", "receive"},
   order : Orders \cup {NoOrder}, read : Order, status : Statuses,
   number : Numbers \cup {Generated}, entries : Seq(Entry)]

NoRequest ==
  [op |-> "none", order |-> NoOrder, read |-> NoneYet, status |-> "draft",
   number |-> Generated, entries |-> << >>]

PurchaseInit ==
  /\ StockInit
  /\ orders = [o \in Orders |-> NoneYet]
  /\ receipts = << >>
  /\ req = [p \in Procs |-> NoRequest]
  /\ refused = {}
  /\ overlapped = {}
  /\ manual = {}

-----------------------------------------------------------------------------
(* Receipts *)

\* The units of line i that a list of entries brings.
Brought(entries, i) ==
  SumFunction([j \in DOMAIN entries |-> IF entries[j].line = i THEN entries[j].n ELSE 0])

\* The line is there.
Live(items, i) == i \in DOMAIN items /\ items[i].n > 0

\* Mutant of WithinRemaining: what has been received before is forgotten.
WithinOrdered(items, entries) ==
  \A j \in DOMAIN entries :
    LET i == entries[j].line
    IN  Live(items, i) /\ entries[j].n <= items[i].n

\* Each entry is compared with the remaining quantity on its own.
WithinRemaining(items, entries) ==
  \A j \in DOMAIN entries :
    LET i == entries[j].line
    IN  Live(items, i) /\ entries[j].n <= items[i].n - items[i].received

\* Mutant of WithReceived: the column is taken for what is still to come.
WithoutReceived(items, entries) ==
  [i \in DOMAIN items |-> [items[i] EXCEPT !.received = @ - Brought(entries, i)]]

\* receivedQuantity: { increment }
WithReceived(items, entries) ==
  [i \in DOMAIN items |-> [items[i] EXCEPT !.received = @ + Brought(entries, i)]]

AllReceived(items) == \A i \in DOMAIN items : items[i].received >= items[i].n

StockCalls(items, entries) ==
  [j \in DOMAIN entries |-> Apply(items[entries[j].line].row, entries[j].n)]

Recorded(number) == \E r \in DOMAIN receipts : receipts[r].number = number

ReceiptsOf(o) == {r \in DOMAIN receipts : receipts[r].order = o}

-----------------------------------------------------------------------------
(* Requests *)

Idle(p) == req[p].op = "none" /\ pc[p] = "idle"

Handling(p, op) == req[p].op = op

\* A receipt's transaction holds the row locks of the order and its items, and
\* the key of its number in the unique index.
Locked(o) == \E p \in Procs : Handling(p, "receive") /\ req[p].order = o

NumberTaken(number) == \E p \in Procs : Handling(p, "receive") /\ req[p].number = number

Twice(entries) == \E i, j \in DOMAIN entries : i # j /\ entries[i].line = entries[j].line

Starts(p, r) ==
  /\ req' = [req EXCEPT ![p] = r]
  /\ overlapped' =
       IF \/ \E q \in Procs \ {p} : req[q].order = r.order
          \/ Twice(r.entries)
       THEN overlapped \cup {r.order} ELSE overlapped

Done(p) == req' = [req EXCEPT ![p] = NoRequest]

OrderRequest(op, o) == [NoRequest EXCEPT !.op = op, !.order = o, !.read = orders[o]]

\* createPurchaseOrder
CreatePurchaseOrder(o, items) ==
  /\ orders[o].status = "absent"
  /\ orders' = [orders EXCEPT ![o] = [NoneYet EXCEPT !.status = "draft", !.items = items]]
  /\ UNCHANGED <<stockVars, receipts, req, refused, overlapped, manual>>

\* updatePurchaseOrder reads the order...
ReadForUpdate(p, o) ==
  /\ Idle(p)
  /\ orders[o].status = "draft"
  /\ Starts(p, OrderRequest("update", o))
  /\ UNCHANGED <<stockVars, orders, receipts, refused, manual>>

\* deleteMany deletes the lines its snapshot shows, those of the first `seen'
\* edits, and createMany adds the new ones: the lines of an edit that commits
\* while deleteMany waits for its locks stay.
Replaced(order, seen, items) ==
  LET deleted == [i \in DOMAIN order.items |->
                    IF order.items[i].edit > seen THEN order.items[i]
                    ELSE [order.items[i] EXCEPT !.n = 0]]
      new == [i \in DOMAIN items |-> [items[i] EXCEPT !.edit = order.edits + 1]]
  IN  [order EXCEPT !.items = deleted \o new, !.edits = @ + 1]

\* A receipt refers to one of the lines: they cannot be deleted (onDelete:
\* Restrict).
RefersTo(receipt, lines) ==
  \E j \in DOMAIN receipt.entries : receipt.entries[j].line \in lines

\* ...and replaces its items, unless the request has none.
UpdatePurchaseOrder(p) ==
  /\ Handling(p, "update")
  /\ LET o == req[p].order
     IN  /\ Exists(o)
         /\ ~Locked(o)
         /\ \/ \E items \in ItemLists, seen \in req[p].read.edits..orders[o].edits :
                 LET lines == {i \in DOMAIN orders[o].items : orders[o].items[i].edit <= seen}
                 IN  /\ \A r \in ReceiptsOf(o) : ~RefersTo(receipts[r], lines)
                     /\ orders' = [orders EXCEPT ![o] = Replaced(@, seen, items)]
            \/ UNCHANGED orders
  /\ Done(p)
  /\ UNCHANGED <<stockVars, receipts, refused, overlapped, manual>>

\* changePurchaseOrderStatus: from any status to any other, except that a
\* received order cannot be cancelled.
ReadForStatus(p, o, status) ==
  /\ Idle(p)
  /\ Exists(o)
  /\ status = "cancelled" => orders[o].status # "received"
  /\ Starts(p, [OrderRequest("status", o) EXCEPT !.status = status])
  /\ UNCHANGED <<stockVars, orders, receipts, refused, manual>>

ChangePurchaseOrderStatus(p) ==
  /\ Handling(p, "status")
  /\ LET o == req[p].order
     IN  /\ Exists(o)
         /\ ~Locked(o)
         /\ orders' = [orders EXCEPT ![o].status = req[p].status]
         /\ manual' = manual \cup {o}
  /\ Done(p)
  /\ UNCHANGED <<stockVars, receipts, refused, overlapped>>

\* Mutant of RemovePurchaseOrder: receipts are looked for before, not at, the
\* deletion, which takes them with it.
RemoveWithReceipts(p) ==
  /\ Handling(p, "remove")
  /\ LET o == req[p].order
     IN  /\ Exists(o)
         /\ ~Locked(o)
         /\ orders' = [orders EXCEPT ![o].status = "removed", ![o].items = << >>]
  /\ Done(p)
  /\ UNCHANGED <<stockVars, receipts, refused, overlapped, manual>>

\* removePurchaseOrder.  Deleting an order deletes its items (onDelete:
\* Cascade), which fails when a receipt refers to them.
ReadForRemove(p, o) ==
  /\ Idle(p)
  /\ Exists(o)
  /\ orders[o].status # "received"
  /\ ReceiptsOf(o) = {}
  /\ Starts(p, OrderRequest("remove", o))
  /\ UNCHANGED <<stockVars, orders, receipts, refused, manual>>

RemovePurchaseOrder(p) ==
  /\ Handling(p, "remove")
  /\ LET o == req[p].order
     IN  /\ Exists(o)
         /\ ~Locked(o)
         /\ ReceiptsOf(o) = {}
         /\ orders' = [orders EXCEPT ![o].status = "removed", ![o].items = << >>]
  /\ Done(p)
  /\ UNCHANGED <<stockVars, receipts, refused, overlapped, manual>>

-----------------------------------------------------------------------------
(* receiveGoods *)

\* The order is there and not cancelled, and every entry passes its check...
ReadForReceipt(p, o, entries, number) ==
  /\ Idle(p)
  /\ Exists(o)
  /\ orders[o].status # "cancelled"
  /\ WithinRemaining(orders[o].items, entries)
  /\ Starts(p, [OrderRequest("check", o) EXCEPT !.number = number, !.entries = entries])
  /\ UNCHANGED <<stockVars, orders, receipts, refused, manual>>

\* ...or the request is refused.
RefuseReceipt(p, o, entries, number) ==
  /\ Idle(p)
  /\ Exists(o)
  /\ \/ orders[o].status = "cancelled"
     \/ ~WithinRemaining(orders[o].items, entries)
  /\ refused' = IF \E r \in ReceiptsOf(o) : /\ receipts[r].number = number
                                            /\ receipts[r].entries = entries
                THEN refused \cup ({number} \ {Generated}) ELSE refused
  /\ UNCHANGED <<stockVars, orders, receipts, req, overlapped, manual>>

\* A number the client has used before: its receipt is the answer, or a
\* conflict when it is another order's.
AnswerFromReceipt(p) ==
  /\ Handling(p, "check")
  /\ req[p].number # Generated
  /\ Recorded(req[p].number)
  /\ Done(p)
  /\ UNCHANGED <<stockVars, orders, receipts, refused, overlapped, manual>>

\* Mutant of BookReceipt: a number is free unless a committed receipt has it.
BookUnlessRecorded(p) ==
  /\ Handling(p, "check")
  /\ LET o == req[p].order
         number == req[p].number
     IN  /\ Exists(o)
         /\ \A j \in DOMAIN req[p].entries : Live(orders[o].items, req[p].entries[j].line)
         /\ ~Locked(o)
         /\ number # Generated => ~Recorded(number)
         /\ Begin(p, StockCalls(orders[o].items, req[p].entries))
  /\ req' = [req EXCEPT ![p].op = "receive"]
  /\ UNCHANGED <<orders, receipts, refused, overlapped, manual>>

\* The transaction opens and writes the paperwork: it needs the lines it has
\* read and a number that no receipt has, and waits for the order's locks.
BookReceipt(p) ==
  /\ Handling(p, "check")
  /\ LET o == req[p].order
         number == req[p].number
     IN  /\ Exists(o)
         /\ \A j \in DOMAIN req[p].entries : Live(orders[o].items, req[p].entries[j].line)
         /\ ~Locked(o)
         /\ number # Generated => ~Recorded(number) /\ ~NumberTaken(number)
         /\ Begin(p, StockCalls(orders[o].items, req[p].entries))
  /\ req' = [req EXCEPT ![p].op = "receive"]
  /\ UNCHANGED <<orders, receipts, refused, overlapped, manual>>

\* What a receipt leaves in its order and among the receipts; its status comes
\* from the order as it was read.
Booked(p, items) ==
  LET o == req[p].order
      entries == req[p].entries
      status == IF AllReceived(WithReceived(req[p].read.items, entries))
                THEN "received" ELSE "sent"
  IN  /\ orders' = [orders EXCEPT ![o].items = WithReceived(items, entries),
                                  ![o].status = status]
      /\ receipts' = Append(receipts,
           [number |-> req[p].number, order |-> o, entries |-> entries])
      /\ manual' = manual \ {o}
      /\ Done(p)
      /\ UNCHANGED <<refused, overlapped>>

\* Mutant of CommitReceipt: absolute quantities, from the order that was read.
CommitReadQuantities(p) ==
  /\ Handling(p, "receive")
  /\ Commit(p)
  /\ Booked(p, req[p].read.items)

\* Once the stock has moved everything commits.
CommitReceipt(p) ==
  /\ Handling(p, "receive")
  /\ Commit(p)
  /\ Booked(p, orders[req[p].order].items)

StockStatement(p) ==
  /\ Statement(p)
  /\ IF pc'[p] = "idle" THEN Done(p) ELSE UNCHANGED req
  /\ UNCHANGED <<orders, receipts, refused, overlapped, manual>>

\* The handler throws (a row is gone, a foreign key or the unique index
\* objects, a deadlock, a timeout) or the server stops.
Fail(p) ==
  /\ ~Idle(p)
  /\ IF pc[p] = "idle" THEN UNCHANGED stockVars ELSE Rollback(p)
  /\ Done(p)
  /\ UNCHANGED <<orders, receipts, refused, overlapped, manual>>

-----------------------------------------------------------------------------
Start(p) ==
  \E o \in Orders :
    \/ ReadForUpdate(p, o)
    \/ \E status \in Statuses : ReadForStatus(p, o, status)
    \/ ReadForRemove(p, o)
    \/ \E entries \in Deliveries, number \in Numbers \cup {Generated} :
         \/ ReadForReceipt(p, o, entries, number)
         \/ RefuseReceipt(p, o, entries, number)

Continue(p) ==
  \/ UpdatePurchaseOrder(p)
  \/ ChangePurchaseOrderStatus(p)
  \/ RemovePurchaseOrder(p)
  \/ AnswerFromReceipt(p)
  \/ BookReceipt(p)
  \/ CommitReceipt(p)
  \/ StockStatement(p)
  \/ Fail(p)

PurchaseNext ==
  \/ \E o \in Orders, items \in ItemLists : CreatePurchaseOrder(o, items)
  \/ \E p \in Procs : Start(p) \/ Continue(p)

PurchaseSpec == PurchaseInit /\ [][PurchaseNext]_vars

-----------------------------------------------------------------------------
(* Properties *)

\* Types.
PurchaseTypeOK ==
  /\ StockTypeOK
  /\ orders \in [Orders -> Order]
  /\ receipts \in Seq(Receipt)
  /\ req \in [Procs -> Request]
  /\ refused \subseteq Numbers
  /\ overlapped \subseteq Orders
  /\ manual \subseteq Orders

\* Every receipt is a receipt of lines that still exist: no race between
\* receiveGoods and an edit or a deletion of the order, each of which checked
\* only what it had read, leaves goods in stock without their order.
ReceiptsKeepTheirOrder ==
  \A r \in DOMAIN receipts :
    LET receipt == receipts[r]
    IN  /\ Exists(receipt.order)
        /\ \A j \in DOMAIN receipt.entries :
             Live(orders[receipt.order].items, receipt.entries[j].line)

\* receivedQuantity is the sum of the receipts of a line, concurrent receipts
\* and rolled back ones included (receiveGoods increments it).
ReceivedMatchesReceipts ==
  \A o \in Orders : \A i \in DOMAIN orders[o].items :
    orders[o].items[i].received =
      SumFunction([r \in ReceiptsOf(o) |-> Brought(receipts[r].entries, i)])

\* "Receipt, received quantities, order status and stock now succeed or fail as
\* one unit": at any moment the committed stock is what the committed receipts
\* have brought in.
StockMatchesReceipts ==
  \A k \in Rows :
    stock[k].moved = Opening[k] +
      SumFunction([r \in DOMAIN receipts |->
        LET items == orders[receipts[r].order].items
        IN  SumFunction([i \in DOMAIN items |->
              IF items[i].row = k THEN Brought(receipts[r].entries, i) ELSE 0])])

\* A receipt number "gets the original receipt back rather than receiving the
\* goods a second time", also when two retries run at once.
OneReceiptPerNumber ==
  \A r, s \in DOMAIN receipts :
    receipts[r].number = receipts[s].number => r = s \/ receipts[r].number = Generated

\* A receipt stays what its user recorded: goods for lines of an order that still
\* exist, and one number's goods only once.
ReceiptsAreKept == ReceiptsKeepTheirOrder /\ OneReceiptPerNumber

\* No line receives more than was ordered, as long as requests on one order do
\* not overlap and no receipt names a line twice (receiveGoods checks each
\* entry against the quantities it has read).
ReceivedWithinOrdered ==
  \A o \in Orders \ overlapped : \A i \in DOMAIN orders[o].items :
    orders[o].items[i].received <= orders[o].items[i].n

\* Under the same condition, and unless somebody has set it by hand, the status
\* says whether everything, something or nothing has been received.
StatusMatchesReceipts ==
  \A o \in Orders \ (overlapped \cup manual) :
    /\ orders[o].status = "received" <=> Exists(o) /\ ReceiptsOf(o) # {} /\ AllReceived(orders[o].items)
    /\ orders[o].status = "sent" <=> Exists(o) /\ ReceiptsOf(o) # {} /\ ~AllReceived(orders[o].items)

\* Lines, stock and receipts agree at every committed state.
StockAndLinesMatchReceipts == ReceivedMatchesReceipts /\ StockMatchesReceipts

\* What has been received follows the order, and the status what was received,
\* for orders whose requests did not overlap.
OrdersFollowReceipts == ReceivedWithinOrdered /\ StatusMatchesReceipts

\* What the comment in receiveGoods says of a retry: "a client that sends the
\* same one twice -- a retry after a timeout -- gets the original receipt back".
RetriesGetTheirReceipt == refused = {}
=============================================================================
