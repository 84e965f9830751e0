---------------------------- MODULE SalesOrders ----------------------------
(***************************************************************************)
(* SalesService (src/backend-nest/src/sales/sales.service.ts) on top of    *)
(* the stock transactions of Inventory.                                    *)
(*                                                                         *)
(* A request is a process.  Each handler first reads the order, checks its *)
(* status on what it read, and only then opens the transaction that        *)
(* changes it: nothing locks the order or checks the status again in       *)
(* between, and any other request may run there.  Reading and BEGIN are    *)
(* one step (BEGIN has no effect of its own); every statement on a stock   *)
(* row, every COMMIT and every write outside a transaction is another.     *)
(***************************************************************************)
EXTENDS Inventory, FiniteSets, FiniteSetsExt

CONSTANTS
  Orders,      \* identifiers of sales orders
  NoOrder,     \* the order of a request that has none
  Payments,    \* identifiers of payments
  ItemLists,   \* the item lists that clients send
  Amounts      \* the amounts of the manual stock endpoints

\* A sales_order_items row, its unit price one, with the edit that created it.
Line == [row : Rows, n : Nat \ {0}, edit : Nat]

ASSUME NoOrderAssumption == NoOrder \notin Orders
ASSUME OrdersAssumption == IsFiniteSet(Orders)
ASSUME ItemListsAssumption ==
  /\ ItemLists \subseteq Seq(Line)
  /\ \A items \in ItemLists : \A i \in DOMAIN items : items[i].edit = 0
ASSUME AmountsAssumption == Amounts \subseteq Nat \ {0}
ASSUME PaymentsAssumption == IsFiniteSet(Payments)

VARIABLES
  orders,      \* the sales_orders rows with their items and payments
  req,         \* req[p]: the request p is handling
  outside,     \* outside[k]: movements of row k that no sales order made
  overlapped,  \* orders on which two stock-changing requests have overlapped
  interrupted  \* confirmed orders of which a cancellation has stopped midway

salesVars == <<orders, req, outside, overlapped, interrupted>>
vars == <<stockVars, salesVars>>

Statuses == {"absent", "draft", "confirmed", "delivered", "cancelled", "removed"}

\* The columns of sales_orders that the handlers use, the items, and the set of
\* sales_payments, each of amount one.  edits counts the edits of the items.
Order ==
  [status : Statuses, items : Seq(Line), edits : Nat, total : Nat, paid : Int,
   payments : SUBSET Payments]

NoneYet ==
  [status |-> "absent", items |-> << >>, edits |-> 0, total |-> 0, paid |-> 0,
   payments |-> {}]

Exists(o) == orders[o].status \notin {"absent", "removed"}

OrderOps == {"update", "confirm", "deliver", "cancel", "remove"}
PaymentOps == {"pay", "unpay"}
StockOps == {"apply", "reserve", "release"}

\* What p is doing: the operation, its order, the items as the handler read
\* them (for a stock endpoint: the call), the edits they reflect, and what is
\* left of them.
Request ==
  [op : {"none"} \cup OrderOps \cup PaymentOps \cup StockOps,
   order : Orders \cup {NoOrder}, items : Seq(Line), edits : Nat, left : Seq(Line),
   call : Call \cup {NoOrder}, payment : Payments \cup {NoOrder}]

NoRequest ==
  [op |-> "none", order |-> NoOrder, items |-> << >>, edits |-> 0, left |-> << >>,
   call |-> NoOrder, payment |-> NoOrder]

SalesInit ==
  /\ StockInit
  /\ orders = [o \in Orders |-> NoneYet]
  /\ req = [p \in Procs |-> NoRequest]
  /\ outside = [k \in Rows |-> [moved |-> Opening[k], held |-> 0]]
  /\ overlapped = {}
  /\ interrupted = {}

-----------------------------------------------------------------------------
(* Item lists *)

\* The units of row k that an item list asks for.
Units(items, k) ==
  SumFunction([i \in DOMAIN items |-> IF items[i].row = k THEN items[i].n ELSE 0])

\* totalAmount
Total(items) == SumFunction([i \in DOMAIN items |-> items[i].n])

\* The lines of edits after the first `seen': lines are in the order of their edits.
LinesSince(items, seen) ==
  LET old == Cardinality({i \in DOMAIN items : items[i].edit <= seen})
  IN  SubSeq(items, old + 1, Len(items))

\* deleteMany deletes the lines its snapshot shows, those of the first `seen'
\* edits, and createMany adds the new ones: the lines of an edit that commits
\* while deleteMany waits for its locks stay.
Replaced(order, seen, items) ==
  LET new == [i \in DOMAIN items |-> [items[i] EXCEPT !.edit = order.edits + 1]]
  IN  [order EXCEPT !.items = LinesSince(@, seen) \o new,
                    !.edits = @ + 1, !.total = Total(items)]

ReserveCalls(items) == [i \in DOMAIN items |-> Reserve(items[i].row, items[i].n)]

\* Mutant of DeliverCalls: the reservations are kept.
DeductCalls(items) == [i \in DOMAIN items |-> Apply(items[i].row, -items[i].n)]

\* For every line, its deduction and then the release of its reservation.
DeliverCalls(items) ==
  [j \in 1..(2 * Len(items)) |->
     LET line == items[(j + 1) \div 2]
     IN  IF j % 2 = 1 THEN Apply(line.row, -line.n) ELSE Release(line.row, line.n)]

-----------------------------------------------------------------------------
(* Requests *)

Idle(p) == req[p].op = "none" /\ pc[p] = "idle"

Starts(p, r) ==
  /\ req' = [req EXCEPT ![p] = r]
  /\ overlapped' =
       IF r.op \in OrderOps /\ \E q \in Procs \ {p} :
            req[q].order = r.order /\ req[q].op \in OrderOps
       THEN overlapped \cup {r.order} ELSE overlapped

Handling(p, op) == req[p].op = op

Done(p) == req' = [req EXCEPT ![p] = NoRequest]

\* The handler ends without having done its work.
Stops(p) ==
  /\ Done(p)
  /\ interrupted' =
       IF Handling(p, "cancel") /\ orders[req[p].order].status = "confirmed"
       THEN interrupted \cup {req[p].order} ELSE interrupted

OrderRequest(op, o) ==
  [NoRequest EXCEPT !.op = op, !.order = o, !.items = orders[o].items,
                    !.edits = orders[o].edits]

\* createSalesOrder: a single transaction with no earlier version to race with.
CreateSalesOrder(o, items) ==
  /\ orders[o].status = "absent"
  /\ orders' = [orders EXCEPT ![o] =
       [NoneYet EXCEPT !.status = "draft", !.items = items, !.total = Total(items)]]
  /\ UNCHANGED <<stockVars, req, outside, overlapped, interrupted>>

\* updateSalesOrder reads the order...
ReadForUpdate(p, o) ==
  /\ Idle(p)
  /\ orders[o].status = "draft"
  /\ Starts(p, OrderRequest("update", o))
  /\ UNCHANGED <<stockVars, orders, outside, interrupted>>

\* ...and replaces its items, or with no items in the request only the header:
\* the total is then computed from the items read before the transaction.
UpdateSalesOrder(p) ==
  /\ Handling(p, "update")
  /\ Exists(req[p].order)
  /\ \/ \E items \in ItemLists, seen \in req[p].edits..orders[req[p].order].edits :
          orders' = [orders EXCEPT ![req[p].order] = Replaced(@, seen, items)]
     \/ orders' = [orders EXCEPT ![req[p].order].total = Total(req[p].items)]
  /\ Done(p)
  /\ UNCHANGED <<stockVars, outside, overlapped, interrupted>>

\* Mutant of ConfirmSalesOrder: a cancelled order may be confirmed.
ConfirmEvenCancelled(p, o) ==
  /\ Idle(p)
  /\ Exists(o)
  /\ orders[o].status \notin {"confirmed", "delivered"}
  /\ Starts(p, OrderRequest("confirm", o))
  /\ Begin(p, ReserveCalls(orders[o].items))
  /\ UNCHANGED <<orders, outside, interrupted>>

\* confirmSalesOrder
ConfirmSalesOrder(p, o) ==
  /\ Idle(p)
  /\ Exists(o)
  /\ orders[o].status \notin {"cancelled", "confirmed", "delivered"}
  /\ Starts(p, OrderRequest("confirm", o))
  /\ Begin(p, ReserveCalls(orders[o].items))
  /\ UNCHANGED <<orders, outside, interrupted>>

\* deliverSalesOrder
DeliverSalesOrder(p, o) ==
  /\ Idle(p)
  /\ orders[o].status = "confirmed"
  /\ Starts(p, OrderRequest("deliver", o))
  /\ Begin(p, DeliverCalls(orders[o].items))
  /\ UNCHANGED <<orders, outside, interrupted>>

\* Mutant of CommitStatus: the calls are not awaited.
CommitStatusEarly(p, op, status) ==
  /\ Handling(p, op)
  /\ Exists(req[p].order)
  /\ pc[p] = "open"
  /\ stock' = [k \in Rows |-> IF owner[k] = p THEN latest[k] ELSE stock[k]]
  /\ UNCHANGED latest
  /\ Ended(p)
  /\ orders' = [orders EXCEPT ![req[p].order].status = status]
  /\ Done(p)
  /\ UNCHANGED <<outside, overlapped, interrupted>>

\* The last statement of both transactions sets the status, and they commit.
CommitStatus(p, op, status) ==
  /\ Handling(p, op)
  /\ Exists(req[p].order)
  /\ Commit(p)
  /\ orders' = [orders EXCEPT ![req[p].order].status = status]
  /\ Done(p)
  /\ UNCHANGED <<outside, overlapped, interrupted>>

CommitConfirm(p) == CommitStatus(p, "confirm", "confirmed")
CommitDeliver(p) == CommitStatus(p, "deliver", "delivered")

\* Mutant of CancelSalesOrder: a delivered order may be cancelled.
CancelEvenDelivered(p, o) ==
  /\ Idle(p)
  /\ Exists(o)
  /\ orders[o].status # "cancelled"
  /\ LET lines == IF orders[o].status = "confirmed" THEN orders[o].items ELSE << >>
     IN  Starts(p, [OrderRequest("cancel", o) EXCEPT !.left = lines])
  /\ UNCHANGED <<stockVars, orders, outside, interrupted>>

\* cancelSalesOrder: the lines of a confirmed order are released one by one...
CancelSalesOrder(p, o) ==
  /\ Idle(p)
  /\ Exists(o)
  /\ orders[o].status \notin {"delivered", "cancelled"}
  /\ LET lines == IF orders[o].status = "confirmed" THEN orders[o].items ELSE << >>
     IN  Starts(p, [OrderRequest("cancel", o) EXCEPT !.left = lines])
  /\ UNCHANGED <<stockVars, orders, outside, interrupted>>

\* ...each in a transaction of its own (InventoryService.releaseReservation)...
BeginRelease(p) ==
  /\ Handling(p, "cancel")
  /\ req[p].left # << >>
  /\ LET line == Head(req[p].left)
     IN  Begin(p, <<Release(line.row, line.n)>>)
  /\ req' = [req EXCEPT ![p].left = Tail(@)]
  /\ UNCHANGED <<orders, outside, overlapped, interrupted>>

CommitRelease(p) ==
  /\ Handling(p, "cancel")
  /\ Commit(p)
  /\ UNCHANGED salesVars

\* ...and the status is written after the last of them.
FinishCancel(p) ==
  /\ Handling(p, "cancel")
  /\ pc[p] = "idle"
  /\ req[p].left = << >>
  /\ Exists(req[p].order)
  /\ orders' = [orders EXCEPT ![req[p].order].status = "cancelled"]
  /\ Done(p)
  /\ UNCHANGED <<stockVars, outside, overlapped, interrupted>>

\* removeSalesOrder
ReadForRemove(p, o) ==
  /\ Idle(p)
  /\ Exists(o)
  /\ orders[o].status \notin {"confirmed", "delivered"}
  /\ orders[o].payments = {}
  /\ Starts(p, OrderRequest("remove", o))
  /\ UNCHANGED <<stockVars, orders, outside, interrupted>>

\* Deleting the order deletes its items and payments (onDelete: Cascade).
RemoveSalesOrder(p) ==
  /\ Handling(p, "remove")
  /\ Exists(req[p].order)
  /\ orders' = [orders EXCEPT ![req[p].order] = [NoneYet EXCEPT !.status = "removed"]]
  /\ Done(p)
  /\ UNCHANGED <<stockVars, outside, overlapped, interrupted>>

\* createPayment
ReadForPayment(p, o) ==
  /\ Idle(p)
  /\ Exists(o)
  /\ orders[o].status # "cancelled"
  /\ orders[o].total - orders[o].paid >= 1
  /\ Starts(p, [NoRequest EXCEPT !.op = "pay", !.order = o])
  /\ UNCHANGED <<stockVars, orders, outside, interrupted>>

CreatePayment(p) ==
  /\ Handling(p, "pay")
  /\ Exists(req[p].order)
  /\ \E m \in Payments :
       /\ \A o \in Orders : m \notin orders[o].payments
       /\ orders' = [orders EXCEPT ![req[p].order].payments = @ \cup {m},
                                   ![req[p].order].paid = @ + 1]
  /\ Done(p)
  /\ UNCHANGED <<stockVars, outside, overlapped, interrupted>>

\* removePayment
ReadPayment(p, o, m) ==
  /\ Idle(p)
  /\ m \in orders[o].payments
  /\ Starts(p, [NoRequest EXCEPT !.op = "unpay", !.order = o, !.payment = m])
  /\ UNCHANGED <<stockVars, orders, outside, interrupted>>

\* Mutant of RemovePayment: deleteMany, which does not fail when nothing is there.
RemovePaymentIfAny(p) ==
  /\ Handling(p, "unpay")
  /\ orders' = [orders EXCEPT ![req[p].order].payments = @ \ {req[p].payment},
                              ![req[p].order].paid = @ - 1]
  /\ Done(p)
  /\ UNCHANGED <<stockVars, outside, overlapped, interrupted>>

RemovePayment(p) ==
  /\ Handling(p, "unpay")
  /\ req[p].payment \in orders[req[p].order].payments
  /\ orders' = [orders EXCEPT ![req[p].order].payments = @ \ {req[p].payment},
                              ![req[p].order].paid = @ - 1]
  /\ Done(p)
  /\ UNCHANGED <<stockVars, outside, overlapped, interrupted>>

\* adjustStock, reserveStock and releaseReservation of InventoryService, called
\* directly: one call, one transaction, no order.
CallInventory(p, c) ==
  /\ Idle(p)
  /\ Starts(p, [NoRequest EXCEPT !.op = c.op, !.call = c])
  /\ Begin(p, <<c>>)
  /\ UNCHANGED <<orders, outside, interrupted>>

CommitInventory(p) ==
  /\ req[p].op \in StockOps
  /\ Commit(p)
  /\ LET c == req[p].call
     IN  outside' = CASE c.op = "apply"   -> [outside EXCEPT ![c.row].moved = @ + c.n]
                      [] c.op = "reserve" -> [outside EXCEPT ![c.row].held = @ + c.n]
                      [] c.op = "release" -> [outside EXCEPT ![c.row].held = @ - c.n]
  /\ Done(p)
  /\ UNCHANGED <<orders, overlapped, interrupted>>

\* A statement of p's transaction; one that throws ends the request.
StockStatement(p) ==
  /\ Statement(p)
  /\ IF pc'[p] = "idle" THEN Stops(p) ELSE UNCHANGED <<req, interrupted>>
  /\ UNCHANGED <<orders, outside, overlapped>>

\* The handler throws (the order is gone, the lock wait is a deadlock, the
\* transaction times out) or the server stops: no answer, no further step.
Fail(p) ==
  /\ ~Idle(p)
  /\ IF pc[p] = "idle" THEN UNCHANGED stockVars ELSE Rollback(p)
  /\ Stops(p)
  /\ UNCHANGED <<orders, outside, overlapped>>

-----------------------------------------------------------------------------
StockCalls ==
  {Apply(k, n) : k \in Rows, n \in Amounts} \cup {Apply(k, -n) : k \in Rows, n \in Amounts}
    \cup {Reserve(k, n) : k \in Rows, n \in Amounts}
    \cup {Release(k, n) : k \in Rows, n \in Amounts}

Start(p) ==
  \/ \E o \in Orders :
       \/ ReadForUpdate(p, o)
       \/ ConfirmSalesOrder(p, o)
       \/ DeliverSalesOrder(p, o)
       \/ CancelSalesOrder(p, o)
       \/ ReadForRemove(p, o)
       \/ ReadForPayment(p, o)
       \/ \E m \in Payments : ReadPayment(p, o, m)
  \/ \E c \in StockCalls : CallInventory(p, c)

Continue(p) ==
  \/ UpdateSalesOrder(p)
  \/ CommitConfirm(p)
  \/ CommitDeliver(p)
  \/ BeginRelease(p)
  \/ CommitRelease(p)
  \/ FinishCancel(p)
  \/ RemoveSalesOrder(p)
  \/ CreatePayment(p)
  \/ RemovePayment(p)
  \/ CommitInventory(p)
  \/ StockStatement(p)
  \/ Fail(p)

SalesNext ==
  \/ \E o \in Orders, items \in ItemLists : CreateSalesOrder(o, items)
  \/ \E p \in Procs : Start(p) \/ Continue(p)

SalesSpec == SalesInit /\ [][SalesNext]_vars

-----------------------------------------------------------------------------
(* Properties *)

\* Types.
SalesTypeOK ==
  /\ StockTypeOK
  /\ orders \in [Orders -> Order]
  /\ req \in [Procs -> Request]
  /\ outside \in [Rows -> [moved : Int, held : Int]]
  /\ overlapped \subseteq Orders
  /\ interrupted \subseteq Orders

Ordered(S, k) == SumFunction([o \in S |-> Units(orders[o].items, k)])

InStatus(status) == {o \in Orders : orders[o].status = status}

BeingCancelled == {req[p].order : p \in {q \in Procs : Handling(q, "cancel")}}

\* The service drives the stock only through Inventory's transactions, so what
\* Inventory guarantees holds of it, whatever requests overlap or die.
UsesInventory == StockSpec

\* The stock an order reserves is reserved exactly while it is confirmed
\* ("Reservation and the status change commit together", confirmSalesOrder), as
\* long as no two stock-changing requests overlap on one order: nothing is
\* reserved for a draft, delivered, cancelled or removed order, and as long as
\* no cancellation has stopped between two lines a confirmed one is fully backed.
ReservedForConfirmedOrders ==
  overlapped = {} =>
    \A k \in Rows :
      LET held == stock[k].reserved - outside[k].held
      IN  /\ held <= Ordered(InStatus("confirmed"), k)
          /\ interrupted = {} => held >= Ordered(InStatus("confirmed") \ BeingCancelled, k)

\* Goods leave exactly once per delivered order (deliverSalesOrder: "All of it
\* commits with the status change"), with crashes and cancellations at any
\* point, under the same condition.
ShippedMatchesDelivered ==
  overlapped = {} =>
    \A k \in Rows :
      stock[k].moved = outside[k].moved - Ordered(InStatus("delivered"), k)

\* What is reserved and what has left are what the orders' statuses say.
StockFollowsOrders == ReservedForConfirmedOrders /\ ShippedMatchesDelivered

\* paidAmount is the sum of the payments recorded (createPayment and
\* removePayment increment and decrement it in the payment's transaction).
PaidMatchesPayments ==
  \A o \in Orders : orders[o].paid = Cardinality(orders[o].payments)

\* totalAmount is the total of the order's lines, under the same condition:
\* updateSalesOrder may compute it from lines read before its transaction.
TotalMatchesItems ==
  \A o \in Orders \ overlapped : orders[o].total = Total(orders[o].items)

\* What an order costs and what has been paid of it add up.
OrdersAddUp == PaidMatchesPayments /\ TotalMatchesItems

\* The life of an order: from one status to the next, and once processed its
\* items do not change ("Only draft sales orders can be edited").
Successors ==
  [absent |-> {"draft"},
   draft |-> {"confirmed", "cancelled", "removed"},
   confirmed |-> {"delivered", "cancelled"},
   delivered |-> {}, cancelled |-> {"removed"}, removed |-> {}]

OrderLifeCycle ==
  [][\A o \in Orders \ overlapped' :
       LET old == orders[o]
           new == orders'[o]
       IN  /\ new.status # old.status => new.status \in Successors[old.status]
           /\ new.items # old.items => old.status \in {"absent", "draft", "cancelled"}
    ]_vars

\* What the comment in deliverSalesOrder says: "net effect is quantity -qty,
\* reserved -qty, available unchanged".
DeliveryKeepsAvailable ==
  [][\A p \in Procs : CommitDeliver(p) =>
       \A k \in Rows : stock'[k].available = stock[k].available]_vars

\* An order that is confirmed and not being cancelled is backed by reserved
\* stock.  confirmSalesOrder explains why its reservations and the status must
\* commit together; cancelSalesOrder does not follow it: one interrupted between
\* two lines and tried again releases its first line twice, out of what is
\* reserved for another order or by hand.
ConfirmedOrdersAreBacked ==
  overlapped = {} =>
    \A k \in Rows :
      stock[k].reserved - outside[k].held >= 
        Ordered(InStatus("confirmed") \ (BeingCancelled \cup interrupted), k)
=============================================================================
