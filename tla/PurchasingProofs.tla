-------------------------- MODULE PurchasingProofs --------------------------
(***************************************************************************)
(* Theorems about Purchasing, for any orders, item lists, deliveries,      *)
(* receipt numbers and number of concurrent requests: what was received is *)
(* what the receipts say, on the lines and in stock.                       *)
(***************************************************************************)
EXTENDS Purchasing, InventoryProofs

-----------------------------------------------------------------------------
(* Lines, entries and their sums *)

\* What a list of entries brings of a line: naturals, and nothing of a line that
\* none of them names.
LEMMA BroughtType ==
  ASSUME NEW entries \in Seq(Entry), NEW i
  PROVE  /\ Brought(entries, i) \in Nat
         /\ (\A j \in DOMAIN entries : entries[j].line # i) => Brought(entries, i) = 0
<1> DEFINE f == [j \in DOMAIN entries |-> IF entries[j].line = i THEN entries[j].n ELSE 0]
           D == DOMAIN entries
<1>1. Brought(entries, i) = SumFunctionOnSet(f, D)
  BY DEF Brought, SumFunction
<1>2. IsFiniteSet(D)
  <2>1. Len(entries) \in Int /\ 1 \in Int /\ D = 1..Len(entries)
    OBVIOUS
  <2> QED
    BY <2>1, FS_Interval
<1>3. \A j \in D : f[j] \in Nat
  <2>1. \A j \in D : entries[j] \in Entry
    OBVIOUS
  <2> QED
    BY <2>1 DEF Entry
<1>4. (\A j \in DOMAIN entries : entries[j].line # i) => \A j \in D : f[j] = 0
  OBVIOUS
<1> HIDE DEF f, D
<1> QED
  BY <1>1, <1>2, <1>3, <1>4, SumIsNat, SumOfZeros DEF D

\* When no line is named twice, an entry brings all there is of its line.
LEMMA BroughtOnce ==
  ASSUME NEW entries \in Seq(Entry), ~Twice(entries), NEW j \in DOMAIN entries
  PROVE  Brought(entries, entries[j].line) = entries[j].n
<1> DEFINE f == [i \in DOMAIN entries |-> IF entries[i].line = entries[j].line THEN entries[i].n ELSE 0]
           D == DOMAIN entries
           zero == [i \in D |-> 0]
<1>1. Brought(entries, entries[j].line) = SumFunctionOnSet(f, D)
  BY DEF Brought, SumFunction
<1>2. IsFiniteSet(D)
  <2>1. Len(entries) \in Int /\ 1 \in Int /\ D = 1..Len(entries)
    OBVIOUS
  <2> QED
    BY <2>1, FS_Interval
<1>3. \A i \in D : f[i] \in Int /\ zero[i] \in Int
  <2>1. \A i \in D : entries[i] \in Entry
    OBVIOUS
  <2> QED
    BY <2>1 DEF Entry
<1>4. \A i \in D \ {j} : zero[i] = f[i]
  BY DEF Twice
<1>5. f[j] = entries[j].n /\ zero[j] = 0 /\ \A i \in D : zero[i] = 0
  OBVIOUS
<1>6. j \in D /\ entries[j].n \in Nat
  <2>1. entries[j] \in Entry
    OBVIOUS
  <2> QED
    BY <2>1 DEF Entry
<1> HIDE DEF f, D, zero
<1>7. SumFunctionOnSet(zero, D) = 0
  BY <1>2, <1>5, SumOfZeros
<1>8. SumFunctionOnSet(f, D) = SumFunctionOnSet(zero, D) - zero[j] + f[j]
  BY <1>2, <1>3, <1>4, <1>6, SumChangesOnce
<1> QED
  BY <1>1, <1>5, <1>6, <1>7, <1>8

\* Receiving changes nothing of a line but what has been received of it.
LEMMA WithReceivedType ==
  ASSUME NEW items \in Seq(Line), NEW entries \in Seq(Entry)
  PROVE  /\ WithReceived(items, entries) \in Seq(Line)
         /\ DOMAIN WithReceived(items, entries) = DOMAIN items
         /\ \A i \in DOMAIN items :
              /\ WithReceived(items, entries)[i].row = items[i].row
              /\ WithReceived(items, entries)[i].n = items[i].n
              /\ WithReceived(items, entries)[i].received
                   = items[i].received + Brought(entries, i)
<1> DEFINE new == WithReceived(items, entries)
           m == Len(items)
<1>1. DOMAIN items = 1..m /\ m \in Nat
  OBVIOUS
<1>2. DOMAIN new = 1..m
  BY <1>1 DEF WithReceived
<1>3. ASSUME NEW i \in DOMAIN items
      PROVE  /\ new[i] \in Line /\ new[i].row = items[i].row /\ new[i].n = items[i].n
             /\ new[i].received = items[i].received + Brought(entries, i)
  <2> DEFINE line == items[i]
             b == Brought(entries, i)
  <2>1. line \in Line /\ b \in Nat
    BY BroughtType
  <2>2. new[i] = [line EXCEPT !.received = @ + b]
    BY DEF WithReceived
  <2> HIDE DEF line, b, new
  <2>3. [line EXCEPT !.received = @ + b] \in Line
    <3> DEFINE sum == line.received + b
    <3>1. line.received \in Nat
      BY <2>1 DEF Line
    <3>3. sum \in Nat
      BY <2>1, <3>1
    <3> HIDE DEF sum
    <3>2. [line EXCEPT !.received = sum] \in Line
      BY <2>1, <3>3 DEF Line
    <3> QED
      BY <3>2 DEF sum
  <2>4. /\ [line EXCEPT !.received = @ + b].row = line.row
        /\ [line EXCEPT !.received = @ + b].n = line.n
        /\ [line EXCEPT !.received = @ + b].received = line.received + b
    BY <2>1 DEF Line
  <2> QED
    BY <2>2, <2>3, <2>4 DEF line, b
<1>4. new \in [1..m -> Line]
  <2>1. new = [i \in 1..m |-> new[i]]
    BY <1>1 DEF WithReceived
  <2> HIDE DEF new
  <2> QED
    BY <1>1, <1>3, <2>1
<1>5. new \in Seq(Line)
  <2> HIDE DEF new, m
  <2> QED
    BY <1>1, <1>4
<1> HIDE DEF new, m
<1> QED
  BY <1>1, <1>2, <1>3, <1>5 DEF new

\* The entries name lines of the order.
Named(items, entries) == \A j \in DOMAIN entries : entries[j].line \in DOMAIN items

\* What the entries bring of row k.
Brings(items, entries, k) ==
  SumFunction([i \in DOMAIN items |-> IF items[i].row = k THEN Brought(entries, i) ELSE 0])

\* The stock transaction of a receipt, and what it does to a row.
LEMMA ReceiptEffect ==
  ASSUME NEW items \in Seq(Line), NEW entries \in Seq(Entry), Named(items, entries)
  PROVE  LET calls == StockCalls(items, entries)
         IN  /\ calls \in Seq(Call)
             /\ \A k \in Rows : MovedBy(calls, Len(calls), k) = Brings(items, entries, k)
             /\ \A k : Brings(items, entries, k) \in Int
<1> DEFINE calls == StockCalls(items, entries)
           D == DOMAIN entries
           E == DOMAIN items
           n == [j \in D |-> entries[j].n]
           line == [j \in D |-> entries[j].line]
<1>1. /\ D = 1..Len(entries) /\ Len(entries) \in Nat /\ E = 1..Len(items) /\ Len(items) \in Nat
      /\ \A j \in D : n[j] \in Nat /\ line[j] \in E
  <2>1. \A j \in D : entries[j] \in Entry
    OBVIOUS
  <2>2. \A j \in D : entries[j].n \in Nat
    BY <2>1 DEF Entry
  <2> QED
    BY <2>2 DEF Named
<1>2. \A i \in E : items[i].row \in Rows
  <2>1. \A i \in E : items[i] \in Line
    OBVIOUS
  <2> QED
    BY <2>1 DEF Line
<1>3. IsFiniteSet(D) /\ IsFiniteSet(E)
  <2>1. 1 \in Int /\ Len(entries) \in Int /\ Len(items) \in Int
    BY <1>1
  <2>2. IsFiniteSet(1..Len(entries)) /\ IsFiniteSet(1..Len(items))
    BY <2>1, FS_Interval
  <2> QED
    BY <1>1, <2>2
<1>4. \A j \in D : calls[j] = Apply(items[line[j]].row, n[j]) /\ calls[j] \in Call
  BY <1>1, <1>2 DEF StockCalls, Apply, Call
<1>5. calls = [j \in 1..Len(entries) |-> calls[j]]
  BY DEF StockCalls
<1>6. calls \in Seq(Call) /\ Len(calls) = Len(entries) /\ DOMAIN calls = D
  <2> HIDE DEF calls, line, n
  <2> QED
    BY <1>1, <1>4, <1>5
<1>7. ASSUME NEW k
      PROVE  /\ Brings(items, entries, k) = SumFunctionOnSet([j \in D |-> Moves(calls[j], k)], D)
             /\ Brings(items, entries, k) \in Int
  <2> DEFINE K == {i \in E : items[i].row = k}
             part == [i \in E |-> [j \in D |-> IF entries[j].line = i THEN entries[j].n ELSE 0]]
             kept == [j \in D |-> IF line[j] \in K THEN n[j] ELSE 0]
             moved == [j \in D |-> Moves(calls[j], k)]
             brings == [i \in E |-> IF items[i].row = k THEN Brought(entries, i) ELSE 0]
  <2>1. \A i \in E : Brought(entries, i) = SumFunctionOnSet(part[i], D)
    BY DEF Brought, SumFunction
  <2>2. /\ \A i \in E : brings[i] = IF i \in K THEN SumFunctionOnSet(part[i], D) ELSE 0
        /\ \A i \in E, j \in D : part[i][j] = IF line[j] = i THEN n[j] ELSE 0
        /\ \A j \in D : kept[j] = IF line[j] \in K THEN n[j] ELSE 0
    BY <2>1
  <2>3. Brings(items, entries, k) = SumFunctionOnSet(brings, E)
    BY DEF Brings, SumFunction
  <2>4. \A j \in D : kept[j] \in Int /\ kept[j] = moved[j]
    <3> SUFFICES ASSUME NEW j \in D PROVE kept[j] \in Int /\ kept[j] = moved[j]
      OBVIOUS
    <3>1. Moves(calls[j], k) = IF items[line[j]].row = k THEN n[j] ELSE 0
      <4>1. \A row, m : Moves(Apply(row, m), k) = IF row = k THEN m ELSE 0
        BY DEF Moves, Apply
      <4> QED
        BY <1>4, <4>1
    <3>2. kept[j] = IF items[line[j]].row = k THEN n[j] ELSE 0
      BY <1>1
    <3> QED
      BY <1>1, <3>1, <3>2
  <2>5. \A j \in D : n[j] \in Int /\ line[j] \in E
    BY <1>1
  <2> HIDE DEF D, E, n, line, K, part, kept, brings, moved, calls
  <2>6. SumFunctionOnSet(brings, E) = SumFunctionOnSet(kept, D)
    <3>1. Splits(brings, kept, part, n, line, D, E, K)
      BY <2>2, <2>5 DEF Splits
    <3> QED
      BY <1>3, <3>1, SumByParts
  <2>7. SumFunctionOnSet(kept, D) = SumFunctionOnSet(moved, D) /\ SumFunctionOnSet(kept, D) \in Int
    BY <1>3, <2>4, SumOfEquals, SumIsInt
  <2> QED
    BY <2>3, <2>6, <2>7 DEF moved
<1>8. \A k \in Rows : MovedBy(calls, Len(calls), k) = SumFunctionOnSet([j \in D |-> Moves(calls[j], k)], D)
  BY <1>1, <1>6 DEF MovedBy
<1> HIDE DEF calls
<1> QED
  BY <1>6, <1>7, <1>8 DEF calls

\* The stock transaction depends only on the rows of the lines its entries name.
LEMMA SameCalls ==
  ASSUME NEW items, NEW others, NEW entries,
         \A j \in DOMAIN entries : items[entries[j].line].row = others[entries[j].line].row
  PROVE  StockCalls(items, entries) = StockCalls(others, entries)
BY DEF StockCalls

\* ...and so does what it brings.
LEMMA SameGoods ==
  ASSUME NEW items \in Seq(Line), NEW others \in Seq(Line), NEW entries \in Seq(Entry),
         Named(items, entries), Named(others, entries),
         \A j \in DOMAIN entries : items[entries[j].line].row = others[entries[j].line].row,
         NEW k \in Rows
  PROVE  Brings(items, entries, k) = Brings(others, entries, k)
BY SameCalls, ReceiptEffect


-----------------------------------------------------------------------------
(* The invariant *)

\* What p is doing: a request that has not opened its transaction has done
\* nothing; one that has, names lines of its order that are there, has done what
\* its entries say so far, and brings a number that no receipt has.
SaneRequest(p) ==
  LET r == req[p]
      items == orders[r.order].items
  IN  /\ r.op = "none" => r = NoRequest
      /\ r.op # "none" => r.order \in Orders
      /\ r.op # "receive" => pc[p] = "idle"
      /\ r.op = "receive" =>
           /\ pc[p] # "idle" /\ Exists(r.order)
           /\ \A j \in DOMAIN r.entries : Live(items, r.entries[j].line)
           /\ Executed(p, StockCalls(items, r.entries))
           /\ r.number = Generated \/ ~Recorded(r.number)

RequestsAreSane == \A p \in Procs : SaneRequest(p)

\* Open receipts exclude each other, by order and by number.
ReceiptsExclude ==
  \A p, q \in Procs :
    Handling(p, "receive") /\ Handling(q, "receive") /\ p # q =>
      /\ req[p].order # req[q].order
      /\ req[p].number # req[q].number \/ req[p].number = Generated

\* What p has read of its order still holds, and nobody else works on it.
StillSo(p) ==
  LET r == req[p]
  IN  /\ Exists(r.order) /\ orders[r.order] = r.read
      /\ \A q \in Procs \ {p} : req[q].order # r.order
      /\ ~Twice(r.entries)
      /\ r.op \in {"check", "receive"} => WithinRemaining(r.read.items, r.entries)
      /\ r.op = "update" => r.read.status = "draft"

UpToDate ==
  \A p \in Procs : req[p].op # "none" /\ req[p].order \notin overlapped => StillSo(p)

\* What receipt r has brought of row k.
GoodsOf(r, k) == Brings(orders[receipts[r].order].items, receipts[r].entries, k)

StockFollowsReceipts ==
  \A k \in Rows : stock[k].moved = Opening[k] + SumFunction([r \in DOMAIN receipts |-> GoodsOf(r, k)])

\* The paperwork: receipts, lines and stock.
Books == ReceiptsAreKept /\ ReceivedMatchesReceipts /\ StockFollowsReceipts

PurchaseInv ==
  /\ PurchaseTypeOK /\ Inv /\ Locks
  /\ RequestsAreSane /\ ReceiptsExclude /\ UpToDate
  /\ Books /\ OrdersFollowReceipts

-----------------------------------------------------------------------------
(* Steps *)

\* p reads order o and begins request r.
Asks(p, o, r) ==
  /\ Idle(p) /\ Exists(o) /\ Starts(p, r) /\ r \in Request
  /\ r.op \in {"update", "status", "remove", "check"} /\ r.order = o /\ r.read = orders[o]
  /\ r.op = "update" => orders[o].status = "draft"
  /\ r.op = "check" => WithinRemaining(orders[o].items, r.entries)
  /\ UNCHANGED <<stockVars, orders, receipts, refused, manual>>

\* p's request writes its order, which no open receipt has locked.
Writes(p, o, new) ==
  /\ req[p].op \in {"update", "status", "remove"} /\ req[p].order = o
  /\ Exists(o) /\ ~Locked(o)
  /\ orders' = [orders EXCEPT ![o] = new]
  /\ Done(p)
  /\ manual' \in {manual, manual \cup {o}}
  /\ UNCHANGED <<stockVars, receipts, refused, overlapped>>

\* What an order's receipts still find in it when it becomes new: their lines,
\* with what has been received; and nothing received of any other line.
Keeps(o, new) ==
  LET items == orders[o].items
  IN  /\ \A r \in ReceiptsOf(o) :
           /\ new.status \in Statuses
           /\ \A j \in DOMAIN receipts[r].entries :
                LET i == receipts[r].entries[j].line
                IN  Live(new.items, i) /\ new.items[i].row = items[i].row
      /\ \A i \in DOMAIN new.items :
           \/ i \in DOMAIN items /\ new.items[i].received = items[i].received
           \/ /\ new.items[i].received = 0
              /\ \A r \in ReceiptsOf(o) : ~RefersTo(receipts[r], {i})

\* The order of nobody.
LEMMA NoneYetType == NoneYet \in Order /\ NoneYet.items = << >> /\ NoneYet.status = "absent"
<1>1. << >> \in Seq(Line) /\ 0 \in Nat
  OBVIOUS
<1> QED
  BY <1>1 DEF NoneYet, Order

\* The request of a process that has none.
LEMMA NoRequestType == NoRequest \in Request
<1>1. << >> \in Seq(Entry)
  OBVIOUS
<1>2. "draft" \in Statuses
  BY DEF Statuses
<1> QED
  BY <1>1, <1>2, NoneYetType DEF NoRequest, Request

\* A request that has just read its order, for an edit or a deletion...
LEMMA ReadRequest ==
  ASSUME NEW op \in {"update", "status", "remove", "check"}, NEW o \in Orders, orders[o] \in Order
  PROVE  /\ OrderRequest(op, o) \in Request
         /\ OrderRequest(op, o).op = op /\ OrderRequest(op, o).order = o
         /\ OrderRequest(op, o).read = orders[o] /\ OrderRequest(op, o).entries = << >>
         /\ OrderRequest(op, o).number = Generated
<1> DEFINE old == orders[o]
           none == NoRequest
<1>1. none \in Request /\ none.entries = << >> /\ none.number = Generated
  BY NoRequestType DEF NoRequest
<1>2. old \in Order
  OBVIOUS
<1>3. OrderRequest(op, o) = [none EXCEPT !.op = op, !.order = o, !.read = old]
  BY DEF OrderRequest
<1> HIDE DEF old, none
<1>4. [none EXCEPT !.op = op, !.order = o, !.read = old] \in Request
  BY <1>1, <1>2 DEF Request
<1>5. /\ [none EXCEPT !.op = op, !.order = o, !.read = old].op = op
      /\ [none EXCEPT !.op = op, !.order = o, !.read = old].order = o
      /\ [none EXCEPT !.op = op, !.order = o, !.read = old].read = old
  BY <1>1 DEF Request
<1>6. /\ [none EXCEPT !.op = op, !.order = o, !.read = old].entries = << >>
      /\ [none EXCEPT !.op = op, !.order = o, !.read = old].number = Generated
  BY <1>1 DEF Request
<1> QED
  BY <1>3, <1>4, <1>5, <1>6 DEF old

\* ...or with the status to set.
LEMMA StatusRequest ==
  ASSUME NEW s \in Request, NEW status \in Statuses, NEW r, r = [s EXCEPT !.status = status]
  PROVE  /\ r \in Request /\ r.op = s.op /\ r.order = s.order /\ r.read = s.read
         /\ r.entries = s.entries
<1>1. r \in Request
  BY DEF Request
<1> QED
  BY <1>1 DEF Request

\* A request that starts reads its order, or is refused.
LEMMA StartAsks ==
  ASSUME PurchaseTypeOK, NEW p \in Procs, Start(p)
  PROVE  \/ \E o \in Orders, r \in Request : Asks(p, o, r)
         \/ /\ UNCHANGED <<stockVars, orders, receipts, req, overlapped, manual>>
            /\ refused' \subseteq Numbers
<1>1. PICK o \in Orders :
        \/ ReadForUpdate(p, o)
        \/ \E status \in Statuses : ReadForStatus(p, o, status)
        \/ ReadForRemove(p, o)
        \/ \E entries \in Deliveries, number \in Numbers \cup {Generated} :
             \/ ReadForReceipt(p, o, entries, number)
             \/ RefuseReceipt(p, o, entries, number)
  BY DEF Start
<1>2. orders[o] \in Order
  BY DEF PurchaseTypeOK
<1>3. \A entries \in Deliveries : entries \in Seq(Entry)
  BY DeliveriesAssumption
<1>4. "draft" \in Statuses /\ Generated \in Numbers \cup {Generated} /\ << >> \in Seq(Entry)
  BY DEF Statuses
<1>5. CASE ReadForUpdate(p, o)
  <2>1. PICK r : r = OrderRequest("update", o)
    OBVIOUS
  <2>2. r \in Request /\ r.op = "update" /\ r.order = o /\ r.read = orders[o]
    BY <1>2, <2>1, ReadRequest
  <2>3. Asks(p, o, r)
    BY <1>4, <1>5, <2>1, <2>2 DEF ReadForUpdate, Asks, Exists
  <2> QED
    BY <2>2, <2>3
<1>6. ASSUME NEW status \in Statuses, ReadForStatus(p, o, status)
      PROVE  \E r \in Request : Asks(p, o, r)
  <2>1. PICK r : r = [OrderRequest("status", o) EXCEPT !.status = status]
    OBVIOUS
  <2>2. r \in Request /\ r.op = "status" /\ r.order = o /\ r.read = orders[o]
    <3>1. PICK s : s = OrderRequest("status", o)
      OBVIOUS
    <3>2. s \in Request /\ s.op = "status" /\ s.order = o /\ s.read = orders[o]
      BY <1>2, <3>1, ReadRequest
    <3> QED
      BY <2>1, <3>1, <3>2, StatusRequest
  <2>3. Asks(p, o, r)
    BY <1>6, <2>1, <2>2 DEF ReadForStatus, Asks
  <2> QED
    BY <2>2, <2>3
<1>7. CASE ReadForRemove(p, o)
  <2>1. PICK r : r = OrderRequest("remove", o)
    OBVIOUS
  <2>2. r \in Request /\ r.op = "remove" /\ r.order = o /\ r.read = orders[o]
    BY <1>2, <2>1, ReadRequest
  <2>3. Asks(p, o, r)
    BY <1>7, <2>1, <2>2 DEF ReadForRemove, Asks
  <2> QED
    BY <2>2, <2>3
<1>8. ASSUME NEW entries \in Deliveries, NEW number \in Numbers \cup {Generated},
             ReadForReceipt(p, o, entries, number)
      PROVE  \E r \in Request : Asks(p, o, r)
  <2>1. PICK r : r = [OrderRequest("check", o) EXCEPT !.number = number, !.entries = entries]
    OBVIOUS
  <2>2. r \in Request /\ r.op = "check" /\ r.order = o /\ r.read = orders[o] /\ r.entries = entries
    <3>1. PICK s : s = OrderRequest("check", o)
      OBVIOUS
    <3>2. s \in Request /\ s.op = "check" /\ s.order = o /\ s.read = orders[o]
      BY <1>2, <3>1, ReadRequest
    <3> QED
      <4>1. entries \in Seq(Entry) /\ r = [s EXCEPT !.number = number, !.entries = entries]
        BY <1>3, <2>1, <3>1
      <4>2. r \in Request /\ r.op = s.op /\ r.order = s.order /\ r.read = s.read /\ r.entries = entries
        <5>1. r \in Request
          BY <3>2, <4>1 DEF Request
        <5> QED
          BY <3>2, <4>1, <5>1 DEF Request
      <4> QED
        BY <3>2, <4>2
  <2>3. Asks(p, o, r)
    BY <1>8, <2>1, <2>2 DEF ReadForReceipt, Asks
  <2> QED
    BY <2>2, <2>3
<1>9. ASSUME NEW entries \in Deliveries, NEW number \in Numbers \cup {Generated},
             RefuseReceipt(p, o, entries, number)
      PROVE  /\ UNCHANGED <<stockVars, orders, receipts, req, overlapped, manual>>
             /\ refused' \subseteq Numbers
  BY <1>9 DEF RefuseReceipt, PurchaseTypeOK
<1> QED
  BY <1>1, <1>5, <1>6, <1>7, <1>8, <1>9

-----------------------------------------------------------------------------
(* The books under an edit and under a receipt *)

\* What the receipts in `all' bring of line i of order o, and of row k.
ReceivedOf(all, o, i) ==
  SumFunction([r \in {s \in DOMAIN all : all[s].order = o} |-> Brought(all[r].entries, i)])

GoodsIn(known, all, k) ==
  SumFunction([r \in DOMAIN all |-> Brings(known[all[r].order].items, all[r].entries, k)])

\* The books in these terms.
LEMMA BooksAre ==
  /\ ReceivedMatchesReceipts <=>
       \A o \in Orders : \A i \in DOMAIN orders[o].items :
         orders[o].items[i].received = ReceivedOf(receipts, o, i)
  /\ StockFollowsReceipts <=>
       \A k \in Rows : stock[k].moved = Opening[k] + GoodsIn(orders, receipts, k)
BY DEF ReceivedMatchesReceipts, StockFollowsReceipts, ReceivedOf, GoodsIn, GoodsOf, ReceiptsOf

\* Receipts name the orders and entries they should.
LEMMA ReceiptTypes ==
  ASSUME NEW all \in Seq(Receipt)
  PROVE  /\ DOMAIN all = 1..Len(all) /\ Len(all) \in Nat /\ IsFiniteSet(DOMAIN all)
         /\ \A S \in SUBSET DOMAIN all : IsFiniteSet(S)
         /\ \A r \in DOMAIN all : all[r].order \in Orders /\ all[r].entries \in Seq(Entry)
<1>1. DOMAIN all = 1..Len(all) /\ Len(all) \in Nat
  OBVIOUS
<1>2. Len(all) \in Int /\ 1 \in Int
  BY <1>1
<1>3. IsFiniteSet(1..Len(all))
  BY <1>2, FS_Interval
<1>4. \A S \in SUBSET (1..Len(all)) : IsFiniteSet(S)
  BY <1>3, FS_Subset
<1>5. \A r \in DOMAIN all : all[r].order \in Orders /\ all[r].entries \in Seq(Entry)
  <2>1. \A r \in DOMAIN all : all[r] \in Receipt
    OBVIOUS
  <2> QED
    BY <2>1 DEF Receipt
<1> QED
  BY <1>1, <1>3, <1>4, <1>5

\* Nothing is received of a line that no receipt refers to.
LEMMA NothingReceived ==
  ASSUME NEW all \in Seq(Receipt), NEW o, NEW i,
         \A r \in DOMAIN all : all[r].order = o => ~RefersTo(all[r], {i})
  PROVE  ReceivedOf(all, o, i) = 0
<1> DEFINE R == {s \in DOMAIN all : all[s].order = o}
           f == [r \in R |-> Brought(all[r].entries, i)]
<1>1. IsFiniteSet(R)
  BY ReceiptTypes
<1>2. ASSUME NEW r \in R PROVE f[r] = 0
  <2>1. all[r].entries \in Seq(Entry)
    BY ReceiptTypes
  <2>2. \A j \in DOMAIN all[r].entries : all[r].entries[j].line # i
    BY DEF RefersTo
  <2> QED
    BY <2>1, <2>2, BroughtType
<1>3. ReceivedOf(all, o, i) = SumFunctionOnSet(f, R)
  BY DEF ReceivedOf, SumFunction
<1> HIDE DEF f, R
<1> QED
  BY <1>1, <1>2, <1>3, SumOfZeros

\* The entries of all receipts name lines of their orders.
AllNamed(known, all) ==
  \A r \in DOMAIN all : Named(known[all[r].order].items, all[r].entries)

\* What one more receipt adds, to the lines of its order...
LEMMA OneMoreReceipt ==
  ASSUME NEW all \in Seq(Receipt), NEW new \in Receipt, NEW o, NEW i
  PROVE  ReceivedOf(Append(all, new), o, i)
           = ReceivedOf(all, o, i) + IF new.order = o THEN Brought(new.entries, i) ELSE 0
<1> DEFINE more == Append(all, new)
           n == Len(all)
           R == {s \in DOMAIN all : all[s].order = o}
           S == {s \in DOMAIN more : more[s].order = o}
           f == [r \in R |-> Brought(all[r].entries, i)]
           g == [r \in S |-> Brought(more[r].entries, i)]
<1>1. /\ more \in Seq(Receipt) /\ DOMAIN all = 1..n /\ n \in Nat /\ DOMAIN more = 1..(n + 1)
      /\ more[n + 1] = new /\ \A r \in DOMAIN all : more[r] = all[r]
  OBVIOUS
<1>2. ReceivedOf(all, o, i) = SumFunctionOnSet(f, R) /\ ReceivedOf(more, o, i) = SumFunctionOnSet(g, S)
  BY DEF ReceivedOf, SumFunction
<1>3. IsFiniteSet(R) /\ IsFiniteSet(S)
  <2>1. R \in SUBSET DOMAIN all /\ S \in SUBSET DOMAIN more
    OBVIOUS
  <2> HIDE DEF more, R, S
  <2> QED
    BY <1>1, <2>1, ReceiptTypes
<1>4. \A r \in S : g[r] \in Int
  <2> TAKE r \in S
  <2>1. more[r].entries \in Seq(Entry)
    <3> HIDE DEF more
    <3> QED
      BY <1>1, ReceiptTypes
  <2> QED
    BY <2>1, BroughtType
<1>5. \A r \in R : r \in S /\ f[r] = g[r]
  <2> TAKE r \in R
  <2>1. r \in DOMAIN all /\ all[r].order = o
    OBVIOUS
  <2>2. r \in DOMAIN more /\ more[r] = all[r]
    <3> HIDE DEF more
    <3> QED
      BY <1>1, <2>1
  <2> QED
    BY <2>1, <2>2
<1>6. n + 1 \notin R
  BY <1>1
<1>7. new.order = o => S = R \cup {n + 1} /\ g[n + 1] = Brought(new.entries, i)
  <2> SUFFICES ASSUME new.order = o
               PROVE  S = R \cup {n + 1} /\ g[n + 1] = Brought(new.entries, i)
    OBVIOUS
  <2>1. \A s : s \in S <=> s \in R \cup {n + 1}
    <3> HIDE DEF more
    <3> QED
      BY <1>1
  <2>2. n + 1 \in S
    BY <2>1
  <2>3. g[n + 1] = Brought(more[n + 1].entries, i)
    BY <2>2
  <2> QED
    BY <1>1, <2>1, <2>3
<1>8. new.order # o => S = R
  <2> SUFFICES ASSUME new.order # o PROVE S = R
    OBVIOUS
  <2>1. \A s : s \in S <=> s \in R
    <3> HIDE DEF more
    <3> QED
      BY <1>1
  <2> QED
    BY <2>1
<1> HIDE DEF f, g, R, S, more, n
<1>9. SumFunctionOnSet(f, R) = SumFunctionOnSet(g, R) /\ SumFunctionOnSet(g, R) \in Int
  <2>1. \A r \in R : f[r] \in Int /\ f[r] = g[r] /\ g[r] \in Int
    BY <1>4, <1>5
  <2> QED
    BY <1>3, <2>1, SumOfEquals, SumIsInt
<1>10. CASE new.order = o
  <2>1. SumFunctionOnSet(g, R \cup {n + 1}) = SumFunctionOnSet(g, R) + g[n + 1]
    BY <1>3, <1>4, <1>6, <1>7, <1>10, SumGainsElement
  <2> QED
    BY <1>2, <1>7, <1>9, <1>10, <2>1 DEF more
<1>11. CASE new.order # o
  BY <1>2, <1>8, <1>9, <1>11 DEF more
<1> QED
  BY <1>10, <1>11

\* ...and to the stock.
LEMMA OneMoreDelivery ==
  ASSUME NEW known \in [Orders -> Order], NEW all \in Seq(Receipt), NEW new \in Receipt, NEW k \in Rows,
         AllNamed(known, all), Named(known[new.order].items, new.entries)
  PROVE  GoodsIn(known, Append(all, new), k)
           = GoodsIn(known, all, k) + Brings(known[new.order].items, new.entries, k)
<1> DEFINE more == Append(all, new)
           n == Len(all)
           f == [r \in DOMAIN all |-> Brings(known[all[r].order].items, all[r].entries, k)]
           g == [r \in DOMAIN more |-> Brings(known[more[r].order].items, more[r].entries, k)]
<1>1. /\ more \in Seq(Receipt) /\ DOMAIN all = 1..n /\ n \in Nat /\ DOMAIN more = 1..(n + 1)
      /\ more[n + 1] = new /\ \A r \in DOMAIN all : more[r] = all[r]
  OBVIOUS
<1>2. /\ GoodsIn(known, all, k) = SumFunctionOnSet(f, 1..n)
      /\ GoodsIn(known, more, k) = SumFunctionOnSet(g, 1..(n + 1))
  <2> HIDE DEF more, n
  <2>1. DOMAIN f = 1..n /\ DOMAIN g = 1..(n + 1)
    BY <1>1
  <2> QED
    BY <2>1 DEF GoodsIn, SumFunction
<1>3. \A r \in 1..(n + 1) : g[r] = Brings(known[more[r].order].items, more[r].entries, k)
  BY <1>1
<1>4. \A r \in 1..n : f[r] = Brings(known[all[r].order].items, all[r].entries, k)
  BY <1>1
<1> HIDE DEF f, g, more, n
<1>5. ASSUME NEW r \in 1..(n + 1) PROVE g[r] \in Int
  <2>1. more[r].order \in Orders /\ more[r].entries \in Seq(Entry)
    BY <1>1, ReceiptTypes
  <2>2. known[more[r].order].items \in Seq(Line)
    BY <2>1 DEF Order
  <2>3. Named(known[more[r].order].items, more[r].entries)
    <3>1. CASE r \in DOMAIN all
      BY <1>1, <3>1 DEF AllNamed
    <3>2. CASE r = n + 1
      BY <1>1, <3>2
    <3> QED
      BY <1>1, <3>1, <3>2
  <2> QED
    BY <1>3, <2>1, <2>2, <2>3, ReceiptEffect
<1>6. \A r \in 1..n : f[r] = g[r] /\ f[r] \in Int
  <2> TAKE r \in 1..n
  <2>1. r \in 1..(n + 1) /\ r \in DOMAIN all
    BY <1>1
  <2> QED
    BY <1>1, <1>3, <1>4, <1>5, <2>1
<1>7. SumFunctionOnSet(g, 1..(n + 1)) = SumFunctionOnSet(g, 1..n) + g[n + 1]
  BY <1>1, <1>5, SumGoesOn
<1>8. SumFunctionOnSet(f, 1..n) = SumFunctionOnSet(g, 1..n)
  <2>1. IsFiniteSet(1..n)
    BY <1>1, ReceiptTypes
  <2> QED
    BY <1>6, <2>1, SumOfEquals
<1>9. g[n + 1] = Brings(known[new.order].items, new.entries, k)
  BY <1>1, <1>3
<1> QED
  BY <1>2, <1>7, <1>8, <1>9 DEF more

\* Orders that agree on the rows of the receipts' lines...
SameRows(known, others, all) ==
  \A r \in DOMAIN all : \A j \in DOMAIN all[r].entries :
    LET o == all[r].order
        i == all[r].entries[j].line
    IN  known[o].items[i].row = others[o].items[i].row

\* ...have the same goods.
LEMMA SameGoodsIn ==
  ASSUME NEW known \in [Orders -> Order], NEW others \in [Orders -> Order], NEW all \in Seq(Receipt),
         AllNamed(known, all), AllNamed(others, all), SameRows(known, others, all), NEW k \in Rows
  PROVE  GoodsIn(known, all, k) = GoodsIn(others, all, k)
<1>1. ASSUME NEW r \in DOMAIN all
      PROVE  Brings(known[all[r].order].items, all[r].entries, k)
               = Brings(others[all[r].order].items, all[r].entries, k)
  <2>1. all[r].order \in Orders /\ all[r].entries \in Seq(Entry)
    BY ReceiptTypes
  <2>2. known[all[r].order].items \in Seq(Line) /\ others[all[r].order].items \in Seq(Line)
    BY <2>1 DEF Order
  <2> QED
    BY <2>1, <2>2, SameGoods DEF AllNamed, SameRows
<1>2. [r \in DOMAIN all |-> Brings(known[all[r].order].items, all[r].entries, k)]
        = [r \in DOMAIN all |-> Brings(others[all[r].order].items, all[r].entries, k)]
  BY <1>1
<1> QED
  BY <1>2 DEF GoodsIn

\* Goods are counted in integers.
LEMMA GoodsAreIntegers ==
  ASSUME NEW known \in [Orders -> Order], NEW all \in Seq(Receipt), NEW k, AllNamed(known, all)
  PROVE  GoodsIn(known, all, k) \in Int
<1> DEFINE f == [r \in DOMAIN all |-> Brings(known[all[r].order].items, all[r].entries, k)]
           D == DOMAIN all
<1>1. ASSUME NEW r \in D PROVE f[r] \in Int
  <2>1. all[r].order \in Orders /\ all[r].entries \in Seq(Entry)
    BY ReceiptTypes
  <2>2. known[all[r].order].items \in Seq(Line)
    BY <2>1 DEF Order
  <2> QED
    BY <2>1, <2>2, ReceiptEffect DEF AllNamed
<1>2. IsFiniteSet(D)
  BY ReceiptTypes
<1>3. GoodsIn(known, all, k) = SumFunctionOnSet(f, D)
  BY DEF GoodsIn, SumFunction
<1> HIDE DEF f, D
<1> QED
  BY <1>1, <1>2, <1>3, SumIsInt

\* What the types say of the orders that are there.
LEMMA OrderTypes ==
  ASSUME PurchaseTypeOK
  PROVE  /\ receipts \in Seq(Receipt) /\ orders \in [Orders -> Order]
         /\ \A o \in Orders : orders[o].items \in Seq(Line)
<1>1. receipts \in Seq(Receipt) /\ orders \in [Orders -> Order]
  BY DEF PurchaseTypeOK
<1>2. \A o \in Orders : orders[o] \in Order
  BY <1>1
<1> QED
  BY <1>1, <1>2 DEF Order

\* A line is there under its number.
LEMMA LiveIsNamed ==
  ASSUME NEW items, NEW entries, \A j \in DOMAIN entries : Live(items, entries[j].line)
  PROVE  Named(items, entries)
BY DEF Live, Named

\* An order that keeps what its receipts find in it keeps the books.
LEMMA EditKeepsBooks ==
  ASSUME PurchaseTypeOK, Books, NEW o \in Orders, NEW new \in Order,
         orders' = [orders EXCEPT ![o] = new], Keeps(o, new),
         receipts' = receipts, stock' = stock
  PROVE  Books'
<1>1. /\ receipts \in Seq(Receipt) /\ orders \in [Orders -> Order]
      /\ \A r \in DOMAIN receipts : receipts[r].order \in Orders
      /\ orders' \in [Orders -> Order]
      /\ orders'[o] = new /\ \A x \in Orders \ {o} : orders'[x] = orders[x]
  BY OrderTypes, ReceiptTypes
<1>2. ASSUME NEW r \in DOMAIN receipts, NEW j \in DOMAIN receipts[r].entries
      PROVE  LET i == receipts[r].entries[j].line
                 items == orders[receipts[r].order].items
                 lines == orders'[receipts[r].order].items
             IN  Live(items, i) /\ Live(lines, i) /\ items[i].row = lines[i].row
  <2>1. Live(orders[receipts[r].order].items, receipts[r].entries[j].line)
    BY DEF Books, ReceiptsAreKept, ReceiptsKeepTheirOrder
  <2>2. CASE receipts[r].order = o
    BY <1>1, <2>1, <2>2 DEF Keeps, ReceiptsOf
  <2>3. CASE receipts[r].order # o
    BY <1>1, <2>1, <2>3
  <2> QED
    BY <2>2, <2>3
<1>3. ReceiptsAreKept'
  <2>1. ASSUME NEW r \in DOMAIN receipts PROVE orders'[receipts[r].order].status \in Statuses
    <3>1. orders[receipts[r].order].status \in Statuses
      BY DEF Books, ReceiptsAreKept, ReceiptsKeepTheirOrder, Exists
    <3>2. CASE receipts[r].order = o
      BY <1>1, <3>2 DEF Keeps, ReceiptsOf
    <3>3. CASE receipts[r].order # o
      BY <1>1, <3>1, <3>3
    <3> QED
      BY <3>2, <3>3
  <2>2. ReceiptsKeepTheirOrder'
    BY <1>2, <2>1 DEF ReceiptsKeepTheirOrder, Exists
  <2>3. OneReceiptPerNumber'
    BY DEF Books, ReceiptsAreKept, OneReceiptPerNumber
  <2> QED
    BY <2>2, <2>3 DEF ReceiptsAreKept
<1>4. ReceivedMatchesReceipts'
  <2>1. ASSUME NEW x \in Orders, NEW i \in DOMAIN orders'[x].items
        PROVE  orders'[x].items[i].received = ReceivedOf(receipts, x, i)
    <3>1. i \in DOMAIN orders[x].items => orders[x].items[i].received = ReceivedOf(receipts, x, i)
      BY BooksAre DEF Books
    <3>2. CASE x # o
      BY <1>1, <3>1, <3>2
    <3>3. CASE x = o /\ i \in DOMAIN orders[o].items /\ new.items[i].received = orders[o].items[i].received
      BY <1>1, <3>1, <3>3
    <3>4. CASE /\ x = o /\ new.items[i].received = 0
               /\ \A r \in ReceiptsOf(o) : ~RefersTo(receipts[r], {i})
      <4>1. \A r \in DOMAIN receipts : receipts[r].order = o => ~RefersTo(receipts[r], {i})
        BY <3>4 DEF ReceiptsOf
      <4>2. ReceivedOf(receipts, o, i) = 0
        <5>1. receipts \in Seq(Receipt)
          BY <1>1
        <5> QED
          BY ONLY <4>1, <5>1, NothingReceived
      <4> QED
        BY <1>1, <3>4, <4>2
    <3> QED
      BY <1>1, <3>2, <3>3, <3>4 DEF Keeps
  <2> QED
    BY <2>1 DEF ReceivedMatchesReceipts, ReceivedOf, ReceiptsOf
<1>5. StockFollowsReceipts'
  <2>1. ASSUME NEW k \in Rows PROVE GoodsIn(orders, receipts, k) = GoodsIn(orders', receipts, k)
    <3> PICK now : now = orders'
      OBVIOUS
    <3>1. AllNamed(orders, receipts) /\ AllNamed(now, receipts) /\ SameRows(orders, now, receipts)
      BY <1>2 DEF AllNamed, SameRows, Named, Live
    <3>2. /\ orders \in [Orders -> Order] /\ now \in [Orders -> Order] /\ receipts \in Seq(Receipt)
          /\ k \in Rows
      BY <1>1
    <3>3. GoodsIn(orders, receipts, k) = GoodsIn(now, receipts, k)
      BY ONLY <3>1, <3>2, SameGoodsIn
    <3> QED
      BY <3>3
  <2>2. \A k \in Rows : stock'[k].moved = Opening[k] + GoodsIn(orders', receipts, k)
    BY <2>1, BooksAre DEF Books
  <2> QED
    BY <2>2 DEF StockFollowsReceipts, GoodsIn, GoodsOf
<1> QED
  BY <1>3, <1>4, <1>5 DEF Books

\* A receipt that commits with the goods it brings keeps them too.
LEMMA ReceiptKeepsBooks ==
  ASSUME PurchaseTypeOK, Books, NEW o \in Orders, NEW new \in Order, NEW entry \in Receipt,
         entry.order = o, entry.number = Generated \/ ~Recorded(entry.number),
         \A j \in DOMAIN entry.entries : Live(orders[o].items, entry.entries[j].line),
         new.status \in Statuses, new.items = WithReceived(orders[o].items, entry.entries),
         orders' = [orders EXCEPT ![o] = new], receipts' = Append(receipts, entry),
         \A k \in Rows : stock'[k].moved = stock[k].moved + Brings(orders[o].items, entry.entries, k)
  PROVE  Books'
<1> DEFINE items == orders[o].items
           entries == entry.entries
<1>1. /\ receipts \in Seq(Receipt) /\ orders \in [Orders -> Order]
      /\ \A r \in DOMAIN receipts : receipts[r].order \in Orders
      /\ orders' \in [Orders -> Order]
      /\ orders'[o] = new /\ \A x \in Orders \ {o} : orders'[x] = orders[x]
  BY OrderTypes, ReceiptTypes
<1>2. items \in Seq(Line) /\ entries \in Seq(Entry)
  BY OrderTypes DEF Receipt
<1>3. /\ DOMAIN new.items = DOMAIN items
      /\ \A i \in DOMAIN items :
           /\ new.items[i].row = items[i].row /\ new.items[i].n = items[i].n
           /\ new.items[i].received = items[i].received + Brought(entries, i)
  BY <1>2, WithReceivedType
<1>4. /\ DOMAIN receipts' = DOMAIN receipts \cup {Len(receipts) + 1}
      /\ receipts'[Len(receipts) + 1] = entry
      /\ \A r \in DOMAIN receipts : receipts'[r] = receipts[r] /\ r # Len(receipts) + 1
      /\ receipts' \in Seq(Receipt)
  BY <1>1
<1> HIDE DEF items, entries
<1>5. ASSUME NEW x \in Orders
      PROVE  /\ DOMAIN orders'[x].items = DOMAIN orders[x].items
             /\ \A i \in DOMAIN orders[x].items :
                  /\ orders'[x].items[i].row = orders[x].items[i].row
                  /\ orders'[x].items[i].n = orders[x].items[i].n
                  /\ orders'[x].items[i].received = orders[x].items[i].received
                       + IF x = o THEN Brought(entries, i) ELSE 0
  <2>1. CASE x = o
    BY <1>1, <1>3, <2>1 DEF items
  <2>2. CASE x # o
    <3>1. orders[x].items \in Seq(Line)
      BY OrderTypes
    <3>2. \A i \in DOMAIN orders[x].items : orders[x].items[i].received \in Nat
      <4>1. \A i \in DOMAIN orders[x].items : orders[x].items[i] \in Line
        BY <3>1
      <4> QED
        BY <4>1 DEF Line
    <3> QED
      BY <1>1, <2>2, <3>2
  <2> QED
    BY <2>1, <2>2
<1>6. ASSUME NEW r \in DOMAIN receipts'
      PROVE  /\ receipts'[r].order \in Orders
             /\ orders[receipts'[r].order].status \in Statuses \/ receipts'[r].order = o
             /\ \A j \in DOMAIN receipts'[r].entries :
                  Live(orders[receipts'[r].order].items, receipts'[r].entries[j].line)
  <2>1. CASE r \in DOMAIN receipts
    BY <1>1, <1>4, <2>1 DEF Books, ReceiptsAreKept, ReceiptsKeepTheirOrder, Exists
  <2>2. CASE r = Len(receipts) + 1
    BY <1>4, <2>2
  <2> QED
    BY <1>4, <2>1, <2>2
<1>7. ReceiptsAreKept'
  <2>1. ReceiptsKeepTheirOrder'
    <3>1. ASSUME NEW r \in DOMAIN receipts' PROVE orders'[receipts'[r].order].status \in Statuses
      BY <1>1, <1>6
    <3>2. ASSUME NEW r \in DOMAIN receipts', NEW j \in DOMAIN receipts'[r].entries
          PROVE  Live(orders'[receipts'[r].order].items, receipts'[r].entries[j].line)
      <4>1. PICK x : x = receipts'[r].order
        OBVIOUS
      <4>2. PICK i : i = receipts'[r].entries[j].line
        OBVIOUS
      <4>3. x \in Orders /\ Live(orders[x].items, i)
        BY <1>6, <4>1, <4>2
      <4>4. Live(orders'[x].items, i)
        BY <1>5, <4>3 DEF Live
      <4> QED
        BY <4>1, <4>2, <4>4
    <3> QED
      BY <3>1, <3>2 DEF ReceiptsKeepTheirOrder, Exists
  <2>2. OneReceiptPerNumber'
    BY <1>4 DEF Books, ReceiptsAreKept, OneReceiptPerNumber, Recorded
  <2> QED
    BY <2>1, <2>2 DEF ReceiptsAreKept
<1>8. ReceivedMatchesReceipts'
  <2>1. ASSUME NEW x \in Orders, NEW i \in DOMAIN orders'[x].items
        PROVE  orders'[x].items[i].received = ReceivedOf(receipts', x, i)
    <3>1. orders[x].items[i].received = ReceivedOf(receipts, x, i)
      BY <1>5, BooksAre DEF Books
    <3>2. ReceivedOf(Append(receipts, entry), x, i)
            = ReceivedOf(receipts, x, i) + IF entry.order = x THEN Brought(entry.entries, i) ELSE 0
      BY <1>1, OneMoreReceipt
    <3> QED
      BY <1>5, <3>1, <3>2 DEF entries
  <2> QED
    BY <2>1 DEF ReceivedMatchesReceipts, ReceivedOf, ReceiptsOf
<1>9. StockFollowsReceipts'
  <2>1. ASSUME NEW k \in Rows
        PROVE  stock'[k].moved = Opening[k] + GoodsIn(orders', receipts', k)
    <3> PICK now : now = orders'
      OBVIOUS
    <3> PICK all : all = receipts'
      OBVIOUS
    <3>1. AllNamed(orders, all) /\ AllNamed(now, all) /\ SameRows(orders, now, all)
      <4>1. ASSUME NEW r \in DOMAIN all, NEW j \in DOMAIN all[r].entries
            PROVE  LET x == all[r].order
                       i == all[r].entries[j].line
                   IN  /\ i \in DOMAIN orders[x].items /\ i \in DOMAIN now[x].items
                       /\ orders[x].items[i].row = now[x].items[i].row
        <5> PICK x, i : x = all[r].order /\ i = all[r].entries[j].line
          OBVIOUS
        <5>1. x \in Orders /\ i \in DOMAIN orders[x].items
          BY <1>6 DEF Live
        <5>2. i \in DOMAIN now[x].items /\ orders[x].items[i].row = now[x].items[i].row
          <6>1. /\ i \in DOMAIN orders'[x].items
                /\ orders'[x].items[i].row = orders[x].items[i].row
            BY ONLY <1>5, <5>1
          <6> QED
            BY <6>1
        <5> QED
          BY <5>1, <5>2
      <4>2. AllNamed(orders, all) /\ AllNamed(now, all)
        BY ONLY <4>1 DEF AllNamed, Named
      <4>3. SameRows(orders, now, all)
        BY ONLY <4>1 DEF SameRows
      <4> QED
        BY <4>2, <4>3
    <3>a. /\ orders \in [Orders -> Order] /\ now \in [Orders -> Order] /\ receipts \in Seq(Receipt)
          /\ all \in Seq(Receipt) /\ k \in Rows /\ entry \in Receipt
      BY <1>1, <1>4
    <3>2. GoodsIn(orders, all, k) = GoodsIn(now, all, k)
      BY ONLY <3>a, <3>1, SameGoodsIn
    <3>3. AllNamed(orders, receipts) /\ Named(orders[entry.order].items, entry.entries)
      BY <1>4, <3>1 DEF AllNamed
    <3>4. GoodsIn(orders, Append(receipts, entry), k)
            = GoodsIn(orders, receipts, k) + Brings(orders[entry.order].items, entry.entries, k)
      BY ONLY <3>a, <3>3, OneMoreDelivery
    <3>5. stock[k].moved = Opening[k] + GoodsIn(orders, receipts, k)
      BY BooksAre DEF Books
    <3>6. /\ Opening[k] \in Int /\ GoodsIn(orders, receipts, k) \in Int
          /\ Brings(orders[o].items, entry.entries, k) \in Int
      <4>1. Brings(orders[o].items, entry.entries, k) \in Int
        BY <1>2, <3>3, ReceiptEffect DEF items, entries
      <4>2. stock[k].moved \in Int /\ Opening[k] \in Int
        BY OpeningAssumption DEF PurchaseTypeOK, StockTypeOK, Row
      <4>3. GoodsIn(orders, receipts, k) \in Int
        BY <1>1, <3>3, GoodsAreIntegers
      <4> QED
        BY <4>1, <4>2, <4>3
    <3> QED
      BY <3>2, <3>4, <3>5, <3>6
  <2> QED
    BY <2>1 DEF StockFollowsReceipts, GoodsIn, GoodsOf
<1> QED
  BY <1>7, <1>8, <1>9 DEF Books

-----------------------------------------------------------------------------
(* What an order says of its receipts *)

\* The status of an order says whether everything, something or nothing has been
\* received; `some' says whether it has receipts.
StatusFits(order, some) ==
  /\ order.status = "received" <=> order.status \in Statuses /\ some /\ AllReceived(order.items)
  /\ order.status = "sent" <=> order.status \in Statuses /\ some /\ ~AllReceived(order.items)

\* An order follows its receipts, as far as its requests have not overlapped and
\* its status has not been set by hand.
Follows(order, shared, byHand, some) ==
  /\ shared \/ \A i \in DOMAIN order.items : order.items[i].received <= order.items[i].n
  /\ shared \/ byHand \/ StatusFits(order, some)

\* The property in these terms.
LEMMA FollowsAre ==
  OrdersFollowReceipts <=>
    \A o \in Orders : Follows(orders[o], o \in overlapped, o \in manual, ReceiptsOf(o) # {})
<1>1. ReceivedWithinOrdered <=>
        \A o \in Orders : \/ o \in overlapped
                          \/ \A i \in DOMAIN orders[o].items :
                               orders[o].items[i].received <= orders[o].items[i].n
  BY DEF ReceivedWithinOrdered
<1>2. StatusMatchesReceipts <=>
        \A o \in Orders : o \in overlapped \/ o \in manual \/ StatusFits(orders[o], ReceiptsOf(o) # {})
  BY DEF StatusMatchesReceipts, StatusFits, Exists
<1> QED
  BY <1>1, <1>2 DEF OrdersFollowReceipts, Follows

\* A step that changes one order leaves the others following their receipts.
LEMMA OthersFollow ==
  ASSUME OrdersFollowReceipts, NEW o \in Orders,
         \A x \in Orders \ {o} : /\ orders'[x] = orders[x]
                                 /\ x \in manual' <=> x \in manual
                                 /\ ReceiptsOf(x)' = ReceiptsOf(x),
         overlapped \subseteq overlapped',
         Follows(orders'[o], o \in overlapped', o \in manual', ReceiptsOf(o)' # {})
  PROVE  OrdersFollowReceipts'
<1>1. ASSUME NEW x \in Orders
      PROVE  Follows(orders'[x], x \in overlapped', x \in manual', ReceiptsOf(x)' # {})
  <2>1. CASE x = o
    BY <2>1
  <2>2. CASE x # o
    <3>1. Follows(orders[x], x \in overlapped, x \in manual, ReceiptsOf(x) # {})
      BY FollowsAre
    <3>2. /\ orders'[x] = orders[x] /\ ReceiptsOf(x)' = ReceiptsOf(x)
          /\ x \in manual' <=> x \in manual
          /\ x \in overlapped => x \in overlapped'
      BY <2>2
    <3> QED
      BY ONLY <3>1, <3>2 DEF Follows
  <2> QED
    BY <2>1, <2>2
<1>2. ReceivedWithinOrdered'
  BY <1>1 DEF Follows, ReceivedWithinOrdered
<1>3. StatusMatchesReceipts'
  BY <1>1 DEF Follows, StatusFits, StatusMatchesReceipts, Exists
<1> QED
  BY <1>2, <1>3 DEF OrdersFollowReceipts

\* A new receipt is one of its order's.
LEMMA ReceiptsGrow ==
  ASSUME receipts \in Seq(Receipt), NEW entry \in Receipt, receipts' = Append(receipts, entry)
  PROVE  /\ ReceiptsOf(entry.order)' # {}
         /\ \A x : x # entry.order => ReceiptsOf(x)' = ReceiptsOf(x)
<1>1. /\ DOMAIN receipts' = DOMAIN receipts \cup {Len(receipts) + 1}
      /\ receipts'[Len(receipts) + 1] = entry
      /\ \A r \in DOMAIN receipts : receipts'[r] = receipts[r]
  OBVIOUS
<1>2. Len(receipts) + 1 \in ReceiptsOf(entry.order)'
  BY <1>1 DEF ReceiptsOf
<1>3. ASSUME NEW x, x # entry.order PROVE ReceiptsOf(x)' = ReceiptsOf(x)
  <2>1. \A r : r \in ReceiptsOf(x)' <=> r \in ReceiptsOf(x)
    BY <1>1, <1>3 DEF ReceiptsOf
  <2> QED
    BY <2>1
<1> QED
  BY <1>2, <1>3

\* A receipt that has checked every entry against what remains of its line, and
\* names no line twice, receives no more than was ordered.
LEMMA ReceivesWithinOrdered ==
  ASSUME NEW items \in Seq(Line), NEW entries \in Seq(Entry), ~Twice(entries),
         WithinRemaining(items, entries),
         \A i \in DOMAIN items : items[i].received <= items[i].n
  PROVE  LET new == WithReceived(items, entries)
         IN  \A i \in DOMAIN new : new[i].received <= new[i].n
<1> DEFINE new == WithReceived(items, entries)
<1>1. /\ DOMAIN new = DOMAIN items
      /\ \A i \in DOMAIN items :
           new[i].n = items[i].n /\ new[i].received = items[i].received + Brought(entries, i)
  BY WithReceivedType
<1>2. ASSUME NEW i \in DOMAIN items PROVE items[i].received \in Nat /\ items[i].n \in Nat
  <2>1. items[i] \in Line
    OBVIOUS
  <2> QED
    BY <2>1 DEF Line
<1>3. ASSUME NEW i \in DOMAIN items
      PROVE  items[i].received + Brought(entries, i) <= items[i].n
  <2>1. CASE \E j \in DOMAIN entries : entries[j].line = i
    <3>1. PICK j \in DOMAIN entries : entries[j].line = i
      BY <2>1
    <3>2. Brought(entries, i) = entries[j].n
      BY <3>1, BroughtOnce
    <3>3. entries[j].n <= items[i].n - items[i].received
      BY <3>1 DEF WithinRemaining
    <3>4. entries[j].n \in Nat
      <4>1. entries[j] \in Entry
        OBVIOUS
      <4> QED
        BY <4>1 DEF Entry
    <3> QED
      BY <1>2, <3>2, <3>3, <3>4
  <2>2. CASE \A j \in DOMAIN entries : entries[j].line # i
    <3>1. Brought(entries, i) = 0
      BY <2>2, BroughtType
    <3> QED
      BY <1>2, <3>1
  <2> QED
    BY <2>1, <2>2
<1> HIDE DEF new
<1> QED
  BY <1>1, <1>3 DEF new

-----------------------------------------------------------------------------
(* The edits of an order *)

\* What an edit leaves of a line that its deletion has seen, and makes of one
\* that the client has ordered.
LEMMA EditedLine ==
  ASSUME NEW line \in Line, NEW edit \in Nat
  PROVE  /\ [line EXCEPT !.n = 0] \in Line /\ [line EXCEPT !.n = 0].n = 0
         /\ [line EXCEPT !.n = 0].row = line.row
         /\ [line EXCEPT !.n = 0].received = line.received
         /\ [line EXCEPT !.edit = edit] \in Line
         /\ [line EXCEPT !.edit = edit].received = line.received
<1>1. /\ [line EXCEPT !.n = 0] \in Line /\ [line EXCEPT !.n = 0].n = 0
      /\ [line EXCEPT !.n = 0].row = line.row
      /\ [line EXCEPT !.n = 0].received = line.received
  BY DEF Line
<1>2. [line EXCEPT !.edit = edit] \in Line /\ [line EXCEPT !.edit = edit].received = line.received
  BY DEF Line
<1> QED
  BY <1>1, <1>2

\* The lines of an order after an edit: those that its deletion has seen are
\* gone, later ones stay, and nothing is received yet of the new ones.
LEMMA ReplacedLines ==
  ASSUME NEW order \in Order, NEW seen \in Nat, NEW items \in ItemLists
  PROVE  LET new == Replaced(order, seen, items)
             old == order.items
         IN  /\ new \in Order /\ new.status = order.status
             /\ \A i \in DOMAIN old :
                  /\ i \in DOMAIN new.items
                  /\ new.items[i].received = old[i].received
                  /\ new.items[i] = old[i] \/ (old[i].edit <= seen /\ new.items[i].n = 0)
                  /\ old[i].edit <= seen \/ new.items[i] = old[i]
             /\ \A i \in DOMAIN new.items : i \in DOMAIN old \/ new.items[i].received = 0
<1> DEFINE old == order.items
           edit == order.edits + 1
           deleted == [i \in DOMAIN old |->
                         IF old[i].edit > seen THEN old[i] ELSE [old[i] EXCEPT !.n = 0]]
           added == [i \in DOMAIN items |-> [items[i] EXCEPT !.edit = edit]]
           new == Replaced(order, seen, items)
<1>1. old \in Seq(Line) /\ edit \in Nat
  BY DEF Order
<1>2. /\ items \in Seq(Line)
      /\ \A i \in DOMAIN items : items[i].received = 0
  BY ItemListsAssumption
<1>3. /\ DOMAIN old = 1..Len(old) /\ Len(old) \in Nat /\ DOMAIN items = 1..Len(items) /\ Len(items) \in Nat
      /\ \A i \in DOMAIN old : old[i] \in Line
      /\ \A i \in DOMAIN items : items[i] \in Line
  BY <1>1, <1>2
<1>4. \A i \in DOMAIN old : old[i].edit \in Nat
  BY <1>3 DEF Line
<1>5. ASSUME NEW i \in DOMAIN old
      PROVE  /\ deleted[i] \in Line /\ deleted[i].received = old[i].received
             /\ deleted[i] = old[i] \/ (old[i].edit <= seen /\ deleted[i].n = 0)
             /\ old[i].edit <= seen \/ deleted[i] = old[i]
  <2>1. CASE old[i].edit > seen
    <3>1. deleted[i] = old[i] /\ old[i] \in Line
      BY <1>3, <2>1
    <3> HIDE DEF deleted, old
    <3> QED
      BY <3>1
  <2>2. CASE ~(old[i].edit > seen)
    <3>1. deleted[i] = [old[i] EXCEPT !.n = 0] /\ old[i] \in Line /\ old[i].edit \in Nat
      BY <1>3, <1>4, <2>2
    <3>2. old[i].edit <= seen
      BY <2>2, <3>1
    <3> HIDE DEF deleted, old
    <3> QED
      BY <3>1, <3>2, EditedLine
  <2> QED
    BY <2>1, <2>2
<1>6. ASSUME NEW i \in DOMAIN items PROVE added[i] \in Line /\ added[i].received = 0
  <2>1. added[i] = [items[i] EXCEPT !.edit = edit]
    OBVIOUS
  <2>2. edit \in Nat /\ items[i] \in Line /\ items[i].received = 0
    BY <1>1, <1>2, <1>3
  <2>3. /\ [items[i] EXCEPT !.edit = edit] \in Line
        /\ [items[i] EXCEPT !.edit = edit].received = items[i].received
    BY ONLY <2>2, EditedLine
  <2> HIDE DEF added, edit
  <2> QED
    BY <2>1, <2>2, <2>3
<1>7. /\ DOMAIN deleted = 1..Len(old) /\ DOMAIN added = 1..Len(items)
      /\ deleted = [i \in 1..Len(old) |-> deleted[i]]
      /\ added = [i \in 1..Len(items) |-> added[i]]
  BY <1>3
<1>8. new = [order EXCEPT !.items = deleted \o added, !.edits = edit]
  BY DEF Replaced
<1> HIDE DEF deleted, added, old, new
<1>9. deleted \in Seq(Line) /\ added \in Seq(Line) /\ Len(deleted) = Len(old) /\ Len(added) = Len(items)
  <2>1. deleted \in Seq(Line) /\ Len(deleted) = Len(old)
    BY <1>3, <1>5, <1>7
  <2>2. added \in Seq(Line) /\ Len(added) = Len(items)
    BY <1>3, <1>6, <1>7
  <2> QED
    BY <2>1, <2>2
<1>10. PICK lines : lines = deleted \o added
  OBVIOUS
<1>11. /\ lines \in Seq(Line) /\ DOMAIN lines = 1..(Len(old) + Len(items))
       /\ \A i \in 1..Len(old) : lines[i] = deleted[i]
       /\ \A i \in DOMAIN lines \ (1..Len(old)) :
            i - Len(old) \in 1..Len(items) /\ lines[i] = added[i - Len(old)]
  <2>1. lines \in Seq(Line) /\ Len(lines) = Len(deleted) + Len(added)
    <3>1. deleted \o added \in Seq(Line) /\ Len(deleted \o added) = Len(deleted) + Len(added)
      BY ONLY <1>9, ConcatProperties
    <3> QED
      BY <1>10, <3>1
  <2>2. DOMAIN lines = 1..(Len(old) + Len(items))
    BY <1>9, <2>1
  <2>3. \A i \in 1..Len(old) : lines[i] = deleted[i]
    BY <1>9, <1>10, <1>3
  <2>4. \A i \in DOMAIN lines \ (1..Len(old)) :
          i - Len(old) \in 1..Len(items) /\ lines[i] = added[i - Len(old)]
    BY <1>3, <1>9, <1>10, <2>2
  <2> QED
    BY <2>1, <2>2, <2>3, <2>4
<1>12. new \in Order /\ new.status = order.status /\ new.items = lines
  <2>1. new = [order EXCEPT !.items = lines, !.edits = edit]
    BY <1>8, <1>10
  <2> HIDE DEF edit
  <2> QED
    BY <1>1, <1>11, <2>1 DEF Order
<1>13. ASSUME NEW i \in DOMAIN old
       PROVE  /\ i \in DOMAIN lines
              /\ lines[i].received = old[i].received
              /\ lines[i] = old[i] \/ (old[i].edit <= seen /\ lines[i].n = 0)
              /\ old[i].edit <= seen \/ lines[i] = old[i]
  <2>1. i \in 1..Len(old) /\ i \in DOMAIN lines
    BY <1>3, <1>11
  <2>2. lines[i] = deleted[i]
    BY <1>11, <2>1
  <2> QED
    BY <1>5, <2>1, <2>2
<1>14. \A i \in DOMAIN lines : i \in DOMAIN old \/ lines[i].received = 0
  BY <1>3, <1>6, <1>11
<1> QED
  BY <1>12, <1>13, <1>14 DEF new, old

\* p's request ends without effect.
Stops(p) == Done(p) /\ UNCHANGED <<stockVars, orders, receipts, refused, overlapped, manual>>

\* Its order becomes new, and its receipts and its status still fit it.
Rewrites(p, o, new) ==
  /\ Writes(p, o, new) /\ Keeps(o, new)
  /\ Follows(new, o \in overlapped, o \in manual', ReceiptsOf(o) # {})

\* The order of a request is one.
LEMMA OrderOfRequest ==
  ASSUME PurchaseInv, NEW p \in Procs, req[p].op # "none"
  PROVE  req[p].order \in Orders /\ orders[req[p].order] \in Order /\ req[p] \in Request
<1>1. req[p].order \in Orders
  BY DEF PurchaseInv, RequestsAreSane, SaneRequest
<1> QED
  BY <1>1 DEF PurchaseInv, PurchaseTypeOK

\* What the invariant says of the lines of an order.
LEMMA LinesOfOrder ==
  ASSUME PurchaseInv, NEW o \in Orders
  PROVE  /\ \A r \in ReceiptsOf(o) : \A j \in DOMAIN receipts[r].entries :
              Live(orders[o].items, receipts[r].entries[j].line)
         /\ \A i \in DOMAIN orders[o].items :
              (\A r \in ReceiptsOf(o) : ~RefersTo(receipts[r], {i})) => orders[o].items[i].received = 0
         /\ Follows(orders[o], o \in overlapped, o \in manual, ReceiptsOf(o) # {})
<1>1. receipts \in Seq(Receipt)
  BY OrderTypes DEF PurchaseInv
<1>2. \A r \in ReceiptsOf(o) : \A j \in DOMAIN receipts[r].entries :
        Live(orders[o].items, receipts[r].entries[j].line)
  BY DEF PurchaseInv, Books, ReceiptsAreKept, ReceiptsKeepTheirOrder, ReceiptsOf
<1>3. ASSUME NEW i \in DOMAIN orders[o].items, \A r \in ReceiptsOf(o) : ~RefersTo(receipts[r], {i})
      PROVE  orders[o].items[i].received = 0
  <2>1. orders[o].items[i].received = ReceivedOf(receipts, o, i)
    BY BooksAre DEF PurchaseInv, Books
  <2>2. \A r \in DOMAIN receipts : receipts[r].order = o => ~RefersTo(receipts[r], {i})
    BY <1>3 DEF ReceiptsOf
  <2>3. ReceivedOf(receipts, o, i) = 0
    BY ONLY <1>1, <2>2, NothingReceived
  <2> QED
    BY <2>1, <2>3
<1>4. Follows(orders[o], o \in overlapped, o \in manual, ReceiptsOf(o) # {})
  BY FollowsAre DEF PurchaseInv
<1> QED
  BY <1>2, <1>3, <1>4

\* updatePurchaseOrder cannot delete the lines of a receipt, and a draft, unless
\* it was made one by hand, has none.
LEMMA UpdateRewrites ==
  ASSUME PurchaseInv, NEW p \in Procs, UpdatePurchaseOrder(p)
  PROVE  Stops(p) \/ \E o \in Orders, new \in Order : Rewrites(p, o, new)
<1>1. PICK o : o = req[p].order
  OBVIOUS
<1>2. req[p].op = "update" /\ Exists(o) /\ ~Locked(o) /\ Done(p)
      /\ UNCHANGED <<stockVars, receipts, refused, overlapped, manual>>
  BY <1>1 DEF UpdatePurchaseOrder, Handling
<1>3. o \in Orders /\ orders[o] \in Order /\ req[p] \in Request
  BY <1>1, <1>2, OrderOfRequest
<1>4. CASE UNCHANGED orders
  BY <1>2, <1>4 DEF Stops
<1>5. ASSUME NEW items \in ItemLists, NEW seen \in req[p].read.edits..orders[o].edits,
             \A r \in ReceiptsOf(o) :
               ~RefersTo(receipts[r], {i \in DOMAIN orders[o].items : orders[o].items[i].edit <= seen}),
             orders' = [orders EXCEPT ![o] = Replaced(@, seen, items)]
      PROVE  \E new \in Order : Rewrites(p, o, new)
  <2> DEFINE old == orders[o].items
  <2>1. PICK new : new = Replaced(orders[o], seen, items)
    OBVIOUS
  <2>2. seen \in Nat
    <3>1. req[p].read \in Order
      BY <1>3 DEF Request
    <3>2. req[p].read.edits \in Nat /\ orders[o].edits \in Nat
      BY <1>3, <3>1 DEF Order
    <3> QED
      BY <3>2
  <2>3. /\ new \in Order /\ new.status = orders[o].status
        /\ \A i \in DOMAIN old :
             /\ i \in DOMAIN new.items
             /\ new.items[i].received = old[i].received
             /\ new.items[i] = old[i] \/ (old[i].edit <= seen /\ new.items[i].n = 0)
             /\ old[i].edit <= seen \/ new.items[i] = old[i]
        /\ \A i \in DOMAIN new.items : i \in DOMAIN old \/ new.items[i].received = 0
    BY <1>3, <2>1, <2>2, ReplacedLines
  <2>4. \A i \in DOMAIN old : old[i].edit <= seen => \A r \in ReceiptsOf(o) : ~RefersTo(receipts[r], {i})
    BY <1>5 DEF RefersTo
  <2> HIDE DEF old
  <2>5. /\ \A r \in ReceiptsOf(o) : \A j \in DOMAIN receipts[r].entries :
             Live(old, receipts[r].entries[j].line)
        /\ \A i \in DOMAIN old :
             (\A r \in ReceiptsOf(o) : ~RefersTo(receipts[r], {i})) => old[i].received = 0
        /\ Follows(orders[o], o \in overlapped, o \in manual, ReceiptsOf(o) # {})
    BY <1>3, LinesOfOrder DEF old
  <2>6. Keeps(o, new)
    <3>1. ASSUME NEW r \in ReceiptsOf(o), NEW j \in DOMAIN receipts[r].entries
          PROVE  LET i == receipts[r].entries[j].line
                 IN  Live(new.items, i) /\ new.items[i].row = old[i].row
      <4>1. PICK i : i = receipts[r].entries[j].line
        OBVIOUS
      <4>2. Live(old, i) /\ RefersTo(receipts[r], {i})
        BY <2>5, <4>1 DEF RefersTo
      <4>3. new.items[i] = old[i] /\ i \in DOMAIN new.items
        BY <2>3, <2>4, <4>2 DEF Live
      <4> QED
        BY <4>1, <4>2, <4>3 DEF Live
    <3>2. new.status \in Statuses
      BY <1>2, <2>3 DEF Exists
    <3>3. ASSUME NEW i \in DOMAIN new.items
          PROVE  \/ i \in DOMAIN old /\ new.items[i].received = old[i].received
                 \/ /\ new.items[i].received = 0
                    /\ \A r \in ReceiptsOf(o) : ~RefersTo(receipts[r], {i})
      <4>1. CASE i \in DOMAIN old
        BY <2>3, <4>1
      <4>2. CASE i \notin DOMAIN old
        BY <2>3, <2>5, <4>2 DEF RefersTo, Live
      <4> QED
        BY <4>1, <4>2
    <3> QED
      BY <3>1, <3>2, <3>3 DEF Keeps, old
  <2>7. ASSUME o \notin overlapped, NEW i \in DOMAIN new.items
        PROVE  new.items[i].received <= new.items[i].n
    <3>1. new.items[i].n \in Nat /\ new.items \in Seq(Line)
      <4>1. new.items \in Seq(Line)
        BY <2>3 DEF Order
      <4>2. new.items[i] \in Line
        BY <4>1
      <4> QED
        BY <4>1, <4>2 DEF Line
    <3>2. CASE i \in DOMAIN old /\ new.items[i] = old[i]
      BY <2>5, <2>7, <3>2 DEF Follows, old
    <3>3. CASE i \in DOMAIN old /\ old[i].edit <= seen /\ new.items[i].n = 0
      <4>1. new.items[i].received = 0
        BY <2>3, <2>4, <2>5, <3>3
      <4> QED
        BY <3>3, <4>1
    <3>4. CASE i \notin DOMAIN old
      BY <2>3, <3>1, <3>4
    <3> QED
      BY <2>3, <3>2, <3>3, <3>4
  <2>8. ASSUME o \notin overlapped, o \notin manual
        PROVE  StatusFits(new, ReceiptsOf(o) # {})
    <3>1. orders[o].status = "draft"
      BY <1>1, <1>2, <2>8 DEF PurchaseInv, UpToDate, StillSo
    <3>2. StatusFits(orders[o], ReceiptsOf(o) # {})
      BY <2>5, <2>8 DEF Follows
    <3>3. ReceiptsOf(o) = {}
      BY <3>1, <3>2 DEF StatusFits, Statuses
    <3> QED
      BY <2>3, <3>1, <3>3 DEF StatusFits
  <2>9. Follows(new, o \in overlapped, o \in manual', ReceiptsOf(o) # {})
    BY <1>2, <2>7, <2>8 DEF Follows
  <2>10. Writes(p, o, new)
    BY <1>1, <1>2, <1>5, <2>1 DEF Writes
  <2> QED
    BY <2>3, <2>6, <2>9, <2>10 DEF Rewrites
<1> QED
  BY <1>1, <1>3, <1>4, <1>5 DEF UpdatePurchaseOrder

\* An order with the lines it had keeps its receipts.
LEMMA SameLinesKeep ==
  ASSUME PurchaseInv, NEW o \in Orders, NEW new, new.items = orders[o].items,
         new.status \in Statuses
  PROVE  Keeps(o, new)
BY LinesOfOrder DEF Keeps

\* changePurchaseOrderStatus sets the status by hand.
LEMMA StatusRewrites ==
  ASSUME PurchaseInv, NEW p \in Procs, ChangePurchaseOrderStatus(p)
  PROVE  \E o \in Orders, new \in Order : Rewrites(p, o, new)
<1>1. PICK o : o = req[p].order
  OBVIOUS
<1>2. req[p].op = "status" /\ Exists(o) /\ ~Locked(o) /\ Done(p)
      /\ UNCHANGED <<stockVars, receipts, refused, overlapped>>
      /\ manual' = manual \cup {o}
  BY <1>1 DEF ChangePurchaseOrderStatus, Handling
<1>3. o \in Orders /\ orders[o] \in Order /\ req[p] \in Request
  BY <1>1, <1>2, OrderOfRequest
<1>4. PICK status : status = req[p].status
  OBVIOUS
<1>5. status \in Statuses
  BY <1>3, <1>4 DEF Request
<1>6. PICK new : new = [orders[o] EXCEPT !.status = status]
  OBVIOUS
<1>7. new \in Order /\ new.status = status /\ new.items = orders[o].items
  <2>1. << >> \in Seq(Line)
    OBVIOUS
  <2>2. PICK old : old = orders[o]
    OBVIOUS
  <2>3. old \in Order /\ status \in Statuses \cup {"absent", "removed"}
    BY <1>3, <1>5, <2>2
  <2>4. /\ [old EXCEPT !.status = status] \in Order
        /\ [old EXCEPT !.status = status].status = status
        /\ [old EXCEPT !.status = status].items = old.items
    BY ONLY <2>1, <2>3 DEF Order
  <2> QED
    BY <1>6, <2>2, <2>4
<1>8. Keeps(o, new)
  BY <1>3, <1>5, <1>7, SameLinesKeep
<1>9. Follows(new, o \in overlapped, o \in manual', ReceiptsOf(o) # {})
  BY <1>2, <1>3, <1>7, LinesOfOrder DEF Follows
<1>10. orders' = [orders EXCEPT ![o] = new]
  BY <1>1, <1>4, <1>6 DEF ChangePurchaseOrderStatus
<1>11. Writes(p, o, new)
  BY <1>1, <1>2, <1>10 DEF Writes
<1> QED
  BY <1>3, <1>7, <1>8, <1>9, <1>11 DEF Rewrites

\* removePurchaseOrder takes an order that has no receipts.
LEMMA RemoveRewrites ==
  ASSUME PurchaseInv, NEW p \in Procs, RemovePurchaseOrder(p)
  PROVE  \E o \in Orders, new \in Order : Rewrites(p, o, new)
<1>1. PICK o : o = req[p].order
  OBVIOUS
<1>2. req[p].op = "remove" /\ Exists(o) /\ ~Locked(o) /\ Done(p) /\ ReceiptsOf(o) = {}
      /\ UNCHANGED <<stockVars, receipts, refused, overlapped, manual>>
  BY <1>1 DEF RemovePurchaseOrder, Handling
<1>3. o \in Orders /\ orders[o] \in Order
  BY <1>1, <1>2, OrderOfRequest
<1>4. PICK new : new = [orders[o] EXCEPT !.status = "removed", !.items = << >>]
  OBVIOUS
<1>5. new \in Order /\ new.status = "removed" /\ new.items = << >>
  <2>1. << >> \in Seq(Line)
    OBVIOUS
  <2>2. PICK old : old = orders[o]
    OBVIOUS
  <2>3. old \in Order /\ "removed" \in Statuses \cup {"absent", "removed"}
    BY <1>3, <2>2
  <2>4. /\ [old EXCEPT !.status = "removed", !.items = << >>] \in Order
        /\ [old EXCEPT !.status = "removed", !.items = << >>].status = "removed"
        /\ [old EXCEPT !.status = "removed", !.items = << >>].items = << >>
    BY ONLY <2>1, <2>3 DEF Order
  <2> QED
    BY <1>4, <2>2, <2>4
<1>6. Keeps(o, new)
  BY <1>2, <1>5 DEF Keeps
<1>7. Follows(new, o \in overlapped, o \in manual', ReceiptsOf(o) # {})
  BY <1>2, <1>5 DEF Follows, StatusFits
<1>8. orders' = [orders EXCEPT ![o] = new]
  BY <1>1, <1>4 DEF RemovePurchaseOrder
<1>9. Writes(p, o, new)
  BY <1>1, <1>2, <1>8 DEF Writes
<1> QED
  BY <1>3, <1>5, <1>6, <1>7, <1>9 DEF Rewrites

-----------------------------------------------------------------------------
(* The requests in progress *)

\* A step that leaves the stock transactions alone.
LEMMA NothingTouched ==
  ASSUME Inv, Locks, UNCHANGED stockVars
  PROVE  Inv' /\ Locks' /\ (\A q \in Procs : Untouched(q)) /\ pc' = pc /\ stock' = stock
<1>1. stock' = stock /\ latest' = latest /\ owner' = owner /\ script' = script /\ pc' = pc
  BY DEF stockVars
<1>2. Inv'
  BY <1>1 DEF Inv, StockTypeOK, RowsSound
<1>3. Locks'
  BY <1>1 DEF Locks, LockDiscipline
<1> QED
  BY <1>1, <1>2, <1>3 DEF Untouched

\* A request in whose transaction, order and receipt number nobody interferes.
LEMMA OthersStaySane ==
  ASSUME RequestsAreSane, NEW q \in Procs, Untouched(q), req'[q] = req[q],
         req[q].op = "receive" =>
           /\ orders'[req[q].order] = orders[req[q].order]
           /\ req[q].number = Generated \/ (Recorded(req[q].number)' => Recorded(req[q].number))
  PROVE  SaneRequest(q)'
<1>1. SaneRequest(q) /\ pc'[q] = pc[q]
  BY DEF RequestsAreSane, Untouched
<1>2. CASE req[q].op # "receive"
  BY <1>1, <1>2 DEF SaneRequest
<1>3. CASE req[q].op = "receive"
  <2>1. PICK calls : calls = StockCalls(orders[req[q].order].items, req[q].entries)
    OBVIOUS
  <2>2. Executed(q, calls)
    BY <1>1, <1>3, <2>1 DEF SaneRequest
  <2>3. Executed(q, calls)'
    BY <2>2, OthersAreExecuted
  <2>4. Executed(q, StockCalls(orders[req[q].order].items, req[q].entries))'
    BY <1>3, <2>1, <2>3
  <2> QED
    BY <1>1, <1>3, <2>4 DEF SaneRequest, Exists
<1> QED
  BY <1>2, <1>3

\* A process without a request is sane.
LEMMA DoneIsSane ==
  ASSUME NEW p \in Procs, PurchaseTypeOK, Done(p), pc'[p] = "idle"
  PROVE  SaneRequest(p)' /\ req'[p] = NoRequest /\ \A q \in Procs \ {p} : req'[q] = req[q]
<1>1. req'[p] = NoRequest /\ \A q \in Procs \ {p} : req'[q] = req[q]
  BY DEF Done, PurchaseTypeOK
<1> QED
  BY <1>1 DEF SaneRequest, NoRequest

\* No step but the beginning of a receipt's transaction adds to those that
\* exclude each other.
LEMMA StillExclude ==
  ASSUME ReceiptsExclude, \A q \in Procs : req'[q] = req[q] \/ req'[q].op # "receive"
  PROVE  ReceiptsExclude'
BY DEF ReceiptsExclude, Handling

\* The end of a request that may have changed its own order leaves what other
\* requests have read, unless they overlap.
LEMMA DoneStaysUpToDate ==
  ASSUME PurchaseInv, NEW p \in Procs, Done(p), overlapped' = overlapped,
         \A x \in Orders : x # req[p].order => orders'[x] = orders[x]
  PROVE  UpToDate'
<1>1. req'[p] = NoRequest /\ \A q \in Procs \ {p} : req'[q] = req[q]
  BY DEF Done, PurchaseInv, PurchaseTypeOK
<1>2. SUFFICES ASSUME NEW q \in Procs, req'[q].op # "none", req'[q].order \notin overlapped
               PROVE  StillSo(q)'
  BY DEF UpToDate
<1>3. q # p /\ req'[q] = req[q]
  BY <1>1, <1>2 DEF NoRequest
<1>4. StillSo(q) /\ req[q].order \in Orders
  BY <1>2, <1>3 DEF PurchaseInv, UpToDate, RequestsAreSane, SaneRequest
<1>5. req[p].order # req[q].order
  BY <1>3, <1>4 DEF StillSo
<1>6. orders'[req[q].order] = orders[req[q].order]
  BY <1>4, <1>5
<1>7. \A x \in Procs \ {q} : req'[x].order # req[q].order
  <2>1. NoOrder # req[q].order
    BY <1>4, NoOrderAssumption
  <2> QED
    BY <1>1, <1>4, <2>1 DEF StillSo, NoRequest
<1> QED
  BY <1>3, <1>4, <1>6, <1>7 DEF StillSo, Exists

\* The types after a step that changes only orders and ends a request.
LEMMA DoneType ==
  ASSUME PurchaseTypeOK, NEW p \in Procs, Done(p) PROVE req' \in [Procs -> Request]
BY NoRequestType DEF PurchaseTypeOK, Done

-----------------------------------------------------------------------------
(* The steps *)

\* A step that moves no stock and writes neither an order nor a receipt.
LEMMA SameBooks ==
  ASSUME Books, stock' = stock, orders' = orders, receipts' = receipts
  PROVE  Books'
<1>1. ReceiptsAreKept'
  BY DEF Books, ReceiptsAreKept, ReceiptsKeepTheirOrder, OneReceiptPerNumber, Exists
<1>2. ReceivedMatchesReceipts'
  BY DEF Books, ReceivedMatchesReceipts, ReceiptsOf
<1>3. StockFollowsReceipts'
  BY DEF Books, StockFollowsReceipts, GoodsOf
<1> QED
  BY <1>1, <1>2, <1>3 DEF Books

\* A request that ends without effect, whose transaction, if it had one, rolls
\* back.
LEMMA EndKeepsInv ==
  ASSUME PurchaseInv, NEW p \in Procs, Done(p),
         (pc[p] = "idle" /\ UNCHANGED stockVars) \/ Rollback(p),
         UNCHANGED <<orders, receipts, refused, overlapped, manual>>
  PROVE  PurchaseInv'
<1>1. /\ Inv' /\ Locks' /\ stock' = stock /\ pc'[p] = "idle"
      /\ \A q \in Procs \ {p} : Untouched(q)
  <2>1. CASE pc[p] = "idle" /\ UNCHANGED stockVars
    BY <2>1, NothingTouched DEF PurchaseInv
  <2>2. CASE Rollback(p)
    <3>1. stock' = stock
      BY <2>2 DEF Rollback
    <3> QED
      BY <2>2, <3>1, RollbackInv, EndLocks, RollbackEnds, OthersAreUntouched DEF PurchaseInv
  <2> QED
    BY <2>1, <2>2
<1>2. SaneRequest(p)' /\ req'[p] = NoRequest /\ \A q \in Procs \ {p} : req'[q] = req[q]
  BY <1>1, DoneIsSane DEF PurchaseInv
<1>3. RequestsAreSane'
  <2>1. ASSUME NEW q \in Procs \ {p} PROVE SaneRequest(q)'
    BY <1>1, <1>2, OthersStaySane DEF PurchaseInv, Recorded
  <2> QED
    BY <1>2, <2>1 DEF RequestsAreSane
<1>4. ReceiptsExclude'
  BY <1>2, StillExclude DEF PurchaseInv, NoRequest
<1>5. UpToDate'
  BY DoneStaysUpToDate
<1>6. Books'
  BY <1>1, SameBooks DEF PurchaseInv
<1>7. OrdersFollowReceipts'
  BY DEF PurchaseInv, OrdersFollowReceipts, ReceivedWithinOrdered, StatusMatchesReceipts,
         Exists, ReceiptsOf
<1>8. PurchaseTypeOK'
  BY <1>1, DoneType DEF PurchaseInv, PurchaseTypeOK, Inv
<1> QED
  BY <1>1, <1>3, <1>4, <1>5, <1>6, <1>7, <1>8 DEF PurchaseInv

\* A request that writes its order.
LEMMA RewriteKeepsInv ==
  ASSUME PurchaseInv, NEW p \in Procs, NEW o \in Orders, NEW new \in Order, Rewrites(p, o, new)
  PROVE  PurchaseInv'
<1>1. /\ req[p].op \in {"update", "status", "remove"} /\ req[p].order = o
      /\ Exists(o) /\ ~Locked(o) /\ Done(p)
      /\ orders' = [orders EXCEPT ![o] = new]
      /\ manual' \in {manual, manual \cup {o}}
      /\ UNCHANGED <<stockVars, receipts, refused, overlapped>>
      /\ Keeps(o, new) /\ Follows(new, o \in overlapped, o \in manual', ReceiptsOf(o) # {})
  BY DEF Rewrites, Writes
<1>2. /\ orders \in [Orders -> Order] /\ orders' \in [Orders -> Order]
      /\ orders'[o] = new /\ \A x \in Orders \ {o} : orders'[x] = orders[x]
  BY <1>1 DEF PurchaseInv, PurchaseTypeOK
<1>3. pc[p] = "idle"
  BY <1>1 DEF PurchaseInv, RequestsAreSane, SaneRequest
<1>4. /\ Inv' /\ Locks' /\ stock' = stock /\ pc'[p] = "idle"
      /\ \A q \in Procs \ {p} : Untouched(q)
  BY <1>1, <1>3, NothingTouched DEF PurchaseInv
<1>5. SaneRequest(p)' /\ req'[p] = NoRequest /\ \A q \in Procs \ {p} : req'[q] = req[q]
  BY <1>1, <1>4, DoneIsSane DEF PurchaseInv
<1>6. RequestsAreSane'
  <2>1. ASSUME NEW q \in Procs \ {p} PROVE SaneRequest(q)'
    <3>1. req[q].op = "receive" => req[q].order # o /\ req[q].order \in Orders
      BY <1>1 DEF Locked, Handling, PurchaseInv, RequestsAreSane, SaneRequest
    <3>2. req[q].op = "receive" => orders'[req[q].order] = orders[req[q].order]
      BY <1>2, <3>1
    <3>3. Recorded(req[q].number)' => Recorded(req[q].number)
      BY <1>1, <1>5 DEF Recorded
    <3>4. req'[q] = req[q] /\ Untouched(q) /\ RequestsAreSane
      BY <1>4, <1>5 DEF PurchaseInv
    <3> QED
      BY <3>2, <3>3, <3>4, OthersStaySane
  <2> QED
    BY <1>5, <2>1 DEF RequestsAreSane
<1>7. ReceiptsExclude'
  BY <1>5, StillExclude DEF PurchaseInv, NoRequest
<1>8. UpToDate'
  BY <1>1, <1>2, DoneStaysUpToDate
<1>9. Books'
  BY <1>1, <1>4, EditKeepsBooks DEF PurchaseInv
<1>10. OrdersFollowReceipts'
  <2>1. \A x : ReceiptsOf(x)' = ReceiptsOf(x)
    BY <1>1 DEF ReceiptsOf
  <2>2. Follows(orders'[o], o \in overlapped', o \in manual', ReceiptsOf(o)' # {})
    BY <1>1, <1>2, <2>1
  <2>3. \A x \in Orders \ {o} : /\ orders'[x] = orders[x]
                                /\ x \in manual' <=> x \in manual
                                /\ ReceiptsOf(x)' = ReceiptsOf(x)
    BY <1>1, <1>2, <2>1
  <2>4. OrdersFollowReceipts /\ overlapped \subseteq overlapped'
    BY <1>1 DEF PurchaseInv
  <2> QED
    BY <2>2, <2>3, <2>4, OthersFollow
<1>11. PurchaseTypeOK'
  BY <1>1, <1>2, <1>4, DoneType DEF PurchaseInv, PurchaseTypeOK, Inv
<1> QED
  BY <1>4, <1>6, <1>7, <1>8, <1>9, <1>10, <1>11 DEF PurchaseInv

\* A request that has read its order has done nothing yet; whoever else works on
\* the order overlaps with it.
LEMMA AskKeepsInv ==
  ASSUME PurchaseInv, NEW p \in Procs, NEW o \in Orders, NEW r \in Request, Asks(p, o, r)
  PROVE  PurchaseInv'
<1>1. /\ Idle(p) /\ Exists(o) /\ Starts(p, r)
      /\ r.op \in {"update", "status", "remove", "check"} /\ r.order = o /\ r.read = orders[o]
      /\ r.op = "update" => orders[o].status = "draft"
      /\ r.op = "check" => WithinRemaining(orders[o].items, r.entries)
      /\ UNCHANGED <<stockVars, orders, receipts, refused, manual>>
  BY DEF Asks
<1>2. /\ req'[p] = r /\ req' \in [Procs -> Request]
      /\ \A q \in Procs \ {p} : req'[q] = req[q]
      /\ overlapped \subseteq overlapped' /\ overlapped' \subseteq Orders
      /\ o \notin overlapped' => ~Twice(r.entries) /\ \A q \in Procs \ {p} : req[q].order # o
  BY <1>1 DEF Starts, PurchaseInv, PurchaseTypeOK
<1>3. Inv' /\ Locks' /\ stock' = stock /\ pc' = pc /\ \A q \in Procs : Untouched(q)
  BY <1>1, NothingTouched DEF PurchaseInv
<1>4. RequestsAreSane'
  <2>1. SaneRequest(p)'
    BY <1>1, <1>2, <1>3 DEF SaneRequest, Idle
  <2>2. ASSUME NEW q \in Procs \ {p} PROVE SaneRequest(q)'
    BY <1>1, <1>2, <1>3, OthersStaySane DEF PurchaseInv, Recorded
  <2> QED
    BY <2>1, <2>2 DEF RequestsAreSane
<1>5. ReceiptsExclude'
  BY <1>1, <1>2, StillExclude DEF PurchaseInv
<1>6. UpToDate'
  <2> SUFFICES ASSUME NEW q \in Procs, req'[q].op # "none", req'[q].order \notin overlapped'
               PROVE  StillSo(q)'
    BY DEF UpToDate
  <2>1. CASE q = p
    BY <1>1, <1>2, <2>1 DEF StillSo, Exists
  <2>2. CASE q # p
    <3>1. StillSo(q)
      BY <1>2, <2>2 DEF PurchaseInv, UpToDate
    <3>2. req'[q] = req[q] /\ orders' = orders
      BY <1>1, <1>2, <2>2
    <3>3. r.order # req[q].order
      BY <1>1, <1>2, <2>2, <3>2
    <3>4. \A x \in Procs \ {q} : req'[x].order # req[q].order
      BY <1>2, <3>1, <3>3 DEF StillSo
    <3> QED
      BY <3>1, <3>2, <3>4 DEF StillSo, Exists
  <2> QED
    BY <2>1, <2>2
<1>7. Books'
  BY <1>1, <1>3, SameBooks DEF PurchaseInv
<1>8. OrdersFollowReceipts'
  BY <1>1, <1>2 DEF PurchaseInv, OrdersFollowReceipts, ReceivedWithinOrdered, StatusMatchesReceipts,
         Exists, ReceiptsOf
<1>9. PurchaseTypeOK'
  BY <1>1, <1>2, <1>3 DEF PurchaseInv, PurchaseTypeOK, Inv
<1> QED
  BY <1>3, <1>4, <1>5, <1>6, <1>7, <1>8, <1>9 DEF PurchaseInv

\* A request that is refused leaves at most its number.
LEMMA RefusalKeepsInv ==
  ASSUME PurchaseInv, UNCHANGED <<stockVars, orders, receipts, req, overlapped, manual>>,
         refused' \subseteq Numbers
  PROVE  PurchaseInv'
<1>1. Inv' /\ Locks' /\ stock' = stock /\ pc' = pc /\ \A q \in Procs : Untouched(q)
  BY NothingTouched DEF PurchaseInv
<1>2. RequestsAreSane'
  <2>1. ASSUME NEW q \in Procs PROVE SaneRequest(q)'
    BY <1>1, OthersStaySane DEF PurchaseInv, Recorded
  <2> QED
    BY <2>1 DEF RequestsAreSane
<1>3. ReceiptsExclude'
  BY DEF PurchaseInv, ReceiptsExclude, Handling
<1>4. UpToDate'
  BY DEF PurchaseInv, UpToDate, StillSo, Exists
<1>5. Books'
  BY <1>1, SameBooks DEF PurchaseInv
<1>6. OrdersFollowReceipts'
  BY DEF PurchaseInv, OrdersFollowReceipts, ReceivedWithinOrdered, StatusMatchesReceipts,
         Exists, ReceiptsOf
<1>7. PurchaseTypeOK'
  BY <1>1 DEF PurchaseInv, PurchaseTypeOK, Inv
<1> QED
  BY <1>1, <1>2, <1>3, <1>4, <1>5, <1>6, <1>7 DEF PurchaseInv

\* A new order has no receipts.
LEMMA CreateKeepsInv ==
  ASSUME PurchaseInv, NEW o \in Orders, NEW items \in ItemLists, CreatePurchaseOrder(o, items)
  PROVE  PurchaseInv'
<1>1. PICK new : new = [NoneYet EXCEPT !.status = "draft", !.items = items]
  OBVIOUS
<1>2. /\ new \in Order /\ new.status = "draft" /\ new.items = items
      /\ \A i \in DOMAIN items : items[i].n > 0 /\ items[i].received = 0
  <2>1. /\ items \in Seq(Line)
        /\ \A i \in DOMAIN items : items[i].n > 0 /\ items[i].received = 0
    BY ItemListsAssumption
  <2>2. PICK none : none = NoneYet
    OBVIOUS
  <2>3. none \in Order /\ "draft" \in Statuses
    BY <2>2, NoneYetType DEF Statuses
  <2>4. new = [none EXCEPT !.status = "draft", !.items = items]
    BY <1>1, <2>2
  <2>5. new \in Order /\ new.status = "draft" /\ new.items = items
    BY ONLY <2>1, <2>3, <2>4 DEF Order
  <2> QED
    BY <2>1, <2>5
<1>3. /\ orders[o].status = "absent" /\ orders' = [orders EXCEPT ![o] = new]
      /\ UNCHANGED <<stockVars, receipts, req, refused, overlapped, manual>>
  BY <1>1 DEF CreatePurchaseOrder
<1>4. /\ orders \in [Orders -> Order] /\ orders' \in [Orders -> Order]
      /\ orders'[o] = new /\ \A x \in Orders \ {o} : orders'[x] = orders[x]
  BY <1>2, <1>3 DEF PurchaseInv, PurchaseTypeOK
<1>5. ~Exists(o) /\ ReceiptsOf(o) = {}
  <2>1. ~Exists(o)
    BY <1>3 DEF Exists, Statuses
  <2> QED
    BY <2>1 DEF ReceiptsOf, PurchaseInv, Books, ReceiptsAreKept, ReceiptsKeepTheirOrder
<1>6. Inv' /\ Locks' /\ stock' = stock /\ pc' = pc /\ \A q \in Procs : Untouched(q)
  BY <1>3, NothingTouched DEF PurchaseInv
<1>7. RequestsAreSane'
  <2>1. ASSUME NEW q \in Procs PROVE SaneRequest(q)'
    <3>1. req[q].op = "receive" => req[q].order # o /\ req[q].order \in Orders
      BY <1>5 DEF PurchaseInv, RequestsAreSane, SaneRequest
    <3>2. req[q].op = "receive" => orders'[req[q].order] = orders[req[q].order]
      BY <1>4, <3>1
    <3>3. Recorded(req[q].number)' => Recorded(req[q].number)
      BY <1>3 DEF Recorded
    <3>4. req'[q] = req[q] /\ Untouched(q) /\ RequestsAreSane
      BY <1>3, <1>6 DEF PurchaseInv
    <3> QED
      BY <3>2, <3>3, <3>4, OthersStaySane
  <2> QED
    BY <2>1 DEF RequestsAreSane
<1>8. ReceiptsExclude'
  BY <1>3, StillExclude DEF PurchaseInv
<1>9. UpToDate'
  <2> SUFFICES ASSUME NEW q \in Procs, req'[q].op # "none", req'[q].order \notin overlapped'
               PROVE  StillSo(q)'
    BY DEF UpToDate
  <2>1. StillSo(q) /\ req[q].order \in Orders
    BY <1>3 DEF PurchaseInv, UpToDate, RequestsAreSane, SaneRequest
  <2>2. req[q].order # o
    BY <1>5, <2>1 DEF StillSo
  <2>3. orders'[req[q].order] = orders[req[q].order] /\ req' = req
    BY <1>3, <1>4, <2>1, <2>2
  <2> QED
    BY <2>1, <2>3 DEF StillSo, Exists
<1>10. Books'
  <2>1. Keeps(o, new)
    BY <1>2, <1>5 DEF Keeps
  <2> QED
    BY <1>2, <1>3, <1>6, <2>1, EditKeepsBooks DEF PurchaseInv
<1>11. OrdersFollowReceipts'
  <2>1. \A x : ReceiptsOf(x)' = ReceiptsOf(x)
    BY <1>3 DEF ReceiptsOf
  <2>2. Follows(new, o \in overlapped', o \in manual', ReceiptsOf(o)' # {})
    <3>1. \A i \in DOMAIN new.items : new.items[i].received <= new.items[i].n
      <4>1. new.items \in Seq(Line)
        BY <1>2 DEF Order
      <4>2. \A i \in DOMAIN new.items : new.items[i] \in Line
        BY <4>1
      <4>3. \A i \in DOMAIN new.items : new.items[i].n \in Nat
        BY <4>2 DEF Line
      <4> QED
        BY <1>2, <4>3
    <3>2. StatusFits(new, ReceiptsOf(o)' # {})
      BY <1>2, <1>5, <2>1 DEF StatusFits
    <3> QED
      BY <3>1, <3>2 DEF Follows
  <2>3. \A x \in Orders \ {o} : /\ orders'[x] = orders[x]
                                /\ x \in manual' <=> x \in manual
                                /\ ReceiptsOf(x)' = ReceiptsOf(x)
    BY <1>3, <1>4, <2>1
  <2>4. OrdersFollowReceipts /\ overlapped \subseteq overlapped'
    BY <1>3 DEF PurchaseInv
  <2> QED
    BY <1>4, <2>2, <2>3, <2>4, OthersFollow
<1>12. PurchaseTypeOK'
  BY <1>3, <1>4, <1>6 DEF PurchaseInv, PurchaseTypeOK, Inv
<1> QED
  BY <1>6, <1>7, <1>8, <1>9, <1>10, <1>11, <1>12 DEF PurchaseInv

\* receiveGoods opens its transaction: no other receipt has the order's locks or
\* the number.
LEMMA BookKeepsInv ==
  ASSUME PurchaseInv, NEW p \in Procs, BookReceipt(p)
  PROVE  PurchaseInv'
<1>1. PICK o, items, entries, number :
        o = req[p].order /\ items = orders[o].items /\ entries = req[p].entries /\ number = req[p].number
  OBVIOUS
<1>2. /\ req[p].op = "check" /\ Exists(o) /\ ~Locked(o)
      /\ \A j \in DOMAIN entries : Live(items, entries[j].line)
      /\ number # Generated => ~Recorded(number) /\ ~NumberTaken(number)
      /\ Begin(p, StockCalls(items, entries))
      /\ req' = [req EXCEPT ![p].op = "receive"]
      /\ UNCHANGED <<orders, receipts, refused, overlapped, manual>>
  BY <1>1 DEF BookReceipt, Handling
<1>3. o \in Orders /\ orders[o] \in Order /\ req[p] \in Request
  BY <1>1, <1>2, OrderOfRequest
<1>4. items \in Seq(Line) /\ entries \in Seq(Entry) /\ Named(items, entries)
  BY <1>1, <1>2, <1>3, LiveIsNamed DEF Order, Request
<1>5. PICK calls : calls = StockCalls(items, entries)
  OBVIOUS
<1>6. calls \in Seq(Call) /\ Begin(p, calls)
  BY <1>2, <1>4, <1>5, ReceiptEffect
<1>7. /\ Inv' /\ Locks' /\ Executed(p, calls)' /\ pc'[p] = "open" /\ stock' = stock
      /\ \A q \in Procs \ {p} : Untouched(q)
  BY <1>6, BeginInv, BeginExecutes, OthersAreUntouched DEF PurchaseInv
<1>8. /\ req'[p] \in Request /\ req'[p].op = "receive" /\ req'[p].order = o /\ req'[p].read = req[p].read
      /\ req'[p].number = number /\ req'[p].entries = entries
      /\ req' \in [Procs -> Request] /\ \A q \in Procs \ {p} : req'[q] = req[q]
  <2>1. PICK old : old = req[p]
    OBVIOUS
  <2>2. [old EXCEPT !.op = "receive"] \in Request
    BY <1>3, <2>1 DEF Request
  <2>3. /\ [old EXCEPT !.op = "receive"].op = "receive"
        /\ [old EXCEPT !.op = "receive"].order = old.order
        /\ [old EXCEPT !.op = "receive"].read = old.read
        /\ [old EXCEPT !.op = "receive"].number = old.number
        /\ [old EXCEPT !.op = "receive"].entries = old.entries
    BY <1>3, <2>1 DEF Request
  <2>4. /\ req'[p] = [old EXCEPT !.op = "receive"] /\ req \in [Procs -> Request]
        /\ \A q \in Procs \ {p} : req'[q] = req[q]
    BY <1>2, <2>1 DEF PurchaseInv, PurchaseTypeOK
  <2>5. req' \in [Procs -> Request]
    BY <1>2, <2>1, <2>2, <2>4
  <2> QED
    BY <1>1, <2>1, <2>2, <2>3, <2>4, <2>5
<1>9. RequestsAreSane'
  <2>1. SaneRequest(p)'
    <3>1. Executed(p, StockCalls(orders[req[p].order].items, req[p].entries))'
      BY <1>1, <1>2, <1>5, <1>7, <1>8
    <3>2. number = Generated \/ ~Recorded(number)'
      BY <1>2 DEF Recorded
    <3>3. \A j \in DOMAIN req'[p].entries :
            Live(orders'[req'[p].order].items, req'[p].entries[j].line)
      BY <1>1, <1>2, <1>8
    <3> QED
      BY <1>2, <1>3, <1>7, <1>8, <3>1, <3>2, <3>3 DEF SaneRequest, Exists
  <2>2. ASSUME NEW q \in Procs \ {p} PROVE SaneRequest(q)'
    BY <1>2, <1>7, <1>8, OthersStaySane DEF PurchaseInv, Recorded
  <2> QED
    BY <2>1, <2>2 DEF RequestsAreSane
<1>10. ReceiptsExclude'
  <2>1. ASSUME NEW q \in Procs \ {p}, req[q].op = "receive"
        PROVE  req[q].order # o /\ (req[q].number # number \/ number = Generated)
    BY <1>2, <2>1 DEF Locked, NumberTaken, Handling
  <2> QED
    BY <1>8, <2>1 DEF PurchaseInv, ReceiptsExclude, Handling
<1>11. UpToDate'
  <2> SUFFICES ASSUME NEW q \in Procs, req'[q].op # "none", req'[q].order \notin overlapped'
               PROVE  StillSo(q)'
    BY DEF UpToDate
  <2>1. \A x \in Procs : req'[x].order = req[x].order
    BY <1>1, <1>8
  <2>2. /\ req'[q].read = req[q].read /\ req'[q].entries = req[q].entries
        /\ req'[q].op = req[q].op \/ (req'[q].op = "receive" /\ req[q].op = "check")
    BY <1>1, <1>2, <1>8
  <2>3. StillSo(q)
    BY <1>2, <2>1, <2>2 DEF PurchaseInv, UpToDate
  <2> QED
    BY <1>2, <2>1, <2>2, <2>3 DEF StillSo, Exists
<1>12. Books'
  BY <1>2, <1>7, SameBooks DEF PurchaseInv
<1>13. OrdersFollowReceipts'
  BY <1>2 DEF PurchaseInv, OrdersFollowReceipts, ReceivedWithinOrdered, StatusMatchesReceipts,
         Exists, ReceiptsOf
<1>14. PurchaseTypeOK'
  BY <1>2, <1>7, <1>8 DEF PurchaseInv, PurchaseTypeOK, Inv
<1> QED
  BY <1>7, <1>9, <1>10, <1>11, <1>12, <1>13, <1>14 DEF PurchaseInv

\* Its stock goes on moving, or the transaction rolls back.
LEMMA StatementKeepsInv ==
  ASSUME PurchaseInv, NEW p \in Procs, StockStatement(p)
  PROVE  PurchaseInv'
<1>1. /\ Statement(p) /\ IF pc'[p] = "idle" THEN Done(p) ELSE UNCHANGED req
      /\ UNCHANGED <<orders, receipts, refused, overlapped, manual>>
  BY DEF StockStatement
<1>2. pc[p] # "idle"
  BY <1>1, StatementIsOpen
<1>3. req[p].op = "receive"
  BY <1>2 DEF PurchaseInv, RequestsAreSane, SaneRequest
<1>4. PICK calls : calls = StockCalls(orders[req[p].order].items, req[p].entries)
  OBVIOUS
<1>5. Executed(p, calls) /\ \A j \in DOMAIN req[p].entries : Live(orders[req[p].order].items, req[p].entries[j].line)
  BY <1>3, <1>4 DEF PurchaseInv, RequestsAreSane, SaneRequest
<1>6. calls \in Seq(Call)
  <2>1. orders[req[p].order] \in Order /\ req[p] \in Request
    BY <1>3, OrderOfRequest
  <2>2. orders[req[p].order].items \in Seq(Line) /\ req[p].entries \in Seq(Entry)
    BY <2>1 DEF Order, Request
  <2> QED
    BY <1>4, <1>5, <2>2, LiveIsNamed, ReceiptEffect
<1>7. CASE Rollback(p)
  <2>1. Done(p)
    BY <1>1, <1>7, RollbackEnds DEF PurchaseInv
  <2> QED
    BY <1>1, <1>7, <2>1, EndKeepsInv
<1>8. CASE pc'[p] # "idle" /\ Executed(p, calls)'
  <2>1. UNCHANGED <<req, orders, receipts, refused, overlapped, manual>>
    BY <1>1, <1>8
  <2>2. Inv' /\ Locks' /\ stock' = stock /\ \A q \in Procs \ {p} : Untouched(q)
    BY <1>1, <1>5, <1>6, StatementInv, StatementExecutes, OthersAreUntouched DEF PurchaseInv
  <2>3. RequestsAreSane'
    <3>1. SaneRequest(p)'
      <4>1. Executed(p, StockCalls(orders[req[p].order].items, req[p].entries))'
        BY <1>4, <1>8, <2>1
      <4>2. SaneRequest(p)
        BY DEF PurchaseInv, RequestsAreSane
      <4> QED
        BY <1>3, <1>8, <2>1, <4>1, <4>2 DEF SaneRequest, Exists, Recorded
    <3>2. ASSUME NEW q \in Procs \ {p} PROVE SaneRequest(q)'
      BY <2>1, <2>2, OthersStaySane DEF PurchaseInv, Recorded
    <3> QED
      BY <3>1, <3>2 DEF RequestsAreSane
  <2>4. ReceiptsExclude'
    BY <2>1 DEF PurchaseInv, ReceiptsExclude, Handling
  <2>5. UpToDate'
    BY <2>1 DEF PurchaseInv, UpToDate, StillSo, Exists
  <2>6. Books'
    BY <2>1, <2>2, SameBooks DEF PurchaseInv
  <2>7. OrdersFollowReceipts'
    BY <2>1 DEF PurchaseInv, OrdersFollowReceipts, ReceivedWithinOrdered, StatusMatchesReceipts,
           Exists, ReceiptsOf
  <2>8. PurchaseTypeOK'
    BY <2>1, <2>2 DEF PurchaseInv, PurchaseTypeOK, Inv
  <2> QED
    BY <2>2, <2>3, <2>4, <2>5, <2>6, <2>7, <2>8 DEF PurchaseInv
<1> QED
  BY <1>1, <1>5, <1>6, <1>7, <1>8, StatementExecutes DEF PurchaseInv

\* A receipt that commits: its lines, its stock and its status become what its
\* entries make of them, and nobody else has touched them.
LEMMA ReceiptCommits ==
  ASSUME PurchaseInv, NEW p \in Procs, CommitReceipt(p)
  PROVE  PurchaseInv'
<1>1. PICK o, items, entries, number, read :
        /\ o = req[p].order /\ items = orders[o].items /\ entries = req[p].entries
        /\ number = req[p].number /\ read = req[p].read
  OBVIOUS
<1>2. PICK status : status = IF AllReceived(WithReceived(read.items, entries)) THEN "received" ELSE "sent"
  OBVIOUS
<1>3. PICK received : received = WithReceived(items, entries)
  OBVIOUS
<1>4. PICK new : new = [orders[o] EXCEPT !.items = received, !.status = status]
  OBVIOUS
<1>5. PICK entry : entry = [number |-> number, order |-> o, entries |-> entries]
  OBVIOUS
<1>6. /\ req[p].op = "receive" /\ Commit(p) /\ Done(p)
      /\ receipts' = Append(receipts, entry)
      /\ manual' = manual \ {o} /\ UNCHANGED <<refused, overlapped>>
  BY <1>1, <1>5 DEF CommitReceipt, Booked, Handling
<1>7. orders' = [orders EXCEPT ![o] = new]
  BY <1>1, <1>2, <1>3, <1>4 DEF CommitReceipt, Booked
<1>8. o \in Orders /\ orders[o] \in Order /\ req[p] \in Request
  BY <1>1, <1>6, OrderOfRequest
<1>9. /\ items \in Seq(Line) /\ entries \in Seq(Entry) /\ read \in Order
      /\ entry \in Receipt /\ entry.order = o /\ entry.number = number /\ entry.entries = entries
  <2>1. items \in Seq(Line)
    BY <1>1, <1>8 DEF Order
  <2>2. entries \in Seq(Entry) /\ read \in Order /\ number \in Numbers \cup {Generated}
    BY <1>1, <1>8 DEF Request
  <2> QED
    BY <1>5, <1>8, <2>1, <2>2 DEF Receipt
<1>10. /\ Exists(o) /\ \A j \in DOMAIN entries : Live(items, entries[j].line)
       /\ Executed(p, StockCalls(items, entries))
       /\ number = Generated \/ ~Recorded(number)
  BY <1>1, <1>6 DEF PurchaseInv, RequestsAreSane, SaneRequest
<1>11. received \in Seq(Line) /\ status \in Statuses
  BY <1>2, <1>3, <1>9, WithReceivedType DEF Statuses
<1>12. new \in Order /\ new.items = received /\ new.status = status
  <2>1. PICK old : old = orders[o]
    OBVIOUS
  <2>2. old \in Order /\ new = [old EXCEPT !.items = received, !.status = status]
    BY <1>4, <1>8, <2>1
  <2> QED
    BY ONLY <1>11, <2>2 DEF Order
<1>13. /\ orders \in [Orders -> Order] /\ orders' \in [Orders -> Order]
       /\ orders'[o] = new /\ \A x \in Orders \ {o} : orders'[x] = orders[x]
  BY <1>7, <1>8, <1>12 DEF PurchaseInv, PurchaseTypeOK
<1>14. receipts \in Seq(Receipt) /\ receipts' \in Seq(Receipt)
  BY <1>6, <1>9 DEF PurchaseInv, PurchaseTypeOK
<1>15. PICK calls : calls = StockCalls(items, entries)
  OBVIOUS
<1>16. /\ calls \in Seq(Call) /\ Executed(p, calls)
       /\ \A k \in Rows : MovedBy(calls, Len(calls), k) = Brings(items, entries, k)
  BY <1>9, <1>10, <1>15, LiveIsNamed, ReceiptEffect
<1>17. /\ Inv' /\ Locks' /\ pc'[p] = "idle" /\ \A q \in Procs \ {p} : Untouched(q)
       /\ \A k \in Rows : stock'[k].moved = stock[k].moved + Brings(items, entries, k)
  <2>1. Inv /\ Locks
    BY DEF PurchaseInv
  <2>2. Inv' /\ Locks' /\ pc'[p] = "idle" /\ \A q \in Procs \ {p} : Untouched(q)
    BY <1>6, <2>1, CommitInv, EndLocks, RollbackEnds, OthersAreUntouched
  <2>3. \A k \in Rows : stock'[k].moved = stock[k].moved + MovedBy(calls, Len(calls), k)
    BY <1>6, <1>16, <2>1, CommitPublishes
  <2> QED
    BY <1>16, <2>2, <2>3
<1>18. SaneRequest(p)' /\ req'[p] = NoRequest /\ \A q \in Procs \ {p} : req'[q] = req[q]
  BY <1>6, <1>17, DoneIsSane DEF PurchaseInv
<1>19. RequestsAreSane'
  <2>1. ASSUME NEW q \in Procs \ {p} PROVE SaneRequest(q)'
    <3>1. req[q].op = "receive" =>
            /\ req[q].order # o /\ req[q].order \in Orders
            /\ req[q].number # number \/ req[q].number = Generated
      BY <1>1, <1>6 DEF PurchaseInv, RequestsAreSane, SaneRequest, ReceiptsExclude, Handling
    <3>2. req[q].op = "receive" => orders'[req[q].order] = orders[req[q].order]
      BY <1>13, <3>1
    <3>3. req[q].number # number => (Recorded(req[q].number)' => Recorded(req[q].number))
      <4>1. /\ DOMAIN receipts' = DOMAIN receipts \cup {Len(receipts) + 1}
            /\ receipts'[Len(receipts) + 1] = entry
            /\ \A r \in DOMAIN receipts : receipts'[r] = receipts[r]
        BY <1>6, <1>14
      <4> QED
        BY <1>9, <1>18, <4>1 DEF Recorded
    <3>4. req'[q] = req[q] /\ Untouched(q) /\ RequestsAreSane
      BY <1>17, <1>18 DEF PurchaseInv
    <3> QED
      BY <3>1, <3>2, <3>3, <3>4, OthersStaySane
  <2> QED
    BY <1>18, <2>1 DEF RequestsAreSane
<1>20. ReceiptsExclude'
  BY <1>18, StillExclude DEF PurchaseInv, NoRequest
<1>21. UpToDate'
  BY <1>1, <1>6, <1>13, DoneStaysUpToDate
<1>22. Books'
  <2>1. PurchaseTypeOK /\ Books
    BY DEF PurchaseInv
  <2>2. /\ entry.number = Generated \/ ~Recorded(entry.number)
        /\ \A j \in DOMAIN entry.entries : Live(orders[o].items, entry.entries[j].line)
        /\ new.status \in Statuses /\ new.items = WithReceived(orders[o].items, entry.entries)
        /\ \A k \in Rows : stock'[k].moved = stock[k].moved + Brings(orders[o].items, entry.entries, k)
    BY <1>1, <1>3, <1>9, <1>10, <1>11, <1>12, <1>17
  <2> QED
    BY <1>6, <1>7, <1>8, <1>9, <1>12, <2>1, <2>2, ReceiptKeepsBooks
<1>23. OrdersFollowReceipts'
  <2>1. ReceiptsOf(o)' # {} /\ \A x : x # o => ReceiptsOf(x)' = ReceiptsOf(x)
    BY <1>6, <1>9, <1>14, ReceiptsGrow
  <2>2. ASSUME o \notin overlapped
        PROVE  /\ \A i \in DOMAIN new.items : new.items[i].received <= new.items[i].n
               /\ StatusFits(new, ReceiptsOf(o)' # {})
    <3>1. read = orders[o] /\ ~Twice(entries) /\ WithinRemaining(items, entries)
      BY <1>1, <1>6, <2>2 DEF PurchaseInv, UpToDate, StillSo
    <3>2. \A i \in DOMAIN items : items[i].received <= items[i].n
      BY <1>1, <1>8, <2>2, FollowsAre DEF PurchaseInv, Follows
    <3>3. \A i \in DOMAIN received : received[i].received <= received[i].n
      BY <1>3, <1>9, <3>1, <3>2, ReceivesWithinOrdered
    <3>4. status = IF AllReceived(received) THEN "received" ELSE "sent"
      BY <1>1, <1>2, <1>3, <3>1
    <3> QED
      BY <1>11, <1>12, <2>1, <3>3, <3>4 DEF StatusFits
  <2>3. Follows(orders'[o], o \in overlapped', o \in manual', ReceiptsOf(o)' # {})
    BY <1>6, <1>13, <2>2 DEF Follows
  <2>4. \A x \in Orders \ {o} : /\ orders'[x] = orders[x]
                                /\ x \in manual' <=> x \in manual
                                /\ ReceiptsOf(x)' = ReceiptsOf(x)
    BY <1>6, <1>13, <2>1
  <2>5. OrdersFollowReceipts /\ overlapped \subseteq overlapped'
    BY <1>6 DEF PurchaseInv
  <2> QED
    BY <1>8, <2>3, <2>4, <2>5, OthersFollow
<1>24. PurchaseTypeOK'
  <2>1. manual' \subseteq Orders
    BY <1>6 DEF PurchaseInv, PurchaseTypeOK
  <2> QED
    BY <1>6, <1>13, <1>14, <1>17, <2>1, DoneType DEF PurchaseInv, PurchaseTypeOK, Inv
<1> QED
  BY <1>17, <1>19, <1>20, <1>21, <1>22, <1>23, <1>24 DEF PurchaseInv

-----------------------------------------------------------------------------
(* The theorems *)

\* Nothing has been ordered or received when the service starts.
LEMMA InitPurchase == PurchaseInit => PurchaseInv
<1> SUFFICES ASSUME PurchaseInit PROVE PurchaseInv
  OBVIOUS
<1>1. /\ StockInit /\ orders = [o \in Orders |-> NoneYet] /\ receipts = << >>
      /\ req = [p \in Procs |-> NoRequest] /\ refused = {} /\ overlapped = {} /\ manual = {}
  BY DEF PurchaseInit
<1>2. Inv /\ Locks
  BY <1>1, InitInv, InitLocks
<1>3. /\ \A o \in Orders : orders[o] = NoneYet
      /\ NoneYet \in Order /\ NoneYet.items = << >> /\ NoneYet.status = "absent"
  BY <1>1, NoneYetType
<1>4. DOMAIN receipts = {} /\ receipts \in Seq(Receipt) /\ \A o : ReceiptsOf(o) = {}
  <2>1. DOMAIN receipts = {} /\ receipts \in Seq(Receipt)
    BY <1>1
  <2> QED
    BY <2>1 DEF ReceiptsOf
<1>5. PurchaseTypeOK
  BY <1>1, <1>2, <1>3, <1>4, NoRequestType DEF PurchaseTypeOK, Inv
<1>6. RequestsAreSane /\ ReceiptsExclude /\ UpToDate
  BY <1>1 DEF RequestsAreSane, SaneRequest, ReceiptsExclude, UpToDate, NoRequest, Handling, StockInit
<1>7. Books
  <2>1. ReceiptsAreKept
    BY <1>4 DEF ReceiptsAreKept, ReceiptsKeepTheirOrder, OneReceiptPerNumber
  <2>2. ReceivedMatchesReceipts
    <3>1. \A o \in Orders : DOMAIN orders[o].items = {}
      BY <1>3
    <3> QED
      BY <3>1 DEF ReceivedMatchesReceipts
  <2>3. StockFollowsReceipts
    <3> DEFINE goods(k) == [r \in DOMAIN receipts |-> GoodsOf(r, k)]
    <3>1. \A k \in Rows : stock[k].moved = Opening[k]
      BY <1>1 DEF StockInit, OpeningRow
    <3>2. \A k : SumFunction(goods(k)) = SumFunctionOnSet(goods(k), {})
      BY <1>4 DEF SumFunction
    <3>3. \A k \in Rows : Opening[k] \in Int
      BY OpeningAssumption
    <3> HIDE DEF goods
    <3>4. \A k : SumFunction(goods(k)) = 0
      BY <3>2, SumOfNothing
    <3>5. ASSUME NEW k \in Rows PROVE stock[k].moved = Opening[k] + SumFunction(goods(k))
      <4>1. stock[k].moved = Opening[k] /\ Opening[k] \in Int /\ SumFunction(goods(k)) = 0
        BY <3>1, <3>3, <3>4
      <4> QED
        BY ONLY <4>1
    <3> QED
      BY <3>5 DEF StockFollowsReceipts, goods
  <2> QED
    BY <2>1, <2>2, <2>3 DEF Books
<1>8. OrdersFollowReceipts
  <2>1. \A o \in Orders : Follows(orders[o], o \in overlapped, o \in manual, ReceiptsOf(o) # {})
    BY <1>3, <1>4 DEF Follows, StatusFits
  <2> QED
    BY <2>1, FollowsAre
<1> QED
  BY <1>2, <1>5, <1>6, <1>7, <1>8 DEF PurchaseInv

\* So no step leaves the invariant.
LEMMA NextPurchase ==
  ASSUME PurchaseInv, [PurchaseNext]_vars
  PROVE  PurchaseInv'
<1>1. CASE UNCHANGED vars
  BY <1>1, RefusalKeepsInv DEF vars, purchaseVars, PurchaseInv, PurchaseTypeOK
<1>2. ASSUME NEW p \in Procs, Start(p) PROVE PurchaseInv'
  <2>1. \/ \E o \in Orders, r \in Request : Asks(p, o, r)
        \/ /\ UNCHANGED <<stockVars, orders, receipts, req, overlapped, manual>>
           /\ refused' \subseteq Numbers
    BY <1>2, StartAsks DEF PurchaseInv
  <2> QED
    BY <2>1, AskKeepsInv, RefusalKeepsInv
<1>3. ASSUME NEW p \in Procs, Continue(p) PROVE PurchaseInv'
  <2>1. ASSUME Stops(p), req[p].op # "receive" PROVE PurchaseInv'
    <3>1. pc[p] = "idle"
      BY <2>1 DEF PurchaseInv, RequestsAreSane, SaneRequest
    <3> QED
      BY <2>1, <3>1, EndKeepsInv DEF Stops
  <2>2. ASSUME NEW o \in Orders, NEW new \in Order, Rewrites(p, o, new) PROVE PurchaseInv'
    BY <2>2, RewriteKeepsInv
  <2>3. CASE UpdatePurchaseOrder(p)
    <3>1. req[p].op # "receive"
      BY <2>3 DEF UpdatePurchaseOrder, Handling
    <3> QED
      BY <2>1, <2>2, <2>3, <3>1, UpdateRewrites
  <2>4. CASE ChangePurchaseOrderStatus(p)
    BY <2>2, <2>4, StatusRewrites
  <2>5. CASE RemovePurchaseOrder(p)
    BY <2>2, <2>5, RemoveRewrites
  <2>6. CASE AnswerFromReceipt(p)
    BY <2>1, <2>6 DEF AnswerFromReceipt, Handling, Stops
  <2>7. CASE Fail(p)
    BY <2>7, EndKeepsInv DEF Fail
  <2> QED
    BY <1>3, <2>3, <2>4, <2>5, <2>6, <2>7, BookKeepsInv, ReceiptCommits, StatementKeepsInv DEF Continue
<1>4. CASE \E o \in Orders, items \in ItemLists : CreatePurchaseOrder(o, items)
  BY <1>4, CreateKeepsInv
<1> QED
  BY <1>1, <1>2, <1>3, <1>4 DEF PurchaseNext

\* The inductive invariant holds of every behaviour.
THEOREM PurchaseInvariant == PurchaseSpec => []PurchaseInv
  BY InitPurchase, NextPurchase, PTL DEF PurchaseSpec

\* Type correctness.
THEOREM PurchaseTypesHold == PurchaseSpec => []PurchaseTypeOK
  <1>1. PurchaseInv => PurchaseTypeOK
    BY DEF PurchaseInv
  <1> QED
    BY <1>1, PurchaseInvariant, PTL

\* However receipts, edits and deletions of an order interleave, fail or are sent
\* again, a receipt keeps its order and its lines, and no client's number has two.
THEOREM ReceiptsHaveBeenKept == PurchaseSpec => []ReceiptsAreKept
  <1>1. PurchaseInv => ReceiptsAreKept
    BY DEF PurchaseInv, Books
  <1> QED
    BY <1>1, PurchaseInvariant, PTL

\* Received quantities and stock are what the committed receipts have brought in.
THEOREM StockAndLinesHaveMatched == PurchaseSpec => []StockAndLinesMatchReceipts
  <1>1. PurchaseInv => StockAndLinesMatchReceipts
    <2>1. StockFollowsReceipts => StockMatchesReceipts
      BY DEF StockFollowsReceipts, StockMatchesReceipts, GoodsOf, Brings
    <2> QED
      BY <2>1 DEF PurchaseInv, Books, StockAndLinesMatchReceipts
  <1> QED
    BY <1>1, PurchaseInvariant, PTL

\* Nothing is received beyond the order, and the status is that of what has been
\* received, where requests have not overlapped.
THEOREM OrdersHaveFollowedReceipts == PurchaseSpec => []OrdersFollowReceipts
  <1>1. PurchaseInv => OrdersFollowReceipts
    BY DEF PurchaseInv
  <1> QED
    BY <1>1, PurchaseInvariant, PTL

\* The stock transactions of receipts.
PurchaseScripts ==
  {StockCalls(x[1], x[2]) : x \in {y \in Seq(Line) \X Seq(Entry) : Named(y[1], y[2])}}

\* Receipts drive the stock only through Inventory's transactions: every step is
\* a step of Inventory, or leaves the stock alone.  So whatever Inventory
\* guarantees holds of the stock that receipts move.
THEOREM PurchasesDriveInventory ==
  ASSUME PurchaseScripts \subseteq Scripts
  PROVE  PurchaseSpec => StockSpec
<1>1. PurchaseInit => StockInit
  BY DEF PurchaseInit
<1>2. PurchaseInv /\ [PurchaseNext]_vars => [StockNext]_stockVars
  <2> SUFFICES ASSUME PurchaseInv, [PurchaseNext]_vars, stockVars' # stockVars
               PROVE  StockNext
    OBVIOUS
  <2>1. PICK p \in Procs : Start(p) \/ Continue(p)
    BY DEF PurchaseNext, CreatePurchaseOrder, vars
  <2>2. CASE Start(p)
    BY <2>2 DEF Start, ReadForUpdate, ReadForStatus, ReadForRemove, ReadForReceipt, RefuseReceipt
  <2>3. CASE BookReceipt(p)
    <3>1. PICK items, entries :
            items = orders[req[p].order].items /\ entries = req[p].entries
      OBVIOUS
    <3>2. /\ req[p].op = "check" /\ Begin(p, StockCalls(items, entries))
          /\ \A j \in DOMAIN entries : Live(items, entries[j].line)
      BY <2>3, <3>1 DEF BookReceipt, Handling
    <3>3. items \in Seq(Line) /\ entries \in Seq(Entry)
      BY <3>1, <3>2, OrderOfRequest DEF Order, Request
    <3>4. StockCalls(items, entries) \in Scripts
      <4>1. Named(items, entries)
        BY <3>2, LiveIsNamed
      <4>2. PICK x : x = <<items, entries>>
        OBVIOUS
      <4>3. /\ x \in {y \in Seq(Line) \X Seq(Entry) : Named(y[1], y[2])}
            /\ x[1] = items /\ x[2] = entries
        BY <3>3, <4>1, <4>2
      <4>4. StockCalls(items, entries) \in PurchaseScripts
        BY <4>3 DEF PurchaseScripts
      <4> QED
        BY <4>4
    <3> QED
      BY <3>2, <3>4 DEF StockNext
  <2>4. CASE CommitReceipt(p)
    BY <2>4 DEF CommitReceipt, StockNext
  <2>5. CASE StockStatement(p)
    BY <2>5 DEF StockStatement, StockNext, Statement
  <2>6. CASE Fail(p)
    <3>1. pc[p] # "idle" /\ Rollback(p)
      BY <2>6 DEF Fail
    <3> QED
      BY <3>1 DEF StockNext, Interrupt
  <2> QED
    BY <2>1, <2>2, <2>3, <2>4, <2>5, <2>6
       DEF Continue, UpdatePurchaseOrder, ChangePurchaseOrderStatus, RemovePurchaseOrder,
           AnswerFromReceipt
<1> QED
  BY <1>1, <1>2, PurchaseInvariant, PTL DEF PurchaseSpec, StockSpec
=============================================================================
