---------------------------- MODULE SalesProofs ----------------------------
(***************************************************************************)
(* Proofs about SalesOrders, for any orders, rows, payments, item lists    *)
(* and requests: that the stock is what the orders' statuses say, that     *)
(* orders add up and live in order, and that the service implements        *)
(* Inventory's specification.                                              *)
(*                                                                         *)
(* StockFollowsOrders sums over all orders and is not inductive.  The      *)
(* invariant says for each request what its transaction has done so far    *)
(* (RequestsAreSane) and that what it read still holds unless a second     *)
(* request has overlapped on its order (UpToDate), and for each order what *)
(* is reserved for it (Backing) and has left for it (Shipping): a commit   *)
(* then changes one term of each sum.                                      *)
(***************************************************************************)
EXTENDS SalesOrders, InventoryProofs

-----------------------------------------------------------------------------
(* Item lists and the calls made for them *)

\* The units of row k in the first j lines.
UnitsOfFirst(items, j, k) ==
  SumFunctionOnSet([i \in DOMAIN items |-> IF items[i].row = k THEN items[i].n ELSE 0], 1..j)

\* What an order line holds.
LEMMA LineTypes ==
  ASSUME NEW items \in Seq(Line), NEW i \in DOMAIN items
  PROVE  items[i] \in Line /\ items[i].row \in Rows /\ items[i].n \in Nat /\ items[i].n > 0
<1>1. items[i] \in Line
  OBVIOUS
<1> QED
  BY <1>1 DEF Line

\* Units given back line by line end with all units of the list.
LEMMA UnitsLineByLine ==
  ASSUME NEW items \in Seq(Line), NEW k
  PROVE  /\ UnitsOfFirst(items, 0, k) = 0
         /\ UnitsOfFirst(items, Len(items), k) = Units(items, k)
         /\ \A j \in 0..Len(items) : UnitsOfFirst(items, j, k) \in Nat
         /\ \A j \in 0..(Len(items) - 1) :
              UnitsOfFirst(items, j + 1, k) =
                UnitsOfFirst(items, j, k) + (IF items[j + 1].row = k THEN items[j + 1].n ELSE 0)
<1> DEFINE f == [i \in DOMAIN items |-> IF items[i].row = k THEN items[i].n ELSE 0]
<1>1. \A i \in 1..Len(items) : f[i] \in Nat /\ f[i] \in Int
  BY LineTypes
<1>2. DOMAIN items = 1..Len(items) /\ Len(items) \in Nat /\ DOMAIN f = 1..Len(items) /\ 1..0 = {}
  OBVIOUS
<1>3. \A j \in 1..Len(items) : f[j] = IF items[j].row = k THEN items[j].n ELSE 0
  OBVIOUS
<1>4. \A j : UnitsOfFirst(items, j, k) = SumFunctionOnSet(f, 1..j)
  BY DEF UnitsOfFirst
<1>5. Units(items, k) = SumFunctionOnSet(f, DOMAIN f)
  BY DEF Units, SumFunction
<1> HIDE DEF f
<1>6. UnitsOfFirst(items, 0, k) = 0
  BY <1>2, <1>4, SumOfNothing
<1>7. UnitsOfFirst(items, Len(items), k) = Units(items, k)
  BY <1>2, <1>4, <1>5
<1>8. ASSUME NEW j \in 0..Len(items) PROVE UnitsOfFirst(items, j, k) \in Nat
  <2>1. IsFiniteSet(1..j) /\ \A i \in 1..j : f[i] \in Nat
    BY <1>1, <1>2, FS_Interval
  <2> QED
    BY <2>1, <1>4, SumIsNat
<1>9. ASSUME NEW j \in 0..(Len(items) - 1)
      PROVE  UnitsOfFirst(items, j + 1, k) =
               UnitsOfFirst(items, j, k) + (IF items[j + 1].row = k THEN items[j + 1].n ELSE 0)
  <2>1. j \in Nat /\ j + 1 \in 1..Len(items) /\ \A i \in 1..(j + 1) : f[i] \in Int
    BY <1>1, <1>2
  <2>2. SumFunctionOnSet(f, 1..(j + 1)) = SumFunctionOnSet(f, 1..j) + f[j + 1]
    BY <2>1, SumGoesOn
  <2> QED
    BY <2>1, <2>2, <1>3, <1>4
<1> QED
  BY <1>6, <1>7, <1>8, <1>9

\* The first lines have at most the units of all.
LEMMA FirstLinesAreFewer ==
  ASSUME NEW items \in Seq(Line), NEW k, NEW j \in 0..Len(items)
  PROVE  UnitsOfFirst(items, j, k) <= Units(items, k) /\ Units(items, k) \in Nat
<1> DEFINE f == [i \in DOMAIN items |-> IF items[i].row = k THEN items[i].n ELSE 0]
           g == [i \in DOMAIN items |-> IF i \in 1..j THEN f[i] ELSE 0]
<1>1. \A i \in DOMAIN items : f[i] \in Nat
  BY LineTypes
<1>2. DOMAIN items = 1..Len(items) /\ Len(items) \in Nat /\ 1..j \subseteq DOMAIN items
  OBVIOUS
<1>3. IsFiniteSet(DOMAIN items) /\ IsFiniteSet(1..j)
  BY <1>2, FS_Interval
<1>4. \A i \in DOMAIN items : g[i] \in Int /\ f[i] \in Int /\ g[i] <= f[i]
  BY <1>1
<1>5. \A i \in 1..j : g[i] \in Int /\ g[i] = f[i]
  BY <1>2, <1>4
<1>6. \A i \in DOMAIN items \ (1..j) : g[i] = 0
  OBVIOUS
<1>7. Units(items, k) = SumFunctionOnSet(f, DOMAIN items) /\ UnitsOfFirst(items, j, k) = SumFunctionOnSet(f, 1..j)
  BY DEF Units, SumFunction, UnitsOfFirst
<1> HIDE DEF f, g
<1>8. SumFunctionOnSet(g, DOMAIN items) <= SumFunctionOnSet(f, DOMAIN items)
  BY <1>3, <1>4, SumIsMonotonic
<1>9. SumFunctionOnSet(g, 1..j) = SumFunctionOnSet(f, 1..j)
  BY <1>3, <1>5, SumOfEquals
<1>10. \A i \in DOMAIN items : g[i] \in Int
  BY <1>4
<1>11. SumFunctionOnSet(g, DOMAIN items) = SumFunctionOnSet(g, 1..j)
  BY <1>2, <1>3, <1>6, <1>10, SumOfSubset
<1>12. SumFunctionOnSet(f, DOMAIN items) \in Nat
  BY <1>1, <1>3, SumIsNat
<1> QED
  BY <1>7, <1>8, <1>9, <1>11, <1>12

\* Confirming an order reserves its units and moves none.
LEMMA ReserveCallsEffect ==
  ASSUME NEW items \in Seq(Line)
  PROVE  LET calls == ReserveCalls(items)
         IN  /\ calls \in Seq(Call)
             /\ \A k \in Rows : /\ MovedBy(calls, Len(calls), k) = 0
                                /\ HeldBy(calls, Len(calls), k) = Units(items, k)
<1> DEFINE calls == ReserveCalls(items)
<1>1. DOMAIN items = 1..Len(items) /\ Len(items) \in Nat
  OBVIOUS
<1>2. \A i \in 1..Len(items) : /\ calls[i] = [op |-> "reserve", row |-> items[i].row, n |-> items[i].n]
                               /\ calls[i] \in Call
  BY <1>1, LineTypes DEF ReserveCalls, Reserve, Call
<1>3. calls = [i \in 1..Len(items) |-> calls[i]] /\ DOMAIN calls = 1..Len(items)
  BY <1>1 DEF ReserveCalls
<1> HIDE DEF calls
<1>4. calls \in [1..Len(items) -> Call]
  BY <1>2, <1>3
<1>5. calls \in Seq(Call)
  BY <1>1, <1>4
<1>6. Len(calls) = Len(items)
  BY <1>1, <1>3, <1>5
<1>7. ASSUME NEW k \in Rows
      PROVE  MovedBy(calls, Len(calls), k) = 0 /\ HeldBy(calls, Len(calls), k) = Units(items, k)
  <2> DEFINE m == [i \in DOMAIN calls |-> Moves(calls[i], k)]
             h == [i \in DOMAIN calls |-> Holds(calls[i], k)]
             f == [i \in DOMAIN items |-> IF items[i].row = k THEN items[i].n ELSE 0]
             S == 1..Len(items)
  <2>1. IsFiniteSet(S)
    BY <1>1, FS_Interval
  <2>2. \A i \in S : m[i] = 0
    BY <1>2, <1>3 DEF Moves
  <2>3. \A i \in S : h[i] \in Int /\ h[i] = f[i]
    BY <1>1, <1>2, <1>3, LineTypes DEF Holds
  <2>4. /\ MovedBy(calls, Len(calls), k) = SumFunctionOnSet(m, S)
        /\ HeldBy(calls, Len(calls), k) = SumFunctionOnSet(h, S)
        /\ Units(items, k) = SumFunctionOnSet(f, S)
    BY <1>1, <1>6 DEF MovedBy, HeldBy, Units, SumFunction
  <2> HIDE DEF m, h, f, S
  <2> QED
    BY <2>1, <2>2, <2>3, <2>4, SumOfZeros, SumOfEquals
<1> QED
  BY <1>5, <1>7 DEF calls

\* A transaction of one call.
LEMMA SingleCallEffect ==
  ASSUME NEW c \in Call
  PROVE  /\ <<c>> \in Seq(Call) /\ Len(<<c>>) = 1
         /\ \A k \in Rows : MovedBy(<<c>>, 1, k) = Moves(c, k) /\ HeldBy(<<c>>, 1, k) = Holds(c, k)
<1>1. <<c>> \in Seq(Call) /\ Len(<<c>>) = 1 /\ <<c>>[1] = c /\ 0 + 1 = 1
  OBVIOUS
<1>2. ASSUME NEW k \in Rows PROVE MovedBy(<<c>>, 1, k) = Moves(c, k) /\ HeldBy(<<c>>, 1, k) = Holds(c, k)
  <2> DEFINE calls == <<c>>
  <2>1. calls \in Seq(Call) /\ Len(calls) = 1 /\ calls[0 + 1] = c /\ 0 < 1 /\ 0 \in Nat
    BY <1>1
  <2> HIDE DEF calls
  <2>2. /\ MovedBy(calls, 0 + 1, k) = MovedBy(calls, 0, k) + Moves(calls[0 + 1], k)
        /\ HeldBy(calls, 0 + 1, k) = HeldBy(calls, 0, k) + Holds(calls[0 + 1], k)
    BY <2>1, OneMoreCall
  <2>3. MovedBy(calls, 0, k) = 0 /\ HeldBy(calls, 0, k) = 0
    BY NoCallsYet
  <2>4. Moves(c, k) \in Int /\ Holds(c, k) \in Int
    BY DEF Moves, Holds, Call
  <2>5. MovedBy(calls, 1, k) = Moves(c, k) /\ HeldBy(calls, 1, k) = Holds(c, k)
    BY <1>1, <2>1, <2>2, <2>3, <2>4
  <2> QED
    BY <2>5 DEF calls
<1> QED
  BY <1>1, <1>2

\* A sum over 1..2n, two terms at a time.
LEMMA SumInPairs ==
  ASSUME NEW n \in Nat, NEW f, NEW g,
         \A i \in 1..(2 * n) : f[i] \in Int,
         \A i \in 1..n : g[i] = f[2 * i - 1] + f[2 * i]
  PROVE  SumFunctionOnSet(f, 1..(2 * n)) = SumFunctionOnSet(g, 1..n)
<1> DEFINE T == {i \in 0..n : SumFunctionOnSet(f, 1..(2 * i)) = SumFunctionOnSet(g, 1..i)}
<1>1. 0 \in T
  <2>1. 1..(2 * 0) = {} /\ 1..0 = {}
    OBVIOUS
  <2> QED
    BY <2>1, SumOfNothing
<1>2. ASSUME NEW i \in 0..(n - 1), i \in T PROVE i + 1 \in T
  <2> DEFINE j == 2 * i
  <2>1. /\ i \in Nat /\ j \in Nat /\ 2 * (i + 1) = (j + 1) + 1
        /\ 2 * (i + 1) - 1 = j + 1 /\ i + 1 \in 1..n
    OBVIOUS
  <2>2. \A x \in 1..((j + 1) + 1) : f[x] \in Int
    BY <2>1
  <2>3. \A x \in 1..(j + 1) : f[x] \in Int
    BY <2>1, <2>2
  <2>4. \A x \in 1..(i + 1) : g[x] \in Int
    <3> TAKE x \in 1..(i + 1)
    <3>1. x \in 1..n /\ 2 * x - 1 \in 1..(2 * n) /\ 2 * x \in 1..(2 * n)
      BY <2>1
    <3> QED
      BY <3>1
  <2>5. g[i + 1] = f[j + 1] + f[(j + 1) + 1]
    BY <2>1
  <2>6. SumFunctionOnSet(f, 1..j) = SumFunctionOnSet(g, 1..i)
    BY <1>2
  <2> HIDE DEF j, T
  <2>7. SumFunctionOnSet(f, 1..((j + 1) + 1)) = SumFunctionOnSet(f, 1..(j + 1)) + f[(j + 1) + 1]
    BY <2>1, <2>2, SumGoesOn
  <2>8. SumFunctionOnSet(f, 1..(j + 1)) = SumFunctionOnSet(f, 1..j) + f[j + 1]
    BY <2>1, <2>3, SumGoesOn
  <2>9. SumFunctionOnSet(g, 1..(i + 1)) = SumFunctionOnSet(g, 1..i) + g[i + 1]
    BY <2>1, <2>4, SumGoesOn
  <2>10. SumFunctionOnSet(f, 1..j) \in Int /\ f[j + 1] \in Int /\ f[(j + 1) + 1] \in Int
    <3>1. IsFiniteSet(1..j) /\ \A x \in 1..j : f[x] \in Int
      BY <2>1, <2>3, FS_Interval
    <3> QED
      BY <2>1, <2>2, <3>1, SumIsInt
  <2>11. SumFunctionOnSet(f, 1..((j + 1) + 1)) = SumFunctionOnSet(g, 1..(i + 1))
    BY <2>5, <2>6, <2>7, <2>8, <2>9, <2>10
  <2> QED
    BY <2>1, <2>11 DEF T
<1>3. \A i \in 0..n : i \in T
  <2> HIDE DEF T
  <2> QED
    BY <1>1, <1>2, CountingUp
<1> QED
  BY <1>3

\* Delivering an order takes its units out and gives their reservation back.
LEMMA DeliverCallsEffect ==
  ASSUME NEW items \in Seq(Line)
  PROVE  LET calls == DeliverCalls(items)
         IN  /\ calls \in Seq(Call)
             /\ \A k \in Rows : /\ MovedBy(calls, Len(calls), k) = -Units(items, k)
                                /\ HeldBy(calls, Len(calls), k) = -Units(items, k)
<1> DEFINE calls == DeliverCalls(items)
           n == Len(items)
<1>1. DOMAIN items = 1..n /\ n \in Nat
  OBVIOUS
<1>2. ASSUME NEW i \in 1..n
      PROVE  /\ calls[2 * i - 1] = [op |-> "apply", row |-> items[i].row, n |-> -items[i].n]
             /\ calls[2 * i] = [op |-> "release", row |-> items[i].row, n |-> items[i].n]
             /\ calls[2 * i - 1] \in Call /\ calls[2 * i] \in Call
  <2>1. /\ 2 * i - 1 \in 1..(2 * n) /\ ((2 * i - 1) + 1) \div 2 = i /\ (2 * i - 1) % 2 = 1
        /\ 2 * i \in 1..(2 * n) /\ (2 * i + 1) \div 2 = i /\ (2 * i) % 2 = 0
    OBVIOUS
  <2>2. /\ calls[2 * i - 1] = [op |-> "apply", row |-> items[i].row, n |-> -items[i].n]
        /\ calls[2 * i] = [op |-> "release", row |-> items[i].row, n |-> items[i].n]
    BY <2>1 DEF DeliverCalls, Apply, Release
  <2>3. items[i].row \in Rows /\ items[i].n \in Int
    BY <1>1, LineTypes
  <2> QED
    BY <2>2, <2>3 DEF Call
<1>3. \A j \in 1..(2 * n) : \E i \in 1..n : j = 2 * i - 1 \/ j = 2 * i
  <2> TAKE j \in 1..(2 * n)
  <2>1. (j + 1) \div 2 \in 1..n /\ (j = 2 * ((j + 1) \div 2) - 1 \/ j = 2 * ((j + 1) \div 2))
    BY <1>1
  <2> QED
    BY <2>1
<1>4. calls = [j \in 1..(2 * n) |-> calls[j]] /\ DOMAIN calls = 1..(2 * n)
  BY DEF DeliverCalls
<1>5. \A i \in 1..n : items[i].row \in Rows /\ items[i].n \in Nat
  BY <1>1, LineTypes
<1> HIDE DEF calls, n
<1>6. calls \in [1..(2 * n) -> Call]
  BY <1>2, <1>3, <1>4
<1>7. calls \in Seq(Call) /\ Len(calls) = 2 * n /\ 2 * n \in Nat
  BY <1>1, <1>4, <1>6
<1>8. ASSUME NEW k \in Rows
      PROVE  /\ MovedBy(calls, Len(calls), k) = -Units(items, k)
             /\ HeldBy(calls, Len(calls), k) = -Units(items, k)
  <2> DEFINE m == [i \in DOMAIN calls |-> Moves(calls[i], k)]
             h == [i \in DOMAIN calls |-> Holds(calls[i], k)]
             f == [i \in DOMAIN items |-> IF items[i].row = k THEN items[i].n ELSE 0]
             g == [i \in 1..n |-> -f[i]]
  <2>1. \A i \in 1..(2 * n) : m[i] \in Int /\ h[i] \in Int
    BY <1>4, <1>7, EffectTypes
  <2>2. \A i \in 1..n : g[i] = m[2 * i - 1] + m[2 * i] /\ g[i] = h[2 * i - 1] + h[2 * i]
    <3> TAKE i \in 1..n
    <3>1. 2 * i - 1 \in 1..(2 * n) /\ 2 * i \in 1..(2 * n)
      BY <1>1
    <3>2. /\ m[2 * i - 1] = Moves(calls[2 * i - 1], k) /\ m[2 * i] = Moves(calls[2 * i], k)
          /\ h[2 * i - 1] = Holds(calls[2 * i - 1], k) /\ h[2 * i] = Holds(calls[2 * i], k)
      BY <1>4, <3>1
    <3>3. f[i] = IF items[i].row = k THEN items[i].n ELSE 0
      BY <1>1
    <3> HIDE DEF m, h, f
    <3>4. /\ Moves(calls[2 * i - 1], k) = -f[i] /\ Moves(calls[2 * i], k) = 0
          /\ Holds(calls[2 * i - 1], k) = 0 /\ Holds(calls[2 * i], k) = -f[i]
      <4> DEFINE a == [op |-> "apply", row |-> items[i].row, n |-> -items[i].n]
                 b == [op |-> "release", row |-> items[i].row, n |-> items[i].n]
      <4>1. calls[2 * i - 1] = a /\ calls[2 * i] = b
        BY <1>2
      <4>2. /\ a.op = "apply" /\ a.row = items[i].row /\ a.n = -items[i].n
            /\ b.op = "release" /\ b.row = items[i].row /\ b.n = items[i].n
        OBVIOUS
      <4>3. items[i].row \in Rows /\ items[i].n \in Nat
        BY <1>5
      <4> HIDE DEF a, b
      <4>4. Moves(a, k) = -f[i] /\ Holds(a, k) = 0
        BY <3>3, <4>2, <4>3 DEF Moves, Holds
      <4>5. Moves(b, k) = 0 /\ Holds(b, k) = -f[i]
        BY <3>3, <4>2, <4>3 DEF Moves, Holds
      <4> QED
        BY <4>1, <4>4, <4>5
    <3>5. g[i] = -f[i] /\ f[i] \in Int
      BY <1>5, <3>3
    <3> QED
      BY <3>2, <3>4, <3>5
  <2>3. Units(items, k) = SumFunctionOnSet(f, 1..n)
    BY <1>1 DEF Units, SumFunction
  <2>4. \A i \in 1..n : f[i] \in Int /\ g[i] \in Int /\ f[i] + g[i] = 0
    BY <1>1, <1>5
  <2>5. /\ MovedBy(calls, Len(calls), k) = SumFunctionOnSet(m, 1..(2 * n))
        /\ HeldBy(calls, Len(calls), k) = SumFunctionOnSet(h, 1..(2 * n))
    BY <1>7 DEF MovedBy, HeldBy
  <2> HIDE DEF m, h, f, g
  <2>6. SumFunctionOnSet(m, 1..(2 * n)) = SumFunctionOnSet(g, 1..n)
    BY <1>1, <2>1, <2>2, SumInPairs
  <2>7. SumFunctionOnSet(h, 1..(2 * n)) = SumFunctionOnSet(g, 1..n)
    BY <1>1, <2>1, <2>2, SumInPairs
  <2>8. SumFunctionOnSet(g, 1..n) = -SumFunctionOnSet(f, 1..n)
    <3>1. IsFiniteSet(1..n)
      BY <1>1, FS_Interval
    <3> QED
      BY <2>4, <3>1, SumOfOpposites
  <2> QED
    BY <2>3, <2>5, <2>6, <2>7, <2>8
<1> QED
  BY <1>7, <1>8 DEF calls

-----------------------------------------------------------------------------
(* The inductive invariant *)

\* How many lines a cancellation has begun to release.
At(p) == Len(req[p].items) - Len(req[p].left)

\* The calls of the transaction p runs.
CallsOf(p) ==
  LET r == req[p]
  IN  CASE r.op = "confirm" -> ReserveCalls(r.items)
        [] r.op = "deliver" -> DeliverCalls(r.items)
        [] r.op = "cancel" -> LET line == r.items[At(p)] IN <<Release(line.row, line.n)>>
        [] OTHER -> <<r.call>>

\* What a request is doing: what it needs is there, a cancellation has released
\* the lines before the rest it keeps, and a transaction has made some of its calls.
SaneRequest(p) ==
  LET r == req[p]
  IN  /\ r.op = "none" => r = NoRequest
      /\ r.op \in OrderOps \cup PaymentOps => r.order \in Orders
      /\ r.op \in StockOps => r.call \in Call /\ r.call.op = r.op /\ r.order = NoOrder
      /\ r.op = "cancel" =>
           /\ At(p) \in 0..Len(r.items)
           /\ r.left = SubSeq(r.items, At(p) + 1, Len(r.items))
           /\ pc[p] # "idle" => At(p) > 0
      /\ r.op \in {"none", "update", "remove"} \cup PaymentOps => pc[p] = "idle"
      /\ r.op \in {"confirm", "deliver"} \cup StockOps => pc[p] # "idle"
      /\ pc[p] # "idle" => Executed(p, CallsOf(p))

\* Of all requests.
RequestsAreSane == \A p \in Procs : SaneRequest(p)

\* Nobody else works on an order that is not overlapped.
NotOverlapped ==
  \A p, q \in Procs :
    /\ req[p].op \in OrderOps /\ req[q].op \in OrderOps
    /\ req[p].order = req[q].order /\ req[p].order \notin overlapped
    => p = q

\* What p has read of its order is still so.
StillSo(p) ==
  LET r == req[p]
      order == orders[r.order]
  IN  /\ r.items = order.items /\ r.edits = order.edits
      /\ r.op \in {"update", "confirm"} => order.status = "draft"
      /\ r.op = "deliver" => order.status = "confirmed"
      /\ r.op = "remove" => order.status \in {"draft", "cancelled"}
      /\ r.op = "cancel" =>
           \/ order.status = "confirmed"
           \/ order.status = "draft" /\ r.left = << >> /\ pc[p] = "idle"

\* What a request has read of such an order is still so.
UpToDate ==
  \A p \in Procs : req[p].op \in OrderOps /\ req[p].order \notin overlapped => StillSo(p)

\* Every line is of an edit that has been made.
EditsPast ==
  \A o \in Orders : \A i \in DOMAIN orders[o].items : orders[o].items[i].edit <= orders[o].edits

\* p is cancelling o.
Cancelling(p, o) == Handling(p, "cancel") /\ req[p].order = o

\* How many lines a cancellation has released.
Given(p) == IF pc[p] = "idle" THEN At(p) ELSE At(p) - 1

\* w[o][k]: what is reserved of row k for order o.
OwesFor(w, o) ==
  \A k \in Rows :
    /\ orders[o].status # "confirmed" => w[o][k] = 0
    /\ orders[o].status = "confirmed" =>
         /\ (\A p \in Procs : ~Cancelling(p, o)) => w[o][k] = Units(orders[o].items, k)
         /\ \A p \in Procs : Cancelling(p, o) =>
              w[o][k] = Units(orders[o].items, k) - UnitsOfFirst(orders[o].items, Given(p), k)

\* w is what is reserved for every order.
Owes(w) == \A o \in Orders : OwesFor(w, o)

\* What that sums up to.
Owed(w, k) == SumFunctionOnSet([o \in Orders |-> w[o][k]], Orders)

\* What is reserved and nobody reserved by hand.
HeldForOrders(k) == stock[k].held - outside[k].held

\* That is what is reserved, and no more when no cancellation has stopped midway.
Backs(w) ==
  /\ Owes(w)
  /\ \A k \in Rows : /\ HeldForOrders(k) <= Owed(w, k)
                     /\ interrupted = {} => HeldForOrders(k) = Owed(w, k)

\* The reservations can be told apart by order.
Backing == overlapped = {} => \E w \in [Orders -> [Rows -> Int]] : Backs(w)

\* What has left row k for order o.
GoneOf(all) == [o \in Orders |-> [k \in Rows |->
                  IF all[o].status = "delivered" THEN Units(all[o].items, k) ELSE 0]]

Gone == GoneOf(orders)

\* What has left is what the delivered orders took.
Shipping ==
  overlapped = {} => \A k \in Rows : stock[k].moved = outside[k].moved - Owed(Gone, k)

\* What an order costs and what has been paid of it.
OrdersInv ==
  /\ EditsPast
  /\ PaidMatchesPayments
  /\ TotalMatchesItems

\* The inductive invariant.
SalesInv ==
  /\ SalesTypeOK
  /\ Inv
  /\ Locks
  /\ RequestsAreSane
  /\ NotOverlapped
  /\ UpToDate
  /\ OrdersInv
  /\ Backing
  /\ Shipping

-----------------------------------------------------------------------------
(* Types, and the steps of the stock *)

\* An order's total is a natural.
LEMMA TotalIsNat ==
  ASSUME NEW items \in Seq(Line)
  PROVE  Total(items) \in Nat
<1> DEFINE f == [i \in DOMAIN items |-> items[i].n]
<1>1. DOMAIN items = 1..Len(items) /\ Len(items) \in Nat
  OBVIOUS
<1>2. IsFiniteSet(DOMAIN items)
  BY <1>1, FS_Interval
<1>3. \A i \in DOMAIN items : f[i] \in Nat
  BY LineTypes
<1>4. Total(items) = SumFunctionOnSet(f, DOMAIN items)
  BY DEF Total, SumFunction
<1> HIDE DEF f
<1> QED
  BY <1>2, <1>3, <1>4, SumIsNat

\* A request for an order: what it has read, and nothing done.
LEMMA OrderRequestType ==
  ASSUME orders \in [Orders -> Order], NEW o \in Orders, NEW op \in OrderOps
  PROVE  /\ OrderRequest(op, o) =
              [op |-> op, order |-> o, items |-> orders[o].items, edits |-> orders[o].edits,
               left |-> << >>, call |-> NoOrder, payment |-> NoOrder]
         /\ OrderRequest(op, o) \in Request
<1>1. orders[o].items \in Seq(Line) /\ orders[o].edits \in Nat
  BY DEF Order
<1> DEFINE none == NoRequest
           r == OrderRequest(op, o)
<1>2. none = [op |-> "none", order |-> NoOrder, items |-> << >>, edits |-> 0, left |-> << >>,
              call |-> NoOrder, payment |-> NoOrder]
  BY DEF NoRequest
<1>3. r = [none EXCEPT !.op = op, !.order = o, !.items = orders[o].items,
                       !.edits = orders[o].edits]
  BY DEF OrderRequest
<1> HIDE DEF none, r
<1>4. r = [op |-> op, order |-> o, items |-> orders[o].items, edits |-> orders[o].edits,
           left |-> << >>, call |-> NoOrder, payment |-> NoOrder]
  BY <1>2, <1>3
<1>5. r \in Request
  BY <1>1, <1>4 DEF Request
<1> QED
  BY <1>4, <1>5 DEF r

\* A process with nothing to do.
LEMMA NoRequestType == NoRequest \in Request
BY DEF NoRequest, Request

\* The calls of the stock endpoints, and those made for a line, are calls.
LEMMA CallTypes ==
  /\ \A c \in StockCalls : c \in Call /\ c.op \in StockOps
  /\ \A line \in Line : Release(line.row, line.n) \in Call
<1>1. \A k \in Rows, n \in Int : Apply(k, n) \in Call /\ Reserve(k, n) \in Call /\ Release(k, n) \in Call
  BY DEF Apply, Reserve, Release, Call
<1>2. \A n \in Amounts : n \in Int /\ -n \in Int
  BY AmountsAssumption
<1>3. \A c \in Call : c.op \in StockOps
  BY DEF Call, StockOps
<1>4. \A line \in Line : line.row \in Rows /\ line.n \in Int
  BY DEF Line
<1>5. \A c \in StockCalls : c \in Call
  BY <1>1, <1>2 DEF StockCalls
<1> QED
  BY <1>1, <1>3, <1>4, <1>5

\* What is left of a list is a list.
LEMMA RestIsSeq ==
  ASSUME NEW S, NEW s \in Seq(S), NEW j \in Nat, j <= Len(s)
  PROVE  LET rest == SubSeq(s, j + 1, Len(s))
         IN  /\ rest \in Seq(S) /\ Len(rest) = Len(s) - j
             /\ \A i \in 1..(Len(s) - j) : rest[i] = s[j + i]
OBVIOUS

\* The lines that an edit replaces, and the ones that stay.
LEMMA LinesSinceType ==
  ASSUME NEW items \in Seq(Line), NEW seen
  PROVE  /\ LinesSince(items, seen) \in Seq(Line)
         /\ \A i \in DOMAIN LinesSince(items, seen) :
              \E j \in DOMAIN items : LinesSince(items, seen)[i] = items[j]
         /\ (\A i \in DOMAIN items : items[i].edit <= seen) => LinesSince(items, seen) = << >>
<1> DEFINE S == {i \in DOMAIN items : items[i].edit <= seen}
           old == Cardinality(S)
           n == Len(items)
<1>1. DOMAIN items = 1..n /\ n \in Nat
  OBVIOUS
<1>2. IsFiniteSet(1..n) /\ Cardinality(1..n) = n
  BY <1>1, FS_Interval
<1>3. IsFiniteSet(S) /\ old \in Nat /\ old <= n
  BY <1>1, <1>2, FS_Subset, FS_CardinalityType
<1>4. LinesSince(items, seen) = SubSeq(items, old + 1, n)
  BY DEF LinesSince
<1>5. (\A i \in DOMAIN items : items[i].edit <= seen) => old = n
  <2> SUFFICES ASSUME \A i \in DOMAIN items : items[i].edit <= seen PROVE old = n
    OBVIOUS
  <2>1. S = 1..n
    BY <1>1
  <2> QED
    BY <1>2, <2>1
<1> HIDE DEF old, S
<1>6. SubSeq(items, n + 1, n) = << >>
  BY <1>1
<1>7. SubSeq(items, old + 1, n) \in Seq(Line) /\ Len(SubSeq(items, old + 1, n)) = n - old
      /\ \A i \in 1..(n - old) : SubSeq(items, old + 1, n)[i] = items[old + i]
  BY <1>3, RestIsSeq
<1>8. ASSUME NEW i \in DOMAIN SubSeq(items, old + 1, n)
      PROVE  \E j \in DOMAIN items : SubSeq(items, old + 1, n)[i] = items[j]
  <2>1. i \in 1..(n - old)
    BY <1>7
  <2>2. old + i \in DOMAIN items
    BY <1>1, <1>3, <2>1
  <2> QED
    BY <1>7, <2>1, <2>2
<1> QED
  BY <1>4, <1>5, <1>6, <1>7, <1>8

\* The transactions that the sales service runs.
SalesScripts ==
  {ReserveCalls(items) : items \in Seq(Line)} \cup {DeliverCalls(items) : items \in Seq(Line)}
    \cup {<<c>> : c \in Call}

\* What p does to the stock, in one step.
Uses(p) ==
  \/ UNCHANGED stockVars
  \/ \E s \in SalesScripts : Begin(p, s)
  \/ Statement(p)
  \/ Commit(p)
  \/ pc[p] # "idle" /\ Rollback(p)

\* The transactions of the sales service are lists of calls.
LEMMA SalesScriptsType == SalesScripts \subseteq Seq(Call)
BY ReserveCallsEffect, DeliverCallsEffect, SingleCallEffect DEF SalesScripts

\* Whatever a request does, it does no more to the stock than Uses says.
LEMMA StepUses ==
  ASSUME SalesTypeOK, NEW p \in Procs, Start(p) \/ Continue(p)
  PROVE  Uses(p)
<1>1. \A o \in Orders : orders[o].items \in Seq(Line)
  BY DEF SalesTypeOK, Order
<1>2. CASE Start(p)
  <2>1. ASSUME NEW o \in Orders, ConfirmSalesOrder(p, o) PROVE Uses(p)
    BY <1>1, <2>1 DEF ConfirmSalesOrder, Uses, SalesScripts
  <2>2. ASSUME NEW o \in Orders, DeliverSalesOrder(p, o) PROVE Uses(p)
    BY <1>1, <2>2 DEF DeliverSalesOrder, Uses, SalesScripts
  <2>3. ASSUME NEW c \in StockCalls, CallInventory(p, c) PROVE Uses(p)
    BY <2>3, CallTypes DEF CallInventory, Uses, SalesScripts
  <2>4. ASSUME NEW o \in Orders,
               \/ ReadForUpdate(p, o) \/ CancelSalesOrder(p, o)
               \/ ReadForRemove(p, o) \/ ReadForPayment(p, o)
               \/ \E m \in Payments : ReadPayment(p, o, m)
        PROVE  Uses(p)
    BY <2>4 DEF ReadForUpdate, CancelSalesOrder, ReadForRemove, ReadForPayment, ReadPayment, Uses
  <2> QED
    BY <1>2, <2>1, <2>2, <2>3, <2>4 DEF Start
<1>3. CASE Continue(p)
  <2>1. CASE BeginRelease(p)
    <3> DEFINE line == Head(req[p].left)
    <3>1. req[p].left # << >> /\ req[p].left \in Seq(Line)
      BY <2>1 DEF BeginRelease, SalesTypeOK, Request
    <3>2. line \in Line
      BY <3>1
    <3> QED
      BY <2>1, <3>2, CallTypes DEF BeginRelease, Uses, SalesScripts
  <2>2. CASE \/ UpdateSalesOrder(p) \/ FinishCancel(p) \/ RemoveSalesOrder(p)
             \/ CreatePayment(p) \/ RemovePayment(p)
    BY <2>2 DEF UpdateSalesOrder, FinishCancel, RemoveSalesOrder, CreatePayment,
                RemovePayment, Uses
  <2>3. CASE CommitConfirm(p) \/ CommitDeliver(p) \/ CommitRelease(p) \/ CommitInventory(p)
    BY <2>3 DEF CommitConfirm, CommitDeliver, CommitStatus, CommitRelease, CommitInventory, Uses
  <2>4. CASE StockStatement(p) \/ Fail(p)
    BY <2>4 DEF StockStatement, Fail, Uses
  <2> QED
    BY <1>3, <2>1, <2>2, <2>3, <2>4 DEF Continue
<1> QED
  BY <1>2, <1>3

\* What p is doing when it has a transaction.
LEMMA CallsAreCalls ==
  ASSUME SalesTypeOK, NEW p \in Procs, SaneRequest(p), pc[p] # "idle"
  PROVE  /\ CallsOf(p) \in Seq(Call)
         /\ req[p].op \in {"confirm", "deliver", "cancel"} \cup StockOps
         /\ req[p].op = "cancel" => At(p) \in DOMAIN req[p].items
<1> DEFINE r == req[p]
<1>1. r \in Request /\ r.items \in Seq(Line)
  BY DEF SalesTypeOK, Request
<1>2. r.op \in {"confirm", "deliver", "cancel"} \cup StockOps
  BY <1>1 DEF SaneRequest, Request, OrderOps, PaymentOps, StockOps
<1>3. CASE r.op = "confirm"
  BY <1>1, <1>3, ReserveCallsEffect DEF CallsOf
<1>4. CASE r.op = "deliver"
  BY <1>1, <1>4, DeliverCallsEffect DEF CallsOf
<1>5. r.op = "cancel" => At(p) \in DOMAIN r.items
  BY <1>1 DEF SaneRequest
<1>6. CASE r.op = "cancel"
  <2>1. r.items[At(p)] \in Line
    BY <1>1, <1>5, <1>6
  <2> QED
    BY <1>2, <1>5, <1>6, <2>1, CallTypes, SingleCallEffect DEF CallsOf
<1>7. CASE r.op \in StockOps
  BY <1>7, SingleCallEffect DEF CallsOf, SaneRequest, StockOps
<1> QED
  BY <1>2, <1>3, <1>4, <1>5, <1>6, <1>7

\* Whatever a request does to the stock keeps what holds of it.
LEMMA UsesInv ==
  ASSUME Inv, Locks, RequestsAreSane, SalesTypeOK, NEW p \in Procs, Uses(p)
  PROVE  Inv' /\ Locks'
<1>1. CASE UNCHANGED stockVars
  BY <1>1 DEF stockVars, Inv, StockTypeOK, RowsSound, Locks, LockDiscipline
<1>2. CASE \E s \in SalesScripts : Begin(p, s)
  BY <1>2, SalesScriptsType, BeginInv, BeginExecutes
<1>3. CASE Statement(p)
  <2>1. pc[p] # "idle"
    BY <1>3 DEF Statement, BadAmount, CheckOnHand, ApplyStockChange, ReserveStock, ReleaseReservation
  <2>2. SaneRequest(p)
    BY DEF RequestsAreSane
  <2>3. PICK calls : calls = CallsOf(p)
    OBVIOUS
  <2>4. Executed(p, calls)
    BY <2>1, <2>2, <2>3 DEF SaneRequest
  <2>5. calls \in Seq(Call)
    BY <2>1, <2>2, <2>3, CallsAreCalls
  <2> QED
    BY <1>3, <2>4, <2>5, StatementInv, StatementExecutes
<1>4. CASE Commit(p)
  BY <1>4, CommitInv, EndLocks
<1>5. CASE Rollback(p)
  BY <1>5, RollbackInv, EndLocks
<1> QED
  BY <1>1, <1>2, <1>3, <1>4, <1>5 DEF Uses

\* Idle requests begin: the request's type, and whose it is.
LEMMA StartsType ==
  ASSUME SalesTypeOK, NEW p \in Procs, NEW r \in Request,
         r.op \in OrderOps => r.order \in Orders, Starts(p, r)
  PROVE  req' \in [Procs -> Request] /\ overlapped' \subseteq Orders
BY DEF Starts, SalesTypeOK

\* A request that ends.
LEMMA DoneType ==
  ASSUME SalesTypeOK, NEW p \in Procs, Done(p)
  PROVE  req' \in [Procs -> Request]
BY NoRequestType DEF Done, SalesTypeOK

\* A request that stops: its order, if it was cancelling one, is an order.
LEMMA StopsType ==
  ASSUME SalesTypeOK, NEW p \in Procs, SaneRequest(p), Stops(p)
  PROVE  req' \in [Procs -> Request] /\ interrupted' \subseteq Orders
BY DoneType DEF Stops, SalesTypeOK, SaneRequest, Handling, OrderOps

\* One field of an order changes.
LEMMA OrderChangeType ==
  ASSUME NEW order \in Order
  PROVE  /\ \A status \in Statuses : [order EXCEPT !.status = status] \in Order
         /\ \A total \in Nat : [order EXCEPT !.total = total] \in Order
         /\ \A items \in Seq(Line), edits \in Nat, total \in Nat :
              [order EXCEPT !.items = items, !.edits = edits, !.total = total] \in Order
         /\ \A S \in SUBSET Payments, paid \in Int :
              [order EXCEPT !.payments = S, !.paid = paid] \in Order
<1>1. \A status \in Statuses : [order EXCEPT !.status = status] \in Order
  BY DEF Order
<1>2. \A total \in Nat : [order EXCEPT !.total = total] \in Order
  BY DEF Order
<1>3. ASSUME NEW items \in Seq(Line), NEW edits \in Nat, NEW total \in Nat
      PROVE  [order EXCEPT !.items = items, !.edits = edits, !.total = total] \in Order
  BY DEF Order
<1>4. ASSUME NEW S \in SUBSET Payments, NEW paid \in Int
      PROVE  [order EXCEPT !.payments = S, !.paid = paid] \in Order
  BY DEF Order
<1> QED
  BY <1>1, <1>2, <1>3, <1>4

\* A new and a removed order are orders.
LEMMA NewOrderType ==
  ASSUME NEW items \in Seq(Line)
  PROVE  /\ [NoneYet EXCEPT !.status = "draft", !.items = items, !.total = Total(items)] \in Order
         /\ [NoneYet EXCEPT !.status = "removed"] \in Order
<1>1. NoneYet \in Order
  BY DEF NoneYet, Order, Statuses
<1>2. Total(items) \in Nat /\ "draft" \in Statuses /\ "removed" \in Statuses
  BY TotalIsNat DEF Statuses
<1> QED
  BY <1>1, <1>2 DEF Order

\* Replacing the items changes nothing else but the edits and the total.
LEMMA ReplacedType ==
  ASSUME NEW order \in Order, NEW seen, NEW items \in Seq(Line)
  PROVE  /\ Replaced(order, seen, items) \in Order
         /\ Replaced(order, seen, items).status = order.status
         /\ Replaced(order, seen, items).payments = order.payments
         /\ Replaced(order, seen, items).paid = order.paid
         /\ Replaced(order, seen, items).edits = order.edits + 1
         /\ Replaced(order, seen, items).total = Total(items)
<1> DEFINE new == [i \in DOMAIN items |-> [items[i] EXCEPT !.edit = order.edits + 1]]
           lines == LinesSince(order.items, seen) \o new
<1>1. DOMAIN items = 1..Len(items) /\ Len(items) \in Nat /\ order.edits \in Nat /\ order.items \in Seq(Line)
  BY DEF Order
<1>2. \A i \in DOMAIN items : [items[i] EXCEPT !.edit = order.edits + 1] \in Line
  <2> TAKE i \in DOMAIN items
  <2> DEFINE line == items[i]
             edit == order.edits + 1
  <2>1. line \in Line /\ edit \in Nat
    BY <1>1
  <2> HIDE DEF line, edit
  <2>2. [line EXCEPT !.edit = edit] \in Line
    BY <2>1 DEF Line
  <2> QED
    BY <2>2 DEF line, edit
<1>3. new \in [1..Len(items) -> Line]
  BY <1>1, <1>2
<1> HIDE DEF new
<1>4. new \in Seq(Line)
  BY <1>1, <1>3
<1>5. lines \in Seq(Line)
  BY <1>1, <1>4, LinesSinceType
<1>6. Total(items) \in Nat
  BY TotalIsNat
<1>7. Replaced(order, seen, items) =
        [order EXCEPT !.items = lines, !.edits = @ + 1, !.total = Total(items)]
  BY DEF Replaced, new
<1> DEFINE r == Replaced(order, seen, items)
           total == Total(items)
<1> HIDE DEF lines, r, total
<1>8. r \in Order
  <2>1. order.edits + 1 \in Nat /\ total \in Nat
    BY <1>1, <1>6 DEF total
  <2>2. r = [order EXCEPT !.items = lines, !.edits = order.edits + 1, !.total = total]
    BY <1>7 DEF r, total
  <2> QED
    BY <1>5, <2>1, <2>2, OrderChangeType
<1>9. /\ r.status = order.status /\ r.payments = order.payments /\ r.paid = order.paid
      /\ r.edits = order.edits + 1 /\ r.total = total
  BY <1>7 DEF Order, r, total
<1> QED
  BY <1>8, <1>9 DEF r, total

\* A request begins: types of what it reads.
LEMMA StartTypes ==
  ASSUME SalesTypeOK, NEW p \in Procs, Start(p)
  PROVE  /\ req' \in [Procs -> Request] /\ overlapped' \subseteq Orders
         /\ UNCHANGED <<orders, outside, interrupted>>
<1> USE DEF OrderOps
<1>1. ASSUME NEW o \in Orders, NEW op \in OrderOps, Starts(p, OrderRequest(op, o))
      PROVE  req' \in [Procs -> Request] /\ overlapped' \subseteq Orders
  BY <1>1, OrderRequestType, StartsType DEF SalesTypeOK
<1>2. ASSUME NEW o \in Orders, ReadForUpdate(p, o) \/ ReadForRemove(p, o)
                               \/ ConfirmSalesOrder(p, o) \/ DeliverSalesOrder(p, o)
      PROVE  /\ req' \in [Procs -> Request] /\ overlapped' \subseteq Orders
             /\ UNCHANGED <<orders, outside, interrupted>>
  BY <1>1, <1>2 DEF ReadForUpdate, ReadForRemove, ConfirmSalesOrder, DeliverSalesOrder
<1>3. ASSUME NEW o \in Orders, CancelSalesOrder(p, o)
      PROVE  /\ req' \in [Procs -> Request] /\ overlapped' \subseteq Orders
             /\ UNCHANGED <<orders, outside, interrupted>>
  <2> DEFINE lines == IF orders[o].status = "confirmed" THEN orders[o].items ELSE << >>
             r == OrderRequest("cancel", o)
  <2>1. r \in Request /\ r.order = o /\ lines \in Seq(Line)
    BY OrderRequestType DEF SalesTypeOK, Order
  <2>2. Starts(p, [r EXCEPT !.left = lines]) /\ UNCHANGED <<orders, outside, interrupted>>
    BY <1>3 DEF CancelSalesOrder
  <2> HIDE DEF r, lines
  <2>3. [r EXCEPT !.left = lines] \in Request /\ [r EXCEPT !.left = lines].order = o
    BY <2>1 DEF Request
  <2> QED
    BY <2>2, <2>3, StartsType
<1>4. ASSUME NEW o \in Orders,
             ReadForPayment(p, o) \/ \E m \in Payments : ReadPayment(p, o, m)
      PROVE  /\ req' \in [Procs -> Request] /\ overlapped' \subseteq Orders
             /\ UNCHANGED <<orders, outside, interrupted>>
  <2> DEFINE none == NoRequest
  <2>1. none \in Request
    BY NoRequestType
  <2>2. \/ Starts(p, [none EXCEPT !.op = "pay", !.order = o])
        \/ \E m \in Payments :
             Starts(p, [none EXCEPT !.op = "unpay", !.order = o, !.payment = m])
    BY <1>4 DEF ReadForPayment, ReadPayment
  <2> HIDE DEF none
  <2>3. [none EXCEPT !.op = "pay", !.order = o] \in Request
        /\ [none EXCEPT !.op = "pay", !.order = o].order = o
    BY <2>1 DEF Request, PaymentOps
  <2>4. \A m \in Payments : [none EXCEPT !.op = "unpay", !.order = o, !.payment = m] \in Request
          /\ [none EXCEPT !.op = "unpay", !.order = o, !.payment = m].order = o
    BY <2>1 DEF Request, PaymentOps
  <2>5. req' \in [Procs -> Request] /\ overlapped' \subseteq Orders
    BY <2>2, <2>3, <2>4, StartsType
  <2> QED
    BY <1>4, <2>5 DEF ReadForPayment, ReadPayment
<1>5. ASSUME NEW c \in StockCalls, CallInventory(p, c)
      PROVE  /\ req' \in [Procs -> Request] /\ overlapped' \subseteq Orders
             /\ UNCHANGED <<orders, outside, interrupted>>
  <2> DEFINE none == NoRequest
             r == [none EXCEPT !.op = c.op, !.call = c]
  <2>1. none \in Request /\ c \in Call /\ c.op \in StockOps
    BY NoRequestType, CallTypes
  <2>2. Starts(p, r) /\ UNCHANGED <<orders, outside, interrupted>>
    BY <1>5 DEF CallInventory
  <2> HIDE DEF none
  <2>3. r \in Request /\ r.op \notin OrderOps
    BY <2>1 DEF Request, StockOps
  <2> HIDE DEF r
  <2> QED
    BY <2>2, <2>3, StartsType
<1> QED
  BY <1>2, <1>3, <1>4, <1>5 DEF Start

\* A request goes on: types of what it writes.
LEMMA ContinueTypes ==
  ASSUME SalesTypeOK, NEW p \in Procs, SaneRequest(p), Continue(p)
  PROVE  /\ orders' \in [Orders -> Order]
         /\ req' \in [Procs -> Request]
         /\ outside' \in [Rows -> [moved : Int, held : Int]]
         /\ overlapped' = overlapped
         /\ interrupted' \subseteq Orders
<1> DEFINE o == req[p].order
<1>1. /\ orders \in [Orders -> Order] /\ req \in [Procs -> Request]
      /\ outside \in [Rows -> [moved : Int, held : Int]]
      /\ overlapped \subseteq Orders /\ interrupted \subseteq Orders
      /\ req[p] \in Request
      /\ \A oo \in Orders : orders[oo] \in Order
  BY DEF SalesTypeOK
<1>2. req[p].op \in OrderOps \cup PaymentOps => o \in Orders
  BY DEF SaneRequest
<1>3. ASSUME o \in Orders, NEW new \in Order, orders' = [orders EXCEPT ![o] = new]
      PROVE  orders' \in [Orders -> Order]
  BY <1>1, <1>3
<1>4. ASSUME o \in Orders, NEW status \in Statuses, orders' = [orders EXCEPT ![o].status = status]
      PROVE  orders' \in [Orders -> Order]
  <2>1. [orders[o] EXCEPT !.status = status] \in Order
    BY <1>1, <1>4, OrderChangeType
  <2> QED
    BY <1>3, <1>4, <2>1
<1> HIDE DEF o
<1>5. CASE UpdateSalesOrder(p)
  <2>1. o \in Orders
    BY <1>2, <1>5 DEF UpdateSalesOrder, Handling, OrderOps
  <2>2. \/ \E items \in ItemLists, seen \in req[p].edits..orders[o].edits :
             orders' = [orders EXCEPT ![o] = Replaced(@, seen, items)]
        \/ orders' = [orders EXCEPT ![o].total = Total(req[p].items)]
    BY <1>5 DEF UpdateSalesOrder, o
  <2>3. \A items \in ItemLists, seen \in req[p].edits..orders[o].edits :
          Replaced(orders[o], seen, items) \in Order
    BY <1>1, <2>1, ReplacedType, ItemListsAssumption
  <2>4. req[p].items \in Seq(Line)
    BY <1>1 DEF Request
  <2>5. Total(req[p].items) \in Nat
    BY <2>4, TotalIsNat
  <2>6. [orders[o] EXCEPT !.total = Total(req[p].items)] \in Order
    BY <1>1, <2>1, <2>5, OrderChangeType
  <2>7. orders' \in [Orders -> Order]
    BY <1>1, <2>1, <2>2, <2>3, <2>6
  <2> QED
    BY <1>1, <1>5, <2>7, DoneType DEF UpdateSalesOrder
<1>6. CASE CommitConfirm(p) \/ CommitDeliver(p)
  <2>1. o \in Orders
    BY <1>2, <1>6 DEF CommitConfirm, CommitDeliver, CommitStatus, Handling, OrderOps
  <2>2. orders' = [orders EXCEPT ![o].status = "confirmed"]
        \/ orders' = [orders EXCEPT ![o].status = "delivered"]
    BY <1>6 DEF CommitConfirm, CommitDeliver, CommitStatus, o
  <2>3. orders' \in [Orders -> Order]
    BY <1>4, <2>1, <2>2 DEF Statuses
  <2> QED
    BY <1>1, <1>6, <2>3, DoneType DEF CommitConfirm, CommitDeliver, CommitStatus
<1>7. CASE BeginRelease(p)
  <2>1. req[p].left # << >> /\ req[p].left \in Seq(Line)
    BY <1>1, <1>7 DEF BeginRelease, Request
  <2>2. Tail(req[p].left) \in Seq(Line)
    BY <2>1
  <2>3. [req[p] EXCEPT !.left = Tail(@)] \in Request
    BY <1>1, <2>2 DEF Request
  <2> QED
    BY <1>1, <1>7, <2>3 DEF BeginRelease
<1>8. CASE CommitRelease(p)
  BY <1>1, <1>8 DEF CommitRelease, salesVars
<1>9. CASE FinishCancel(p)
  <2>1. o \in Orders
    BY <1>2, <1>9 DEF FinishCancel, Handling, OrderOps
  <2>2. orders' = [orders EXCEPT ![o].status = "cancelled"]
    BY <1>9 DEF FinishCancel, o
  <2>3. orders' \in [Orders -> Order]
    BY <1>4, <2>1, <2>2 DEF Statuses
  <2> QED
    BY <1>1, <1>9, <2>3, DoneType DEF FinishCancel
<1>10. CASE RemoveSalesOrder(p)
  <2>1. o \in Orders
    BY <1>2, <1>10 DEF RemoveSalesOrder, Handling, OrderOps
  <2>2. orders' = [orders EXCEPT ![o] = [NoneYet EXCEPT !.status = "removed"]]
    BY <1>10 DEF RemoveSalesOrder, o
  <2>3. orders' \in [Orders -> Order]
    <3>1. << >> \in Seq(Line)
      OBVIOUS
    <3> QED
      BY <1>3, <2>1, <2>2, <3>1, NewOrderType
  <2> QED
    BY <1>1, <1>10, <2>3, DoneType DEF RemoveSalesOrder
<1>11. CASE CreatePayment(p) \/ RemovePayment(p)
  <2>1. o \in Orders
    BY <1>2, <1>11 DEF CreatePayment, RemovePayment, Handling, PaymentOps
  <2>2. \E S \in SUBSET Payments, paid \in Int :
          orders' = [orders EXCEPT ![o].payments = S, ![o].paid = paid]
    <3>1. orders[o].payments \in SUBSET Payments /\ orders[o].paid \in Int
      BY <1>1, <2>1 DEF Order
    <3>2. \/ \E m \in Payments :
               orders' = [orders EXCEPT ![o].payments = @ \cup {m}, ![o].paid = @ + 1]
          \/ \E m \in Payments \cup {NoOrder} :
               orders' = [orders EXCEPT ![o].payments = @ \ {m}, ![o].paid = @ - 1]
      BY <1>1, <1>11 DEF CreatePayment, RemovePayment, o, Request
    <3>3. /\ \A m \in Payments : orders[o].payments \cup {m} \in SUBSET Payments
          /\ \A m : orders[o].payments \ {m} \in SUBSET Payments
          /\ orders[o].paid + 1 \in Int /\ orders[o].paid - 1 \in Int
      BY <3>1
    <3>4. \/ \E m \in Payments :
               orders' = [orders EXCEPT ![o].payments = orders[o].payments \cup {m},
                                        ![o].paid = orders[o].paid + 1]
          \/ \E m \in Payments \cup {NoOrder} :
               orders' = [orders EXCEPT ![o].payments = orders[o].payments \ {m},
                                        ![o].paid = orders[o].paid - 1]
      BY <1>1, <2>1, <3>2
    <3> QED
      BY <3>3, <3>4
  <2>3. \A S \in SUBSET Payments, paid \in Int :
          [orders[o] EXCEPT !.payments = S, !.paid = paid] \in Order
    BY <1>1, <2>1, OrderChangeType
  <2>4. orders' \in [Orders -> Order]
    <3>1. PICK S \in SUBSET Payments, paid \in Int :
            orders' = [orders EXCEPT ![o].payments = S, ![o].paid = paid]
      BY <2>2
    <3>2. orders' = [orders EXCEPT ![o] = [orders[o] EXCEPT !.payments = S, !.paid = paid]]
      BY <1>1, <2>1, <3>1 DEF Order
    <3> QED
      BY <1>1, <2>1, <2>3, <3>2
  <2> QED
    BY <1>1, <1>11, <2>4, DoneType DEF CreatePayment, RemovePayment
<1>12. CASE CommitInventory(p)
  <2>1. req[p].call \in Call /\ req[p].call.op \in StockOps
    BY <1>12 DEF CommitInventory, SaneRequest
  <2>2. req[p].call.row \in Rows /\ req[p].call.n \in Int
    BY <2>1 DEF Call
  <2>3. outside[req[p].call.row].moved \in Int /\ outside[req[p].call.row].held \in Int
    BY <1>1, <2>2
  <2>4. outside' \in [Rows -> [moved : Int, held : Int]]
    BY <1>1, <1>12, <2>1, <2>2, <2>3 DEF CommitInventory, StockOps
  <2> QED
    BY <1>1, <1>12, <2>4, DoneType DEF CommitInventory
<1>13. CASE StockStatement(p)
  BY <1>1, <1>13, StopsType DEF StockStatement
<1>14. CASE Fail(p)
  BY <1>1, <1>14, StopsType DEF Fail
<1> QED
  BY <1>5, <1>6, <1>7, <1>8, <1>9, <1>10, <1>11, <1>12, <1>13, <1>14 DEF Continue

-----------------------------------------------------------------------------
(* Requests *)

\* One request's step leaves what another has done alone.
LEMMA OthersStaySane ==
  ASSUME Inv, Locks, NEW p \in Procs, NEW q \in Procs \ {p}, SaneRequest(q),
         req'[q] = req[q], Uses(p)
  PROVE  SaneRequest(q)' /\ pc'[q] = pc[q]
<1>1. Untouched(q)
  <2>1. CASE UNCHANGED stockVars
    BY <2>1 DEF Untouched, stockVars
  <2>2. CASE ~UNCHANGED stockVars
    BY <2>2, OthersAreUntouched DEF Uses
  <2> QED
    BY <2>1, <2>2
<1>2. pc'[q] = pc[q]
  BY <1>1 DEF Untouched
<1>3. CallsOf(q)' = CallsOf(q) /\ At(q)' = At(q)
  BY DEF CallsOf, At
<1>4. PICK calls : calls = CallsOf(q)
  OBVIOUS
<1>5. Executed(q, calls) => Executed(q, calls)'
  BY <1>1, OthersAreExecuted
<1>6. pc'[q] # "idle" => Executed(q, CallsOf(q))'
  BY <1>2, <1>3, <1>4, <1>5 DEF SaneRequest
<1> QED
  BY <1>2, <1>3, <1>6 DEF SaneRequest

\* A process without a request is sane.
LEMMA DoneIsSane ==
  ASSUME NEW p \in Procs, req'[p] = NoRequest, pc'[p] = "idle"
  PROVE  SaneRequest(p)'
BY DEF SaneRequest, NoRequest, OrderOps, PaymentOps, StockOps

\* A request that has only read is sane, and one that has begun its transaction.
LEMMA StartIsSane ==
  ASSUME SalesTypeOK, Inv, Locks, NEW p \in Procs, Start(p)
  PROVE  SaneRequest(p)' /\ (\A q \in Procs \ {p} : req'[q] = req[q])
<1> USE DEF OrderOps, PaymentOps, StockOps
<1>1. req \in [Procs -> Request] /\ orders \in [Orders -> Order]
  BY DEF SalesTypeOK
<1>2. ASSUME NEW r, Starts(p, r) PROVE req'[p] = r /\ \A q \in Procs \ {p} : req'[q] = req[q]
  BY <1>1, <1>2 DEF Starts
<1>3. UNCHANGED stockVars /\ Idle(p) => pc'[p] = "idle"
  BY DEF stockVars, Idle
<1>4. ASSUME NEW o \in Orders, ReadForUpdate(p, o) \/ ReadForRemove(p, o)
      PROVE  SaneRequest(p)' /\ (\A q \in Procs \ {p} : req'[q] = req[q])
  <2>1. PICK op \in {"update", "remove"} : Starts(p, OrderRequest(op, o))
    BY <1>4 DEF ReadForUpdate, ReadForRemove
  <2>2. req'[p] = [op |-> op, order |-> o, items |-> orders[o].items,
                   edits |-> orders[o].edits, left |-> << >>, call |-> NoOrder,
                   payment |-> NoOrder]
    BY <1>1, <1>2, <2>1, OrderRequestType
  <2>3. pc'[p] = "idle"
    BY <1>3, <1>4 DEF ReadForUpdate, ReadForRemove
  <2>4. \A q \in Procs \ {p} : req'[q] = req[q]
    BY <1>2, <2>1
  <2> QED
    BY <2>2, <2>3, <2>4 DEF SaneRequest
<1>5. ASSUME NEW o \in Orders, ConfirmSalesOrder(p, o) \/ DeliverSalesOrder(p, o)
      PROVE  SaneRequest(p)' /\ (\A q \in Procs \ {p} : req'[q] = req[q])
  <2>1. PICK op \in {"confirm", "deliver"} :
          /\ Starts(p, OrderRequest(op, o))
          /\ Begin(p, IF op = "confirm" THEN ReserveCalls(orders[o].items)
                      ELSE DeliverCalls(orders[o].items))
    BY <1>5 DEF ConfirmSalesOrder, DeliverSalesOrder
  <2>2. req'[p] = [op |-> op, order |-> o, items |-> orders[o].items,
                   edits |-> orders[o].edits, left |-> << >>, call |-> NoOrder,
                   payment |-> NoOrder]
    BY <1>1, <1>2, <2>1, OrderRequestType
  <2>3. PICK calls : calls = IF op = "confirm" THEN ReserveCalls(orders[o].items)
                             ELSE DeliverCalls(orders[o].items)
    OBVIOUS
  <2>4. calls \in Seq(Call)
    <3>1. orders[o].items \in Seq(Line)
      BY <1>1 DEF Order
    <3> QED
      BY <2>3, <3>1, ReserveCallsEffect, DeliverCallsEffect
  <2>5. Executed(p, calls)' /\ pc'[p] = "open"
    BY <2>1, <2>3, <2>4, BeginExecutes
  <2>6. CallsOf(p)' = calls
    BY <2>1, <2>2, <2>3 DEF CallsOf
  <2>7. Executed(p, CallsOf(p))'
    BY <2>5, <2>6
  <2>8. \A q \in Procs \ {p} : req'[q] = req[q]
    BY <1>2, <2>1
  <2> QED
    BY <2>2, <2>5, <2>7, <2>8 DEF SaneRequest
<1>6. ASSUME NEW o \in Orders, CancelSalesOrder(p, o)
      PROVE  SaneRequest(p)' /\ (\A q \in Procs \ {p} : req'[q] = req[q])
  <2> DEFINE lines == IF orders[o].status = "confirmed" THEN orders[o].items ELSE << >>
             r == OrderRequest("cancel", o)
             items == orders[o].items
  <2>1. Starts(p, [r EXCEPT !.left = lines]) /\ pc'[p] = "idle"
    BY <1>3, <1>6 DEF CancelSalesOrder
  <2>2. r = [op |-> "cancel", order |-> o, items |-> items,
             edits |-> orders[o].edits, left |-> << >>, call |-> NoOrder,
             payment |-> NoOrder]
    BY <1>1, OrderRequestType
  <2>3. items \in Seq(Line)
    BY <1>1 DEF Order
  <2>4. lines = items \/ lines = << >>
    OBVIOUS
  <2>5. req'[p] = [r EXCEPT !.left = lines]
    BY <1>2, <2>1
  <2>6. \A q \in Procs \ {p} : req'[q] = req[q]
    BY <1>2, <2>1
  <2> HIDE DEF lines, r
  <2>7. req'[p] = [op |-> "cancel", order |-> o, items |-> items,
                   edits |-> orders[o].edits, left |-> lines, call |-> NoOrder,
                   payment |-> NoOrder]
    BY <2>2, <2>5
  <2> HIDE DEF items
  <2>8. lines = items => At(p)' = 0 /\ lines = SubSeq(items, 0 + 1, Len(items))
    BY <2>3, <2>7 DEF At
  <2>9. lines = << >> => At(p)' = Len(items) /\ lines = SubSeq(items, Len(items) + 1, Len(items))
    BY <2>3, <2>7 DEF At
  <2>10. /\ At(p)' \in 0..Len(items)
         /\ lines = SubSeq(items, At(p)' + 1, Len(items))
    BY <2>3, <2>4, <2>8, <2>9
  <2> QED
    BY <2>1, <2>6, <2>7, <2>10 DEF SaneRequest
<1>7. ASSUME NEW o \in Orders,
             ReadForPayment(p, o) \/ \E m \in Payments : ReadPayment(p, o, m)
      PROVE  SaneRequest(p)' /\ (\A q \in Procs \ {p} : req'[q] = req[q])
  <2> DEFINE none == NoRequest
  <2>1. PICK r : /\ Starts(p, r)
                 /\ \/ r = [none EXCEPT !.op = "pay", !.order = o]
                    \/ \E m \in Payments : r = [none EXCEPT !.op = "unpay", !.order = o, !.payment = m]
    BY <1>7 DEF ReadForPayment, ReadPayment
  <2>2. pc'[p] = "idle"
    BY <1>3, <1>7 DEF ReadForPayment, ReadPayment
  <2>3. none \in Request
    BY NoRequestType
  <2> HIDE DEF none
  <2>4. r.op \in PaymentOps /\ r.order = o
    BY <2>1, <2>3 DEF Request
  <2>5. req'[p] = r /\ \A q \in Procs \ {p} : req'[q] = req[q]
    BY <1>2, <2>1
  <2> QED
    BY <2>2, <2>4, <2>5 DEF SaneRequest
<1>8. ASSUME NEW c \in StockCalls, CallInventory(p, c)
      PROVE  SaneRequest(p)' /\ (\A q \in Procs \ {p} : req'[q] = req[q])
  <2> DEFINE none == NoRequest
             r == [none EXCEPT !.op = c.op, !.call = c]
  <2>1. Starts(p, r) /\ Begin(p, <<c>>)
    BY <1>8 DEF CallInventory
  <2>2. none \in Request /\ none.order = NoOrder /\ c \in Call /\ c.op \in StockOps
    BY NoRequestType, CallTypes DEF NoRequest
  <2> HIDE DEF none
  <2>3. r.op = c.op /\ r.call = c /\ r.order = NoOrder
    BY <2>2 DEF Request
  <2> HIDE DEF r
  <2>4. req'[p] = r /\ \A q \in Procs \ {p} : req'[q] = req[q]
    BY <1>2, <2>1
  <2>5. PICK calls : calls = <<c>>
    OBVIOUS
  <2>6. Executed(p, calls)' /\ pc'[p] = "open"
    BY <2>1, <2>2, <2>5, BeginExecutes, SingleCallEffect
  <2>7. CallsOf(p)' = calls
    BY <2>2, <2>3, <2>4, <2>5 DEF CallsOf
  <2>8. Executed(p, CallsOf(p))'
    BY <2>6, <2>7
  <2> QED
    BY <2>2, <2>3, <2>4, <2>6, <2>8 DEF SaneRequest
<1> QED
  BY <1>4, <1>5, <1>6, <1>7, <1>8 DEF Start

\* A cancellation goes on to its next line.
LEMMA BeginReleaseIsSane ==
  ASSUME SalesTypeOK, Inv, Locks, NEW p \in Procs, SaneRequest(p), BeginRelease(p)
  PROVE  /\ SaneRequest(p)' /\ pc'[p] # "idle"
         /\ At(p)' = At(p) + 1
         /\ req'[p].items = req[p].items /\ req'[p].order = req[p].order
         /\ req'[p].edits = req[p].edits /\ req'[p].op = "cancel"
<1> DEFINE items == req[p].items
           rest == SubSeq(items, At(p) + 1, Len(items))
           line == Head(req[p].left)
<1>1. req \in [Procs -> Request] /\ items \in Seq(Line) /\ Len(items) \in Nat
  BY DEF SalesTypeOK, Request
<1>2. /\ req[p].op = "cancel" /\ req[p].left # << >>
      /\ Begin(p, <<Release(line.row, line.n)>>)
      /\ req' = [req EXCEPT ![p].left = Tail(@)]
  BY DEF BeginRelease, Handling
<1>3. /\ req'[p].op = "cancel" /\ req'[p].left = Tail(req[p].left)
      /\ req'[p].items = items /\ req'[p].order = req[p].order
      /\ req'[p].edits = req[p].edits
  BY <1>1, <1>2 DEF Request
<1>4. At(p) \in 0..Len(items) /\ req[p].left = rest /\ req[p].order \in Orders
  BY <1>2 DEF SaneRequest, OrderOps
<1>5. At(p) \in Nat /\ At(p) < Len(items)
  BY <1>1, <1>2, <1>4
<1> HIDE DEF items, rest
<1>6. /\ line = items[At(p) + 1] /\ Len(Tail(rest)) = Len(items) - (At(p) + 1)
      /\ Tail(rest) = SubSeq(items, (At(p) + 1) + 1, Len(items))
  BY <1>1, <1>4, <1>5, RestOfSeq DEF rest
<1>7. Len(req'[p].left) = Len(items) - (At(p) + 1)
  BY <1>3, <1>4, <1>6
<1>8. At(p)' = At(p) + 1
  <2>1. At(p)' = Len(req'[p].items) - Len(req'[p].left)
    BY DEF At
  <2> QED
    BY <1>1, <1>3, <1>5, <1>7, <2>1
<1>9. At(p)' \in 0..Len(req'[p].items) /\ At(p)' > 0
      /\ req'[p].left = SubSeq(req'[p].items, At(p)' + 1, Len(req'[p].items))
  BY <1>1, <1>3, <1>4, <1>5, <1>6, <1>8
<1>10. PICK calls : calls = <<Release(line.row, line.n)>>
  OBVIOUS
<1>11. line \in Line
  BY <1>1, <1>5, <1>6
<1>12. Executed(p, calls)' /\ pc'[p] = "open"
  BY <1>2, <1>10, <1>11, CallTypes, SingleCallEffect, BeginExecutes
<1> HIDE DEF line
<1>13. CallsOf(p)' = calls
  BY <1>3, <1>6, <1>8, <1>10 DEF CallsOf
<1>14. Executed(p, CallsOf(p))'
  BY <1>12, <1>13
<1>15. req'[p].order \in Orders
  BY <1>3, <1>4
<1>16. SaneRequest(p)'
  BY <1>3, <1>9, <1>12, <1>14, <1>15 DEF SaneRequest, OrderOps, PaymentOps, StockOps
<1> QED
  BY <1>3, <1>8, <1>12, <1>16 DEF items

\* A request that goes on keeps what it says, or ends.
LEMMA ContinueIsSane ==
  ASSUME SalesTypeOK, Inv, Locks, NEW p \in Procs, SaneRequest(p), Continue(p)
  PROVE  SaneRequest(p)' /\ (\A q \in Procs \ {p} : req'[q] = req[q])
<1>1. req \in [Procs -> Request]
  BY DEF SalesTypeOK
<1>2. ASSUME Done(p) PROVE req'[p] = NoRequest /\ \A q \in Procs \ {p} : req'[q] = req[q]
  BY <1>1, <1>2 DEF Done
<1>3. CASE BeginRelease(p)
  BY <1>1, <1>3, BeginReleaseIsSane DEF BeginRelease
<1>4. CASE CommitRelease(p)
  <2>1. req' = req /\ pc'[p] = "idle" /\ At(p)' = At(p) /\ req[p].op = "cancel"
    BY <1>4, RollbackEnds DEF CommitRelease, salesVars, At, Handling
  <2> QED
    BY <2>1 DEF SaneRequest, OrderOps, PaymentOps, StockOps
<1>5. CASE StockStatement(p)
  <2>1. CASE pc'[p] = "idle"
    BY <1>2, <1>5, <2>1, DoneIsSane DEF StockStatement, Stops
  <2>2. CASE pc'[p] # "idle"
    <3>1. pc[p] # "idle"
      BY <1>5, StatementIsOpen DEF StockStatement
    <3>2. PICK calls : calls = CallsOf(p)
      OBVIOUS
    <3>3. Executed(p, calls) /\ calls \in Seq(Call)
      BY <3>1, <3>2, CallsAreCalls DEF SaneRequest
    <3>4. ~Rollback(p)
      BY <2>2, RollbackEnds
    <3>5. Executed(p, calls)'
      BY <1>5, <3>3, <3>4, StatementExecutes DEF StockStatement
    <3>6. req' = req /\ At(p)' = At(p) /\ CallsOf(p)' = CallsOf(p)
      BY <1>5, <2>2 DEF StockStatement, At, CallsOf
    <3>7. Executed(p, CallsOf(p))'
      BY <3>2, <3>5, <3>6
    <3> QED
      BY <2>2, <3>1, <3>6, <3>7 DEF SaneRequest
  <2> QED
    BY <2>1, <2>2
<1>6. CASE Fail(p)
  <2>1. pc'[p] = "idle"
    BY <1>6, RollbackEnds DEF Fail, stockVars
  <2> QED
    BY <1>2, <1>6, <2>1, DoneIsSane DEF Fail, Stops
<1>7. CASE CommitConfirm(p) \/ CommitDeliver(p) \/ CommitInventory(p)
  <2>1. Commit(p) /\ Done(p)
    BY <1>7 DEF CommitConfirm, CommitDeliver, CommitStatus, CommitInventory
  <2> QED
    BY <1>2, <2>1, RollbackEnds, DoneIsSane
<1>8. CASE UpdateSalesOrder(p) \/ FinishCancel(p) \/ RemoveSalesOrder(p)
           \/ CreatePayment(p) \/ RemovePayment(p)
  <2>1. UNCHANGED stockVars /\ Done(p)
    BY <1>8 DEF UpdateSalesOrder, FinishCancel, RemoveSalesOrder, CreatePayment, RemovePayment
  <2>2. pc[p] = "idle"
    BY <1>8 DEF UpdateSalesOrder, FinishCancel, RemoveSalesOrder, CreatePayment, RemovePayment,
                Handling, SaneRequest, PaymentOps
  <2> QED
    BY <1>2, <2>1, <2>2, DoneIsSane DEF stockVars
<1> QED
  BY <1>3, <1>4, <1>5, <1>6, <1>7, <1>8 DEF Continue

\* Only p's request changes.
LEMMA StepIsSane ==
  ASSUME SalesTypeOK, Inv, Locks, RequestsAreSane, NEW p \in Procs, Start(p) \/ Continue(p)
  PROVE  /\ RequestsAreSane'
         /\ \A q \in Procs \ {p} : req'[q] = req[q] /\ pc'[q] = pc[q]
<1>1. Uses(p)
  BY StepUses
<1>2. SaneRequest(p)' /\ \A q \in Procs \ {p} : req'[q] = req[q]
  BY StartIsSane, ContinueIsSane DEF RequestsAreSane
<1>3. \A q \in Procs \ {p} : SaneRequest(q)' /\ pc'[q] = pc[q]
  BY <1>1, <1>2, OthersStaySane DEF RequestsAreSane
<1> QED
  BY <1>2, <1>3 DEF RequestsAreSane

-----------------------------------------------------------------------------
(* Who may change an order *)

\* What a step does to the request of p.
LEMMA RequestShape ==
  ASSUME SalesTypeOK, NEW p \in Procs, Start(p) \/ Continue(p)
  PROVE  \/ Idle(p) /\ Starts(p, req'[p]) /\ orders' = orders
         \/ overlapped' = overlapped /\ req'[p] = NoRequest
         \/ /\ overlapped' = overlapped /\ orders' = orders
            /\ req'[p].op = req[p].op /\ req'[p].order = req[p].order
            /\ req'[p].items = req[p].items /\ req'[p].edits = req[p].edits
<1>1. req \in [Procs -> Request]
  BY DEF SalesTypeOK
<1>2. ASSUME NEW r, Starts(p, r) PROVE req'[p] = r
  BY <1>1, <1>2 DEF Starts
<1>3. CASE Start(p)
  <2>1. Idle(p) /\ orders' = orders /\ \E r : Starts(p, r)
    BY <1>3 DEF Start, ReadForUpdate, ConfirmSalesOrder, DeliverSalesOrder, CancelSalesOrder,
                ReadForRemove, ReadForPayment, ReadPayment, CallInventory
  <2> QED
    BY <1>2, <2>1
<1>4. ASSUME Done(p) PROVE req'[p] = NoRequest
  BY <1>1, <1>4 DEF Done
<1>5. CASE BeginRelease(p)
  BY <1>1, <1>5 DEF BeginRelease, Request
<1>6. CASE CommitRelease(p)
  BY <1>6 DEF CommitRelease, salesVars
<1>7. CASE StockStatement(p) \/ Fail(p)
  BY <1>4, <1>7 DEF StockStatement, Fail, Stops
<1>8. CASE UpdateSalesOrder(p) \/ CommitConfirm(p) \/ CommitDeliver(p) \/ FinishCancel(p)
           \/ RemoveSalesOrder(p) \/ CreatePayment(p) \/ RemovePayment(p) \/ CommitInventory(p)
  BY <1>4, <1>8 DEF UpdateSalesOrder, CommitConfirm, CommitDeliver, CommitStatus, FinishCancel,
                    RemoveSalesOrder, CreatePayment, RemovePayment, CommitInventory
<1> QED
  BY <1>3, <1>5, <1>6, <1>7, <1>8 DEF Continue

\* What only the stock-changing requests write of an order.
Unwritten(o) ==
  /\ orders'[o].status = orders[o].status /\ orders'[o].items = orders[o].items
  /\ orders'[o].edits = orders[o].edits /\ orders'[o].total = orders[o].total

\* Only the request for an order writes its status, items, edits and total, and it
\* ends with that step.
LEMMA WhoWrites ==
  ASSUME SalesTypeOK, NEW p \in Procs, SaneRequest(p), Start(p) \/ Continue(p), NEW o \in Orders
  PROVE  \/ Unwritten(o)
         \/ /\ req[p].order = o /\ req[p].op \in OrderOps
            /\ req'[p] = NoRequest /\ overlapped' = overlapped
            /\ interrupted' = interrupted /\ outside' = outside
<1>1. orders \in [Orders -> Order] /\ req \in [Procs -> Request]
  BY DEF SalesTypeOK
<1>2. CASE orders' = orders
  BY <1>2 DEF Unwritten
<1>3. CASE CreatePayment(p) \/ RemovePayment(p)
  <2>1. req[p].order \in Orders
    BY <1>3 DEF CreatePayment, RemovePayment, Handling, SaneRequest, PaymentOps
  <2>2. \E S, paid :
          orders' = [orders EXCEPT ![req[p].order].payments = S, ![req[p].order].paid = paid]
    BY <1>3 DEF CreatePayment, RemovePayment
  <2>3. PICK S, paid :
          orders' = [orders EXCEPT ![req[p].order].payments = S, ![req[p].order].paid = paid]
    BY <2>2
  <2> QED
    BY <1>1, <2>1, <2>3 DEF Unwritten, Order
<1>4. CASE UpdateSalesOrder(p) \/ CommitConfirm(p) \/ CommitDeliver(p) \/ FinishCancel(p)
           \/ RemoveSalesOrder(p)
  <2>1. /\ req[p].op \in OrderOps /\ Done(p) /\ overlapped' = overlapped
        /\ interrupted' = interrupted /\ outside' = outside
    BY <1>4 DEF UpdateSalesOrder, CommitConfirm, CommitDeliver, CommitStatus, FinishCancel,
                RemoveSalesOrder, Handling, OrderOps
  <2>2. req'[p] = NoRequest
    BY <1>1, <2>1 DEF Done
  <2>3. req[p].order # o => orders'[o] = orders[o]
    BY <1>1, <1>4 DEF UpdateSalesOrder, CommitConfirm, CommitDeliver, CommitStatus, FinishCancel,
                      RemoveSalesOrder
  <2> QED
    BY <2>1, <2>2, <2>3 DEF Unwritten
<1>5. orders' # orders =>
        \/ CreatePayment(p) \/ RemovePayment(p)
        \/ UpdateSalesOrder(p) \/ CommitConfirm(p) \/ CommitDeliver(p) \/ FinishCancel(p)
        \/ RemoveSalesOrder(p)
  <2>1. Start(p) => orders' = orders
    BY StartTypes
  <2>2. BeginRelease(p) \/ CommitRelease(p) \/ CommitInventory(p) \/ StockStatement(p) \/ Fail(p)
        => orders' = orders
    BY DEF BeginRelease, CommitRelease, CommitInventory, StockStatement, Fail, salesVars
  <2> QED
    BY <2>1, <2>2 DEF Continue
<1> QED
  BY <1>2, <1>3, <1>4, <1>5

\* A request that starts while another works on its order marks the order
\* overlapped, so on all others a request stays alone.
LEMMA NotOverlappedStep ==
  ASSUME SalesTypeOK, Inv, Locks, RequestsAreSane, NotOverlapped,
         NEW p \in Procs, Start(p) \/ Continue(p)
  PROVE  NotOverlapped' /\ overlapped \subseteq overlapped'
<1>1. \A q \in Procs \ {p} : req'[q] = req[q]
  BY StepIsSane
<1>2. overlapped \subseteq overlapped'
  BY RequestShape DEF Starts
<1>3. CASE Starts(p, req'[p])
  BY <1>1, <1>2, <1>3 DEF NotOverlapped, Starts
<1>4. CASE req'[p] = NoRequest
  <2>1. req'[p].op \notin OrderOps
    BY <1>4 DEF NoRequest, OrderOps
  <2> QED
    BY <1>1, <1>2, <2>1 DEF NotOverlapped
<1>5. CASE req'[p].op = req[p].op /\ req'[p].order = req[p].order
  BY <1>1, <1>2, <1>5 DEF NotOverlapped
<1> QED
  BY <1>2, <1>3, <1>4, <1>5, RequestShape

\* A request that nobody has overlapped finds its order as it has read it.
LEMMA OwnStillSo ==
  ASSUME SalesTypeOK, Inv, Locks, NEW p \in Procs, SaneRequest(p), Start(p) \/ Continue(p),
         req[p].op \in OrderOps => StillSo(p), req'[p].op \in OrderOps
  PROVE  StillSo(p)'
<1>1. orders \in [Orders -> Order] /\ req \in [Procs -> Request]
  BY DEF SalesTypeOK
<1>2. req'[p] # NoRequest
  BY DEF NoRequest, OrderOps
<1>3. CASE Start(p)
  <2>1. orders' = orders
    BY <1>3, StartTypes
  <2>2. ASSUME NEW r, Starts(p, r) PROVE req'[p] = r
    BY <1>1, <2>2 DEF Starts
  <2>3. ASSUME NEW o \in Orders, ReadForUpdate(p, o) \/ ReadForRemove(p, o)
                                 \/ ConfirmSalesOrder(p, o) \/ DeliverSalesOrder(p, o)
        PROVE  StillSo(p)'
    <3>1. PICK op \in {"update", "remove", "confirm", "deliver"} :
            /\ Starts(p, OrderRequest(op, o))
            /\ op \in {"update", "confirm"} => orders[o].status = "draft"
            /\ op = "deliver" => orders[o].status = "confirmed"
            /\ op = "remove" => orders[o].status \in {"draft", "cancelled"}
      <4>1. orders[o].status \in Statuses
        BY <1>1 DEF Order
      <4> QED
        BY <2>3, <4>1 DEF ReadForUpdate, ReadForRemove, ConfirmSalesOrder, DeliverSalesOrder, Exists, Statuses
    <3>2. req'[p] = [op |-> op, order |-> o, items |-> orders[o].items,
                     edits |-> orders[o].edits, left |-> << >>, call |-> NoOrder,
                     payment |-> NoOrder]
      BY <1>1, <2>2, <3>1, OrderRequestType DEF OrderOps
    <3> QED
      BY <2>1, <3>1, <3>2 DEF StillSo
  <2>4. ASSUME NEW o \in Orders, CancelSalesOrder(p, o) PROVE StillSo(p)'
    <3> DEFINE lines == IF orders[o].status = "confirmed" THEN orders[o].items ELSE << >>
               read == OrderRequest("cancel", o)
    <3>1. Starts(p, [read EXCEPT !.left = lines]) /\ pc'[p] = "idle"
          /\ orders[o].status \in {"draft", "confirmed"}
      <4>1. orders[o].status \in Statuses
        BY <1>1 DEF Order
      <4> QED
        BY <2>4, <4>1 DEF CancelSalesOrder, Idle, stockVars, Exists, Statuses
    <3>2. read = [op |-> "cancel", order |-> o, items |-> orders[o].items,
               edits |-> orders[o].edits, left |-> << >>, call |-> NoOrder,
               payment |-> NoOrder]
      BY <1>1, OrderRequestType DEF OrderOps
    <3>3. req'[p] = [read EXCEPT !.left = lines]
      BY <2>2, <3>1
    <3>4. orders[o].status # "confirmed" => lines = << >>
      OBVIOUS
    <3> HIDE DEF read, lines
    <3>5. req'[p].op = "cancel" /\ req'[p].order = o /\ req'[p].items = orders[o].items
          /\ req'[p].edits = orders[o].edits /\ req'[p].left = lines
      BY <3>2, <3>3
    <3>6. orders'[req'[p].order] = orders[o]
      BY <2>1, <3>5
    <3>7. \/ orders[o].status = "confirmed"
          \/ orders[o].status = "draft" /\ req'[p].left = << >> /\ pc'[p] = "idle"
      BY <3>1, <3>4, <3>5
    <3> QED
      BY <3>5, <3>6, <3>7 DEF StillSo
  <2>5. ASSUME NEW o \in Orders,
               ReadForPayment(p, o) \/ \E m \in Payments : ReadPayment(p, o, m)
        PROVE  req'[p].op \in PaymentOps
    <3> DEFINE none == NoRequest
    <3>1. PICK r : /\ Starts(p, r)
                   /\ \/ r = [none EXCEPT !.op = "pay", !.order = o]
                      \/ \E m \in Payments : r = [none EXCEPT !.op = "unpay", !.order = o, !.payment = m]
      BY <2>5 DEF ReadForPayment, ReadPayment
    <3>2. none \in Request
      BY NoRequestType
    <3> HIDE DEF none
    <3>3. r.op \in PaymentOps
      BY <3>1, <3>2 DEF Request, PaymentOps
    <3> QED
      BY <2>2, <3>1, <3>3
  <2>6. ASSUME NEW c \in StockCalls, CallInventory(p, c) PROVE req'[p].op \in StockOps
    <3>1. req'[p] = [NoRequest EXCEPT !.op = c.op, !.call = c]
      BY <2>2, <2>6 DEF CallInventory
    <3>2. c.op \in StockOps
      BY CallTypes
    <3> DEFINE none == NoRequest
    <3>3. none \in Request /\ req'[p] = [none EXCEPT !.op = c.op, !.call = c]
      BY <3>1, NoRequestType
    <3> HIDE DEF none
    <3> QED
      BY <3>2, <3>3 DEF Request
  <2> QED
    BY <1>3, <2>3, <2>4, <2>5, <2>6 DEF Start, OrderOps, PaymentOps, StockOps
<1>4. CASE BeginRelease(p)
  <2>1. /\ req'[p].op = "cancel" /\ req'[p].items = req[p].items
        /\ req'[p].order = req[p].order /\ req'[p].edits = req[p].edits
    BY <1>4, BeginReleaseIsSane
  <2>2. orders' = orders /\ req[p].left # << >> /\ req[p].op = "cancel"
    BY <1>4 DEF BeginRelease, Handling
  <2> QED
    BY <2>1, <2>2 DEF StillSo, OrderOps
<1>5. CASE CommitRelease(p) \/ StockStatement(p)
  <2>1. pc[p] # "idle"
    BY <1>5, StatementIsOpen DEF CommitRelease, StockStatement, Commit
  <2>2. req' = req /\ orders' = orders
    BY <1>1, <1>2, <1>5 DEF CommitRelease, StockStatement, salesVars, Stops, Done
  <2> QED
    BY <2>1, <2>2 DEF StillSo
<1>6. ASSUME Done(p) PROVE req'[p] = NoRequest
  BY <1>1, <1>6 DEF Done
<1>7. Continue(p) => BeginRelease(p) \/ CommitRelease(p) \/ StockStatement(p)
  BY <1>2, <1>6 DEF Continue, UpdateSalesOrder, CommitConfirm, CommitDeliver, CommitStatus, FinishCancel,
                    RemoveSalesOrder, CreatePayment, RemovePayment, CommitInventory, Fail, Stops
<1> QED
  BY <1>3, <1>4, <1>5, <1>7

\* So what a request has read of an order that is not overlapped is still so.
LEMMA UpToDateStep ==
  ASSUME SalesTypeOK, Inv, Locks, RequestsAreSane, NotOverlapped, UpToDate,
         NEW p \in Procs, Start(p) \/ Continue(p)
  PROVE  UpToDate'
<1>1. overlapped \subseteq overlapped' /\ SaneRequest(p)
  BY NotOverlappedStep DEF RequestsAreSane
<1>2. ASSUME NEW q \in Procs \ {p}, req'[q].op \in OrderOps, req'[q].order \notin overlapped'
      PROVE  StillSo(q)'
  <2>1. req'[q] = req[q] /\ pc'[q] = pc[q]
    BY StepIsSane
  <2>2. StillSo(q) /\ req[q].order \in Orders
    BY <1>1, <1>2, <2>1 DEF UpToDate, RequestsAreSane, SaneRequest
  <2>3. Unwritten(req[q].order)
    <3>1. ~(req[p].order = req[q].order /\ req[p].op \in OrderOps)
      BY <1>1, <1>2, <2>1 DEF NotOverlapped
    <3> QED
      BY <1>1, <2>2, <3>1, WhoWrites
  <2> QED
    BY <2>1, <2>2, <2>3 DEF StillSo, Unwritten
<1>3. ASSUME req'[p].op \in OrderOps, req'[p].order \notin overlapped'
      PROVE  StillSo(p)'
  <2>1. req[p].op \in OrderOps => StillSo(p)
    <3> SUFFICES ASSUME req[p].op \in OrderOps PROVE StillSo(p)
      OBVIOUS
    <3>1. ~Idle(p) /\ req'[p] # NoRequest
      BY <1>3 DEF Idle, OrderOps, NoRequest
    <3>2. req'[p].order = req[p].order
      BY <3>1, RequestShape
    <3> QED
      BY <1>1, <1>3, <3>2 DEF UpToDate
  <2> QED
    BY <1>1, <1>3, <2>1, OwnStillSo
<1> QED
  BY <1>2, <1>3 DEF UpToDate

-----------------------------------------------------------------------------
(* What an order adds up to *)

\* The lines an edit leaves.
LEMMA ReplacedLines ==
  ASSUME NEW order \in Order, NEW seen, NEW items \in Seq(Line),
         \A i \in DOMAIN order.items : order.items[i].edit <= order.edits
  PROVE  LET new == Replaced(order, seen, items)
         IN  /\ \A i \in DOMAIN new.items : new.items[i].edit <= new.edits
             /\ seen = order.edits => Total(new.items) = new.total
<1> DEFINE stamped == [i \in DOMAIN items |-> [items[i] EXCEPT !.edit = order.edits + 1]]
           kept == LinesSince(order.items, seen)
           new == Replaced(order, seen, items)
<1>1. /\ DOMAIN items = 1..Len(items) /\ Len(items) \in Nat
      /\ order.edits \in Nat /\ order.items \in Seq(Line)
  BY DEF Order
<1>2. \A i \in DOMAIN items : stamped[i] \in Line /\ stamped[i].edit = order.edits + 1
                              /\ stamped[i].n = items[i].n
  <2> TAKE i \in DOMAIN items
  <2> DEFINE line == items[i]
             edit == order.edits + 1
  <2>1. line \in Line /\ edit \in Nat /\ stamped[i] = [line EXCEPT !.edit = edit]
    BY <1>1
  <2> HIDE DEF line, edit, stamped
  <2>2. stamped[i] \in Line /\ stamped[i].edit = edit /\ stamped[i].n = line.n
    BY <2>1 DEF Line
  <2> QED
    BY <2>2 DEF line, edit
<1>3. DOMAIN stamped = DOMAIN items /\ stamped = [i \in DOMAIN items |-> stamped[i]]
  OBVIOUS
<1>4. new.items = kept \o stamped /\ new.edits = order.edits + 1 /\ new.total = Total(items)
  BY ReplacedType DEF Replaced, Order
<1> HIDE DEF stamped, new, kept
<1>5. stamped \in Seq(Line) /\ Len(stamped) = Len(items)
  <2>1. stamped \in [1..Len(items) -> Line]
    BY <1>1, <1>2, <1>3
  <2> QED
    BY <1>1, <2>1
<1>6. kept \in Seq(Line) /\ \A i \in DOMAIN kept : \E j \in DOMAIN order.items : kept[i] = order.items[j]
  BY <1>1, LinesSinceType DEF kept
<1>7. ASSUME NEW i \in DOMAIN (kept \o stamped)
      PROVE  (kept \o stamped)[i].edit <= order.edits + 1
  <2>1. CASE i \in DOMAIN kept
    <3>1. PICK j \in DOMAIN order.items : kept[i] = order.items[j]
      BY <1>6, <2>1
    <3>2. (kept \o stamped)[i] = order.items[j]
      BY <1>5, <1>6, <2>1, <3>1
    <3> DEFINE line == order.items[j]
    <3>3. line \in Line /\ line.edit <= order.edits
      BY <1>1
    <3> HIDE DEF line
    <3>4. line.edit \in Nat
      BY <3>3 DEF Line
    <3>5. line.edit <= order.edits + 1
      BY <1>1, <3>3, <3>4
    <3> QED
      BY <3>2, <3>5 DEF line
  <2>2. CASE i \notin DOMAIN kept
    <3>1. i - Len(kept) \in DOMAIN items /\ (kept \o stamped)[i] = stamped[i - Len(kept)]
      BY <1>1, <1>5, <1>6, <2>2
    <3> QED
      BY <1>1, <1>2, <3>1
  <2> QED
    BY <2>1, <2>2
<1>8. ASSUME seen = order.edits PROVE Total(new.items) = new.total
  <2>1. kept = << >>
    BY <1>1, <1>8, LinesSinceType DEF kept
  <2>2. new.items = stamped
    BY <1>4, <1>5, <2>1
  <2> DEFINE f == [i \in DOMAIN stamped |-> stamped[i].n]
             g == [i \in DOMAIN items |-> items[i].n]
             S == DOMAIN items
  <2>3. Total(stamped) = SumFunctionOnSet(f, S) /\ Total(items) = SumFunctionOnSet(g, S)
    BY <1>3 DEF Total, SumFunction
  <2>4. \A i \in S : f[i] \in Int /\ f[i] = g[i]
    BY <1>2, <1>3, LineTypes
  <2>5. IsFiniteSet(S)
    <3>1. Len(items) \in Int /\ 1 \in Int /\ S = 1..Len(items)
      BY <1>1
    <3>2. IsFiniteSet(1..Len(items))
      BY <3>1, FS_Interval
    <3> QED
      BY <3>1, <3>2
  <2> HIDE DEF f, g, S
  <2> QED
    BY <1>4, <2>2, <2>3, <2>4, <2>5, SumOfEquals
<1> QED
  BY <1>4, <1>7, <1>8 DEF new

\* What a request writes of its order.
LEMMA OrderWritten ==
  ASSUME SalesTypeOK, NEW p \in Procs, SaneRequest(p), Start(p) \/ Continue(p),
         NEW o \in Orders, orders'[o] # orders[o], ~(CreatePayment(p) \/ RemovePayment(p))
  PROVE  /\ req[p].order = o /\ req[p].op \in OrderOps
         /\ \/ /\ UpdateSalesOrder(p) /\ req[p].op = "update"
               /\ \/ \E items \in ItemLists, seen \in req[p].edits..orders[o].edits :
                       orders'[o] = Replaced(orders[o], seen, items)
                  \/ orders'[o] = [orders[o] EXCEPT !.total = Total(req[p].items)]
            \/ /\ CommitConfirm(p) /\ req[p].op = "confirm"
               /\ orders'[o] = [orders[o] EXCEPT !.status = "confirmed"]
            \/ /\ CommitDeliver(p) /\ req[p].op = "deliver"
               /\ orders'[o] = [orders[o] EXCEPT !.status = "delivered"]
            \/ /\ FinishCancel(p) /\ req[p].op = "cancel"
               /\ orders'[o] = [orders[o] EXCEPT !.status = "cancelled"]
            \/ /\ RemoveSalesOrder(p) /\ req[p].op = "remove"
               /\ orders'[o] = [NoneYet EXCEPT !.status = "removed"]
<1>1. orders \in [Orders -> Order] /\ req \in [Procs -> Request]
  BY DEF SalesTypeOK
<1>3. orders' # orders
  OBVIOUS
<1>4. ~Start(p)
  BY <1>3, StartTypes
<1>5. ~(BeginRelease(p) \/ CommitRelease(p) \/ CommitInventory(p) \/ StockStatement(p) \/ Fail(p))
  BY <1>3 DEF BeginRelease, CommitRelease, CommitInventory, StockStatement, Fail, salesVars
<1>6. \/ UpdateSalesOrder(p) \/ CommitConfirm(p) \/ CommitDeliver(p) \/ FinishCancel(p)
      \/ RemoveSalesOrder(p)
  BY <1>4, <1>5 DEF Continue
<1>2. req[p].order = o /\ req[p].op \in OrderOps
  <2>1. req[p].op \in OrderOps
    BY <1>6 DEF UpdateSalesOrder, CommitConfirm, CommitDeliver, CommitStatus, FinishCancel,
                RemoveSalesOrder, Handling, OrderOps
  <2>2. req[p].order \in Orders
    BY <2>1 DEF SaneRequest
  <2>3. req[p].order # o => orders'[o] = orders[o]
    BY <1>1, <1>6, <2>2 DEF UpdateSalesOrder, CommitConfirm, CommitDeliver, CommitStatus,
                            FinishCancel, RemoveSalesOrder
  <2> QED
    BY <2>1, <2>3
<1>7. CASE UpdateSalesOrder(p)
  <2>1. \/ \E items \in ItemLists, seen \in req[p].edits..orders[o].edits :
             orders' = [orders EXCEPT ![o] = Replaced(orders[o], seen, items)]
        \/ orders' = [orders EXCEPT ![o] = [orders[o] EXCEPT !.total = Total(req[p].items)]]
    BY <1>1, <1>2, <1>7 DEF UpdateSalesOrder
  <2> QED
    BY <1>1, <1>2, <1>7, <2>1 DEF UpdateSalesOrder, Handling
<1>8. CASE CommitConfirm(p) \/ CommitDeliver(p) \/ FinishCancel(p) \/ RemoveSalesOrder(p)
  BY <1>1, <1>2, <1>8 DEF CommitConfirm, CommitDeliver, CommitStatus, FinishCancel,
                          RemoveSalesOrder, Handling
<1> QED
  BY <1>2, <1>6, <1>7, <1>8

\* The total of no lines.
LEMMA TotalOfNothing == Total(<< >>) = 0
<1>1. DOMAIN [i \in DOMAIN << >> |-> << >>[i].n] = {}
  OBVIOUS
<1> QED
  BY <1>1, SumOfNothing DEF Total, SumFunction

\* The fields of a new and of a removed order.
LEMMA NewOrder ==
  ASSUME NEW items \in Seq(Line), \A i \in DOMAIN items : items[i].edit = 0
  PROVE  LET new == [NoneYet EXCEPT !.status = "draft", !.items = items, !.total = Total(items)]
             gone == [NoneYet EXCEPT !.status = "removed"]
         IN  /\ new.status = "draft" /\ new.items = items /\ new.edits = 0
             /\ new.total = Total(items) /\ new.payments = {} /\ new.paid = 0
             /\ gone.status = "removed" /\ gone.items = << >> /\ gone.edits = 0
             /\ gone.total = 0 /\ gone.payments = {} /\ gone.paid = 0
<1> DEFINE none == NoneYet
           new == [none EXCEPT !.status = "draft", !.items = items, !.total = Total(items)]
           gone == [none EXCEPT !.status = "removed"]
<1>1. none = [status |-> "absent", items |-> << >>, edits |-> 0, total |-> 0, paid |-> 0,
              payments |-> {}]
  BY DEF NoneYet
<1>2. /\ new = [none EXCEPT !.status = "draft", !.items = items, !.total = Total(items)]
      /\ gone = [none EXCEPT !.status = "removed"]
  OBVIOUS
<1> HIDE DEF none, new, gone
<1>3. /\ new.status = "draft" /\ new.items = items /\ new.edits = 0
      /\ new.total = Total(items) /\ new.payments = {} /\ new.paid = 0
  BY <1>1, <1>2
<1>4. /\ gone.status = "removed" /\ gone.items = << >> /\ gone.edits = 0
      /\ gone.total = 0 /\ gone.payments = {} /\ gone.paid = 0
  BY <1>1, <1>2
<1> QED
  BY <1>3, <1>4 DEF none, new, gone

\* What a new order, and any that nobody has written, adds up to.
LEMMA CreateWrites ==
  ASSUME SalesTypeOK, NEW o \in Orders, NEW items \in ItemLists, CreateSalesOrder(o, items)
  PROVE  /\ orders[o].status = "absent"
         /\ \A oo \in Orders \ {o} : orders'[oo] = orders[oo]
         /\ orders'[o] = [NoneYet EXCEPT !.status = "draft", !.items = items, !.total = Total(items)]
         /\ orders' \in [Orders -> Order]
         /\ items \in Seq(Line) /\ \A i \in DOMAIN items : items[i].edit = 0
<1>1. items \in Seq(Line) /\ \A i \in DOMAIN items : items[i].edit = 0
  BY ItemListsAssumption
<1> QED
  BY <1>1, NewOrderType DEF CreateSalesOrder, SalesTypeOK

\* The conjuncts of OrdersInv, for one order.
OrderAddsUp(o) ==
  /\ \A i \in DOMAIN orders[o].items : orders[o].items[i].edit <= orders[o].edits
  /\ orders[o].paid = Cardinality(orders[o].payments)
  /\ o \notin overlapped => orders[o].total = Total(orders[o].items)

\* OrdersInv, order by order.
LEMMA EachOrder == OrdersInv <=> \A o \in Orders : OrderAddsUp(o)
BY DEF OrdersInv, EditsPast, PaidMatchesPayments, TotalMatchesItems, OrderAddsUp

\* A new order adds up, and the others still do.
LEMMA CreateAddsUp ==
  ASSUME SalesTypeOK, OrdersInv, NEW o \in Orders, NEW items \in ItemLists,
         CreateSalesOrder(o, items)
  PROVE  OrdersInv'
<1>1. overlapped' = overlapped
  BY DEF CreateSalesOrder
<1>2. ASSUME NEW oo \in Orders \ {o} PROVE OrderAddsUp(oo)'
  BY <1>1, CreateWrites, EachOrder DEF OrderAddsUp
<1>3. OrderAddsUp(o)'
  <2> DEFINE new == orders'[o]
  <2>1. /\ items \in Seq(Line) /\ \A i \in DOMAIN items : items[i].edit = 0
        /\ new = [NoneYet EXCEPT !.status = "draft", !.items = items, !.total = Total(items)]
    BY CreateWrites
  <2> HIDE DEF new
  <2>2. new.items = items /\ new.edits = 0 /\ new.total = Total(items) /\ new.payments = {}
        /\ new.paid = 0
    BY <2>1, NewOrder
  <2>3. Cardinality({}) = 0
    BY FS_EmptySet
  <2>4. \A i \in DOMAIN new.items : new.items[i].edit <= new.edits
    BY <2>1, <2>2
  <2> QED
    BY <2>2, <2>3, <2>4 DEF OrderAddsUp, new
<1>4. \A oo \in Orders : OrderAddsUp(oo)'
  BY <1>2, <1>3
<1> QED
  BY <1>4 DEF OrdersInv, EditsPast, PaidMatchesPayments, TotalMatchesItems, OrderAddsUp

\* Payments come and go with their amount.
LEMMA PaymentsAddUp ==
  ASSUME SalesTypeOK, NEW p \in Procs, SaneRequest(p), CreatePayment(p) \/ RemovePayment(p),
         NEW o \in Orders, orders[o].paid = Cardinality(orders[o].payments)
  PROVE  orders'[o].paid = Cardinality(orders'[o].payments)
<1> DEFINE S == orders[o].payments
<1>1. S \subseteq Payments /\ orders \in [Orders -> Order] /\ orders[o] \in Order
  BY DEF SalesTypeOK, Order
<1>2. IsFiniteSet(S) /\ Cardinality(S) \in Nat
  BY <1>1, PaymentsAssumption, FS_Subset, FS_CardinalityType
<1>3. req[p].order # o => orders'[o] = orders[o]
  BY <1>1 DEF CreatePayment, RemovePayment
<1>4. CASE req[p].order = o /\ CreatePayment(p)
  <2>1. PICK m \in Payments :
          /\ m \notin S
          /\ orders' = [orders EXCEPT ![o].payments = S \cup {m}, ![o].paid = orders[o].paid + 1]
    BY <1>1, <1>4 DEF CreatePayment
  <2>2. orders'[o].payments = S \cup {m} /\ orders'[o].paid = orders[o].paid + 1
    BY <1>1, <2>1 DEF Order
  <2>3. Cardinality(S \cup {m}) = Cardinality(S) + 1
    BY <1>2, <2>1, FS_AddElement
  <2> QED
    BY <2>2, <2>3
<1>5. CASE req[p].order = o /\ RemovePayment(p)
  <2> DEFINE m == req[p].payment
  <2>1. /\ m \in S
        /\ orders' = [orders EXCEPT ![o].payments = S \ {m}, ![o].paid = orders[o].paid - 1]
    BY <1>1, <1>5 DEF RemovePayment
  <2>2. orders'[o].payments = S \ {m} /\ orders'[o].paid = orders[o].paid - 1
    BY <1>1, <2>1 DEF Order
  <2>3. Cardinality(S \ {m}) = Cardinality(S) - 1
    BY <1>2, <2>1, FS_RemoveElement
  <2> QED
    BY <2>2, <2>3
<1> QED
  BY <1>3, <1>4, <1>5

\* An order that p writes adds up, old or new.
LEMMA WrittenAddsUp ==
  ASSUME SalesTypeOK, UpToDate, NEW p \in Procs, SaneRequest(p), Start(p) \/ Continue(p),
         NEW o \in Orders, orders'[o] # orders[o], ~(CreatePayment(p) \/ RemovePayment(p)),
         OrderAddsUp(o), overlapped \subseteq overlapped'
  PROVE  OrderAddsUp(o)'
<1> DEFINE old == orders[o]
           new == orders'[o]
<1>1. old \in Order /\ req[p] \in Request
  BY DEF SalesTypeOK
<1>2. req[p].order = o /\ req[p].op \in OrderOps
  BY OrderWritten
<1>3. o \notin overlapped' => StillSo(p) /\ old.total = Total(old.items)
  BY <1>2 DEF UpToDate, OrderAddsUp
<1>4. CASE \E items \in ItemLists, seen \in req[p].edits..old.edits : new = Replaced(old, seen, items)
  <2>1. PICK items \in ItemLists, seen \in req[p].edits..old.edits : new = Replaced(old, seen, items)
    BY <1>4
  <2>2. items \in Seq(Line)
    BY ItemListsAssumption
  <2>3. \A i \in DOMAIN old.items : old.items[i].edit <= old.edits
    BY DEF OrderAddsUp
  <2> HIDE DEF old, new
  <2>4. /\ \A i \in DOMAIN new.items : new.items[i].edit <= new.edits
        /\ seen = old.edits => Total(new.items) = new.total
    BY <1>1, <2>1, <2>2, <2>3, ReplacedLines
  <2>5. new.paid = old.paid /\ new.payments = old.payments
    BY <1>1, <2>1, <2>2, ReplacedType
  <2>6. o \notin overlapped' => seen = old.edits
    <3>1. o \notin overlapped' => req[p].edits = old.edits
      BY <1>2, <1>3 DEF StillSo, old
    <3>2. old.edits \in Nat /\ req[p].edits \in Nat
      BY <1>1 DEF Order, Request
    <3> QED
      BY <3>1, <3>2
  <2> QED
    BY <2>4, <2>5, <2>6 DEF OrderAddsUp, old, new
<1>5. CASE new = [old EXCEPT !.total = Total(req[p].items)]
  <2> HIDE DEF old, new
  <2>1. /\ new.items = old.items /\ new.edits = old.edits /\ new.paid = old.paid
        /\ new.payments = old.payments /\ new.total = Total(req[p].items)
    BY <1>1, <1>5 DEF Order
  <2>2. o \notin overlapped' => req[p].items = old.items
    BY <1>2, <1>3 DEF StillSo, old
  <2> QED
    BY <2>1, <2>2 DEF OrderAddsUp, old, new
<1>6. CASE \E status : new = [old EXCEPT !.status = status]
  <2> HIDE DEF old, new
  <2>1. /\ new.items = old.items /\ new.edits = old.edits /\ new.paid = old.paid
        /\ new.payments = old.payments /\ new.total = old.total
    BY <1>1, <1>6 DEF Order
  <2> QED
    BY <1>3, <2>1 DEF OrderAddsUp, old, new
<1>7. CASE new = [NoneYet EXCEPT !.status = "removed"]
  <2>1. << >> \in Seq(Line) /\ \A i \in DOMAIN << >> : << >>[i].edit = 0
    OBVIOUS
  <2> HIDE DEF old, new
  <2>2. new.items = << >> /\ new.total = 0 /\ new.payments = {} /\ new.paid = 0
    BY <1>7, <2>1, NewOrder
  <2>3. Cardinality({}) = 0
    BY FS_EmptySet
  <2> QED
    BY <2>2, <2>3, TotalOfNothing DEF OrderAddsUp, new
<1> QED
  BY <1>4, <1>5, <1>6, <1>7, OrderWritten

\* So whatever a request does, the orders add up.
LEMMA OrdersStep ==
  ASSUME SalesTypeOK, Inv, Locks, RequestsAreSane, NotOverlapped, UpToDate, OrdersInv,
         NEW p \in Procs, Start(p) \/ Continue(p)
  PROVE  OrdersInv'
<1>1. overlapped \subseteq overlapped' /\ SaneRequest(p)
  BY NotOverlappedStep DEF RequestsAreSane
<1>2. ASSUME NEW o \in Orders PROVE OrderAddsUp(o)'
  <2>1. OrderAddsUp(o)
    BY EachOrder
  <2>2. CASE orders'[o] = orders[o]
    BY <1>1, <2>1, <2>2 DEF OrderAddsUp
  <2>3. CASE CreatePayment(p) \/ RemovePayment(p)
    <3>1. orders'[o].paid = Cardinality(orders'[o].payments)
      BY <1>1, <2>1, <2>3, PaymentsAddUp DEF OrderAddsUp
    <3>2. Unwritten(o)
      <4>1. req[p].op \notin OrderOps
        BY <2>3 DEF CreatePayment, RemovePayment, Handling, OrderOps
      <4> QED
        BY <1>1, <4>1, WhoWrites
    <3> QED
      BY <1>1, <2>1, <3>1, <3>2 DEF OrderAddsUp, Unwritten
  <2> QED
    BY <1>1, <2>1, <2>2, <2>3, WrittenAddsUp
<1> QED
  BY <1>2 DEF OrdersInv, EditsPast, PaidMatchesPayments, TotalMatchesItems, OrderAddsUp

-----------------------------------------------------------------------------
(* What the requests do to the stock *)

\* Only commits of a request do anything to the committed rows.
LEMMA QuietStock ==
  ASSUME SalesTypeOK, Inv, Locks, NEW p \in Procs, SaneRequest(p), Start(p) \/ Continue(p),
         ~(CommitConfirm(p) \/ CommitDeliver(p) \/ CommitRelease(p) \/ CommitInventory(p))
  PROVE  stock' = stock /\ outside' = outside
<1>1. CASE Start(p)
  <2>1. outside' = outside
    BY <1>1, StartTypes
  <2>2. stock' = stock
    BY <1>1 DEF Start, ReadForUpdate, ConfirmSalesOrder, DeliverSalesOrder, CancelSalesOrder,
                ReadForRemove, ReadForPayment, ReadPayment, CallInventory, Begin, stockVars
  <2> QED
    BY <2>1, <2>2
<1>2. CASE StockStatement(p)
  <2>1. Statement(p) /\ outside' = outside
    BY <1>2 DEF StockStatement
  <2>2. PICK calls : calls = CallsOf(p)
    OBVIOUS
  <2>3. calls \in Seq(Call) /\ Executed(p, calls)
    BY <2>1, <2>2, StatementIsOpen, CallsAreCalls DEF SaneRequest
  <2> QED
    BY <2>1, <2>3, StatementExecutes
<1>3. CASE Fail(p)
  BY <1>3 DEF Fail, Rollback, stockVars
<1>4. CASE \/ UpdateSalesOrder(p) \/ BeginRelease(p) \/ FinishCancel(p) \/ RemoveSalesOrder(p)
           \/ CreatePayment(p) \/ RemovePayment(p)
  BY <1>4 DEF UpdateSalesOrder, BeginRelease, FinishCancel, RemoveSalesOrder, CreatePayment,
              RemovePayment, Begin, stockVars
<1> QED
  BY <1>1, <1>2, <1>3, <1>4 DEF Continue

\* The types of the numbers below.
LEMMA RowTypes ==
  ASSUME SalesTypeOK, Inv, NEW k \in Rows
  PROVE  /\ stock[k].moved \in Int /\ stock[k].held \in Int
         /\ outside[k].moved \in Int /\ outside[k].held \in Int
         /\ HeldForOrders(k) \in Int
<1>1. stock[k] \in Row
  BY DEF Inv, StockTypeOK
<1>2. stock[k].moved \in Int /\ stock[k].held \in Int
  BY <1>1 DEF Row
<1>3. outside[k].moved \in Int /\ outside[k].held \in Int
  BY DEF SalesTypeOK
<1> QED
  BY <1>2, <1>3 DEF HeldForOrders

\* A commit publishes the calls of p's transaction.
LEMMA CommitDoes ==
  ASSUME SalesTypeOK, Inv, Locks, NEW p \in Procs, SaneRequest(p), Commit(p), NEW k \in Rows
  PROVE  /\ stock'[k].moved = stock[k].moved + MovedBy(CallsOf(p), Len(CallsOf(p)), k)
         /\ stock'[k].held = stock[k].held + HeldBy(CallsOf(p), Len(CallsOf(p)), k)
<1>1. pc[p] # "idle"
  BY DEF Commit
<1>2. PICK calls : calls = CallsOf(p)
  OBVIOUS
<1>3. calls \in Seq(Call) /\ Executed(p, calls)
  BY <1>1, <1>2, CallsAreCalls DEF SaneRequest
<1> QED
  BY <1>2, <1>3, CommitPublishes

\* What the commit of a confirmation does to row k: its units are reserved.
LEMMA CommitConfirmDoes ==
  ASSUME SalesTypeOK, Inv, Locks, NEW p \in Procs, SaneRequest(p), CommitConfirm(p), NEW k \in Rows
  PROVE  /\ stock'[k].moved = stock[k].moved
         /\ HeldForOrders(k)' = HeldForOrders(k) + Units(req[p].items, k)
         /\ outside' = outside
<1>1. Commit(p) /\ req[p].op = "confirm" /\ outside' = outside
  BY DEF CommitConfirm, CommitStatus, Handling
<1>2. req[p].items \in Seq(Line) /\ CallsOf(p) = ReserveCalls(req[p].items)
  BY <1>1 DEF CallsOf, SalesTypeOK, Request
<1>3. Units(req[p].items, k) \in Nat
  BY <1>2, UnitsLineByLine
<1>4. stock'[k].moved = stock[k].moved + 0
      /\ stock'[k].held = stock[k].held + Units(req[p].items, k)
  BY <1>1, <1>2, CommitDoes, ReserveCallsEffect
<1> QED
  BY <1>1, <1>3, <1>4, RowTypes DEF HeldForOrders

\* That of a delivery: they leave, and their reservation ends.
LEMMA CommitDeliverDoes ==
  ASSUME SalesTypeOK, Inv, Locks, NEW p \in Procs, SaneRequest(p), CommitDeliver(p), NEW k \in Rows
  PROVE  /\ stock'[k].moved = stock[k].moved - Units(req[p].items, k)
         /\ HeldForOrders(k)' = HeldForOrders(k) - Units(req[p].items, k)
         /\ outside' = outside
<1>1. Commit(p) /\ req[p].op = "deliver" /\ outside' = outside
  BY DEF CommitDeliver, CommitStatus, Handling
<1>2. req[p].items \in Seq(Line) /\ CallsOf(p) = DeliverCalls(req[p].items)
  BY <1>1 DEF CallsOf, SalesTypeOK, Request
<1>3. Units(req[p].items, k) \in Nat
  BY <1>2, UnitsLineByLine
<1>4. /\ stock'[k].moved = stock[k].moved + (-Units(req[p].items, k))
      /\ stock'[k].held = stock[k].held + (-Units(req[p].items, k))
  BY <1>1, <1>2, CommitDoes, DeliverCallsEffect
<1> QED
  BY <1>1, <1>3, <1>4, RowTypes DEF HeldForOrders

\* The units of row k in a line.
LineUnits(line, k) == IF line.row = k THEN line.n ELSE 0

\* That of one line of a cancellation: its reservation ends.
LEMMA CommitReleaseDoes ==
  ASSUME SalesTypeOK, Inv, Locks, NEW p \in Procs, SaneRequest(p), CommitRelease(p), NEW k \in Rows
  PROVE  /\ At(p) \in DOMAIN req[p].items
         /\ LineUnits(req[p].items[At(p)], k) \in Nat
         /\ stock'[k].moved = stock[k].moved
         /\ HeldForOrders(k)' = HeldForOrders(k) - LineUnits(req[p].items[At(p)], k)
         /\ outside' = outside
<1> DEFINE line == req[p].items[At(p)]
           c == Release(line.row, line.n)
<1>1. Commit(p) /\ req[p].op = "cancel" /\ outside' = outside /\ pc[p] # "idle"
  BY DEF CommitRelease, Handling, salesVars, Commit
<1>2. At(p) \in DOMAIN req[p].items /\ req[p].items \in Seq(Line)
  BY <1>1, CallsAreCalls DEF SalesTypeOK, Request
<1>3. line \in Line /\ line.row \in Rows /\ line.n \in Nat
  BY <1>2, LineTypes
<1>4. CallsOf(p) = <<c>> /\ Len(<<c>>) = 1
  BY <1>1 DEF CallsOf
<1>5. c \in Call /\ c.op = "release" /\ c.row = line.row /\ c.n = line.n
  BY <1>3, CallTypes DEF Release
<1> HIDE DEF line, c
<1>6. /\ stock'[k].moved = stock[k].moved + Moves(c, k)
      /\ stock'[k].held = stock[k].held + Holds(c, k)
  <2>1. MovedBy(<<c>>, 1, k) = Moves(c, k) /\ HeldBy(<<c>>, 1, k) = Holds(c, k)
    BY <1>5, SingleCallEffect
  <2> QED
    BY <1>1, <1>4, <2>1, CommitDoes
<1>7. LineUnits(line, k) \in Nat /\ Moves(c, k) = 0 /\ Holds(c, k) = -LineUnits(line, k)
  BY <1>3, <1>5 DEF Moves, Holds, LineUnits
<1>8. /\ stock'[k].moved = stock[k].moved
      /\ stock'[k].held - outside[k].held = stock[k].held - outside[k].held - LineUnits(line, k)
  BY <1>6, <1>7, RowTypes
<1> QED
  BY <1>1, <1>2, <1>7, <1>8 DEF HeldForOrders, line

\* That of a call to a stock endpoint, which no order accounts for.
LEMMA CommitInventoryDoes ==
  ASSUME SalesTypeOK, Inv, Locks, NEW p \in Procs, SaneRequest(p), CommitInventory(p), NEW k \in Rows
  PROVE  /\ stock'[k].moved - outside'[k].moved = stock[k].moved - outside[k].moved
         /\ HeldForOrders(k)' = HeldForOrders(k)
         /\ outside'[k].moved \in Int
<1> DEFINE c == req[p].call
<1>1. Commit(p) /\ req[p].op \in StockOps
  BY DEF CommitInventory
<1>2. c \in Call /\ c.op = req[p].op
  BY <1>1 DEF SaneRequest
<1>3. CallsOf(p) = <<c>> /\ Len(<<c>>) = 1
  BY <1>1 DEF CallsOf, StockOps
<1>4. outside' = CASE c.op = "apply"   -> [outside EXCEPT ![c.row].moved = @ + c.n]
                   [] c.op = "reserve" -> [outside EXCEPT ![c.row].held = @ + c.n]
                   [] c.op = "release" -> [outside EXCEPT ![c.row].held = @ - c.n]
  BY DEF CommitInventory
<1> HIDE DEF c
<1>5. c.row \in Rows /\ c.n \in Int /\ c.op \in StockOps
  BY <1>2 DEF Call, StockOps
<1>6. outside \in [Rows -> [moved : Int, held : Int]]
  BY DEF SalesTypeOK
<1>7. /\ outside'[k].moved = outside[k].moved + Moves(c, k)
      /\ outside'[k].held = outside[k].held + Holds(c, k)
  BY <1>4, <1>5, <1>6 DEF Moves, Holds, StockOps
<1>8. /\ stock'[k].moved = stock[k].moved + Moves(c, k)
      /\ stock'[k].held = stock[k].held + Holds(c, k)
  <2>1. MovedBy(<<c>>, 1, k) = Moves(c, k) /\ HeldBy(<<c>>, 1, k) = Holds(c, k)
    BY <1>2, SingleCallEffect
  <2> QED
    BY <1>1, <1>3, <2>1, CommitDoes
<1>9. Moves(c, k) \in Int /\ Holds(c, k) \in Int
  BY <1>5 DEF Moves, Holds
<1> QED
  BY <1>7, <1>8, <1>9, RowTypes DEF HeldForOrders

-----------------------------------------------------------------------------
(* What is reserved for the orders *)

\* What the orders owe of a row is an integer.
LEMMA OwedType ==
  ASSUME NEW w \in [Orders -> [Rows -> Int]], NEW k \in Rows
  PROVE  Owed(w, k) \in Int
<1> DEFINE f == [o \in Orders |-> w[o][k]]
<1>1. \A o \in Orders : f[o] \in Int
  OBVIOUS
<1> HIDE DEF f
<1>2. SumFunctionOnSet(f, Orders) \in Int
  BY <1>1, OrdersAssumption, SumIsInt
<1> QED
  BY <1>2 DEF Owed, f

\* What is owed when it changes for one order.
LEMMA OwedChanges ==
  ASSUME NEW w \in [Orders -> [Rows -> Int]], NEW new \in [Orders -> [Rows -> Int]],
         NEW o \in Orders, \A oo \in Orders \ {o} : new[oo] = w[oo], NEW k \in Rows
  PROVE  Owed(new, k) = Owed(w, k) - w[o][k] + new[o][k]
<1> DEFINE f == [oo \in Orders |-> w[oo][k]]
           g == [oo \in Orders |-> new[oo][k]]
<1>1. \A oo \in Orders : f[oo] \in Int /\ g[oo] \in Int
  OBVIOUS
<1>2. \A oo \in Orders \ {o} : f[oo] = g[oo]
  OBVIOUS
<1>3. f[o] = w[o][k] /\ g[o] = new[o][k]
  OBVIOUS
<1> HIDE DEF f, g
<1>4. SumFunctionOnSet(g, Orders) = SumFunctionOnSet(f, Orders) - f[o] + g[o]
  BY <1>1, <1>2, OrdersAssumption, SumChangesOnce
<1> QED
  BY <1>3, <1>4 DEF Owed, f, g

\* An order that p does not work on, or that stays unconfirmed.
LEMMA StillOwes ==
  ASSUME NEW p \in Procs, NEW o \in Orders, NEW w, OwesFor(w, o), NEW new, new[o] = w[o],
         \A q \in Procs \ {p} : req'[q] = req[q] /\ pc'[q] = pc[q],
         ~Cancelling(p, o), ~Cancelling(p, o)',
         \/ orders'[o].status = orders[o].status /\ orders'[o].items = orders[o].items
         \/ orders'[o].status # "confirmed" /\ orders[o].status # "confirmed"
  PROVE  OwesFor(new, o)'
<1>1. \A q \in Procs : (Cancelling(q, o)' <=> Cancelling(q, o))
  BY DEF Cancelling, Handling
<1>2. \A q \in Procs : Cancelling(q, o) => Given(q)' = Given(q)
  BY DEF Given, At
<1>3. CASE orders'[o].status = orders[o].status /\ orders'[o].items = orders[o].items
  BY <1>1, <1>2, <1>3 DEF OwesFor
<1>4. CASE orders'[o].status # "confirmed" /\ orders[o].status # "confirmed"
  BY <1>4 DEF OwesFor
<1> QED
  BY <1>3, <1>4

\* Only p works on its order.
LEMMA NobodyElse ==
  ASSUME NotOverlapped, overlapped = {}, NEW p \in Procs, NEW o \in Orders,
         req[p].op \in OrderOps, req[p].order = o, NEW q \in Procs \ {p}
  PROVE  ~Cancelling(q, o)
BY DEF NotOverlapped, Cancelling, Handling, OrderOps

\* Steps that leave what is owed as it is.
LEMMA SameBacks ==
  ASSUME NEW w, Backs(w), Owes(w)', interrupted \subseteq interrupted',
         \A k \in Rows : HeldForOrders(k)' = HeldForOrders(k)
  PROVE  Backs(w)'
<1>1. \A k \in Rows : Owed(w, k)' = Owed(w, k)
  BY DEF Owed
<1> QED
  BY <1>1 DEF Backs

\* Steps of a request that is not cancelling and does not commit a status.
LEMMA OtherSteps ==
  ASSUME SalesTypeOK, Inv, Locks, RequestsAreSane, UpToDate, overlapped = {},
         NEW p \in Procs, Start(p) \/ Continue(p),
         req[p].op # "cancel", req'[p].op # "cancel", ~CommitConfirm(p), ~CommitDeliver(p),
         NEW w \in [Orders -> [Rows -> Int]], Backs(w)
  PROVE  Backs(w)'
<1>1. SaneRequest(p) /\ \A q \in Procs \ {p} : req'[q] = req[q] /\ pc'[q] = pc[q]
  BY StepIsSane DEF RequestsAreSane
<1>2. \A o : ~Cancelling(p, o) /\ ~Cancelling(p, o)'
  BY DEF Cancelling, Handling
<1>3. ASSUME NEW o \in Orders
      PROVE  \/ orders'[o].status = orders[o].status /\ orders'[o].items = orders[o].items
             \/ orders'[o].status # "confirmed" /\ orders[o].status # "confirmed"
  <2>1. CASE Unwritten(o)
    BY <2>1 DEF Unwritten
  <2>2. CASE ~Unwritten(o)
    <3>1. /\ orders'[o] # orders[o] /\ ~(CreatePayment(p) \/ RemovePayment(p))
          /\ req[p].order = o /\ req[p].op \in OrderOps
      BY <1>1, <2>2, WhoWrites DEF Unwritten, CreatePayment, RemovePayment, Handling, OrderOps
    <3>2. StillSo(p)
      BY <3>1 DEF UpToDate
    <3>3. orders[o] \in Order
      BY DEF SalesTypeOK
    <3>4. CASE /\ req[p].op = "update"
               /\ \E items \in ItemLists, seen \in req[p].edits..orders[o].edits :
                    orders'[o] = Replaced(orders[o], seen, items)
      <4>1. orders'[o].status = orders[o].status
        BY <3>3, <3>4, ReplacedType, ItemListsAssumption
      <4> QED
        BY <3>1, <3>2, <3>4, <4>1 DEF StillSo
    <3>5. CASE orders'[o] = [orders[o] EXCEPT !.total = Total(req[p].items)]
      BY <3>3, <3>5 DEF Order
    <3>6. CASE req[p].op = "remove" /\ orders'[o] = [NoneYet EXCEPT !.status = "removed"]
      <4>1. << >> \in Seq(Line) /\ \A i \in DOMAIN << >> : << >>[i].edit = 0
        OBVIOUS
      <4>2. orders'[o].status = "removed"
        BY <3>6, <4>1, NewOrder
      <4> QED
        BY <3>1, <3>2, <3>6, <4>2 DEF StillSo
    <3>7. ~FinishCancel(p)
      BY DEF FinishCancel, Handling
    <3>8. \/ /\ req[p].op = "update"
             /\ \/ \E items \in ItemLists, seen \in req[p].edits..orders[o].edits :
                     orders'[o] = Replaced(orders[o], seen, items)
                \/ orders'[o] = [orders[o] EXCEPT !.total = Total(req[p].items)]
          \/ /\ req[p].op = "remove"
             /\ orders'[o] = [NoneYet EXCEPT !.status = "removed"]
      BY <1>1, <3>1, <3>7, OrderWritten
    <3> QED
      BY <3>4, <3>5, <3>6, <3>8
  <2> QED
    BY <2>1, <2>2
<1>4. Owes(w)'
  <2>1. \A o \in Orders : OwesFor(w, o)'
    BY <1>1, <1>2, <1>3, StillOwes DEF Backs, Owes
  <2> QED
    BY <2>1 DEF Owes
<1>5. \A k \in Rows : HeldForOrders(k)' = HeldForOrders(k)
  <2>1. ~CommitRelease(p)
    BY DEF CommitRelease, Handling
  <2>2. CASE CommitInventory(p)
    BY <1>1, <2>2, CommitInventoryDoes
  <2>3. CASE ~CommitInventory(p)
    BY <1>1, <2>1, <2>3, QuietStock DEF HeldForOrders
  <2> QED
    BY <2>2, <2>3
<1>6. interrupted \subseteq interrupted'
  BY DEF Start, ReadForUpdate, ConfirmSalesOrder, DeliverSalesOrder, CancelSalesOrder,
         ReadForRemove, ReadForPayment, ReadPayment, CallInventory, Continue, UpdateSalesOrder,
         CommitConfirm, CommitDeliver, CommitStatus, BeginRelease, CommitRelease, FinishCancel,
         RemoveSalesOrder, CreatePayment, RemovePayment, CommitInventory, StockStatement, Fail,
         Stops, salesVars
<1> QED
  BY <1>4, <1>5, <1>6, SameBacks

\* Committing a confirmation: the order owes all its units from then on.
LEMMA ConfirmBacks ==
  ASSUME SalesTypeOK, Inv, Locks, RequestsAreSane, NotOverlapped, UpToDate, overlapped = {},
         NEW p \in Procs, CommitConfirm(p) \/ CommitDeliver(p),
         NEW w \in [Orders -> [Rows -> Int]], Backs(w)
  PROVE  \E new \in [Orders -> [Rows -> Int]] : Backs(new)'
<1>a. PICK o : o = req[p].order
  OBVIOUS
<1>b. PICK items : items = orders[o].items
  OBVIOUS
<1>c. PICK v : v = [k \in Rows |-> IF CommitConfirm(p) THEN Units(items, k) ELSE 0]
  OBVIOUS
<1>d. PICK new : new = [w EXCEPT ![o] = v]
  OBVIOUS
<1>1. /\ SaneRequest(p) /\ Continue(p)
      /\ \A q \in Procs \ {p} : req'[q] = req[q] /\ pc'[q] = pc[q]
  BY StepIsSane DEF RequestsAreSane, Continue
<1>2. /\ req[p].op \in {"confirm", "deliver"} /\ Done(p) /\ Commit(p)
      /\ outside' = outside /\ interrupted' = interrupted
      /\ CommitConfirm(p) => req[p].op = "confirm" /\ orders' = [orders EXCEPT ![o].status = "confirmed"]
      /\ CommitDeliver(p) => req[p].op = "deliver" /\ orders' = [orders EXCEPT ![o].status = "delivered"]
  BY <1>a DEF CommitConfirm, CommitDeliver, CommitStatus, Handling
<1>3. o \in Orders /\ StillSo(p)
  BY <1>a, <1>1, <1>2 DEF SaneRequest, UpToDate, OrderOps
<1>4. items \in Seq(Line) /\ req[p].items = items
  BY <1>a, <1>b, <1>3 DEF SalesTypeOK, Order, StillSo
<1>5. \A k \in Rows : Units(items, k) \in Nat
  BY <1>4, UnitsLineByLine
<1>6. \A oo : ~Cancelling(p, oo) /\ ~Cancelling(p, oo)'
  BY <1>2 DEF Cancelling, Handling, Done, NoRequest, SalesTypeOK
<1>7. \A q \in Procs : ~Cancelling(q, o)
  BY <1>a, <1>2, <1>3, <1>6, NobodyElse DEF OrderOps
<1>8. \A q \in Procs : ~Cancelling(q, o)'
  BY <1>1, <1>6, <1>7 DEF Cancelling, Handling
<1>9. /\ orders'[o].items = items /\ \A oo \in Orders \ {o} : orders'[oo] = orders[oo]
      /\ orders'[o].status = IF CommitConfirm(p) THEN "confirmed" ELSE "delivered"
  <2>1. orders \in [Orders -> Order] /\ orders[o] \in Order
    BY <1>3 DEF SalesTypeOK
  <2>2. CASE CommitConfirm(p)
    BY <1>b, <1>2, <1>3, <2>1, <2>2 DEF Order
  <2>3. CASE ~CommitConfirm(p)
    BY <1>b, <1>2, <1>3, <2>1, <2>3 DEF Order
  <2> QED
    BY <2>2, <2>3
<1>10. \A k \in Rows : w[o][k] = IF CommitConfirm(p) THEN 0 ELSE Units(items, k)
  <2>1. orders[o].status = IF CommitConfirm(p) THEN "draft" ELSE "confirmed"
    BY <1>a, <1>2, <1>3 DEF StillSo
  <2> QED
    BY <1>b, <1>3, <1>7, <2>1 DEF Backs, Owes, OwesFor
<1>11. v \in [Rows -> Int]
  BY <1>c, <1>5
<1>12. new \in [Orders -> [Rows -> Int]] /\ new[o] = v /\ \A oo \in Orders \ {o} : new[oo] = w[oo]
  BY <1>d, <1>3, <1>11
<1>13. \A k \in Rows : Owed(new, k) = Owed(w, k) - w[o][k] + v[k]
  BY <1>3, <1>12, OwedChanges
<1>14. \A k \in Rows : HeldForOrders(k)' = HeldForOrders(k) - w[o][k] + v[k]
  <2> TAKE k \in Rows
  <2>1. HeldForOrders(k) \in Int /\ Units(items, k) \in Int
    BY <1>5, RowTypes
  <2>2. CASE CommitConfirm(p)
    BY <1>c, <1>1, <1>4, <1>10, <2>1, <2>2, CommitConfirmDoes
  <2>3. CASE ~CommitConfirm(p)
    BY <1>c, <1>1, <1>4, <1>10, <2>1, <2>3, CommitDeliverDoes
  <2> QED
    BY <2>2, <2>3
<1>15. OwesFor(new, o)'
  BY <1>c, <1>8, <1>9, <1>12 DEF OwesFor
<1>16. ASSUME NEW oo \in Orders \ {o} PROVE OwesFor(new, oo)'
  <2>1. OwesFor(w, oo)
    BY DEF Backs, Owes
  <2> QED
    BY <1>1, <1>6, <1>9, <1>12, <2>1, StillOwes
<1>17. Owes(new)'
  BY <1>15, <1>16 DEF Owes
<1>18. ASSUME NEW k \in Rows
       PROVE  /\ HeldForOrders(k)' <= Owed(new, k)
              /\ interrupted' = {} => HeldForOrders(k)' = Owed(new, k)
  <2>1. /\ HeldForOrders(k) <= Owed(w, k)
        /\ interrupted = {} => HeldForOrders(k) = Owed(w, k)
    BY DEF Backs
  <2>2. HeldForOrders(k) \in Int /\ Owed(w, k) \in Int /\ w[o][k] \in Int /\ v[k] \in Int
    BY <1>3, <1>11, RowTypes, OwedType
  <2> QED
    BY <1>2, <1>13, <1>14, <2>1, <2>2
<1>19. \A k \in Rows : Owed(new, k)' = Owed(new, k)
  BY DEF Owed
<1>20. Backs(new)'
  BY <1>17, <1>18, <1>19 DEF Backs
<1> QED
  BY <1>12, <1>20

\* What a cancellation has read: for a confirmed order, all its lines are left.
LEMMA CancelReads ==
  ASSUME SalesTypeOK, NEW p \in Procs, NEW o \in Orders, CancelSalesOrder(p, o)
  PROVE  /\ Starts(p, req'[p]) /\ Idle(p) /\ pc'[p] = "idle" /\ orders' = orders
         /\ interrupted' = interrupted /\ stockVars' = stockVars
         /\ req'[p].op = "cancel" /\ req'[p].order = o /\ req'[p].items = orders[o].items
         /\ orders[o].status = "confirmed" => req'[p].left = orders[o].items
<1> DEFINE lines == IF orders[o].status = "confirmed" THEN orders[o].items ELSE << >>
           read == OrderRequest("cancel", o)
<1>1. orders \in [Orders -> Order] /\ req \in [Procs -> Request]
  BY DEF SalesTypeOK
<1>2. /\ Starts(p, [read EXCEPT !.left = lines]) /\ Idle(p) /\ pc'[p] = "idle"
      /\ orders' = orders /\ interrupted' = interrupted /\ stockVars' = stockVars
  BY DEF CancelSalesOrder, Idle, stockVars
<1>3. read = [op |-> "cancel", order |-> o, items |-> orders[o].items,
              edits |-> orders[o].edits, left |-> << >>, call |-> NoOrder,
              payment |-> NoOrder]
  BY <1>1, OrderRequestType DEF OrderOps
<1>4. req'[p] = [read EXCEPT !.left = lines]
  BY <1>1, <1>2 DEF Starts
<1>5. orders[o].status = "confirmed" => lines = orders[o].items
  OBVIOUS
<1> HIDE DEF read, lines
<1>6. req'[p].op = "cancel" /\ req'[p].order = o /\ req'[p].items = orders[o].items
      /\ req'[p].left = lines
  BY <1>3, <1>4
<1> QED
  BY <1>2, <1>4, <1>5, <1>6

\* A cancellation that begins has released nothing, and its order owes the same.
LEMMA CancelBacks ==
  ASSUME SalesTypeOK, Inv, Locks, RequestsAreSane, overlapped' = {},
         NEW p \in Procs, NEW o \in Orders, CancelSalesOrder(p, o),
         NEW w \in [Orders -> [Rows -> Int]], Backs(w)
  PROVE  Backs(w)'
<1>1. /\ Starts(p, req'[p]) /\ Idle(p) /\ pc'[p] = "idle" /\ orders' = orders
      /\ interrupted' = interrupted /\ stockVars' = stockVars
      /\ req'[p].op = "cancel" /\ req'[p].order = o /\ req'[p].items = orders[o].items
      /\ orders[o].status = "confirmed" => req'[p].left = orders[o].items
  BY CancelReads
<1>2. Start(p) /\ outside' = outside
  BY DEF Start, CancelSalesOrder
<1>3. \A q \in Procs \ {p} : req'[q] = req[q] /\ pc'[q] = pc[q]
  BY <1>2, StepIsSane
<1>4. \A oo : ~Cancelling(p, oo)
  BY <1>1 DEF Idle, Cancelling, Handling
<1>5. \A q \in Procs \ {p} : ~Cancelling(q, o)
  BY <1>1 DEF Starts, Cancelling, Handling, OrderOps
<1>6. \A q \in Procs : Cancelling(q, o)' <=> q = p
  BY <1>1, <1>3, <1>5 DEF Cancelling, Handling
<1>7. OwesFor(w, o)'
  <2> DEFINE items == orders[o].items
  <2>1. OwesFor(w, o) /\ items \in Seq(Line)
    BY DEF Backs, Owes, SalesTypeOK, Order
  <2>2. orders[o].status = "confirmed" => Given(p)' = 0
    <3>1. Len(items) \in Nat
      BY <2>1
    <3> QED
      BY <1>1, <3>1 DEF Given, At
  <2>3. \A kk \in Rows : Units(items, kk) \in Nat /\ UnitsOfFirst(items, 0, kk) = 0
    BY <2>1, UnitsLineByLine, FirstLinesAreFewer
  <2>4. \A q \in Procs : ~Cancelling(q, o)
    BY <1>4, <1>5
  <2>5. ASSUME NEW kk \in Rows, orders[o].status = "confirmed"
        PROVE  w[o][kk] = Units(items, kk) - UnitsOfFirst(items, Given(p)', kk)
    BY <2>1, <2>2, <2>3, <2>4, <2>5 DEF OwesFor
  <2> QED
    BY <1>1, <1>6, <2>1, <2>5 DEF OwesFor
<1>8. ASSUME NEW oo \in Orders \ {o} PROVE OwesFor(w, oo)'
  <2>1. OwesFor(w, oo) /\ ~Cancelling(p, oo)'
    BY <1>1 DEF Backs, Owes, Cancelling, Handling
  <2> QED
    BY <1>1, <1>3, <1>4, <2>1, StillOwes
<1>9. Owes(w)'
  BY <1>7, <1>8 DEF Owes
<1>10. \A k \in Rows : HeldForOrders(k)' = HeldForOrders(k)
  BY <1>1, <1>2 DEF HeldForOrders, stockVars
<1> QED
  BY <1>1, <1>9, <1>10, SameBacks

\* A cancellation in its midst: what is left, and what that means for its order.
LEMMA CancelledOrder ==
  ASSUME SalesTypeOK, RequestsAreSane, NotOverlapped, UpToDate, overlapped = {},
         NEW p \in Procs, req[p].op = "cancel",
         NEW w \in [Orders -> [Rows -> Int]], Owes(w)
  PROVE  LET o == req[p].order
             items == orders[req[p].order].items
         IN  /\ o \in Orders /\ req[p].items = items /\ items \in Seq(Line)
             /\ At(p) \in 0..Len(items)
             /\ \A q \in Procs \ {p} : ~Cancelling(q, o)
             /\ pc[p] # "idle" => orders[o].status = "confirmed" /\ At(p) > 0
             /\ orders[o].status \in {"draft", "confirmed"}
             /\ orders[o].status = "confirmed" =>
                  \A k \in Rows : w[o][k] = Units(items, k) - UnitsOfFirst(items, Given(p), k)
<1> DEFINE o == req[p].order
           items == orders[req[p].order].items
<1>1. SaneRequest(p)
  BY DEF RequestsAreSane
<1>2. o \in Orders /\ StillSo(p)
  BY <1>1 DEF SaneRequest, UpToDate, OrderOps
<1>3. items \in Seq(Line) /\ req[p].items = items
  BY <1>2 DEF SalesTypeOK, Order, StillSo
<1>4. At(p) \in 0..Len(items) /\ (pc[p] # "idle" => At(p) > 0)
  BY <1>1, <1>3 DEF SaneRequest
<1>5. \A q \in Procs \ {p} : ~Cancelling(q, o)
  BY <1>2, NobodyElse DEF OrderOps
<1>6. orders[o].status \in {"draft", "confirmed"} /\ (pc[p] # "idle" => orders[o].status = "confirmed")
  BY <1>2 DEF StillSo
<1>7. Cancelling(p, o)
  BY DEF Cancelling, Handling
<1>8. orders[o].status = "confirmed" =>
        \A k \in Rows : w[o][k] = Units(items, k) - UnitsOfFirst(items, Given(p), k)
  BY <1>2, <1>7 DEF Owes, OwesFor
<1> QED
  BY <1>2, <1>3, <1>4, <1>5, <1>6, <1>8

\* Steps of a cancellation between two of its commits.
LEMMA CancelGoesOn ==
  ASSUME SalesTypeOK, Inv, Locks, RequestsAreSane, NotOverlapped, UpToDate, overlapped = {},
         NEW p \in Procs, req[p].op = "cancel",
         BeginRelease(p) \/ (StockStatement(p) /\ pc'[p] # "idle"),
         NEW w \in [Orders -> [Rows -> Int]], Backs(w)
  PROVE  Backs(w)'
<1>1. Continue(p) /\ SaneRequest(p)
  BY DEF Continue, RequestsAreSane
<1>2. \A q \in Procs \ {p} : req'[q] = req[q] /\ pc'[q] = pc[q]
  BY <1>1, StepIsSane
<1>3. /\ req'[p].op = "cancel" /\ req'[p].order = req[p].order
      /\ Given(p)' = Given(p) /\ orders' = orders /\ interrupted' = interrupted
      /\ stock' = stock /\ outside' = outside
  <2>1. orders' = orders /\ interrupted' = interrupted
    BY DEF BeginRelease, StockStatement
  <2>2. stock' = stock /\ outside' = outside
    <3>1. ~(CommitConfirm(p) \/ CommitDeliver(p) \/ CommitInventory(p))
      BY DEF CommitConfirm, CommitDeliver, CommitStatus, CommitInventory, Handling, StockOps
    <3>2. CASE CommitRelease(p)
      BY <3>2, StatementIsOpen, RollbackEnds DEF CommitRelease, StockStatement, BeginRelease, Begin, Commit
    <3> QED
      BY <1>1, <3>1, <3>2, QuietStock
  <2>3. CASE BeginRelease(p)
    <3>1. pc[p] = "idle" /\ pc'[p] # "idle" /\ At(p)' = At(p) + 1
          /\ req'[p].op = "cancel" /\ req'[p].order = req[p].order
      BY <1>1, <2>3, BeginReleaseIsSane DEF BeginRelease, Begin
    <3>2. At(p) \in Int
      BY CancelledOrder DEF Backs
    <3> QED
      BY <2>1, <2>2, <3>1, <3>2 DEF Given
  <2>4. CASE StockStatement(p) /\ pc'[p] # "idle"
    <3>1. pc[p] # "idle" /\ req' = req
      BY <2>4, StatementIsOpen DEF StockStatement
    <3> QED
      BY <2>1, <2>2, <2>4, <3>1 DEF Given, At
  <2> QED
    BY <2>3, <2>4
<1>4. ASSUME NEW oo \in Orders PROVE OwesFor(w, oo)'
  <2>1. OwesFor(w, oo)
    BY DEF Backs, Owes
  <2>2. \A q \in Procs : /\ Cancelling(q, oo)' <=> Cancelling(q, oo)
                         /\ Given(q)' = Given(q)
    BY <1>2, <1>3 DEF Cancelling, Handling, Given, At
  <2> QED
    BY <1>3, <2>1, <2>2 DEF OwesFor
<1>5. Owes(w)'
  BY <1>4 DEF Owes
<1> QED
  BY <1>3, <1>5, SameBacks DEF HeldForOrders

\* The last step of a cancellation: nothing is owed any more.
LEMMA FinishBacks ==
  ASSUME SalesTypeOK, Inv, Locks, RequestsAreSane, NotOverlapped, UpToDate, overlapped = {},
         NEW p \in Procs, FinishCancel(p),
         NEW w \in [Orders -> [Rows -> Int]], Backs(w)
  PROVE  Backs(w)'
<1>a. PICK o : o = req[p].order
  OBVIOUS
<1>b. PICK items : items = orders[o].items
  OBVIOUS
<1>1. /\ req[p].op = "cancel" /\ pc[p] = "idle" /\ req[p].left = << >>
      /\ orders' = [orders EXCEPT ![o].status = "cancelled"] /\ Done(p)
      /\ interrupted' = interrupted /\ stock' = stock /\ outside' = outside
  BY <1>a DEF FinishCancel, Handling, stockVars
<1>2. Continue(p) /\ Owes(w)
  BY DEF Continue, Backs
<1>3. \A q \in Procs \ {p} : req'[q] = req[q] /\ pc'[q] = pc[q]
  BY <1>2, StepIsSane
<1>4. /\ o \in Orders /\ req[p].items = items /\ items \in Seq(Line)
      /\ \A q \in Procs \ {p} : ~Cancelling(q, o)
      /\ orders[o].status \in {"draft", "confirmed"}
      /\ orders[o].status = "confirmed" =>
           \A k \in Rows : w[o][k] = Units(items, k) - UnitsOfFirst(items, Given(p), k)
  BY <1>a, <1>b, <1>1, <1>2, CancelledOrder
<1>5. \A k \in Rows : w[o][k] = 0
  <2>1. Given(p) = Len(items)
    <3>1. Len(items) \in Nat
      BY <1>4
    <3> QED
      BY <1>1, <1>4, <3>1 DEF Given, At
  <2>2. ASSUME NEW k \in Rows
        PROVE  UnitsOfFirst(items, Len(items), k) = Units(items, k) /\ Units(items, k) \in Nat
    <3>1. 0 \in 0..Len(items)
      BY <1>4
    <3> QED
      BY <1>4, <3>1, UnitsLineByLine, FirstLinesAreFewer
  <2>3. CASE orders[o].status = "confirmed"
    <3> TAKE k \in Rows
    <3>1. w[o][k] = Units(items, k) - UnitsOfFirst(items, Given(p), k)
      BY <1>4, <2>3
    <3> QED
      BY <2>1, <2>2, <3>1
  <2>4. CASE orders[o].status # "confirmed"
    BY <1>2, <1>4, <2>4 DEF Owes, OwesFor
  <2> QED
    BY <2>3, <2>4
<1>6. orders'[o].status = "cancelled" /\ \A oo \in Orders \ {o} : orders'[oo] = orders[oo]
  <2>1. orders \in [Orders -> Order] /\ orders[o] \in Order
    BY <1>4 DEF SalesTypeOK
  <2> QED
    BY <1>1, <1>4, <2>1 DEF Order
<1>7. \A oo \in Orders \ {o} : ~Cancelling(p, oo) /\ ~Cancelling(p, oo)'
  BY <1>a, <1>1 DEF Cancelling, Handling, Done, NoRequest, SalesTypeOK
<1>8. OwesFor(w, o)'
  BY <1>5, <1>6 DEF OwesFor
<1>9. ASSUME NEW oo \in Orders \ {o} PROVE OwesFor(w, oo)'
  <2>1. OwesFor(w, oo)
    BY <1>2 DEF Owes
  <2> QED
    BY <1>3, <1>6, <1>7, <2>1, StillOwes
<1>10. Owes(w)'
  BY <1>8, <1>9 DEF Owes
<1> QED
  BY <1>1, <1>10, SameBacks DEF HeldForOrders

\* A line is released: the order owes that much less.
LEMMA ReleaseBacks ==
  ASSUME SalesTypeOK, Inv, Locks, RequestsAreSane, NotOverlapped, UpToDate, overlapped = {},
         NEW p \in Procs, CommitRelease(p),
         NEW w \in [Orders -> [Rows -> Int]], Backs(w)
  PROVE  \E new \in [Orders -> [Rows -> Int]] : Backs(new)'
<1>a. PICK o : o = req[p].order
  OBVIOUS
<1>b. PICK items : items = orders[o].items
  OBVIOUS
<1>c. PICK line : line = items[At(p)]
  OBVIOUS
<1>d. PICK new : new = [w EXCEPT ![o] = [k \in Rows |-> w[o][k] - LineUnits(line, k)]]
  OBVIOUS
<1>1. /\ req[p].op = "cancel" /\ pc[p] # "idle" /\ pc'[p] = "idle" /\ req' = req
      /\ orders' = orders /\ interrupted' = interrupted /\ outside' = outside
  BY RollbackEnds DEF CommitRelease, Handling, salesVars, Commit
<1>2. Continue(p) /\ SaneRequest(p) /\ Owes(w)
  BY DEF Continue, RequestsAreSane, Backs
<1>3. \A q \in Procs \ {p} : req'[q] = req[q] /\ pc'[q] = pc[q]
  BY <1>2, StepIsSane
<1>4. /\ o \in Orders /\ req[p].items = items /\ items \in Seq(Line)
      /\ At(p) \in 0..Len(items) /\ At(p) > 0
      /\ \A q \in Procs \ {p} : ~Cancelling(q, o)
      /\ orders[o].status = "confirmed"
      /\ \A k \in Rows : w[o][k] = Units(items, k) - UnitsOfFirst(items, Given(p), k)
  BY <1>a, <1>b, <1>1, <1>2, CancelledOrder
<1>5. Given(p) = At(p) - 1 /\ Given(p)' = At(p) /\ Given(p) \in 0..(Len(items) - 1)
      /\ Given(p) + 1 = At(p)
  BY <1>1, <1>4 DEF Given, At
<1>6. ASSUME NEW k \in Rows
      PROVE  /\ LineUnits(line, k) \in Nat
             /\ HeldForOrders(k)' = HeldForOrders(k) - LineUnits(line, k)
             /\ w[o][k] - LineUnits(line, k)
                  = Units(items, k) - UnitsOfFirst(items, At(p), k)
  <2>1. /\ LineUnits(line, k) \in Nat
        /\ HeldForOrders(k)' = HeldForOrders(k) - LineUnits(line, k)
    BY <1>c, <1>2, <1>4, CommitReleaseDoes
  <2>2. PICK j : j = Given(p)
    OBVIOUS
  <2>3. UnitsOfFirst(items, j + 1, k) = UnitsOfFirst(items, j, k) + LineUnits(items[j + 1], k)
    BY <1>4, <1>5, <2>2, UnitsLineByLine DEF LineUnits
  <2>4. j \in 0..Len(items) /\ UnitsOfFirst(items, j, k) \in Nat /\ Units(items, k) \in Nat
    BY <1>4, <1>5, <2>2, UnitsLineByLine, FirstLinesAreFewer
  <2>5. w[o][k] = Units(items, k) - UnitsOfFirst(items, j, k) /\ j + 1 = At(p) /\ items[j + 1] = line
    BY <1>c, <1>4, <1>5, <2>2
  <2>6. w[o][k] - LineUnits(line, k) = Units(items, k) - UnitsOfFirst(items, j + 1, k)
    BY <2>1, <2>3, <2>4, <2>5
  <2> QED
    BY <2>1, <2>5, <2>6
<1>7. /\ new \in [Orders -> [Rows -> Int]]
      /\ \A k \in Rows : new[o][k] = w[o][k] - LineUnits(line, k)
      /\ \A oo \in Orders \ {o} : new[oo] = w[oo]
  <2>1. [k \in Rows |-> w[o][k] - LineUnits(line, k)] \in [Rows -> Int]
    BY <1>4, <1>6
  <2> QED
    BY <1>d, <1>4, <2>1
<1>8. \A k \in Rows : Owed(new, k) = Owed(w, k) - w[o][k] + new[o][k]
  BY <1>4, <1>7, OwedChanges
<1>9. OwesFor(new, o)'
  <2>1. \A q \in Procs : Cancelling(q, o)' <=> q = p
    BY <1>a, <1>1, <1>4 DEF Cancelling, Handling
  <2>2. orders'[o].status = "confirmed" /\ orders'[o].items = items
    BY <1>b, <1>1, <1>4
  <2> QED
    BY <1>5, <1>6, <1>7, <2>1, <2>2 DEF OwesFor
<1>10. ASSUME NEW oo \in Orders \ {o} PROVE OwesFor(new, oo)'
  <2>1. OwesFor(w, oo) /\ new[oo] = w[oo] /\ ~Cancelling(p, oo) /\ ~Cancelling(p, oo)'
    BY <1>a, <1>1, <1>2, <1>7 DEF Owes, Cancelling
  <2> QED
    BY <1>1, <1>3, <2>1, StillOwes
<1>11. Owes(new)'
  BY <1>9, <1>10 DEF Owes
<1>12. ASSUME NEW k \in Rows
       PROVE  /\ HeldForOrders(k)' <= Owed(new, k)
              /\ interrupted' = {} => HeldForOrders(k)' = Owed(new, k)
  <2>1. /\ HeldForOrders(k) <= Owed(w, k)
        /\ interrupted = {} => HeldForOrders(k) = Owed(w, k)
    BY DEF Backs
  <2>2. HeldForOrders(k) \in Int /\ Owed(w, k) \in Int /\ w[o][k] \in Int
    BY <1>4, RowTypes, OwedType
  <2> QED
    BY <1>1, <1>6, <1>7, <1>8, <2>1, <2>2
<1>13. \A k \in Rows : Owed(new, k)' = Owed(new, k)
  BY DEF Owed
<1>14. Backs(new)'
  BY <1>11, <1>12, <1>13 DEF Backs
<1> QED
  BY <1>7, <1>14

\* A cancellation that stops: its order owes all its units again, and no longer
\* has them all.
LEMMA StopBacks ==
  ASSUME SalesTypeOK, Inv, Locks, RequestsAreSane, NotOverlapped, UpToDate, overlapped = {},
         NEW p \in Procs, req[p].op = "cancel",
         Fail(p) \/ (StockStatement(p) /\ pc'[p] = "idle"),
         NEW w \in [Orders -> [Rows -> Int]], Backs(w)
  PROVE  \E new \in [Orders -> [Rows -> Int]] : Backs(new)'
<1>a. PICK o : o = req[p].order
  OBVIOUS
<1>b. PICK items : items = orders[o].items
  OBVIOUS
<1>c. PICK v : v = [k \in Rows |-> IF orders[o].status = "confirmed" THEN Units(items, k) ELSE 0]
  OBVIOUS
<1>d. PICK new : new = [w EXCEPT ![o] = v]
  OBVIOUS
<1>1. /\ Stops(p) /\ orders' = orders
      /\ ~(CommitConfirm(p) \/ CommitDeliver(p) \/ CommitRelease(p) \/ CommitInventory(p))
  <2>1. Stops(p) /\ orders' = orders
    BY DEF Fail, StockStatement
  <2>2. req'[p] = NoRequest
    BY <2>1 DEF Stops, Done, SalesTypeOK
  <2>3. ~CommitRelease(p)
    BY <2>2 DEF CommitRelease, salesVars, NoRequest
  <2> QED
    BY <2>1, <2>3 DEF CommitConfirm, CommitDeliver, CommitStatus, CommitInventory, Handling, StockOps
<1>2. Continue(p) /\ SaneRequest(p) /\ Owes(w)
  BY DEF Continue, RequestsAreSane, Backs
<1>3. /\ \A q \in Procs \ {p} : req'[q] = req[q] /\ pc'[q] = pc[q]
      /\ req'[p] = NoRequest /\ stock' = stock /\ outside' = outside
  BY <1>1, <1>2, StepIsSane, QuietStock DEF Stops, Done, SalesTypeOK
<1>4. /\ o \in Orders /\ req[p].items = items /\ items \in Seq(Line)
      /\ At(p) \in 0..Len(items) /\ (pc[p] # "idle" => At(p) > 0)
      /\ \A q \in Procs \ {p} : ~Cancelling(q, o)
      /\ orders[o].status \in {"draft", "confirmed"}
      /\ orders[o].status = "confirmed" =>
           \A k \in Rows : w[o][k] = Units(items, k) - UnitsOfFirst(items, Given(p), k)
  BY <1>a, <1>b, <1>2, CancelledOrder
<1>5. Given(p) \in 0..Len(items)
  BY <1>4 DEF Given
<1>6. ASSUME NEW k \in Rows
      PROVE  /\ v[k] \in Int /\ w[o][k] <= v[k]
             /\ orders[o].status # "confirmed" => w[o][k] = v[k]
  <2>1. UnitsOfFirst(items, Given(p), k) \in Nat /\ Units(items, k) \in Nat
    BY <1>4, <1>5, UnitsLineByLine, FirstLinesAreFewer
  <2>2. v[k] = IF orders[o].status = "confirmed" THEN Units(items, k) ELSE 0
    BY <1>c
  <2>3. CASE orders[o].status = "confirmed"
    BY <1>4, <2>1, <2>2, <2>3
  <2>4. CASE orders[o].status # "confirmed"
    BY <1>2, <1>4, <2>2, <2>4 DEF Owes, OwesFor
  <2> QED
    BY <2>3, <2>4
<1>7. /\ new \in [Orders -> [Rows -> Int]] /\ new[o] = v
      /\ \A oo \in Orders \ {o} : new[oo] = w[oo]
  <2>1. v \in [Rows -> Int]
    BY <1>c, <1>6
  <2> QED
    BY <1>d, <1>4, <2>1
<1>8. \A k \in Rows : Owed(new, k) = Owed(w, k) - w[o][k] + v[k]
  BY <1>4, <1>7, OwedChanges
<1>9. OwesFor(new, o)'
  <2>1. \A q \in Procs : ~Cancelling(q, o)'
    BY <1>3, <1>4 DEF Cancelling, Handling, NoRequest
  <2>2. orders'[o].status = orders[o].status /\ orders'[o].items = items
    BY <1>b, <1>1
  <2> QED
    BY <1>c, <1>7, <2>1, <2>2 DEF OwesFor
<1>10. ASSUME NEW oo \in Orders \ {o} PROVE OwesFor(new, oo)'
  <2>1. OwesFor(w, oo) /\ new[oo] = w[oo] /\ ~Cancelling(p, oo) /\ ~Cancelling(p, oo)'
    BY <1>a, <1>2, <1>3, <1>7 DEF Owes, Cancelling, Handling, NoRequest
  <2> QED
    BY <1>1, <1>3, <2>1, StillOwes
<1>11. Owes(new)'
  BY <1>9, <1>10 DEF Owes
<1>12. orders[o].status = "confirmed" => interrupted' # {}
  BY <1>a, <1>1 DEF Stops, Handling
<1>13. interrupted' = {} => interrupted = {}
  BY <1>1 DEF Stops
<1>14. ASSUME NEW k \in Rows
       PROVE  /\ HeldForOrders(k)' <= Owed(new, k)
              /\ interrupted' = {} => HeldForOrders(k)' = Owed(new, k)
  <2>1. /\ HeldForOrders(k) <= Owed(w, k)
        /\ interrupted = {} => HeldForOrders(k) = Owed(w, k)
    BY DEF Backs
  <2>2. HeldForOrders(k) \in Int /\ Owed(w, k) \in Int /\ w[o][k] \in Int
    BY <1>4, RowTypes, OwedType
  <2>3. HeldForOrders(k)' = HeldForOrders(k)
    BY <1>3 DEF HeldForOrders
  <2> QED
    BY <1>6, <1>8, <1>12, <1>13, <2>1, <2>2, <2>3
<1>15. \A k \in Rows : Owed(new, k)' = Owed(new, k)
  BY DEF Owed
<1>16. Backs(new)'
  BY <1>11, <1>14, <1>15 DEF Backs
<1> QED
  BY <1>7, <1>16

\* A new order owes nothing.
LEMMA CreateBacks ==
  ASSUME SalesTypeOK, NEW o \in Orders, NEW items \in ItemLists, CreateSalesOrder(o, items),
         NEW w \in [Orders -> [Rows -> Int]], Backs(w)
  PROVE  Backs(w)'
<1>1. /\ orders[o].status = "absent" /\ orders'[o].status = "draft"
      /\ \A oo \in Orders \ {o} : orders'[oo] = orders[oo]
  <2> DEFINE new == orders'[o]
  <2>1. /\ items \in Seq(Line) /\ \A i \in DOMAIN items : items[i].edit = 0
        /\ new = [NoneYet EXCEPT !.status = "draft", !.items = items, !.total = Total(items)]
    BY CreateWrites
  <2> HIDE DEF new
  <2>2. new.status = "draft"
    BY <2>1, NewOrder
  <2> QED
    BY <2>2, CreateWrites DEF new
<1>2. UNCHANGED <<stockVars, req, outside, interrupted>>
  BY DEF CreateSalesOrder
<1>3. ASSUME NEW oo \in Orders PROVE OwesFor(w, oo)'
  <2>1. OwesFor(w, oo)
    BY DEF Backs, Owes
  <2>2. \A q \in Procs : /\ Cancelling(q, oo)' <=> Cancelling(q, oo)
                         /\ Given(q)' = Given(q)
    BY <1>2 DEF Cancelling, Handling, Given, At, stockVars
  <2> QED
    BY <1>1, <2>1, <2>2 DEF OwesFor
<1>4. Owes(w)'
  BY <1>3 DEF Owes
<1>5. \A k \in Rows : HeldForOrders(k)' = HeldForOrders(k)
  BY <1>2 DEF HeldForOrders, stockVars
<1> QED
  BY <1>2, <1>4, <1>5, SameBacks

\* Only cancelSalesOrder begins a cancellation.
LEMMA CancelBegins ==
  ASSUME SalesTypeOK, NEW p \in Procs, SaneRequest(p), Start(p) \/ Continue(p),
         req[p].op # "cancel", req'[p].op = "cancel"
  PROVE  \E o \in Orders : CancelSalesOrder(p, o)
<1>1. req \in [Procs -> Request] /\ req'[p] # NoRequest /\ req'[p].op # req[p].op
  BY DEF NoRequest, SalesTypeOK
<1>2. Idle(p) /\ Starts(p, req'[p])
  BY <1>1, RequestShape
<1>3. ASSUME NEW r, Starts(p, r) PROVE req'[p] = r
  BY <1>1, <1>3 DEF Starts
<1>4. ASSUME NEW o \in Orders, ReadForUpdate(p, o) \/ ReadForRemove(p, o)
                               \/ ConfirmSalesOrder(p, o) \/ DeliverSalesOrder(p, o)
      PROVE  FALSE
  <2>1. PICK op \in OrderOps \ {"cancel"} : Starts(p, OrderRequest(op, o))
    BY <1>4 DEF ReadForUpdate, ReadForRemove, ConfirmSalesOrder, DeliverSalesOrder, OrderOps
  <2>2. OrderRequest(op, o).op = op
    BY <2>1, OrderRequestType DEF SalesTypeOK
  <2> QED
    BY <1>3, <2>1, <2>2
<1>5. ASSUME NEW o \in Orders,
             ReadForPayment(p, o) \/ \E m \in Payments : ReadPayment(p, o, m)
      PROVE  FALSE
  <2> DEFINE none == NoRequest
  <2>1. PICK r : /\ Starts(p, r)
                 /\ \/ r = [none EXCEPT !.op = "pay", !.order = o]
                    \/ \E m \in Payments :
                         r = [none EXCEPT !.op = "unpay", !.order = o, !.payment = m]
    BY <1>5 DEF ReadForPayment, ReadPayment
  <2>2. none \in Request
    BY NoRequestType
  <2> HIDE DEF none
  <2>3. r.op \in PaymentOps
    BY <2>1, <2>2 DEF Request, PaymentOps
  <2> QED
    BY <1>3, <2>1, <2>3 DEF PaymentOps
<1>6. ASSUME NEW c \in StockCalls, CallInventory(p, c) PROVE FALSE
  <2> DEFINE none == NoRequest
  <2>1. none \in Request /\ c.op \in StockOps /\ Starts(p, [none EXCEPT !.op = c.op, !.call = c])
    BY <1>6, NoRequestType, CallTypes DEF CallInventory
  <2> HIDE DEF none
  <2>2. [none EXCEPT !.op = c.op, !.call = c].op = c.op
    BY <2>1 DEF Request
  <2> QED
    BY <1>3, <2>1, <2>2 DEF StockOps
<1>7. Start(p)
  <2>1. ~StockStatement(p) /\ ~CommitRelease(p)
    BY <1>2, StatementIsOpen DEF StockStatement, CommitRelease, Commit, Idle
  <2> QED
    BY <1>2, <2>1 DEF Continue, Idle, UpdateSalesOrder, CommitConfirm, CommitDeliver, CommitStatus,
                      BeginRelease, FinishCancel, RemoveSalesOrder, CreatePayment, RemovePayment,
                      CommitInventory, Fail, Handling, StockOps
<1> QED
  BY <1>4, <1>5, <1>6, <1>7 DEF Start

\* What is reserved for orders stays what they owe.
LEMMA BackingStep ==
  ASSUME SalesTypeOK, Inv, Locks, RequestsAreSane, NotOverlapped, UpToDate, Backing,
         NEW p \in Procs, Start(p) \/ Continue(p)
  PROVE  Backing'
<1> SUFFICES ASSUME overlapped' = {}
             PROVE  \E new \in [Orders -> [Rows -> Int]] : Backs(new)'
  BY DEF Backing
<1>1. overlapped = {}
  BY NotOverlappedStep
<1>2. PICK w \in [Orders -> [Rows -> Int]] : Backs(w)
  BY <1>1 DEF Backing
<1>3. CASE CommitConfirm(p) \/ CommitDeliver(p)
  BY <1>1, <1>2, <1>3, ConfirmBacks
<1>4. CASE req[p].op # "cancel" /\ req'[p].op # "cancel" /\ ~CommitConfirm(p) /\ ~CommitDeliver(p)
  BY <1>1, <1>2, <1>4, OtherSteps
<1>5. CASE req[p].op = "cancel"
  <2>1. ~Start(p)
    BY <1>5 DEF Start, ReadForUpdate, ConfirmSalesOrder, DeliverSalesOrder, CancelSalesOrder,
                ReadForRemove, ReadForPayment, ReadPayment, CallInventory, Idle
  <2>2. \/ BeginRelease(p) \/ CommitRelease(p) \/ FinishCancel(p) \/ StockStatement(p) \/ Fail(p)
    BY <1>5, <2>1 DEF Continue, UpdateSalesOrder, CommitConfirm, CommitDeliver, CommitStatus,
                      RemoveSalesOrder, CreatePayment, RemovePayment, CommitInventory, Handling,
                      StockOps
  <2> QED
    BY <1>1, <1>2, <1>5, <2>2, CancelGoesOn, ReleaseBacks, FinishBacks, StopBacks
<1>6. CASE req[p].op # "cancel" /\ req'[p].op = "cancel"
  <2>1. SaneRequest(p)
    BY DEF RequestsAreSane
  <2>2. PICK o \in Orders : CancelSalesOrder(p, o)
    BY <1>6, <2>1, CancelBegins
  <2> QED
    BY <1>2, <2>2, CancelBacks
<1> QED
  BY <1>3, <1>4, <1>5, <1>6

-----------------------------------------------------------------------------
(* The life of an order, and what has left for it *)

\* What a step may do to an order that no two requests have overlapped on.
Lives(o) ==
  LET old == orders[o]
      new == orders'[o]
  IN  /\ new.status # old.status => new.status \in Successors[old.status]
      /\ new.items # old.items => old.status \in {"absent", "draft", "cancelled"}

\* Successors, status by status.
LEMMA SuccessorsAre ==
  /\ Successors["absent"] = {"draft"}
  /\ Successors["draft"] = {"confirmed", "cancelled", "removed"}
  /\ Successors["confirmed"] = {"delivered", "cancelled"}
  /\ Successors["cancelled"] = {"removed"}
BY DEF Successors

\* A request moves its order from one status to the next, and only a delivery
\* makes it delivered.
LEMMA OrderLives ==
  ASSUME SalesTypeOK, RequestsAreSane, UpToDate, NEW p \in Procs, Start(p) \/ Continue(p),
         NEW o \in Orders, o \notin overlapped
  PROVE  /\ Lives(o)
         /\ \/ Unwritten(o)
            \/ orders[o].status # "delivered" /\ orders'[o].status # "delivered"
            \/ CommitDeliver(p) /\ req[p].order = o
<1> DEFINE old == orders[o]
           new == orders'[o]
<1>1. SaneRequest(p) /\ old \in Order
  BY DEF RequestsAreSane, SalesTypeOK
<1>2. CASE Unwritten(o)
  BY <1>2 DEF Unwritten, Lives
<1>3. CASE ~Unwritten(o)
  <2>1. ~(CreatePayment(p) \/ RemovePayment(p))
    <3>1. req[p].op \in OrderOps
      BY <1>1, <1>3, WhoWrites
    <3> QED
      BY <3>1 DEF CreatePayment, RemovePayment, Handling, OrderOps
  <2>2. new # old
    BY <1>3 DEF Unwritten
  <2>3. req[p].order = o /\ req[p].op \in OrderOps /\ StillSo(p)
    BY <1>1, <2>1, <2>2, OrderWritten DEF UpToDate
  <2>4. CASE UpdateSalesOrder(p) /\ req[p].op = "update"
    <3>1. old.status = "draft"
      BY <2>3, <2>4 DEF StillSo
    <3>2. new.status = old.status
      <4>1. CASE \E items \in ItemLists, seen \in req[p].edits..old.edits :
                   new = Replaced(old, seen, items)
        <5>1. PICK items \in ItemLists, seen \in req[p].edits..old.edits :
                new = Replaced(old, seen, items)
          BY <4>1
        <5>2. items \in Seq(Line)
          BY ItemListsAssumption
        <5> HIDE DEF old, new
        <5> QED
          BY <1>1, <5>1, <5>2, ReplacedType
      <4>2. CASE new = [old EXCEPT !.total = Total(req[p].items)]
        <5> HIDE DEF old, new
        <5> QED
          BY <1>1, <4>2 DEF Order
      <4>3. CommitConfirm(p) \/ CommitDeliver(p) \/ FinishCancel(p) \/ RemoveSalesOrder(p) => FALSE
        BY <2>4 DEF CommitConfirm, CommitDeliver, CommitStatus, FinishCancel, RemoveSalesOrder, Handling
      <4> QED
        BY <1>1, <2>1, <2>2, <4>1, <4>2, <4>3, OrderWritten
    <3> QED
      BY <3>1, <3>2 DEF Lives
  <2>5. ASSUME NEW status \in Statuses, new = [old EXCEPT !.status = status]
        PROVE  new.status = status /\ new.items = old.items
    <3> HIDE DEF old, new
    <3> QED
      BY <1>1, <2>5 DEF Order
  <2>6. CASE CommitConfirm(p) /\ req[p].op = "confirm" /\ new = [old EXCEPT !.status = "confirmed"]
    <3>1. new.status = "confirmed" /\ new.items = old.items
      BY <2>5, <2>6 DEF Statuses
    <3>2. old.status = "draft"
      BY <2>3, <2>6 DEF StillSo
    <3> QED
      BY <3>1, <3>2, SuccessorsAre DEF Lives
  <2>7. CASE CommitDeliver(p) /\ req[p].op = "deliver" /\ new = [old EXCEPT !.status = "delivered"]
    <3>1. new.status = "delivered" /\ new.items = old.items
      BY <2>5, <2>7 DEF Statuses
    <3>2. old.status = "confirmed"
      BY <2>3, <2>7 DEF StillSo
    <3> QED
      BY <2>3, <2>7, <3>1, <3>2, SuccessorsAre DEF Lives
  <2>8. CASE FinishCancel(p) /\ req[p].op = "cancel" /\ new = [old EXCEPT !.status = "cancelled"]
    <3>1. new.status = "cancelled" /\ new.items = old.items
      BY <2>5, <2>8 DEF Statuses
    <3>2. old.status \in {"draft", "confirmed"}
      BY <2>3, <2>8 DEF StillSo
    <3> QED
      BY <3>1, <3>2, SuccessorsAre DEF Lives
  <2>9. CASE RemoveSalesOrder(p) /\ req[p].op = "remove" /\ new = [NoneYet EXCEPT !.status = "removed"]
    <3>1. new.status = "removed"
      <4>1. << >> \in Seq(Line) /\ \A i \in DOMAIN << >> : << >>[i].edit = 0
        OBVIOUS
      <4> HIDE DEF new
      <4> QED
        BY <2>9, <4>1, NewOrder
    <3>2. old.status \in {"draft", "cancelled"}
      BY <2>3, <2>9 DEF StillSo
    <3> QED
      BY <3>1, <3>2, SuccessorsAre DEF Lives
  <2> QED
    BY <1>1, <2>1, <2>2, <2>4, <2>6, <2>7, <2>8, <2>9, OrderWritten
<1> QED
  BY <1>2, <1>3

\* The numbers of Gone are integers.
LEMMA GoneType ==
  ASSUME NEW all \in [Orders -> Order]
  PROVE  GoneOf(all) \in [Orders -> [Rows -> Int]]
<1>1. ASSUME NEW o \in Orders, NEW k \in Rows
      PROVE  (IF all[o].status = "delivered" THEN Units(all[o].items, k) ELSE 0) \in Int
  <2>1. all[o].items \in Seq(Line)
    BY DEF Order
  <2>2. Units(all[o].items, k) \in Nat
    <3>1. 0 \in 0..Len(all[o].items) /\ Len(all[o].items) \in 0..Len(all[o].items)
      BY <2>1
    <3> QED
      BY <2>1, <3>1, UnitsLineByLine
  <2> QED
    BY <2>2
<1> QED
  BY <1>1 DEF GoneOf

\* Goods leave with the delivery's commit, and with nothing else of the service.
LEMMA ShippingStep ==
  ASSUME SalesTypeOK, SalesTypeOK', Inv, Locks, RequestsAreSane, NotOverlapped, UpToDate, Shipping,
         NEW p \in Procs, Start(p) \/ Continue(p)
  PROVE  Shipping'
<1> SUFFICES ASSUME overlapped' = {}, NEW k \in Rows
             PROVE  stock'[k].moved = outside'[k].moved - Owed(Gone, k)'
  BY DEF Shipping
<1>a. PICK old : old = GoneOf(orders)
  OBVIOUS
<1>b. PICK new : new = GoneOf(orders')
  OBVIOUS
<1>1. overlapped = {} /\ SaneRequest(p)
  BY NotOverlappedStep DEF RequestsAreSane
<1>2. old \in [Orders -> [Rows -> Int]] /\ new \in [Orders -> [Rows -> Int]]
  BY <1>a, <1>b, GoneType DEF SalesTypeOK
<1>3. stock[k].moved = outside[k].moved - Owed(old, k) /\ Owed(Gone, k)' = Owed(new, k)
  BY <1>a, <1>b, <1>1 DEF Shipping, Gone, Owed, GoneOf
<1>4. stock[k].moved \in Int /\ outside[k].moved \in Int /\ Owed(old, k) \in Int
  BY <1>2, RowTypes, OwedType
<1>5. CASE CommitDeliver(p)
  <2>a. PICK o : o = req[p].order
    OBVIOUS
  <2>1. o \in Orders /\ req[p].op = "deliver" /\ StillSo(p)
    BY <1>1, <1>5, <2>a DEF CommitDeliver, CommitStatus, Handling, SaneRequest, UpToDate, OrderOps
  <2>2. orders[o].status = "confirmed" /\ orders[o].items = req[p].items
    BY <2>a, <2>1 DEF StillSo
  <2>3. orders' = [orders EXCEPT ![o].status = "delivered"]
    BY <1>5, <2>a DEF CommitDeliver, CommitStatus
  <2>4. /\ orders'[o].status = "delivered" /\ orders'[o].items = req[p].items
        /\ \A oo \in Orders \ {o} : orders'[oo] = orders[oo]
    BY <2>1, <2>2, <2>3 DEF SalesTypeOK, Order
  <2>5. new[o][k] = Units(req[p].items, k) /\ old[o][k] = 0
    BY <1>a, <1>b, <2>1, <2>2, <2>4 DEF GoneOf
  <2>6. \A oo \in Orders \ {o} : new[oo] = old[oo]
    BY <1>a, <1>b, <2>4 DEF GoneOf
  <2>7. Owed(new, k) = Owed(old, k) - old[o][k] + new[o][k]
    BY <1>2, <2>1, <2>6, OwedChanges
  <2>8. stock'[k].moved = stock[k].moved - Units(req[p].items, k) /\ outside' = outside
    BY <1>1, <1>5, CommitDeliverDoes
  <2>9. new[o][k] \in Int
    BY <1>2, <2>1
  <2> QED
    BY <1>3, <1>4, <2>5, <2>7, <2>8, <2>9
<1>6. CASE ~CommitDeliver(p)
  <2>1. new = old
    <3>1. ASSUME NEW o \in Orders
          PROVE  \/ orders'[o].status = orders[o].status /\ orders'[o].items = orders[o].items
                 \/ orders[o].status # "delivered" /\ orders'[o].status # "delivered"
      BY <1>1, <1>6, OrderLives DEF Unwritten
    <3> QED
      BY <1>a, <1>b, <3>1 DEF GoneOf
  <2>2. stock'[k].moved - outside'[k].moved = stock[k].moved - outside[k].moved
        /\ stock'[k].moved \in Int /\ outside'[k].moved \in Int
    <3>1. CASE CommitInventory(p)
      <4>1. Uses(p)
        BY StepUses
      <4>2. Inv'
        BY <4>1, UsesInv
      <4>3. stock'[k] \in Row
        BY <4>2 DEF Inv, StockTypeOK
      <4>4. stock'[k].moved \in Int
        BY <4>3 DEF Row
      <4> QED
        BY <1>1, <3>1, <4>4, CommitInventoryDoes
    <3>2. CASE ~CommitInventory(p)
      <4>1. stock'[k].moved = stock[k].moved /\ outside' = outside
        BY <1>1, <1>6, <3>2, QuietStock, CommitConfirmDoes, CommitReleaseDoes
      <4> QED
        BY <1>4, <4>1
    <3> QED
      BY <3>1, <3>2
  <2> QED
    BY <1>3, <1>4, <2>1, <2>2
<1> QED
  BY <1>5, <1>6

-----------------------------------------------------------------------------
(* The invariant *)

\* Nothing is reserved, ordered or delivered when the service starts.
LEMMA InitSales == SalesInit => SalesInv
<1> SUFFICES ASSUME SalesInit PROVE SalesInv
  OBVIOUS
<1>1. /\ StockInit /\ orders = [o \in Orders |-> NoneYet] /\ req = [p \in Procs |-> NoRequest]
      /\ outside = [k \in Rows |-> [moved |-> Opening[k], held |-> 0]]
      /\ overlapped = {} /\ interrupted = {}
  BY DEF SalesInit
<1>2. Inv /\ Locks
  BY <1>1, InitInv, InitLocks
<1>3. ASSUME NEW k \in Rows
      PROVE  stock[k].moved = Opening[k] /\ stock[k].held = 0 /\ Opening[k] \in Int
  <2>1. Opening[k] \in Nat /\ stock[k] = OpeningRow(Opening[k])
    BY <1>1, OpeningAssumption DEF StockInit
  <2> QED
    BY <2>1 DEF OpeningRow
<1>4. NoneYet \in Order
  BY DEF NoneYet, Order, Statuses
<1>5. SalesTypeOK
  <2>1. orders \in [Orders -> Order]
    BY <1>1, <1>4
  <2>2. req \in [Procs -> Request]
    BY <1>1, NoRequestType
  <2>3. outside \in [Rows -> [moved : Int, held : Int]]
    BY <1>1, <1>3
  <2> QED
    BY <1>1, <1>2, <2>1, <2>2, <2>3 DEF SalesTypeOK, Inv
<1>6. \A p \in Procs : req[p] = NoRequest /\ pc[p] = "idle" /\ req[p].op = "none"
  BY <1>1 DEF StockInit, NoRequest
<1>7. RequestsAreSane
  BY <1>6 DEF RequestsAreSane, SaneRequest, OrderOps, PaymentOps, StockOps
<1>8. NotOverlapped /\ UpToDate
  BY <1>6 DEF NotOverlapped, UpToDate, OrderOps
<1>9. \A o \in Orders : /\ orders[o].status = "absent" /\ orders[o].items = << >>
                        /\ orders[o].total = 0 /\ orders[o].payments = {} /\ orders[o].paid = 0
  BY <1>1 DEF NoneYet
<1>10. OrdersInv
  <2>1. Cardinality({}) = 0
    BY FS_EmptySet
  <2>2. EditsPast
    BY <1>9 DEF EditsPast
  <2>3. PaidMatchesPayments
    BY <1>9, <2>1 DEF PaidMatchesPayments
  <2>4. TotalMatchesItems
    BY <1>9, TotalOfNothing DEF TotalMatchesItems
  <2> QED
    BY <2>2, <2>3, <2>4 DEF OrdersInv
<1>11. PICK zero : zero = [o \in Orders |-> [k \in Rows |-> 0]]
  OBVIOUS
<1>12. zero \in [Orders -> [Rows -> Int]] /\ \A k \in Rows : Owed(zero, k) = 0
  <2>1. zero \in [Orders -> [Rows -> Int]]
    BY <1>11
  <2>2. ASSUME NEW k \in Rows PROVE Owed(zero, k) = 0
    <3> DEFINE f == [o \in Orders |-> zero[o][k]]
    <3>1. \A o \in Orders : f[o] = 0
      BY <1>11
    <3> HIDE DEF f
    <3>2. SumFunctionOnSet(f, Orders) = 0
      BY <3>1, OrdersAssumption, SumOfZeros
    <3> QED
      BY <3>2 DEF Owed, f
  <2> QED
    BY <2>1, <2>2
<1>13. Backing
  <2>1. Owes(zero)
    BY <1>9, <1>11 DEF Owes, OwesFor
  <2>2. ASSUME NEW k \in Rows PROVE HeldForOrders(k) = 0
    <3>1. outside[k].held = 0
      BY <1>1
    <3> QED
      BY <1>3, <3>1 DEF HeldForOrders
  <2>3. Backs(zero)
    BY <1>12, <2>1, <2>2 DEF Backs
  <2> QED
    BY <1>12, <2>3 DEF Backing
<1>14. Shipping
  <2>1. Gone = zero
    BY <1>9, <1>11 DEF Gone, GoneOf
  <2>2. ASSUME NEW k \in Rows PROVE stock[k].moved = outside[k].moved - Owed(Gone, k)
    <3>1. outside[k].moved = Opening[k]
      BY <1>1
    <3> QED
      BY <1>3, <1>12, <2>1, <3>1
  <2> QED
    BY <2>2 DEF Shipping
<1> QED
  BY <1>2, <1>5, <1>7, <1>8, <1>10, <1>13, <1>14 DEF SalesInv

\* Requests stay sane while nobody does anything.
LEMMA QuietRequests ==
  ASSUME RequestsAreSane, stockVars' = stockVars, req' = req
  PROVE  RequestsAreSane'
<1> SUFFICES ASSUME NEW p \in Procs PROVE SaneRequest(p)'
  BY DEF RequestsAreSane
<1>1. SaneRequest(p) /\ Untouched(p) /\ pc' = pc
  BY DEF RequestsAreSane, Untouched, stockVars
<1>2. CallsOf(p)' = CallsOf(p) /\ At(p)' = At(p)
  BY DEF CallsOf, At
<1>3. PICK calls : calls = CallsOf(p)
  OBVIOUS
<1>4. Executed(p, calls) => Executed(p, calls)'
  BY <1>1, OthersAreExecuted
<1>5. pc'[p] # "idle" => Executed(p, CallsOf(p))'
  BY <1>1, <1>2, <1>3, <1>4 DEF SaneRequest
<1> QED
  BY <1>1, <1>2, <1>5 DEF SaneRequest

\* The parts of the invariant that only the stock, the requests and the order's
\* status and items decide.
LEMMA CreateKeeps ==
  ASSUME SalesInv, NEW o \in Orders, NEW items \in ItemLists, CreateSalesOrder(o, items)
  PROVE  SalesInv'
<1>1. UNCHANGED <<stockVars, req, outside, overlapped, interrupted>>
  BY DEF CreateSalesOrder
<1>2. /\ stock' = stock /\ latest' = latest /\ owner' = owner /\ script' = script /\ pc' = pc
      /\ req' = req /\ outside' = outside /\ overlapped' = overlapped /\ interrupted' = interrupted
  BY <1>1 DEF stockVars
<1>3. SalesTypeOK /\ Inv /\ Locks /\ RequestsAreSane /\ NotOverlapped /\ UpToDate
  BY DEF SalesInv
<1>4. /\ orders[o].status = "absent" /\ orders' \in [Orders -> Order]
      /\ \A oo \in Orders \ {o} : orders'[oo] = orders[oo]
  BY <1>3, CreateWrites
<1>5. Inv' /\ Locks'
  <2> USE DEF stockVars
  <2> QED
    BY <1>1, <1>3 DEF Inv, StockTypeOK, RowsSound, Locks, LockDiscipline
<1>6. SalesTypeOK'
  BY <1>2, <1>3, <1>4, <1>5 DEF SalesTypeOK, Inv
<1>7. RequestsAreSane' /\ NotOverlapped'
  BY <1>1, <1>3, QuietRequests DEF NotOverlapped
<1>8. UpToDate'
  <2> SUFFICES ASSUME NEW p \in Procs, req[p].op \in OrderOps, req[p].order \notin overlapped
               PROVE  StillSo(p)'
    BY <1>2 DEF UpToDate
  <2>1. StillSo(p) /\ req[p].order \in Orders
    BY <1>3 DEF UpToDate, RequestsAreSane, SaneRequest
  <2>2. req[p].order # o
    BY <1>4, <2>1 DEF StillSo, OrderOps
  <2>3. orders'[req[p].order] = orders[req[p].order]
    BY <1>4, <2>1, <2>2
  <2> QED
    BY <1>2, <2>1, <2>3 DEF StillSo
<1>9. OrdersInv'
  BY <1>3, CreateAddsUp DEF SalesInv
<1>10. Backing'
  <2>1. ASSUME overlapped = {} PROVE \E w \in [Orders -> [Rows -> Int]] : Backs(w)'
    <3>1. PICK w \in [Orders -> [Rows -> Int]] : Backs(w)
      BY <2>1 DEF SalesInv, Backing
    <3> QED
      BY <1>3, <3>1, CreateBacks
  <2> QED
    BY <1>2, <2>1 DEF Backing
<1>11. Shipping'
  <2>1. orders'[o].status = "draft"
    <3> DEFINE new == orders'[o]
    <3>1. /\ items \in Seq(Line) /\ \A i \in DOMAIN items : items[i].edit = 0
          /\ new = [NoneYet EXCEPT !.status = "draft", !.items = items, !.total = Total(items)]
      BY <1>3, CreateWrites
    <3> HIDE DEF new
    <3>2. new.status = "draft"
      BY <3>1, NewOrder
    <3> QED
      BY <3>2 DEF new
  <2>2. Gone' = Gone
    BY <1>4, <2>1 DEF Gone, GoneOf
  <2>3. \A k \in Rows : Owed(Gone, k)' = Owed(Gone, k)
    BY <2>2 DEF Owed
  <2> QED
    BY <1>2, <2>3 DEF SalesInv, Shipping
<1> QED
  BY <1>5, <1>6, <1>7, <1>8, <1>9, <1>10, <1>11 DEF SalesInv

\* A step of a request keeps all of it.
LEMMA RequestKeeps ==
  ASSUME SalesInv, NEW p \in Procs, Start(p) \/ Continue(p)
  PROVE  SalesInv'
<1>1. /\ SalesTypeOK /\ Inv /\ Locks /\ RequestsAreSane /\ NotOverlapped /\ UpToDate
      /\ OrdersInv /\ Backing /\ Shipping /\ SaneRequest(p)
  BY DEF SalesInv, RequestsAreSane
<1>2. Inv' /\ Locks'
  BY <1>1, StepUses, UsesInv
<1>3. SalesTypeOK'
  <2>1. CASE Start(p)
    BY <1>1, <1>2, <2>1, StartTypes DEF SalesTypeOK, Inv
  <2>2. CASE Continue(p)
    BY <1>1, <1>2, <2>2, ContinueTypes DEF SalesTypeOK, Inv
  <2> QED
    BY <2>1, <2>2
<1>4. RequestsAreSane' /\ NotOverlapped' /\ UpToDate' /\ OrdersInv'
  BY <1>1, StepIsSane, NotOverlappedStep, UpToDateStep, OrdersStep
<1>5. Backing' /\ Shipping'
  BY <1>1, <1>3, BackingStep, ShippingStep
<1> QED
  BY <1>2, <1>3, <1>4, <1>5 DEF SalesInv

\* A step that changes nothing.
LEMMA StutterKeeps ==
  ASSUME SalesInv, UNCHANGED vars
  PROVE  SalesInv'
<1>1. /\ stock' = stock /\ latest' = latest /\ owner' = owner /\ script' = script /\ pc' = pc
      /\ req' = req /\ outside' = outside /\ overlapped' = overlapped /\ interrupted' = interrupted
      /\ orders' = orders
  BY DEF vars, salesVars, stockVars
<1>2. SalesTypeOK' /\ Inv' /\ Locks'
  BY <1>1 DEF SalesInv, SalesTypeOK, Inv, StockTypeOK, RowsSound, Locks, LockDiscipline
<1>3. RequestsAreSane' /\ NotOverlapped'
  BY <1>1, QuietRequests DEF SalesInv, NotOverlapped, stockVars
<1>4. UpToDate' /\ OrdersInv'
  BY <1>1 DEF SalesInv, UpToDate, StillSo, OrdersInv, EditsPast, PaidMatchesPayments,
              TotalMatchesItems
<1>5. Backing'
  <2> SUFFICES ASSUME overlapped' = {} PROVE \E w \in [Orders -> [Rows -> Int]] : Backs(w)'
    BY DEF Backing
  <2>1. PICK w \in [Orders -> [Rows -> Int]] : Backs(w)
    BY <1>1 DEF SalesInv, Backing
  <2>2. ASSUME NEW o \in Orders PROVE OwesFor(w, o)'
    <3>1. OwesFor(w, o)
      BY <2>1 DEF Backs, Owes
    <3>2. \A q \in Procs : /\ Cancelling(q, o)' <=> Cancelling(q, o)
                           /\ Given(q)' = Given(q)
      BY <1>1 DEF Cancelling, Handling, Given, At
    <3> QED
      BY <1>1, <3>1, <3>2 DEF OwesFor
  <2>3. Owes(w)'
    BY <2>2 DEF Owes
  <2>4. \A k \in Rows : HeldForOrders(k)' = HeldForOrders(k)
    BY <1>1 DEF HeldForOrders
  <2>5. interrupted \subseteq interrupted'
    BY <1>1
  <2>6. Backs(w)'
    BY <2>1, <2>3, <2>4, <2>5, SameBacks
  <2> QED
    BY <2>6
<1>6. Shipping'
  <2>1. \A k \in Rows : Owed(Gone, k)' = Owed(Gone, k)
    BY <1>1 DEF Owed, Gone, GoneOf
  <2> QED
    BY <1>1, <2>1 DEF SalesInv, Shipping
<1> QED
  BY <1>2, <1>3, <1>4, <1>5, <1>6 DEF SalesInv

\* So no step leaves the invariant.
LEMMA SalesStep == SalesInv /\ [SalesNext]_vars => SalesInv'
<1> SUFFICES ASSUME SalesInv, [SalesNext]_vars PROVE SalesInv'
  OBVIOUS
<1>1. CASE UNCHANGED vars
  BY <1>1, StutterKeeps
<1>2. CASE SalesNext
  BY <1>2, CreateKeeps, RequestKeeps DEF SalesNext
<1> QED
  BY <1>1, <1>2

\* The inductive invariant: the types, what Inventory keeps, what every request
\* has read and done so far, and what is reserved and gone for every order.
THEOREM SalesInvariant == SalesSpec => []SalesInv
BY InitSales, SalesStep, PTL DEF SalesSpec

\* Type correctness of the orders, the requests and the stock together.
THEOREM SalesTypesHold == SalesSpec => []SalesTypeOK
<1>1. SalesInv => SalesTypeOK
  BY DEF SalesInv
<1> QED
  BY <1>1, SalesInvariant, PTL

\* What an order costs and what has been paid of it add up, whatever requests
\* overlap on other orders or die.
THEOREM OrdersHaveAddedUp == SalesSpec => []OrdersAddUp
<1>1. SalesInv => OrdersAddUp
  BY DEF SalesInv, OrdersInv, OrdersAddUp
<1> QED
  BY <1>1, SalesInvariant, PTL

\* The units that the orders of a set ask for, as a sum over all orders.
LEMMA OrderedAsSum ==
  ASSUME orders \in [Orders -> Order], NEW S \in SUBSET Orders, NEW k \in Rows
  PROVE  Ordered(S, k) =
           SumFunctionOnSet([o \in Orders |-> IF o \in S THEN Units(orders[o].items, k) ELSE 0],
                            Orders)
<1> DEFINE f == [o \in Orders |-> IF o \in S THEN Units(orders[o].items, k) ELSE 0]
           g == [o \in S |-> Units(orders[o].items, k)]
<1>1. \A o \in Orders : Units(orders[o].items, k) \in Nat
  <2> TAKE o \in Orders
  <2>1. orders[o].items \in Seq(Line)
    BY DEF Order
  <2>2. 0 \in 0..Len(orders[o].items)
    BY <2>1
  <2> QED
    BY <2>1, <2>2, FirstLinesAreFewer
<1>2. /\ \A o \in Orders : f[o] \in Int
      /\ \A o \in Orders \ S : f[o] = 0
      /\ \A o \in S : f[o] \in Int /\ f[o] = g[o]
      /\ DOMAIN g = S
  BY <1>1
<1>3. Ordered(S, k) = SumFunctionOnSet(g, DOMAIN g)
  BY DEF Ordered, SumFunction
<1> HIDE DEF f, g
<1>4. IsFiniteSet(S)
  BY OrdersAssumption, FS_Subset
<1>5. SumFunctionOnSet(f, S) = SumFunctionOnSet(g, S)
  BY <1>2, <1>4, SumOfEquals
<1>6. SumFunctionOnSet(f, Orders) = SumFunctionOnSet(f, S)
  BY <1>2, OrdersAssumption, SumOfSubset
<1> QED
  BY <1>2, <1>3, <1>5, <1>6 DEF f

\* A confirmed order owes at most its units, and all of them while nobody is
\* cancelling it.
LEMMA OwesItsUnits ==
  ASSUME SalesTypeOK, RequestsAreSane, NotOverlapped, UpToDate, overlapped = {},
         NEW w \in [Orders -> [Rows -> Int]], Owes(w), NEW o \in Orders, NEW k \in Rows
  PROVE  /\ w[o][k] >= 0
         /\ orders[o].status # "confirmed" => w[o][k] = 0
         /\ w[o][k] <= Units(orders[o].items, k)
         /\ Units(orders[o].items, k) \in Nat
         /\ orders[o].status = "confirmed" /\ o \notin BeingCancelled =>
              w[o][k] = Units(orders[o].items, k)
<1>a. PICK items : items = orders[o].items
  OBVIOUS
<1>1. items \in Seq(Line) /\ OwesFor(w, o) /\ w[o][k] \in Int
  BY <1>a DEF SalesTypeOK, Order, Owes
<1>2. Units(items, k) \in Nat
  <2>1. 0 \in 0..Len(items)
    BY <1>1
  <2> QED
    BY <1>1, <2>1, FirstLinesAreFewer
<1>3. CASE orders[o].status # "confirmed"
  BY <1>a, <1>1, <1>2, <1>3 DEF OwesFor
<1>4. CASE orders[o].status = "confirmed" /\ \A p \in Procs : ~Cancelling(p, o)
  BY <1>a, <1>1, <1>2, <1>4 DEF OwesFor
<1>5. CASE orders[o].status = "confirmed" /\ \E p \in Procs : Cancelling(p, o)
  <2>1. PICK p \in Procs : Cancelling(p, o)
    BY <1>5
  <2>2. req[p].op = "cancel" /\ req[p].order = o
    BY <2>1 DEF Cancelling, Handling
  <2>3. At(p) \in 0..Len(items) /\ (pc[p] # "idle" => At(p) > 0)
        /\ w[o][k] = Units(items, k) - UnitsOfFirst(items, Given(p), k)
    BY <1>a, <1>5, <2>2, CancelledOrder
  <2>4. Given(p) \in 0..Len(items)
    BY <2>3 DEF Given
  <2>5. UnitsOfFirst(items, Given(p), k) \in Nat
        /\ UnitsOfFirst(items, Given(p), k) <= Units(items, k)
    BY <1>1, <2>4, UnitsLineByLine, FirstLinesAreFewer
  <2>6. o \in BeingCancelled
    BY <2>2 DEF BeingCancelled, Handling
  <2> QED
    BY <1>a, <1>2, <1>5, <2>3, <2>5, <2>6
<1> QED
  BY <1>3, <1>4, <1>5

\* What the invariant says of the reservations and the deliveries.
LEMMA InvariantFollowsOrders == SalesInv => StockFollowsOrders
<1> SUFFICES ASSUME SalesInv, overlapped = {}, NEW k \in Rows
             PROVE  /\ LET held == stock[k].reserved - outside[k].held
                       IN  /\ held <= Ordered(InStatus("confirmed"), k)
                           /\ interrupted = {} =>
                                held >= Ordered(InStatus("confirmed") \ BeingCancelled, k)
                    /\ stock[k].moved = outside[k].moved - Ordered(InStatus("delivered"), k)
  BY DEF StockFollowsOrders, ReservedForConfirmedOrders, ShippedMatchesDelivered
<1>1. /\ SalesTypeOK /\ Inv /\ RequestsAreSane /\ NotOverlapped /\ UpToDate /\ Backing /\ Shipping
      /\ orders \in [Orders -> Order]
  BY DEF SalesInv, SalesTypeOK
<1>2. PICK w \in [Orders -> [Rows -> Int]] : Backs(w)
  BY <1>1 DEF Backing
<1>3. \A o \in Orders : /\ w[o][k] >= 0 /\ w[o][k] \in Int
                        /\ orders[o].status # "confirmed" => w[o][k] = 0
                        /\ w[o][k] <= Units(orders[o].items, k)
                        /\ Units(orders[o].items, k) \in Nat
                        /\ orders[o].status = "confirmed" /\ o \notin BeingCancelled =>
                             w[o][k] = Units(orders[o].items, k)
  BY <1>1, <1>2, OwesItsUnits DEF Backs
<1>4. stock[k].reserved - outside[k].held = HeldForOrders(k) /\ HeldForOrders(k) \in Int
  <2>1. stock[k] \in SoundRow
    BY <1>1 DEF Inv, RowsSound
  <2>2. stock[k].reserved = stock[k].held
    BY <2>1 DEF SoundRow, Sound
  <2> QED
    BY <1>1, <2>2, RowTypes DEF HeldForOrders
<1>5. /\ HeldForOrders(k) <= Owed(w, k) /\ Owed(w, k) \in Int
      /\ interrupted = {} => HeldForOrders(k) = Owed(w, k)
  BY <1>2, OwedType DEF Backs
<1> DEFINE owed == [o \in Orders |-> w[o][k]]
<1>6. Owed(w, k) <= Ordered(InStatus("confirmed"), k) /\ Ordered(InStatus("confirmed"), k) \in Int
  <2> DEFINE S == InStatus("confirmed")
             f == [o \in Orders |-> IF o \in S THEN Units(orders[o].items, k) ELSE 0]
  <2>1. S \in SUBSET Orders
    BY DEF InStatus
  <2>2. Ordered(S, k) = SumFunctionOnSet(f, Orders)
    BY <1>1, <2>1, OrderedAsSum
  <2>3. \A o \in Orders : owed[o] \in Int /\ f[o] \in Int /\ owed[o] <= f[o]
    BY <1>3 DEF InStatus
  <2>4. Owed(w, k) = SumFunctionOnSet(owed, Orders)
    BY DEF Owed
  <2> HIDE DEF owed, f, S
  <2>5. SumFunctionOnSet(owed, Orders) <= SumFunctionOnSet(f, Orders)
        /\ SumFunctionOnSet(f, Orders) \in Int
    BY <2>3, OrdersAssumption, SumIsMonotonic, SumIsInt
  <2> QED
    BY <2>2, <2>4, <2>5 DEF S
<1>7. Owed(w, k) >= Ordered(InStatus("confirmed") \ BeingCancelled, k)
      /\ Ordered(InStatus("confirmed") \ BeingCancelled, k) \in Int
  <2> DEFINE S == InStatus("confirmed") \ BeingCancelled
             f == [o \in Orders |-> IF o \in S THEN Units(orders[o].items, k) ELSE 0]
  <2>1. S \in SUBSET Orders
    BY DEF InStatus
  <2>2. Ordered(S, k) = SumFunctionOnSet(f, Orders)
    BY <1>1, <2>1, OrderedAsSum
  <2>3. \A o \in Orders : owed[o] \in Int /\ f[o] \in Int /\ f[o] <= owed[o]
    BY <1>3 DEF InStatus
  <2>4. Owed(w, k) = SumFunctionOnSet(owed, Orders)
    BY DEF Owed
  <2> HIDE DEF owed, f, S
  <2>5. SumFunctionOnSet(f, Orders) <= SumFunctionOnSet(owed, Orders)
        /\ SumFunctionOnSet(f, Orders) \in Int /\ SumFunctionOnSet(owed, Orders) \in Int
    BY <2>3, OrdersAssumption, SumIsMonotonic, SumIsInt
  <2> QED
    BY <2>2, <2>4, <2>5 DEF S
<1>8. stock[k].moved = outside[k].moved - Ordered(InStatus("delivered"), k)
  <2> DEFINE S == InStatus("delivered")
             f == [o \in Orders |-> IF o \in S THEN Units(orders[o].items, k) ELSE 0]
             g == [o \in Orders |-> Gone[o][k]]
  <2>1. S \in SUBSET Orders
    BY DEF InStatus
  <2>2. Ordered(S, k) = SumFunctionOnSet(f, Orders)
    BY <1>1, <2>1, OrderedAsSum
  <2>3. g = f
    BY DEF Gone, GoneOf, InStatus
  <2>4. stock[k].moved = outside[k].moved - SumFunctionOnSet(g, Orders)
    BY <1>1 DEF Shipping, Owed
  <2> QED
    BY <2>2, <2>3, <2>4
<1>9. interrupted = {} =>
        HeldForOrders(k) >= Ordered(InStatus("confirmed") \ BeingCancelled, k)
  BY <1>4, <1>5, <1>7
<1> QED
  BY <1>4, <1>5, <1>6, <1>8, <1>9

\* What is reserved and what has left are what the orders' statuses say, with
\* requests that overlap on different orders, die or are interrupted anywhere.
THEOREM StockHasFollowedOrders == SalesSpec => []StockFollowsOrders
BY InvariantFollowsOrders, SalesInvariant, PTL

\* The life of an order: no request takes it through a status out of turn, and
\* once it is confirmed its items stay as they are.
THEOREM OrdersLiveInOrder == SalesSpec => OrderLifeCycle
<1>1. SalesInv /\ [SalesNext]_vars =>
        [\A o \in Orders \ overlapped' : Lives(o)]_vars
  <2> SUFFICES ASSUME SalesInv, SalesNext, NEW o \in Orders, o \notin overlapped'
               PROVE  Lives(o)
    OBVIOUS
  <2>1. SalesTypeOK /\ Inv /\ Locks /\ RequestsAreSane /\ NotOverlapped /\ UpToDate
    BY DEF SalesInv
  <2>2. ASSUME NEW new \in Orders, NEW items \in ItemLists, CreateSalesOrder(new, items)
        PROVE  Lives(o)
    <3>1. CASE o # new
      BY <2>1, <2>2, <3>1, CreateWrites DEF Lives
    <3>2. CASE o = new
      <4> DEFINE order == orders'[o]
      <4>1. /\ items \in Seq(Line) /\ \A i \in DOMAIN items : items[i].edit = 0
            /\ order = [NoneYet EXCEPT !.status = "draft", !.items = items, !.total = Total(items)]
            /\ orders[o].status = "absent"
        BY <2>1, <2>2, <3>2, CreateWrites
      <4> HIDE DEF order
      <4>2. order.status = "draft"
        BY <4>1, NewOrder
      <4> QED
        BY <4>1, <4>2, SuccessorsAre DEF Lives, order
    <3> QED
      BY <3>1, <3>2
  <2>3. ASSUME NEW p \in Procs, Start(p) \/ Continue(p) PROVE Lives(o)
    <3>1. o \notin overlapped
      BY <2>1, <2>3, NotOverlappedStep
    <3> QED
      BY <2>1, <2>3, <3>1, OrderLives
  <2> QED
    BY <2>2, <2>3 DEF SalesNext
<1>2. [\A o \in Orders \ overlapped' : Lives(o)]_vars =>
        [\A o \in Orders \ overlapped' :
           LET old == orders[o]
               new == orders'[o]
           IN  /\ new.status # old.status => new.status \in Successors[old.status]
               /\ new.items # old.items => old.status \in {"absent", "draft", "cancelled"}]_vars
  BY DEF Lives
<1> QED
  BY <1>1, <1>2, SalesInvariant, PTL DEF SalesSpec, OrderLifeCycle

\* The service drives the stock only through Inventory's transactions: every
\* step of it is a step of Inventory, or leaves the stock alone.  So whatever
\* Inventory guarantees holds of the stock that orders move.
THEOREM SalesDriveInventory ==
  ASSUME SalesScripts \subseteq Scripts
  PROVE  SalesSpec => UsesInventory
<1>1. SalesInit => StockInit
  BY DEF SalesInit
<1>2. SalesInv /\ [SalesNext]_vars => [StockNext]_stockVars
  <2> SUFFICES ASSUME SalesInv, [SalesNext]_vars, stockVars' # stockVars
               PROVE  StockNext
    OBVIOUS
  <2>1. PICK p \in Procs : Start(p) \/ Continue(p)
    BY DEF SalesNext, CreateSalesOrder, vars
  <2>2. Uses(p)
    BY <2>1, StepUses DEF SalesInv
  <2> QED
    BY <2>2 DEF Uses, StockNext, Statement, Interrupt
<1> QED
  BY <1>1, <1>2, SalesInvariant, PTL DEF SalesSpec, UsesInventory, StockSpec
=============================================================================
