--------------------------- MODULE MCSalesOrders ---------------------------
(***************************************************************************)
(* SalesOrders for TLC: a bounded number of requests, counted over all     *)
(* processes, and the item lists and stock of each configuration.          *)
(***************************************************************************)
EXTENDS SalesOrders, TLC

CONSTANTS r1, r2, MaxRequests

L(k, n) == [row |-> k, n |-> n, edit |-> 0]

\* One order of one line or two, over two rows.
MCRows == {r1, r2}
MCOpening == [k \in MCRows |-> IF k = r1 THEN 2 ELSE 1]
MCItemLists == {<<L(r1, 1)>>, <<L(r1, 1), L(r2, 1)>>}

\* The transactions that these lists give rise to; two edits at once leave the
\* lines of both.
MCLists == ItemLists \cup {i \o j : i, j \in ItemLists}
MCScripts ==
  {ReserveCalls(i) : i \in MCLists} \cup {DeliverCalls(i) : i \in MCLists}
    \cup {<<c>> : c \in StockCalls}
    \cup {<<Release(l.row, l.n)>> : l \in UNION {Range(i) : i \in ItemLists}}

VARIABLE left   \* how many requests may still begin

MCInit == SalesInit /\ left = MaxRequests

MCNext ==
  \/ \E o \in Orders, items \in ItemLists : CreateSalesOrder(o, items) /\ UNCHANGED left
  \/ \E p \in Procs : Start(p) /\ left > 0 /\ left' = left - 1
  \/ \E p \in Procs : Continue(p) /\ UNCHANGED left

MCSpec == MCInit /\ [][MCNext]_<<vars, left>>

Symmetry == Permutations(Procs) \cup Permutations(Orders)
=============================================================================
