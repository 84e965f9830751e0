---------------------------- MODULE MCPurchasing ----------------------------
(***************************************************************************)
(* Purchasing for TLC: a bounded number of requests, counted over all      *)
(* processes; an order of two lines, one of them received in two parts or  *)
(* at once; one receipt number that clients use.                           *)
(***************************************************************************)
EXTENDS Purchasing, TLC

CONSTANTS r1, r2, MaxRequests

MCRows == {r1, r2}
MCOpening == [k \in MCRows |-> 0]

L(k, n) == [row |-> k, n |-> n, received |-> 0, edit |-> 0]
MCItemLists == {<<L(r1, 2), L(r2, 1)>>}

E(i, n) == [line |-> i, n |-> n]
MCDeliveries ==
  {<<E(1, 1)>>, <<E(1, 2), E(2, 1)>>, <<E(2, 1), E(1, 1)>>, <<E(2, 1), E(2, 1)>>,
   <<E(3, 1)>>}

\* The lines of an order that has been edited once follow its first ones.
MCScripts ==
  {StockCalls(i \o j, entries) : i, j \in ItemLists, entries \in Deliveries}

VARIABLE left   \* how many requests may still begin

MCInit == PurchaseInit /\ left = MaxRequests

MCNext ==
  \/ \E o \in Orders, items \in ItemLists : CreatePurchaseOrder(o, items) /\ UNCHANGED left
  \/ \E p \in Procs : Start(p) /\ left > 0 /\ left' = left - 1
  \/ \E p \in Procs : Continue(p) /\ UNCHANGED left

MCSpec == MCInit /\ [][MCNext]_<<vars, left>>

Symmetry == Permutations(Procs) \cup Permutations(Orders)
=============================================================================
