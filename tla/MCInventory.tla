---------------------------- MODULE MCInventory ----------------------------
(***************************************************************************)
(* Inventory for TLC: two stock rows, two requests, every call alone and   *)
(* the multi-call transactions of the callers, each request running at     *)
(* most MaxTransactions of them.                                           *)
(***************************************************************************)
EXTENDS Inventory

CONSTANTS r1, r2, MaxTransactions

MCRows == {r1, r2}

MCOpening == [k \in MCRows |-> IF k = r1 THEN 1 ELSE 0]

MCScripts ==
  {<<Apply(r1, n)>> : n \in {-1, 0, 2}}
    \cup {<<Reserve(r1, 1)>>, <<Release(r1, 1)>>}
    \cup {<<Apply(r1, 1), Apply(r2, 1)>>,       \* a goods receipt
          <<Reserve(r1, 1), Reserve(r2, 1)>>,   \* two orders whose lines name
          <<Reserve(r2, 1), Reserve(r1, 1)>>,   \* the rows in opposite order
          <<Apply(r1, -1), Release(r1, 1)>>}    \* a delivery

VARIABLE left   \* left[p]: how many transactions p may still begin

MCInit == StockInit /\ left = [p \in Procs |-> MaxTransactions]

Start(p) ==
  /\ left[p] > 0
  /\ left' = [left EXCEPT ![p] = @ - 1]
  /\ \E s \in Scripts : Begin(p, s)

MCNext ==
  \E p \in Procs :
    \/ Start(p)
    \/ BadAmount(p) /\ UNCHANGED left
    \/ CheckOnHand(p) /\ UNCHANGED left
    \/ ApplyStockChange(p) /\ UNCHANGED left
    \/ ReserveStock(p) /\ UNCHANGED left
    \/ ReleaseReservation(p) /\ UNCHANGED left
    \/ Commit(p) /\ UNCHANGED left
    \/ DeadlockVictim(p) /\ UNCHANGED left
    \/ Interrupt(p) /\ UNCHANGED left

MCSpec == MCInit /\ [][MCNext]_<<stockVars, left>> /\ StockFairness
=============================================================================
