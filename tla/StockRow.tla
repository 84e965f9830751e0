------------------------------ MODULE StockRow ------------------------------
(***************************************************************************)
(* One stock_levels row and what the SQL of InventoryService does to it    *)
(* (src/backend-nest/src/inventory/inventory.service.ts).                  *)
(***************************************************************************)
EXTENDS Integers, Sequences

CONSTANTS
  Rows,     \* the stock rows: one per (tenantId, sku, location)
  Opening   \* Opening[k]: what earlier receipts have left on row k

ASSUME OpeningAssumption == Opening \in [Rows -> Nat]

(***************************************************************************)
(* One call inside a transaction: the service method, the row it names and *)
(* its rounded amount (Math.round), which the method itself validates.     *)
(***************************************************************************)
Call == [op : {"apply", "reserve", "release"}, row : Rows, n : Int]

Apply(k, n) == [op |-> "apply", row |-> k, n |-> n]
Reserve(k, n) == [op |-> "reserve", row |-> k, n |-> n]
Release(k, n) == [op |-> "release", row |-> k, n |-> n]

\* "Change must be a non-zero number", "Quantity must be a positive number"
ValidAmount(c) == IF c.op = "apply" THEN c.n # 0 ELSE c.n > 0

(***************************************************************************)
(* A stock_levels row, with what the append-only stock_movements table     *)
(* says about the same (sku, location): moved is the sum of the quantities *)
(* of its movements that change the goods on hand (IN, OUT, ADJUSTMENT,    *)
(* PURCHASE_RECEIPT...), held the sum of its RESERVE and RELEASE movements. *)
(* A row that does not exist yet is a row of zeros: every method treats    *)
(* the two alike (the upsert inserts what it would have updated, the other *)
(* calls refuse both).                                                     *)
(***************************************************************************)
Row == [quantity : Nat, reserved : Nat, available : Nat, moved : Int, held : Int]

OpeningRow(n) ==
  [quantity |-> n, reserved |-> 0, available |-> n, moved |-> n, held |-> 0]

\* GREATEST(0, x)
AtLeastZero(x) == IF x > 0 THEN x ELSE 0

\* Mutant of Applied: the update takes the inserted row's reserved column.
AppliedAsInserted(r, change) ==
  LET onHand == AtLeastZero(r.quantity + change)
  IN  [r EXCEPT !.quantity = onHand, !.available = onHand, !.reserved = 0,
                !.moved = @ + change]

\* Mutant of Applied: the movement loses the sign of the change.
AppliedUnsigned(r, change) ==
  LET onHand == AtLeastZero(r.quantity + change)
  IN  [r EXCEPT !.quantity = onHand,
                !.available = AtLeastZero(onHand - r.reserved),
                !.moved = @ + (IF change < 0 THEN -change ELSE change)]

\* INSERT ... ON CONFLICT DO UPDATE of applyStockChangeWithin, and its movement.
Applied(r, change) ==
  LET onHand == AtLeastZero(r.quantity + change)
  IN  [r EXCEPT !.quantity = onHand,
                !.available = AtLeastZero(onHand - r.reserved),
                !.moved = @ + change]

\* Mutant of CanReserve: the predicate names the wrong column.
CanReserveOnHand(r, n) == r.quantity >= n

\* UPDATE of reserveStockWithin: its WHERE, and its SET with the RESERVE movement.
CanReserve(r, n) == r.available >= n

Reserved(r, n) ==
  [r EXCEPT !.reserved = @ + n, !.available = @ - n, !.held = @ + n]

\* Mutant of Released: the units do not become available again.
ReleasedOnly(r, n) == [r EXCEPT !.reserved = @ - n, !.held = @ - n]

\* UPDATE of releaseReservationWithin, likewise; its movement's quantity is -n.
CanRelease(r, n) == r.reserved >= n

Released(r, n) ==
  [r EXCEPT !.reserved = @ - n, !.available = @ + n, !.held = @ - n]
=============================================================================
