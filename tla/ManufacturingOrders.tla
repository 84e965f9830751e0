------------------------- MODULE ManufacturingOrders -------------------------
(***************************************************************************)
(* The production orders of ManufacturingService                           *)
(* (src/backend-nest/src/manufacturing/manufacturing.service.ts): raw      *)
(* material is reserved when an order starts and consumed when it is done. *)
(* The service updates stock_levels itself, past InventoryService, and     *)
(* ProductionBatchService sets the status of the same orders when a stage  *)
(* starts or is returned.                                                  *)
(*                                                                         *)
(* A request reads the order and checks its status; its transaction reads  *)
(* the stock without a lock and then writes.  The writes touch one row of  *)
(* the material and commit in one step.                                    *)
(***************************************************************************)
EXTENDS Integers, Sequences, FiniteSets, Functions

CONSTANTS
  Orders,        \* production_orders rows; all with one bill of one material
  Locations,     \* the locations with a stock_levels row of the material
  Default,       \* DEFAULT_LOCATION
  Opening,       \* Opening[l]: the material at l
  Makers,         \* the requests in progress
  NoOrder,       \* the order of a request that has none
  OrderQuantities     \* planned and actual quantities; a unit needs one of material

ASSUME LocationsAssumption == IsFiniteSet(Locations) /\ Locations # {}
ASSUME OpeningAssumption == Opening \in [Locations -> Nat]
ASSUME OrderQuantitiesAssumption == OrderQuantities \subseteq Nat \ {0}
ASSUME NoOrderAssumption == NoOrder \notin Orders

VARIABLES
  order,      \* order[o]: its row and its material_consumption rows
  material,   \* material[l]: the stock_levels row of the material
  product,    \* quantity of the finished product
  held,       \* held[o]: what order o has added to reserved, less what it took
  made,       \* made[o]: what order o has added to the finished product
  orderRequest,    \* orderRequest[p]: what p has read
  twice,      \* locations at which an order without a reservation was completed
  odd         \* orders two requests of which overlapped or that a stage touched

manufacturingVars == <<order, material, product, held, made, orderRequest, twice, odd>>

Snapshot == [n : Nat, at : Locations]

OrderStatuses == {"PLANNED", "IN_PROGRESS", "COMPLETED", "CANCELLED"}

OrderRow ==
  [status : OrderStatuses, planned : OrderQuantities,
   actual : Nat, snapshots : Seq(Snapshot)]

MaterialRow == [quantity : Int, reserved : Int, available : Int]

\* enough: the transaction's check has passed, for n units at location `at'; row
\* and was: the consumption row it has found (0: none) and its quantity.
OrderRequest ==
  [op : {"none", "start", "complete", "cancel", "stage"}, order : Orders \cup {NoOrder},
   status : OrderStatuses \cup {"none"}, enough : BOOLEAN, n : Nat, at : Locations,
   row : Nat, was : Nat]

NoOrderRequest ==
  [op |-> "none", order |-> NoOrder, status |-> "none", enough |-> FALSE, n |-> 0,
   at |-> CHOOSE l \in Locations : TRUE, row |-> 0, was |-> 0]

ManufacturingInit ==
  /\ order \in [Orders -> {[status |-> "PLANNED", planned |-> n, actual |-> 0,
                            snapshots |-> << >>] : n \in OrderQuantities}]
  /\ material = [l \in Locations |->
                   [quantity |-> Opening[l], reserved |-> 0, available |-> Opening[l]]]
  /\ product = 0
  /\ held = [o \in Orders |-> 0]
  /\ made = [o \in Orders |-> 0]
  /\ orderRequest = [p \in Makers |-> NoOrderRequest]
  /\ twice = {}
  /\ odd = {}

\* resolveLocation: the preferred location if it has a row, or any that has.
Resolved(preferred) == IF preferred \in Locations THEN {preferred} ELSE Locations

\* available -n, reserved +n, and the other way round
Reserving(row, n) == [row EXCEPT !.available = @ - n, !.reserved = @ + n]

EndOrderRequest(p) == orderRequest' = [orderRequest EXCEPT ![p] = NoOrderRequest]

-----------------------------------------------------------------------------
\* Every handler starts by reading the order and checking its status.
ReadOrder(p, o, op, statuses) ==
  /\ orderRequest[p] = NoOrderRequest
  /\ order[o].status \in statuses
  /\ orderRequest' = [orderRequest EXCEPT ![p] =
       [NoOrderRequest EXCEPT !.op = op, !.order = o, !.status = order[o].status]]
  /\ odd' = IF \E q \in Makers : orderRequest[q].order = o THEN odd \cup {o} ELSE odd
  /\ UNCHANGED <<order, material, product, held, made, twice>>

\* startProductionOrder compares with what is available at all locations...
CheckMaterial(p) ==
  LET need == order[orderRequest[p].order].planned
  IN  /\ orderRequest[p].op = "start"
      /\ ~orderRequest[p].enough
      /\ SumFunctionOnSet([l \in Locations |-> material[l].available], Locations) >= need
      /\ \E l \in Resolved(Default) :
           orderRequest' = [orderRequest EXCEPT ![p].enough = TRUE, ![p].n = need, ![p].at = l]
      /\ UNCHANGED <<order, material, product, held, made, twice, odd>>

\* ...and reserves at one of them.
StartProductionOrder(p) ==
  LET r == orderRequest[p]
  IN  /\ r.op = "start"
      /\ r.enough
      /\ material' = [material EXCEPT ![r.at] = Reserving(@, r.n)]
      /\ held' = [held EXCEPT ![r.order] = @ + r.n]
      /\ order' = [order EXCEPT ![r.order].status = "IN_PROGRESS",
                                ![r.order].snapshots = Append(@, [n |-> r.n, at |-> r.at])]
      /\ EndOrderRequest(p)
      /\ UNCHANGED <<product, made, twice, odd>>

\* Mutant of CompletionAt: the difference to the reservation stays reserved.
CompletionKeepingExcess(row, reservedQty, n, legacy) ==
  [quantity |-> row.quantity - n,
   reserved |-> row.reserved - (IF n < reservedQty THEN n ELSE reservedQty),
   available |-> row.available - (IF n > reservedQty THEN n - reservedQty ELSE 0)
                               - (IF legacy THEN n ELSE 0)]

\* Mutant of CompletionAt: the consumption is always taken out of available.
CompletionChargedAgain(row, reservedQty, n, legacy) ==
  LET adjusted == Reserving(row, n - reservedQty)
  IN  [quantity |-> adjusted.quantity - n, reserved |-> adjusted.reserved - n,
       available |-> adjusted.available - n]

\* completeProductionOrder on the material's row: the difference between what is
\* needed and what was reserved is reserved or released, then the whole of it
\* consumed; an order without a reservation takes it out of available as well.
CompletionAt(row, reservedQty, n, legacy) ==
  LET adjusted == Reserving(row, n - reservedQty)
  IN  [quantity |-> adjusted.quantity - n, reserved |-> adjusted.reserved - n,
       available |-> adjusted.available - (IF legacy THEN n ELSE 0)]

\* What the material_consumption row i says was reserved; without one, nothing.
ReservedQty(o, i) == IF i = 0 THEN 0 ELSE o.snapshots[i].n

\* completeProductionOrder finds a material_consumption row of the order, if it
\* has one, and compares what is missing with what is available at its location...
CheckCompletion(p) ==
  LET o == order[orderRequest[p].order]
  IN  /\ orderRequest[p].op = "complete"
      /\ ~orderRequest[p].enough
      /\ \E n \in OrderQuantities, l \in Locations, i \in DOMAIN o.snapshots \cup {0} :
           /\ i # 0 <=> o.snapshots # << >>
           /\ i # 0 => l = o.snapshots[i].at
           /\ n > ReservedQty(o, i) => material[l].available >= n - ReservedQty(o, i)
           /\ orderRequest' = [orderRequest EXCEPT ![p] =
                [@ EXCEPT !.enough = TRUE, !.n = n, !.at = l, !.row = i, !.was = ReservedQty(o, i)]]
      /\ UNCHANGED <<order, material, product, held, made, twice, odd>>

\* The consumption row found now says what was consumed; without one, one is made.
CompletedRow(o, r) ==
  [o EXCEPT !.status = "COMPLETED", !.actual = r.n,
            !.snapshots = IF r.row = 0 THEN Append(@, [n |-> r.n, at |-> r.at])
                          ELSE [@ EXCEPT ![r.row].n = r.n]]

\* ...then consumes it and books the product.
CompleteProductionOrder(p) ==
  LET r == orderRequest[p]
  IN  /\ r.op = "complete"
      /\ r.enough
      /\ material' = [material EXCEPT ![r.at] = CompletionAt(@, r.was, r.n, r.row = 0)]
      /\ held' = [held EXCEPT ![r.order] = @ + material'[r.at].reserved - material[r.at].reserved]
      /\ order' = [order EXCEPT ![r.order] = CompletedRow(@, r)]
      /\ product' = product + r.n
      /\ made' = [made EXCEPT ![r.order] = @ + r.n]
      /\ EndOrderRequest(p)
      /\ twice' = IF r.row = 0 THEN twice \cup {r.at} ELSE twice
      /\ UNCHANGED odd

\* What the consumption rows of an order say was reserved at a location.
SnapshotsAt(snapshots, l) ==
  SumFunctionOnSet([i \in DOMAIN snapshots |-> IF snapshots[i].at = l THEN snapshots[i].n ELSE 0],
                   DOMAIN snapshots)

\* cancelProductionOrder releases what the order's consumption rows say, if the
\* order was in progress when it was read.
CancelProductionOrder(p) ==
  LET r == orderRequest[p]
      o == order[r.order]
      taken == [l \in Locations |-> SnapshotsAt(o.snapshots, l)]
  IN  /\ r.op = "cancel"
      /\ IF r.status = "IN_PROGRESS"
         THEN /\ material' = [l \in Locations |-> Reserving(material[l], -taken[l])]
              /\ held' = [held EXCEPT ![r.order] = @ - SumFunctionOnSet(taken, Locations)]
         ELSE UNCHANGED <<material, held>>
      /\ order' = [order EXCEPT ![r.order].status = "CANCELLED"]
      /\ EndOrderRequest(p)
      /\ UNCHANGED <<product, made, twice, odd>>

\* ProductionBatchService: startStage of a planned batch and returnToStage set
\* the order in progress, with no material reserved.
StageSetsInProgress(p) ==
  LET r == orderRequest[p]
  IN  /\ r.op = "stage"
      /\ order' = [order EXCEPT ![r.order].status = "IN_PROGRESS"]
      /\ odd' = odd \cup {r.order}
      /\ EndOrderRequest(p)
      /\ UNCHANGED <<material, product, held, made, twice>>

\* A check that fails, a crash: the transaction is rolled back.
FailManufacturing(p) ==
  /\ orderRequest[p] # NoOrderRequest
  /\ EndOrderRequest(p)
  /\ UNCHANGED <<order, material, product, held, made, twice, odd>>

ReadForOrderStart(p, o) == ReadOrder(p, o, "start", {"PLANNED"})
ReadForOrderComplete(p, o) == ReadOrder(p, o, "complete", {"IN_PROGRESS"})

ReadForOrderCancel(p, o) == ReadOrder(p, o, "cancel", {"PLANNED", "IN_PROGRESS"})
ReadForStage(p, o) ==
  ReadOrder(p, o, "stage", OrderStatuses)

StartManufacturing(p) ==
  \E o \in Orders :
    ReadForOrderStart(p, o) \/ ReadForOrderComplete(p, o) \/ ReadForOrderCancel(p, o) \/ ReadForStage(p, o)

ContinueManufacturing(p) ==
  \/ CheckMaterial(p) \/ StartProductionOrder(p)
  \/ CheckCompletion(p) \/ CompleteProductionOrder(p)
  \/ CancelProductionOrder(p) \/ StageSetsInProgress(p) \/ FailManufacturing(p)

ManufacturingNext == \E p \in Makers : StartManufacturing(p) \/ ContinueManufacturing(p)

ManufacturingSpec == ManufacturingInit /\ [][ManufacturingNext]_manufacturingVars

-----------------------------------------------------------------------------
(* Properties *)

\* Types.
ManufacturingTypeOK ==
  /\ order \in [Orders -> OrderRow]
  /\ material \in [Locations -> MaterialRow]
  /\ product \in Nat
  /\ held \in [Orders -> Int]
  /\ made \in [Orders -> Nat]
  /\ orderRequest \in [Makers -> OrderRequest]
  /\ twice \subseteq Locations
  /\ odd \subseteq Orders

\* An order holds material exactly while it is in progress, what it consumed is
\* what it recorded, and it brings its product in once.  Orders are excepted on
\* which two requests overlap or whose stages ProductionBatchService moves.
OrdersHoldTheirMaterial ==
  \A o \in Orders \ odd :
    /\ held[o] = IF order[o].status = "IN_PROGRESS" THEN order[o].planned ELSE 0
    /\ made[o] = IF order[o].status = "COMPLETED" THEN order[o].actual ELSE 0

\* "The reservation is only taken off reserved; available was charged when it was
\* made": available stays what is on hand and not reserved.  Excepted are
\* locations at which an order without a reservation was completed, which charges
\* available when it reserves the difference and again when it consumes.
AvailableIsUnreserved ==
  \A l \in Locations \ twice :
    material[l].available = material[l].quantity - material[l].reserved

\* Orders and balances agree on the material reserved, consumed and made.
MaterialAddsUp == OrdersHoldTheirMaterial /\ AvailableIsUnreserved
=============================================================================
