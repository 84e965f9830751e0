--------------------------- MODULE FactoryProofs ---------------------------
(***************************************************************************)
(* Proofs about the components of the factory, which share no state:       *)
(*                                                                         *)
(*  - ProductionBatches, for any batches, stages, warehouses and requests, *)
(*    and whatever quantities clients send: the stages account for their   *)
(*    units, the balances of the sub-warehouses are what the transfers     *)
(*    say, and a locked cost record keeps its figures;                     *)
(*  - CycleCounts, for any counts, requests and stock: a count writes off  *)
(*    what is missing and no more;                                         *)
(*  - ShortCache, for any keys, prefixes, calls and lifetimes: one process *)
(*    runs at most one producer of a key, and what an invalidation leaves  *)
(*    behind was on its way while it ran or lay in a Redis it could not    *)
(*    reach;                                                               *)
(*  - ManufacturingOrders, for any orders, locations and requests: what is *)
(*    reserved is what the orders in progress hold, and what was made is   *)
(*    what the completed ones say;                                         *)
(*  - Fulfilment, for any pick lists, lines, shipments and requests: a     *)
(*    list is completed when its lines are done;                           *)
(*  - Batches, for any batches, places, documents and transactions: the    *)
(*    batches, their levels and the stock add up between any two           *)
(*    statements that transactions interleave.                             *)
(***************************************************************************)
EXTENDS Factory, Sums, FiniteSetTheorems, SequenceTheorems, TLAPS

-----------------------------------------------------------------------------
(* Production batches *)

\* Every row of a sub-warehouse holds a count.
LevelsAreCounts == level \in [DOMAIN level -> Nat]

\* What a request names is there.
RequestsAreSane ==
  \A p \in Procs :
    /\ request[p].op \in {"start", "complete", "return", "calculate"} => request[p].at \in Batches
    /\ request[p].op \in {"start", "complete", "return"} => request[p].s \in Stages

\* A transfer has locked its source, in which there still is what it takes.
TransfersHoldTheirSource ==
  \A p \in Procs :
    request[p].op = "transfer" =>
      /\ request[p].at \in DOMAIN level
      /\ request[p].s \in Warehouses \cap opened /\ request[p].s # request[p].at
      /\ locked[request[p].at] = p
      /\ request[p].n <= level[request[p].at]

\* Nothing is counted for a stage, nor left over from it, before it is completed.
OpenStagesHaveNoOutput ==
  \A b \in Batches \ redone, s \in Stages :
    stage[b][s].status # "COMPLETED" =>
      stage[b][s].output = 0 /\ (s = Last => b \notin unplaced)

\* The inductive invariant, in two halves: the stages...
StageInvariant ==
  /\ ProductionTypeOK
  /\ RequestsAreSane
  /\ StagesAccountForUnits
  /\ OpenStagesHaveNoOutput

\* ...and the sub-warehouses.
WarehouseInvariant ==
  /\ LevelsAreCounts
  /\ TransfersHoldTheirSource
  /\ BalancesMatchTransfers

ProductionInvariant == StageInvariant /\ WarehouseInvariant

\* A calculation that is under way while the record is locked is known to be.
CalculationsKnowLocks ==
  \A p \in Procs :
    request[p].op = "calculate" /\ cost[request[p].at].isLocked => request[p].raced

-----------------------------------------------------------------------------
(* Requests, rows and levels *)

\* No request is one, and it names nothing.
LEMMA NoRequestIsRequest ==
  NoRequest \in Request /\ NoRequest.op = "none"
BY DEF NoRequest, Request

\* One place of a table is written, and nothing else.
LEMMA OnePlaceIsWritten ==
  ASSUME NEW A, NEW B, NEW C, NEW f \in [A -> [B -> C]], NEW a \in A, NEW b \in B, NEW c \in C,
         NEW g, g = [f EXCEPT ![a] = [f[a] EXCEPT ![b] = c]]
  PROVE  /\ g \in [A -> [B -> C]]
         /\ g[a][b] = c
         /\ \A x \in A, y \in B : x # a \/ y # b => g[x][y] = f[x][y]
OBVIOUS

\* A row that gets n units: what all levels are after it.
LEMMA PlusAdds ==
  ASSUME LevelsAreCounts, NEW w \in Warehouses, NEW n \in Nat
  PROVE  /\ Plus(w, n) \in [DOMAIN level \cup {w} -> Nat]
         /\ \A x \in DOMAIN level \ {w} : Plus(w, n)[x] = level[x]
         /\ Plus(w, n)[w] = (IF w \in DOMAIN level THEN level[w] ELSE 0) + n
<1>1. \A x \in DOMAIN level : level[x] \in Nat
  BY DEF LevelsAreCounts
<1> QED
  BY <1>1 DEF Plus

\* Ending a request leaves nothing of it and the others as they were.
LEMMA EndingARequest ==
  ASSUME ProductionTypeOK, NEW p \in Procs, Ends(p)
  PROVE  /\ request' \in [Procs -> Request]
         /\ request'[p].op = "none"
         /\ \A q \in Procs \ {p} : request'[q] = request[q]
BY NoRequestIsRequest DEF ProductionTypeOK, Ends

\* A transfer that ends gives back its rows and no others.
LEMMA UnlockedIsLocks ==
  ASSUME ProductionTypeOK, NEW p \in Procs
  PROVE  /\ Unlocked(p) \in [Warehouses -> Procs \cup {Nobody}]
         /\ \A w \in Warehouses, q \in Procs \ {p} : locked[w] = q => Unlocked(p)[w] = q
BY DEF ProductionTypeOK, Unlocked

-----------------------------------------------------------------------------
(* Actions that leave one half alone *)

\* The stages of a batch: all that the first half speaks of besides requests.
stageRows == <<stage, counted, arrived, redone, unplaced>>

\* The sub-warehouses: all that the second half speaks of besides requests.
warehouseRows == <<level, locked, moves>>

\* Whoever leaves the stages' rows alone keeps what is said of them.
LEMMA StagesLeftAlone ==
  ASSUME StageInvariant, ProductionTypeOK', RequestsAreSane', UNCHANGED stageRows
  PROVE  StageInvariant'
BY DEF StageInvariant, stageRows, StagesAccountForUnits, StageAccountsForInput,
       OutputIsCountedOnce, OpenStagesHaveNoOutput

\* Whoever leaves the warehouses' rows alone and asks no transfer keeps the rest.
LEMMA WarehousesLeftAlone ==
  ASSUME WarehouseInvariant, UNCHANGED warehouseRows, opened \subseteq opened',
         \A q \in Procs : request'[q].op = "transfer" =>
            /\ request[q].op = "transfer"
            /\ request'[q].at = request[q].at /\ request'[q].s = request[q].s
            /\ request'[q].n = request[q].n
  PROVE  WarehouseInvariant'
BY DEF WarehouseInvariant, warehouseRows, LevelsAreCounts, TransfersHoldTheirSource,
       BalancesMatchTransfers

-----------------------------------------------------------------------------
(* Requests that read *)

\* A request of a stage or of costs reads and is sane; it moves nothing.
LEMMA AskingForABatch ==
  ASSUME ProductionInvariant, NEW p \in Procs, NEW r \in Request, Asks(p, r),
         r.op \in {"start", "complete", "return", "calculate"}, r.at \in Batches,
         r.op # "calculate" => r.s \in Stages,
         UNCHANGED <<opened, stage, status, counted, cost, level, locked, moves, arrived, redone,
                     unplaced>>
  PROVE  ProductionInvariant'
<1>1. /\ request' \in [Procs -> Request]
      /\ request'[p] = r
      /\ \A q \in Procs \ {p} : request'[q] = request[q]
  BY DEF ProductionInvariant, StageInvariant, ProductionTypeOK, Asks
<1>2. ProductionTypeOK'
  BY <1>1 DEF ProductionInvariant, StageInvariant, ProductionTypeOK
<1>3. RequestsAreSane'
  <2> SUFFICES ASSUME NEW q \in Procs
               PROVE  /\ request'[q].op \in {"start", "complete", "return", "calculate"} =>
                           request'[q].at \in Batches
                      /\ request'[q].op \in {"start", "complete", "return"} =>
                           request'[q].s \in Stages
    BY DEF RequestsAreSane, Stages
  <2>1. CASE q = p
    BY <2>1, <1>1
  <2>2. CASE q # p
    BY <2>2, <1>1 DEF ProductionInvariant, StageInvariant, RequestsAreSane
  <2> QED
    BY <2>1, <2>2
<1>4. StageInvariant'
  BY <1>2, <1>3, StagesLeftAlone DEF ProductionInvariant, stageRows
<1>5. WarehouseInvariant'
  <2>1. \A q \in Procs : request'[q].op = "transfer" => q # p
    BY <1>1
  <2> QED
    BY <2>1, <1>1, WarehousesLeftAlone DEF ProductionInvariant, warehouseRows
<1> QED
  BY <1>4, <1>5 DEF ProductionInvariant

\* startStage, completeStage, returnToStage and calculateCost read.
LEMMA ReadingKeepsTheInvariant ==
  ASSUME ProductionInvariant, NEW p \in Procs, NEW b \in Batches,
         \/ \E s \in Stages : ReadForStart(p, b, s) \/ ReadForComplete(p, b, s) \/ ReadForReturn(p, b, s)
         \/ ReadForCost(p, b)
  PROVE  ProductionInvariant'
<1>1. /\ stage \in [Batches -> [Stages -> Stage]]
      /\ \A s \in Stages : stage[b][s].output \in Nat
      /\ Stages \subseteq Nat /\ Last \in Stages /\ NoRequest \in Request
  <2>1. stage \in [Batches -> [Stages -> Stage]]
    BY DEF ProductionInvariant, StageInvariant, ProductionTypeOK
  <2>2. \A s \in Stages : stage[b][s] \in Stage
    BY <2>1
  <2>3. Stages \subseteq Nat /\ Last \in Stages
    BY LastAssumption DEF Stages
  <2> QED
    BY <2>1, <2>2, <2>3, NoRequestIsRequest DEF Stage
<1>2. ASSUME NEW s \in Stages, ReadForStart(p, b, s) PROVE ProductionInvariant'
  <2>1. PICK n \in Quantities :
          Asks(p, [NoRequest EXCEPT !.op = "start", !.at = b, !.s = s, !.seen = status[b] = "PLANNED",
                   !.n = IF n > 0 THEN n ELSE IF s > 1 THEN stage[b][s - 1].output ELSE 0])
    BY <1>2 DEF ReadForStart
  <2> DEFINE i == IF n > 0 THEN n ELSE IF s > 1 THEN stage[b][s - 1].output ELSE 0
             e == status[b] = "PLANNED"
             r == [NoRequest EXCEPT !.op = "start", !.at = b, !.s = s, !.seen = e, !.n = i]
  <2>2. i \in Nat
    <3>1. s > 1 => s - 1 \in Stages
      BY LastAssumption DEF Stages
    <3> QED
      BY <3>1, <1>1, QuantitiesAssumption
  <2> HIDE DEF i, e
  <2>3. r \in Request /\ r.op = "start" /\ r.at = b /\ r.s = s
    <3>1. e \in BOOLEAN
      BY DEF e
    <3> QED
      BY <2>2, <3>1, <1>1 DEF Request
  <2>4. Asks(p, r)
    BY <2>1 DEF i, e
  <2>5. UNCHANGED <<opened, stage, status, counted, cost, level, locked, moves, arrived, redone, unplaced>>
    BY <1>2 DEF ReadForStart
  <2> QED
    BY <2>3, <2>4, <2>5, AskingForABatch
<1>3. ASSUME NEW s \in Stages, ReadForComplete(p, b, s) PROVE ProductionInvariant'
  <2>1. PICK n \in Quantities, m \in Quantities :
          Asks(p, [NoRequest EXCEPT !.op = "complete", !.at = b, !.s = s, !.n = n, !.m = m])
    BY <1>3 DEF ReadForComplete
  <2> DEFINE r == [NoRequest EXCEPT !.op = "complete", !.at = b, !.s = s, !.n = n, !.m = m]
  <2>2. r \in Request /\ r.op = "complete" /\ r.at = b /\ r.s = s
    BY <1>1, QuantitiesAssumption DEF Request
  <2>3. Asks(p, r)
    BY <2>1
  <2>4. UNCHANGED <<opened, stage, status, counted, cost, level, locked, moves, arrived, redone, unplaced>>
    BY <1>3 DEF ReadForComplete
  <2> QED
    BY <2>2, <2>3, <2>4, AskingForABatch
<1>4. ASSUME NEW s \in Stages, ReadForReturn(p, b, s) PROVE ProductionInvariant'
  <2> DEFINE r == [NoRequest EXCEPT !.op = "return", !.at = b, !.s = s]
  <2>1. r \in Request /\ r.op = "return" /\ r.at = b /\ r.s = s
    BY <1>1 DEF Request
  <2>2. Asks(p, r)
    BY <1>4 DEF ReadForReturn
  <2>3. UNCHANGED <<opened, stage, status, counted, cost, level, locked, moves, arrived, redone, unplaced>>
    BY <1>4 DEF ReadForReturn
  <2> QED
    BY <2>1, <2>2, <2>3, AskingForABatch
<1>5. ASSUME ReadForCost(p, b) PROVE ProductionInvariant'
  <2> DEFINE r == [NoRequest EXCEPT !.op = "calculate", !.at = b, !.n = stage[b][Last].output]
  <2>1. r \in Request /\ r.op = "calculate" /\ r.at = b
    BY <1>1 DEF Request
  <2>2. Asks(p, r)
    BY <1>5 DEF ReadForCost
  <2>3. UNCHANGED <<opened, stage, status, counted, cost, level, locked, moves, arrived, redone, unplaced>>
    BY <1>5 DEF ReadForCost
  <2> QED
    BY <2>1, <2>2, <2>3, AskingForABatch
<1> QED
  BY <1>2, <1>3, <1>4, <1>5

\* createTransfer locks its source and finds enough there.
LEMMA BeginningATransfer ==
  ASSUME ProductionInvariant, NEW p \in Procs, NEW from \in Warehouses, NEW to \in Warehouses,
         BeginTransfer(p, from, to)
  PROVE  ProductionInvariant'
<1>1. PICK n \in Quantities \ {0} :
        /\ level[from] >= n
        /\ Asks(p, [NoRequest EXCEPT !.op = "transfer", !.at = from, !.s = to, !.n = n,
                                     !.seen = to \in DOMAIN level])
  BY DEF BeginTransfer
<1> DEFINE e == to \in DOMAIN level
           r == [NoRequest EXCEPT !.op = "transfer", !.at = from, !.s = to, !.n = n, !.seen = e]
<1>2. /\ r \in Request /\ r.op = "transfer" /\ r.at = from /\ r.s = to /\ r.n = n
      /\ Asks(p, r)
  <2>1. e \in BOOLEAN /\ n \in Nat
    BY QuantitiesAssumption
  <2>2. Asks(p, r)
    BY <1>1
  <2> HIDE DEF e
  <2>3. NoRequest \in Request
    BY NoRequestIsRequest
  <2>4. r \in Request /\ r.op = "transfer" /\ r.at = from /\ r.s = to /\ r.n = n
    BY <2>1, <2>3 DEF Request
  <2> QED
    BY <2>2, <2>4
<1> HIDE DEF r
<1>3. /\ request' \in [Procs -> Request]
      /\ request'[p] = r
      /\ \A q \in Procs \ {p} : request'[q] = request[q]
  BY <1>2 DEF ProductionInvariant, StageInvariant, ProductionTypeOK, Asks
<1>4. /\ locked' \in [Warehouses -> Procs \cup {Nobody}]
      /\ locked'[from] = p
      /\ \A w \in Warehouses \ {from} : locked'[w] = locked[w]
      /\ locked[from] = Nobody
  BY DEF ProductionInvariant, StageInvariant, ProductionTypeOK, BeginTransfer
<1>5. ProductionTypeOK'
  BY <1>3, <1>4 DEF ProductionInvariant, StageInvariant, ProductionTypeOK, BeginTransfer
<1>6. RequestsAreSane'
  <2> SUFFICES ASSUME NEW q \in Procs
               PROVE  /\ request'[q].op \in {"start", "complete", "return", "calculate"} =>
                           request'[q].at \in Batches
                      /\ request'[q].op \in {"start", "complete", "return"} =>
                           request'[q].s \in Stages
    BY DEF RequestsAreSane, Stages
  <2>1. CASE q = p
    BY <2>1, <1>2, <1>3
  <2>2. CASE q # p
    BY <2>2, <1>3 DEF ProductionInvariant, StageInvariant, RequestsAreSane
  <2> QED
    BY <2>1, <2>2
<1>7. StageInvariant'
  BY <1>5, <1>6, StagesLeftAlone DEF ProductionInvariant, stageRows, BeginTransfer
<1>8. TransfersHoldTheirSource'
  <2> SUFFICES ASSUME NEW q \in Procs, request'[q].op = "transfer"
               PROVE  /\ request'[q].at \in DOMAIN level'
                      /\ request'[q].s \in Warehouses \cap opened' /\ request'[q].s # request'[q].at
                      /\ locked'[request'[q].at] = q
                      /\ request'[q].n <= level'[request'[q].at]
    BY DEF TransfersHoldTheirSource
  <2>1. CASE q = p
    <3>1. level[from] \in Nat
      BY DEF ProductionInvariant, WarehouseInvariant, LevelsAreCounts, BeginTransfer
    <3> QED
      BY <2>1, <3>1, <1>1, <1>2, <1>3, <1>4, QuantitiesAssumption DEF BeginTransfer
  <2>2. CASE q # p
    <3>1. request[q].op = "transfer" /\ request'[q] = request[q]
      BY <2>2, <1>3
    <3>2. locked[request[q].at] = q /\ request[q].at \in Warehouses
      BY <3>1 DEF ProductionInvariant, StageInvariant, ProductionTypeOK, WarehouseInvariant,
                  TransfersHoldTheirSource
    <3>3. request[q].at # from
      BY <3>2, <1>4, NobodyAssumption
    <3> QED
      BY <3>1, <3>2, <3>3, <1>4 DEF ProductionInvariant, WarehouseInvariant,
                                    TransfersHoldTheirSource, BeginTransfer
  <2> QED
    BY <2>1, <2>2
<1>9. WarehouseInvariant'
  BY <1>8 DEF ProductionInvariant, WarehouseInvariant, LevelsAreCounts, BalancesMatchTransfers,
              BeginTransfer
<1> QED
  BY <1>7, <1>9 DEF ProductionInvariant

-----------------------------------------------------------------------------
(* Requests that write *)

\* After a request has ended, the others are as sane as before.
LEMMA EndingKeepsSanity ==
  ASSUME StageInvariant, NEW p \in Procs, Ends(p)
  PROVE  RequestsAreSane'
<1>1. /\ request'[p].op = "none"
      /\ \A q \in Procs \ {p} : request'[q] = request[q]
  BY EndingARequest DEF StageInvariant
<1> SUFFICES ASSUME NEW q \in Procs
             PROVE  /\ request'[q].op \in {"start", "complete", "return", "calculate"} =>
                         request'[q].at \in Batches
                    /\ request'[q].op \in {"start", "complete", "return"} =>
                         request'[q].s \in Stages
  BY DEF RequestsAreSane, Stages
<1>2. CASE q = p
  BY <1>1, <1>2
<1>3. CASE q # p
  BY <1>1, <1>3 DEF StageInvariant, RequestsAreSane
<1> QED
  BY <1>2, <1>3

\* Ending a request that moved no goods leaves the warehouses' half.
LEMMA EndingKeepsWarehouses ==
  ASSUME ProductionInvariant, NEW p \in Procs, Ends(p), UNCHANGED warehouseRows,
         opened \subseteq opened'
  PROVE  WarehouseInvariant'
<1>1. /\ request'[p].op = "none"
      /\ \A q \in Procs \ {p} : request'[q] = request[q]
  BY EndingARequest DEF ProductionInvariant, StageInvariant
<1>2. \A q \in Procs : request'[q].op = "transfer" => q # p
  BY <1>1
<1> QED
  BY <1>1, <1>2, WarehousesLeftAlone DEF ProductionInvariant

\* startStage: the stage is open, or its batch is one of the redone ones.
LEMMA StartingAStage ==
  ASSUME ProductionInvariant, NEW p \in Procs, StartStage(p)
  PROVE  ProductionInvariant'
<1> DEFINE r == request[p]
<1>0. /\ ProductionTypeOK /\ Ends(p) /\ r.op = "start"
      /\ r.at \in Batches /\ r.s \in Stages /\ r.n \in Nat
  BY DEF ProductionInvariant, StageInvariant, ProductionTypeOK, RequestsAreSane, Request, StartStage
<1>1. /\ stage \in [Batches -> [Stages -> Stage]]
      /\ stage' = [stage EXCEPT ![r.at][r.s].status = "IN_PROGRESS", ![r.at][r.s].input = r.n]
  BY DEF ProductionInvariant, StageInvariant, ProductionTypeOK, StartStage
<1>2. /\ stage' \in [Batches -> [Stages -> Stage]]
      /\ \A b \in Batches, s \in Stages :
           /\ stage'[b][s].output = stage[b][s].output
           /\ b # r.at \/ s # r.s => stage'[b][s] = stage[b][s]
      /\ stage'[r.at][r.s].status = "IN_PROGRESS"
  <2> DEFINE old == stage[r.at][r.s]
             new == [old EXCEPT !.status = "IN_PROGRESS", !.input = r.n]
  <2>1. old \in Stage
    BY <1>0, <1>1
  <2>2. new \in Stage /\ new.status = "IN_PROGRESS" /\ new.output = old.output
    BY <1>0, <2>1 DEF Stage
  <2>3. stage' = [stage EXCEPT ![r.at] = [stage[r.at] EXCEPT ![r.s] = new]]
    BY <1>0, <1>1
  <2> HIDE DEF new
  <2>4. /\ stage' \in [Batches -> [Stages -> Stage]]
        /\ stage'[r.at][r.s] = new
        /\ \A b \in Batches, s \in Stages : b # r.at \/ s # r.s => stage'[b][s] = stage[b][s]
    <3>1. stage \in [Batches -> [Stages -> Stage]] /\ new \in Stage
      BY <1>1, <2>2
    <3> HIDE DEF r
    <3> QED
      BY <1>0, <2>3, <3>1, OnePlaceIsWritten
  <2> QED
    BY <1>0, <2>2, <2>4
<1>3. /\ redone' = IF stage[r.at][r.s].status = "COMPLETED" THEN redone \cup {r.at} ELSE redone
      /\ redone \subseteq redone' /\ redone' \subseteq Batches
  BY <1>0 DEF ProductionTypeOK, StartStage
<1>4. ProductionTypeOK'
  BY <1>0, <1>2, <1>3, EndingARequest DEF ProductionTypeOK, StartStage
<1>5. RequestsAreSane'
  BY <1>0, EndingKeepsSanity DEF ProductionInvariant
<1>6. StageAccountsForInput'
  BY <1>0, <1>2 DEF ProductionInvariant, StageInvariant, StagesAccountForUnits, StageAccountsForInput
<1>7. OutputIsCountedOnce'
  <2>1. UNCHANGED <<counted, arrived, unplaced>>
    BY DEF StartStage
  <2> QED
    BY <1>2, <1>3, <2>1
       DEF ProductionInvariant, StageInvariant, StagesAccountForUnits, OutputIsCountedOnce
<1>8. OpenStagesHaveNoOutput'
  <2>1. UNCHANGED unplaced
    BY DEF StartStage
  <2> QED
    BY <1>0, <1>2, <1>3, <2>1 DEF ProductionInvariant, StageInvariant, OpenStagesHaveNoOutput
<1>9. WarehouseInvariant'
  BY <1>0, EndingKeepsWarehouses DEF StartStage, warehouseRows
<1> QED
  BY <1>4, <1>5, <1>6, <1>7, <1>8, <1>9 DEF ProductionInvariant, StageInvariant, StagesAccountForUnits

\* The stage that completeStage writes, and the warehouses it may add to.
LEMMA CompletingAStage ==
  ASSUME ProductionInvariant, NEW p \in Procs, CompleteStage(p)
  PROVE  ProductionInvariant'
<1> DEFINE r == request[p]
<1>0. /\ ProductionTypeOK /\ Ends(p) /\ r.op = "complete"
      /\ r.at \in Batches /\ r.s \in Stages /\ r.n \in Nat /\ r.m \in Nat
  BY DEF ProductionInvariant, StageInvariant, ProductionTypeOK, RequestsAreSane, Request, CompleteStage
<1>1. /\ stage[r.at][r.s].status # "COMPLETED"
      /\ r.n + r.m <= stage[r.at][r.s].input
  BY DEF CompleteStage, StillOpen
<1>2. /\ stage' \in [Batches -> [Stages -> Stage]]
      /\ \A b \in Batches, s \in Stages :
           b # r.at \/ s # r.s => stage'[b][s] = stage[b][s]
      /\ stage'[r.at][r.s].status = "COMPLETED"
      /\ stage'[r.at][r.s].input = stage[r.at][r.s].input
      /\ stage'[r.at][r.s].output = r.n
      /\ stage'[r.at][r.s].waste = r.m
  <2>1. stage' = [stage EXCEPT ![r.at][r.s] =
                    [@ EXCEPT !.status = "COMPLETED", !.output = r.n, !.waste = r.m]]
    BY DEF CompleteStage
  <2> DEFINE old == stage[r.at][r.s]
             new == [old EXCEPT !.status = "COMPLETED", !.output = r.n, !.waste = r.m]
  <2>2. stage \in [Batches -> [Stages -> Stage]] /\ old \in Stage
    BY <1>0 DEF ProductionTypeOK
  <2>3. /\ new \in Stage /\ new.status = "COMPLETED" /\ new.input = old.input
        /\ new.output = r.n /\ new.waste = r.m
    BY <1>0, <2>2 DEF Stage
  <2>4. stage' = [stage EXCEPT ![r.at] = [stage[r.at] EXCEPT ![r.s] = new]]
    BY <1>0, <2>1, <2>2
  <2> HIDE DEF new
  <2>5. /\ stage' \in [Batches -> [Stages -> Stage]]
        /\ stage'[r.at][r.s] = new
        /\ \A b \in Batches, s \in Stages : b # r.at \/ s # r.s => stage'[b][s] = stage[b][s]
    BY <1>0, <2>2, <2>3, <2>4, OnePlaceIsWritten
  <2> QED
    BY <1>0, <2>3, <2>5
<1>3. /\ counted' \in [Batches -> [Stages -> Nat]]
      /\ \A b \in Batches, s \in Stages :
           b # r.at \/ s # r.s => counted'[b][s] = counted[b][s]
      /\ counted'[r.at][r.s] = counted[r.at][r.s] + r.n
  BY <1>0 DEF ProductionTypeOK, CompleteStage
<1> DEFINE placed == r.s = Last /\ r.n > 0 /\ Finished \in opened
           left == r.s = Last /\ r.n > 0 /\ Finished \notin opened
<1>4. /\ arrived' \in [Batches -> Nat]
      /\ \A b \in Batches : b # r.at => arrived'[b] = arrived[b]
      /\ arrived'[r.at] = arrived[r.at] + (IF placed THEN r.n ELSE 0)
  <2>0. arrived \in [Batches -> Nat]
    BY <1>0 DEF ProductionTypeOK
  <2>1. CASE placed
    <3>1. arrived' = [arrived EXCEPT ![r.at] = @ + r.n]
      BY <2>1 DEF CompleteStage
    <3> QED
      BY <2>0, <2>1, <3>1, <1>0
  <2>2. CASE ~placed
    <3>1. arrived' = arrived
      BY <2>2 DEF CompleteStage
    <3> QED
      BY <2>0, <2>2, <3>1, <1>0
  <2> QED
    BY <2>1, <2>2
<1>12. /\ unplaced' = IF left THEN unplaced \cup {r.at} ELSE unplaced
       /\ unplaced' \subseteq Batches /\ opened' = opened /\ opened \subseteq Warehouses
  BY <1>0 DEF CompleteStage, ProductionTypeOK
<1>5. /\ moves' \in [Warehouses -> Int] /\ locked' = locked
      /\ LevelsAreCounts' /\ DOMAIN level' \subseteq opened
      /\ DOMAIN level \subseteq DOMAIN level'
      /\ \A w \in DOMAIN level : level'[w] >= level[w]
      /\ BalancesMatchTransfers'
  <2>0. /\ LevelsAreCounts /\ BalancesMatchTransfers /\ locked' = locked
        /\ DOMAIN level \subseteq opened /\ opened \subseteq Warehouses
        /\ \A w \in DOMAIN level : level[w] \in Nat
        /\ moves \in [Warehouses -> Int]
    BY DEF ProductionInvariant, StageInvariant, ProductionTypeOK, WarehouseInvariant, LevelsAreCounts,
           CompleteStage
  <2>1. CASE placed
    <3>1. /\ level' = Plus(Finished, r.n)
          /\ moves' = [moves EXCEPT ![Finished] = @ + r.n]
      BY <2>1 DEF CompleteStage
    <3>2. /\ level' \in [DOMAIN level \cup {Finished} -> Nat]
          /\ \A x \in DOMAIN level \ {Finished} : level'[x] = level[x]
          /\ level'[Finished] = (IF Finished \in DOMAIN level THEN level[Finished] ELSE 0) + r.n
      BY <2>0, <3>1, <1>0, FinishedAssumption, PlusAdds
    <3>3. DOMAIN level' = DOMAIN level \cup {Finished}
      BY <3>2
    <3>4. BalancesMatchTransfers'
      BY <2>0, <3>1, <3>2, <3>3, <1>0, FinishedAssumption DEF BalancesMatchTransfers
    <3>5. moves' \in [Warehouses -> Int]
      BY <2>0, <3>1, <1>0, FinishedAssumption
    <3> QED
      BY <2>0, <2>1, <3>2, <3>3, <3>4, <3>5, <1>0, FinishedAssumption DEF LevelsAreCounts
  <2>2. CASE ~placed
    <3>1. UNCHANGED <<level, moves>>
      BY <2>2 DEF CompleteStage
    <3> QED
      BY <2>0, <3>1 DEF LevelsAreCounts, BalancesMatchTransfers
  <2> QED
    BY <2>1, <2>2
<1>6. ProductionTypeOK'
  BY <1>0, <1>2, <1>3, <1>4, <1>5, <1>12, EndingARequest DEF ProductionTypeOK, CompleteStage
<1>7. RequestsAreSane'
  BY <1>0, EndingKeepsSanity DEF ProductionInvariant
<1>8. StageAccountsForInput'
  BY <1>0, <1>1, <1>2 DEF ProductionInvariant, StageInvariant, StagesAccountForUnits, StageAccountsForInput
<1>9. OutputIsCountedOnce'
  <2> SUFFICES ASSUME NEW b \in Batches, b \notin redone
               PROVE  /\ \A s \in Stages : counted'[b][s] = stage'[b][s].output
                      /\ arrived'[b] = IF b \in unplaced' THEN 0 ELSE counted'[b][Last]
    BY DEF OutputIsCountedOnce, CompleteStage
  <2>0. /\ \A s \in Stages : counted[b][s] = stage[b][s].output
        /\ arrived[b] = IF b \in unplaced THEN 0 ELSE counted[b][Last]
        /\ \A s \in Stages : stage[b][s].status # "COMPLETED" =>
             stage[b][s].output = 0 /\ (s = Last => b \notin unplaced)
    BY DEF ProductionInvariant, StageInvariant, StagesAccountForUnits, OutputIsCountedOnce,
           OpenStagesHaveNoOutput
  <2>a. Last \in Stages /\ counted[b][Last] \in Nat
    BY <1>0, LastAssumption DEF ProductionTypeOK, Stages
  <2>1. CASE b = r.at
    <3>1. counted[b][r.s] = 0 /\ (r.s = Last => b \notin unplaced)
      BY <2>0, <2>1, <1>0, <1>1
    <3>2. counted'[b][r.s] = r.n
      BY <3>1, <2>1, <1>0, <1>3
    <3>3. ASSUME NEW s \in Stages PROVE counted'[b][s] = stage'[b][s].output
      <4>1. CASE s = r.s
        BY <2>1, <3>2, <4>1, <1>0, <1>2
      <4>2. CASE s # r.s
        BY <2>0, <2>1, <4>2, <1>0, <1>2, <1>3
      <4> QED
        BY <4>1, <4>2
    <3>4. arrived'[b] = IF b \in unplaced' THEN 0 ELSE counted'[b][Last]
      <4>1. CASE r.s # Last
        <5>1. ~placed /\ ~left
          BY <4>1
        <5>2. counted'[b][Last] = counted[b][Last] /\ unplaced' = unplaced
          BY <2>1, <2>a, <4>1, <1>0, <1>3, <1>12, <5>1
        <5>3. arrived'[b] = arrived[b]
          BY <2>0, <2>1, <2>a, <5>1, <1>4
        <5> QED
          BY <2>0, <5>2, <5>3
      <4>2. CASE r.s = Last
        <5>1. arrived[b] = 0 /\ b \notin unplaced /\ counted'[b][Last] = r.n
          BY <2>0, <3>1, <3>2, <4>2
        <5> HIDE DEF r
        <5>2. placed \/ left \/ r.n = 0
          BY <1>0, <4>2
        <5> QED
          BY <2>1, <5>1, <5>2, <1>0, <1>4, <1>12
      <4> QED
        BY <4>1, <4>2
    <3> QED
      BY <3>3, <3>4
  <2>2. CASE b # r.at
    <3>1. arrived'[b] = arrived[b] /\ (b \in unplaced' <=> b \in unplaced)
      BY <2>2, <1>4, <1>12
    <3> HIDE DEF r, placed, left
    <3> QED
      BY <2>0, <2>a, <2>2, <3>1, <1>2, <1>3
  <2> QED
    BY <2>1, <2>2
<1>10. OpenStagesHaveNoOutput'
  <2>1. ASSUME NEW b \in Batches, NEW s \in Stages, ~(b = r.at /\ s = r.s)
        PROVE  stage'[b][s] = stage[b][s]
    BY <1>0, <1>2, <2>1
  <2>2. OpenStagesHaveNoOutput
    BY DEF ProductionInvariant, StageInvariant
  <2>3. redone' = redone
    BY DEF CompleteStage
  <2>4. stage'[r.at][r.s].status = "COMPLETED"
    BY <1>0, <1>2
  <2>5. ASSUME NEW b \in Batches, b \in unplaced', b \notin unplaced
        PROVE  b = r.at /\ r.s = Last
    BY <1>12, <2>5
  <2> HIDE DEF r
  <2> QED
    BY <2>1, <2>2, <2>3, <2>4, <2>5 DEF OpenStagesHaveNoOutput
<1>11. TransfersHoldTheirSource'
  <2>1. /\ request'[p].op = "none"
        /\ \A q \in Procs \ {p} : request'[q] = request[q]
    BY <1>0, EndingARequest
  <2> SUFFICES ASSUME NEW q \in Procs, request'[q].op = "transfer"
               PROVE  /\ request'[q].at \in DOMAIN level'
                      /\ request'[q].s \in Warehouses \cap opened' /\ request'[q].s # request'[q].at
                      /\ locked'[request'[q].at] = q
                      /\ request'[q].n <= level'[request'[q].at]
    BY DEF TransfersHoldTheirSource
  <2>2. request'[q] = request[q] /\ request[q] \in Request
    BY <2>1, <1>0 DEF ProductionTypeOK
  <2>3. /\ request[q].at \in DOMAIN level
        /\ request[q].s \in Warehouses \cap opened /\ request[q].s # request[q].at
        /\ locked[request[q].at] = q
        /\ request[q].n <= level[request[q].at]
    BY <2>2 DEF ProductionInvariant, WarehouseInvariant, TransfersHoldTheirSource
  <2>4. level[request[q].at] \in Nat /\ level'[request[q].at] \in Nat /\ request[q].n \in Nat
    BY <2>2, <2>3, <1>5 DEF ProductionInvariant, WarehouseInvariant, LevelsAreCounts, Request
  <2> QED
    BY <2>2, <2>3, <2>4, <1>5, <1>12
<1> QED
  BY <1>5, <1>6, <1>7, <1>8, <1>9, <1>10, <1>11
     DEF ProductionInvariant, StageInvariant, WarehouseInvariant, StagesAccountForUnits

\* returnToStage: the stages start anew, and their batch is a redone one.
LEMMA ReturningToAStage ==
  ASSUME ProductionInvariant, NEW p \in Procs, ReturnToStage(p)
  PROVE  ProductionInvariant'
<1> DEFINE r == request[p]
<1>0. ProductionTypeOK /\ Ends(p) /\ r.op = "return" /\ r.at \in Batches /\ r.s \in Stages
  BY DEF ProductionInvariant, StageInvariant, RequestsAreSane, ReturnToStage
<1>1. Pending \in Stage /\ Pending.status = "PENDING"
  BY DEF Pending, Stage
<1>2. /\ stage' \in [Batches -> [Stages -> Stage]]
      /\ \A b \in Batches \ {r.at} : stage'[b] = stage[b]
      /\ \A s \in Stages : stage'[r.at][s] \in {Pending, stage[r.at][s]}
  <2>1. stage' = [stage EXCEPT ![r.at] = [s \in Stages |-> IF s >= r.s THEN Pending ELSE @[s]]]
    BY DEF ReturnToStage
  <2>2. [s \in Stages |-> IF s >= r.s THEN Pending ELSE stage[r.at][s]] \in [Stages -> Stage]
    BY <1>0, <1>1 DEF ProductionTypeOK
  <2> QED
    BY <1>0, <2>1, <2>2 DEF ProductionTypeOK
<1>3. redone' = redone \cup {r.at}
  BY DEF ReturnToStage
<1>4. ProductionTypeOK'
  BY <1>0, <1>2, <1>3, EndingARequest DEF ProductionTypeOK, ReturnToStage
<1>5. RequestsAreSane'
  BY <1>0, EndingKeepsSanity DEF ProductionInvariant
<1>6. StageAccountsForInput'
  <2> SUFFICES ASSUME NEW b \in Batches, NEW s \in Stages, stage'[b][s].status = "COMPLETED"
               PROVE  stage'[b][s].output + stage'[b][s].waste <= stage'[b][s].input
    BY DEF StageAccountsForInput, Stages
  <2>1. stage'[b][s] = stage[b][s]
    BY <1>1, <1>2
  <2> QED
    BY <2>1 DEF ProductionInvariant, StageInvariant, StagesAccountForUnits, StageAccountsForInput
<1>7. OutputIsCountedOnce'
  BY <1>2, <1>3
     DEF ProductionInvariant, StageInvariant, StagesAccountForUnits, OutputIsCountedOnce, ReturnToStage
<1>8. OpenStagesHaveNoOutput'
  <2>1. UNCHANGED unplaced
    BY DEF ReturnToStage
  <2> QED
    BY <1>2, <1>3, <2>1 DEF ProductionInvariant, StageInvariant, OpenStagesHaveNoOutput
<1>9. WarehouseInvariant'
  BY <1>0, EndingKeepsWarehouses DEF ReturnToStage, warehouseRows
<1> QED
  BY <1>4, <1>5, <1>6, <1>7, <1>8, <1>9 DEF ProductionInvariant, StageInvariant, StagesAccountForUnits

\* createTransfer commits: the source, which it has locked, still has what it
\* takes, and nobody else's source loses anything.
LEMMA CommittingATransfer ==
  ASSUME ProductionInvariant, NEW p \in Procs, CommitTransfer(p)
  PROVE  ProductionInvariant'
<1> DEFINE r == request[p]
           added == Plus(r.s, r.n)
<1>0. /\ ProductionTypeOK /\ Ends(p) /\ r.op = "transfer"
      /\ LevelsAreCounts /\ BalancesMatchTransfers
      /\ r.n \in Nat /\ r.at \in DOMAIN level /\ r.at \in Warehouses
      /\ r.s \in Warehouses /\ r.s \in opened /\ opened' = opened /\ r.s # r.at
      /\ locked[r.at] = p /\ r.n <= level[r.at] /\ level[r.at] \in Nat
  <2>1. /\ ProductionTypeOK /\ r \in Request /\ r.op = "transfer"
        /\ LevelsAreCounts /\ BalancesMatchTransfers /\ TransfersHoldTheirSource
    BY DEF ProductionInvariant, StageInvariant, ProductionTypeOK, WarehouseInvariant, CommitTransfer
  <2> QED
    BY <2>1 DEF ProductionTypeOK, LevelsAreCounts, TransfersHoldTheirSource, Request, CommitTransfer
<1>1. /\ added \in [DOMAIN level \cup {r.s} -> Nat]
      /\ \A x \in DOMAIN level \ {r.s} : added[x] = level[x]
      /\ added[r.s] = (IF r.s \in DOMAIN level THEN level[r.s] ELSE 0) + r.n
  BY <1>0, PlusAdds
<1>2. level' = [added EXCEPT ![r.at] = @ - r.n]
  BY DEF CommitTransfer
<1>3. /\ level' \in [DOMAIN level \cup {r.s} -> Nat]
      /\ \A x \in DOMAIN level \ {r.s, r.at} : level'[x] = level[x]
      /\ level'[r.at] = level[r.at] - r.n
      /\ level'[r.s] = (IF r.s \in DOMAIN level THEN level[r.s] ELSE 0) + r.n
  <2>1. added[r.at] = level[r.at]
    BY <1>0, <1>1
  <2>2. level[r.at] - r.n \in Nat
    BY <1>0
  <2> HIDE DEF added
  <2> QED
    BY <1>0, <1>1, <1>2, <2>1, <2>2
<1>4. DOMAIN level' = DOMAIN level \cup {r.s}
  BY <1>3
<1>5. /\ moves' \in [Warehouses -> Int]
      /\ moves'[r.s] = moves[r.s] + r.n
      /\ moves'[r.at] = moves[r.at] - r.n
      /\ \A w \in Warehouses \ {r.s, r.at} : moves'[w] = moves[w]
  BY <1>0 DEF ProductionTypeOK, CommitTransfer
<1>6. BalancesMatchTransfers'
  <2> SUFFICES ASSUME NEW w \in Warehouses
               PROVE  LET balance == IF w \in DOMAIN level' THEN level'[w] ELSE 0
                      IN  balance = moves'[w] /\ balance >= 0
    BY DEF BalancesMatchTransfers
  <2>0. /\ (IF w \in DOMAIN level THEN level[w] ELSE 0) = moves[w]
        /\ w \in DOMAIN level => level[w] \in Nat
        /\ moves[w] \in Int
    BY <1>0 DEF BalancesMatchTransfers, LevelsAreCounts, ProductionTypeOK
  <2>1. CASE w = r.at
    BY <2>0, <2>1, <1>0, <1>3, <1>4, <1>5
  <2>2. CASE w = r.s
    BY <2>0, <2>2, <1>0, <1>3, <1>4, <1>5
  <2>3. CASE w \notin {r.at, r.s}
    BY <2>0, <2>3, <1>3, <1>4, <1>5
  <2> QED
    BY <2>1, <2>2, <2>3
<1>7. LevelsAreCounts' /\ DOMAIN level' \subseteq opened'
  BY <1>0, <1>3, <1>4 DEF LevelsAreCounts, ProductionTypeOK
<1>8. /\ locked' \in [Warehouses -> Procs \cup {Nobody}]
      /\ \A w \in Warehouses, q \in Procs \ {p} : locked[w] = q => locked'[w] = q
  BY <1>0, UnlockedIsLocks DEF CommitTransfer
<1>9. TransfersHoldTheirSource'
  <2>1. /\ request'[p].op = "none"
        /\ \A q \in Procs \ {p} : request'[q] = request[q]
    BY <1>0, EndingARequest
  <2> SUFFICES ASSUME NEW q \in Procs, request'[q].op = "transfer"
               PROVE  /\ request'[q].at \in DOMAIN level'
                      /\ request'[q].s \in Warehouses \cap opened' /\ request'[q].s # request'[q].at
                      /\ locked'[request'[q].at] = q
                      /\ request'[q].n <= level'[request'[q].at]
    BY DEF TransfersHoldTheirSource
  <2>2. q # p /\ request'[q] = request[q] /\ request[q] \in Request
    BY <2>1, <1>0 DEF ProductionTypeOK
  <2>3. /\ request[q].at \in DOMAIN level /\ request[q].at \in Warehouses
        /\ request[q].s \in Warehouses \cap opened /\ request[q].s # request[q].at
        /\ locked[request[q].at] = q
        /\ request[q].n <= level[request[q].at]
    BY <2>2, <1>0 DEF ProductionInvariant, WarehouseInvariant, TransfersHoldTheirSource, ProductionTypeOK
  <2>4. request[q].at # r.at
    BY <2>2, <2>3, <1>0
  <2>5. level'[request[q].at] >= level[request[q].at]
    <3>1. level[request[q].at] \in Nat
      BY <2>3, <1>0 DEF LevelsAreCounts
    <3> QED
      BY <3>1, <2>3, <2>4, <1>0, <1>3
  <2>6. level[request[q].at] \in Nat /\ level'[request[q].at] \in Nat /\ request[q].n \in Nat
    BY <2>2, <2>3, <1>0, <1>3 DEF LevelsAreCounts, Request
  <2> QED
    BY <2>2, <2>3, <2>5, <2>6, <1>0, <1>4, <1>8
<1>10. ProductionTypeOK'
  BY <1>0, <1>5, <1>7, <1>8, EndingARequest DEF ProductionTypeOK, CommitTransfer
<1>11. StageInvariant'
  <2>1. RequestsAreSane'
    BY <1>0, EndingKeepsSanity DEF ProductionInvariant
  <2> QED
    BY <1>10, <2>1, StagesLeftAlone DEF ProductionInvariant, stageRows, CommitTransfer
<1> QED
  BY <1>6, <1>7, <1>9, <1>11 DEF ProductionInvariant, WarehouseInvariant

\* A request that fails gives back its rows and changes no other.
LEMMA FailingARequest ==
  ASSUME ProductionInvariant, NEW p \in Procs, FailRequest(p)
  PROVE  ProductionInvariant'
<1>0. ProductionTypeOK /\ Ends(p)
  BY DEF ProductionInvariant, StageInvariant, FailRequest
<1>1. /\ request' \in [Procs -> Request]
      /\ request'[p].op = "none"
      /\ \A q \in Procs \ {p} : request'[q] = request[q]
  BY <1>0, EndingARequest
<1>2. /\ locked' \in [Warehouses -> Procs \cup {Nobody}]
      /\ \A w \in Warehouses, q \in Procs \ {p} : locked[w] = q => locked'[w] = q
  BY <1>0, UnlockedIsLocks DEF FailRequest
<1>3. ProductionTypeOK'
  BY <1>0, <1>1, <1>2 DEF ProductionTypeOK, FailRequest
<1>4. StageInvariant'
  <2>1. RequestsAreSane'
    BY <1>0, EndingKeepsSanity DEF ProductionInvariant
  <2> QED
    BY <1>3, <2>1, StagesLeftAlone DEF ProductionInvariant, stageRows, FailRequest
<1>5. TransfersHoldTheirSource'
  <2> SUFFICES ASSUME NEW q \in Procs, request'[q].op = "transfer"
               PROVE  /\ request'[q].at \in DOMAIN level'
                      /\ request'[q].s \in Warehouses \cap opened' /\ request'[q].s # request'[q].at
                      /\ locked'[request'[q].at] = q
                      /\ request'[q].n <= level'[request'[q].at]
    BY DEF TransfersHoldTheirSource
  <2>1. q # p /\ request'[q] = request[q]
    BY <1>1
  <2>2. /\ request[q].at \in DOMAIN level /\ request[q].at \in Warehouses
        /\ request[q].s \in Warehouses \cap opened /\ request[q].s # request[q].at
        /\ locked[request[q].at] = q
        /\ request[q].n <= level[request[q].at]
    BY <2>1, <1>0 DEF ProductionInvariant, WarehouseInvariant, TransfersHoldTheirSource, ProductionTypeOK
  <2> QED
    BY <2>1, <2>2, <1>2 DEF FailRequest
<1>6. WarehouseInvariant'
  BY <1>5 DEF ProductionInvariant, WarehouseInvariant, LevelsAreCounts, BalancesMatchTransfers,
              FailRequest
<1> QED
  BY <1>4, <1>6 DEF ProductionInvariant

\* calculateCost writes the cost record alone.
LEMMA CalculatingCosts ==
  ASSUME ProductionInvariant, NEW p \in Procs, CalculateCost(p)
  PROVE  ProductionInvariant'
<1> DEFINE r == request[p]
<1>0. ProductionTypeOK /\ Ends(p) /\ r.at \in Batches /\ r.n \in Nat
  BY DEF ProductionInvariant, StageInvariant, ProductionTypeOK, RequestsAreSane, Request, CalculateCost
<1>1. cost' \in [Batches -> CostRecord]
  <2>1. cost' = [cost EXCEPT ![r.at].exists = TRUE, ![r.at].good = r.n]
    BY DEF CalculateCost
  <2> QED
    BY <1>0, <2>1 DEF ProductionTypeOK, CostRecord
<1>2. ProductionTypeOK'
  BY <1>0, <1>1, EndingARequest DEF ProductionTypeOK, CalculateCost
<1>3. StageInvariant'
  <2>1. RequestsAreSane'
    BY <1>0, EndingKeepsSanity DEF ProductionInvariant
  <2> QED
    BY <1>2, <2>1, StagesLeftAlone DEF ProductionInvariant, stageRows, CalculateCost
<1>4. WarehouseInvariant'
  BY <1>0, EndingKeepsWarehouses DEF CalculateCost, warehouseRows
<1> QED
  BY <1>3, <1>4 DEF ProductionInvariant

\* lockCost and unlockCost mark the calculations under way.
LEMMA LockingCosts ==
  ASSUME ProductionInvariant, NEW b \in Batches, SetCostLock(b)
  PROVE  ProductionInvariant'
<1>0. ProductionTypeOK
  BY DEF ProductionInvariant, StageInvariant
<1>1. \A q \in Procs :
        /\ request'[q] \in Request
        /\ request'[q].op = request[q].op /\ request'[q].at = request[q].at
        /\ request'[q].s = request[q].s /\ request'[q].n = request[q].n
  <2> SUFFICES ASSUME NEW q \in Procs
               PROVE  /\ request'[q] \in Request
                      /\ request'[q].op = request[q].op /\ request'[q].at = request[q].at
                      /\ request'[q].s = request[q].s /\ request'[q].n = request[q].n
    OBVIOUS
  <2>1. /\ request[q] \in Request
        /\ request'[q] = request[q] \/ request'[q] = [request[q] EXCEPT !.raced = TRUE]
    BY <1>0 DEF ProductionTypeOK, SetCostLock
  <2> QED
    BY <2>1 DEF Request
<1>2. request' \in [Procs -> Request]
  BY <1>1 DEF SetCostLock
<1>3. cost' \in [Batches -> CostRecord]
  <2>1. cost' = [cost EXCEPT ![b].isLocked = ~@]
    BY DEF SetCostLock
  <2> QED
    BY <1>0, <2>1 DEF ProductionTypeOK, CostRecord
<1>4. ProductionTypeOK'
  BY <1>0, <1>2, <1>3 DEF ProductionTypeOK, SetCostLock
<1>5. RequestsAreSane'
  BY <1>1 DEF ProductionInvariant, StageInvariant, RequestsAreSane, Stages
<1>6. StageInvariant'
  BY <1>4, <1>5, StagesLeftAlone DEF ProductionInvariant, stageRows, SetCostLock
<1>7. WarehouseInvariant'
  BY <1>1, WarehousesLeftAlone DEF ProductionInvariant, warehouseRows, SetCostLock
<1> QED
  BY <1>6, <1>7 DEF ProductionInvariant

-----------------------------------------------------------------------------
(* The theorems *)

\* Nothing has begun.
LEMMA ProductionStarts == ProductionInit => ProductionInvariant
<1> SUFFICES ASSUME ProductionInit PROVE ProductionInvariant
  OBVIOUS
<1>1. DOMAIN level = {} /\ Pending \in Stage /\ Pending.output = 0 /\ Pending.status = "PENDING"
  BY DEF ProductionInit, Pending, Stage
<1>2. ProductionTypeOK
  BY <1>1, NoRequestIsRequest DEF ProductionInit, ProductionTypeOK, CostRecord
<1>3. RequestsAreSane /\ TransfersHoldTheirSource
  BY NoRequestIsRequest DEF ProductionInit, RequestsAreSane, TransfersHoldTheirSource
<1>4. StagesAccountForUnits /\ OpenStagesHaveNoOutput
  BY <1>1, LastAssumption DEF ProductionInit, StagesAccountForUnits, StageAccountsForInput,
     OutputIsCountedOnce, OpenStagesHaveNoOutput, Stages
<1>5. LevelsAreCounts /\ BalancesMatchTransfers
  BY <1>1 DEF ProductionInit, LevelsAreCounts, BalancesMatchTransfers
<1> QED
  BY <1>2, <1>3, <1>4, <1>5 DEF ProductionInvariant, StageInvariant, WarehouseInvariant

\* A new sub-warehouse has no row.
LEMMA OpeningAWarehouse ==
  ASSUME ProductionInvariant, NEW w \in Warehouses, OpenWarehouse(w)
  PROVE  ProductionInvariant'
<1>1. ProductionTypeOK' /\ RequestsAreSane'
  BY DEF ProductionInvariant, StageInvariant, ProductionTypeOK, RequestsAreSane, OpenWarehouse
<1>2. StageInvariant'
  BY <1>1, StagesLeftAlone DEF ProductionInvariant, OpenWarehouse, stageRows
<1>3. WarehouseInvariant'
  BY WarehousesLeftAlone DEF ProductionInvariant, OpenWarehouse, warehouseRows
<1> QED
  BY <1>2, <1>3 DEF ProductionInvariant

\* Every step keeps the invariant.
LEMMA StepsKeepTheInvariant ==
  ProductionInvariant /\ [ProductionNext]_productionVars => ProductionInvariant'
<1> SUFFICES ASSUME ProductionInvariant, [ProductionNext]_productionVars PROVE ProductionInvariant'
  OBVIOUS
<1>1. CASE UNCHANGED productionVars
  BY <1>1 DEF productionVars, ProductionInvariant, StageInvariant, WarehouseInvariant, ProductionTypeOK,
     RequestsAreSane, StagesAccountForUnits, StageAccountsForInput, OutputIsCountedOnce,
     OpenStagesHaveNoOutput, LevelsAreCounts, TransfersHoldTheirSource, BalancesMatchTransfers
<1>2. ASSUME NEW p \in Procs, StartProduction(p) PROVE ProductionInvariant'
  BY <1>2, ReadingKeepsTheInvariant, BeginningATransfer DEF StartProduction
<1>3. ASSUME NEW p \in Procs, ContinueProduction(p) PROVE ProductionInvariant'
  BY <1>3, StartingAStage, CompletingAStage, ReturningToAStage, CalculatingCosts, CommittingATransfer,
     FailingARequest DEF ContinueProduction
<1>4. ASSUME NEW b \in Batches, SetCostLock(b) PROVE ProductionInvariant'
  BY <1>4, LockingCosts
<1>5. ASSUME NEW w \in Warehouses, OpenWarehouse(w) PROVE ProductionInvariant'
  BY <1>5, OpeningAWarehouse
<1> QED
  BY <1>1, <1>2, <1>3, <1>4, <1>5 DEF ProductionNext

\* The inductive invariant.
THEOREM ProductionIsSound == ProductionSpec => []ProductionInvariant
BY ProductionStarts, StepsKeepTheInvariant, PTL DEF ProductionSpec

\* completeStage: whatever starts, completions and returns overlap, a completed
\* stage accounts for no more than came into it, and its output is counted once,
\* in the variants' counters and in the finished-goods warehouse, or nowhere if there was
\* no such warehouse when the stage was completed (production-batch.service.ts:1195).
THEOREM UnitsAreAccountedFor == ProductionSpec => []StagesAccountForUnits
<1>1. ProductionInvariant => StagesAccountForUnits
  BY DEF ProductionInvariant, StageInvariant
<1> QED
  BY <1>1, ProductionIsSound, PTL

\* createTransfer and moveToWarehouse: a balance is never negative and is what
\* the transfers have brought in less out, however they cross.
THEOREM BalancesReconcile == ProductionSpec => []BalancesMatchTransfers
<1>1. ProductionInvariant => BalancesMatchTransfers
  BY DEF ProductionInvariant, WarehouseInvariant
<1> QED
  BY <1>1, ProductionIsSound, PTL

\* Whoever asks for something else than costs, or for those of a record that is
\* not locked, and leaves the records alone, keeps what is known of locks.
LEMMA AskingKeepsLocksKnown ==
  ASSUME ProductionTypeOK, CalculationsKnowLocks, NEW p \in Procs, NEW r, Asks(p, r),
         r.op = "calculate" => ~cost[r.at].isLocked, UNCHANGED cost
  PROVE  CalculationsKnowLocks'
BY DEF ProductionTypeOK, CalculationsKnowLocks, Asks

\* Every step keeps it.
LEMMA LocksStayKnown ==
  ASSUME ProductionInvariant, CalculationsKnowLocks, [ProductionNext]_productionVars
  PROVE  CalculationsKnowLocks'
<1>0. ProductionTypeOK
  BY DEF ProductionInvariant, StageInvariant
<1>1. CASE UNCHANGED productionVars
  BY <1>1 DEF productionVars, CalculationsKnowLocks
<1>2. ASSUME NEW p \in Procs, NEW b \in Batches, NEW s \in Stages, ReadForStart(p, b, s)
      PROVE  CalculationsKnowLocks'
  <2>1. PICK n \in Quantities :
          Asks(p, [NoRequest EXCEPT !.op = "start", !.at = b, !.s = s, !.seen = status[b] = "PLANNED",
                   !.n = IF n > 0 THEN n ELSE IF s > 1 THEN stage[b][s - 1].output ELSE 0])
    BY <1>2 DEF ReadForStart
  <2> DEFINE e == status[b] = "PLANNED"
             i == IF n > 0 THEN n ELSE IF s > 1 THEN stage[b][s - 1].output ELSE 0
             r == [NoRequest EXCEPT !.op = "start", !.at = b, !.s = s, !.seen = e, !.n = i]
  <2>2. Asks(p, r)
    BY <2>1
  <2> HIDE DEF e, i
  <2>3. r.op = "start"
    BY NoRequestIsRequest DEF Request
  <2>4. UNCHANGED cost
    BY <1>2 DEF ReadForStart
  <2> HIDE DEF r
  <2> QED
    BY <1>0, <2>2, <2>3, <2>4, AskingKeepsLocksKnown
<1>3. ASSUME NEW p \in Procs, NEW b \in Batches, NEW s \in Stages, ReadForComplete(p, b, s)
      PROVE  CalculationsKnowLocks'
  <2>1. PICK n \in Quantities, m \in Quantities :
          Asks(p, [NoRequest EXCEPT !.op = "complete", !.at = b, !.s = s, !.n = n, !.m = m])
    BY <1>3 DEF ReadForComplete
  <2> DEFINE r == [NoRequest EXCEPT !.op = "complete", !.at = b, !.s = s, !.n = n, !.m = m]
  <2>2. Asks(p, r)
    BY <2>1
  <2>3. r.op = "complete"
    BY NoRequestIsRequest DEF Request
  <2>4. UNCHANGED cost
    BY <1>3 DEF ReadForComplete
  <2> HIDE DEF r
  <2> QED
    BY <1>0, <2>2, <2>3, <2>4, AskingKeepsLocksKnown
<1>4. ASSUME NEW p \in Procs, NEW b \in Batches, NEW s \in Stages, ReadForReturn(p, b, s)
      PROVE  CalculationsKnowLocks'
  <2> DEFINE r == [NoRequest EXCEPT !.op = "return", !.at = b, !.s = s]
  <2>1. Asks(p, r) /\ UNCHANGED cost
    BY <1>4 DEF ReadForReturn
  <2>2. r.op = "return"
    BY NoRequestIsRequest DEF Request
  <2> HIDE DEF r
  <2> QED
    BY <1>0, <2>1, <2>2, AskingKeepsLocksKnown
<1>5. ASSUME NEW p \in Procs, NEW b \in Batches, ReadForCost(p, b)
      PROVE  CalculationsKnowLocks'
  <2> DEFINE r == [NoRequest EXCEPT !.op = "calculate", !.at = b, !.n = stage[b][Last].output]
  <2>1. Asks(p, r) /\ UNCHANGED cost /\ ~cost[b].isLocked
    BY <1>5 DEF ReadForCost
  <2>2. r.at = b
    BY NoRequestIsRequest DEF Request
  <2> HIDE DEF r
  <2> QED
    BY <1>0, <2>1, <2>2, AskingKeepsLocksKnown
<1>6. ASSUME NEW p \in Procs, NEW from \in Warehouses, NEW to \in Warehouses,
             BeginTransfer(p, from, to)
      PROVE  CalculationsKnowLocks'
  <2>1. PICK n \in Quantities \ {0} :
          Asks(p, [NoRequest EXCEPT !.op = "transfer", !.at = from, !.s = to, !.n = n,
                                    !.seen = to \in DOMAIN level])
    BY <1>6 DEF BeginTransfer
  <2> DEFINE e == to \in DOMAIN level
             r == [NoRequest EXCEPT !.op = "transfer", !.at = from, !.s = to, !.n = n, !.seen = e]
  <2>2. Asks(p, r)
    BY <2>1
  <2> HIDE DEF e
  <2>3. r.op = "transfer"
    BY NoRequestIsRequest DEF Request
  <2>4. UNCHANGED cost
    BY <1>6 DEF BeginTransfer
  <2> HIDE DEF r
  <2> QED
    BY <1>0, <2>2, <2>3, <2>4, AskingKeepsLocksKnown
<1>7. ASSUME NEW p \in Procs, ContinueProduction(p)
      PROVE  CalculationsKnowLocks'
  <2>1. /\ request'[p].op = "none"
        /\ \A q \in Procs \ {p} : request'[q] = request[q]
    <3>1. Ends(p)
      BY <1>7 DEF ContinueProduction, StartStage, CompleteStage, ReturnToStage, CalculateCost,
                  CommitTransfer, FailRequest
    <3> QED
      BY <1>0, <3>1, EndingARequest
  <2>2. \A b \in Batches : cost'[b].isLocked = cost[b].isLocked
    <3>1. CASE CalculateCost(p)
      <4>1. cost' = [cost EXCEPT ![request[p].at].exists = TRUE, ![request[p].at].good = request[p].n]
        BY <3>1 DEF CalculateCost
      <4> QED
        BY <1>0, <4>1 DEF ProductionTypeOK, CostRecord
    <3>2. CASE UNCHANGED cost
      BY <3>2
    <3> QED
      BY <1>7, <3>1, <3>2 DEF ContinueProduction, StartStage, CompleteStage, ReturnToStage,
                              CommitTransfer, FailRequest
  <2>3. ASSUME NEW q \in Procs, request'[q].op = "calculate", cost'[request'[q].at].isLocked
        PROVE  request'[q].raced
    <3>1. request'[q] = request[q] /\ request[q].at \in Batches
      BY <2>1, <2>3 DEF ProductionInvariant, StageInvariant, RequestsAreSane
    <3> QED
      BY <2>2, <2>3, <3>1 DEF CalculationsKnowLocks
  <2> QED
    BY <2>3 DEF CalculationsKnowLocks
<1>8. ASSUME NEW b \in Batches, SetCostLock(b) PROVE CalculationsKnowLocks'
  <2> SUFFICES ASSUME NEW q \in Procs, request'[q].op = "calculate", cost'[request'[q].at].isLocked
               PROVE  request'[q].raced
    BY DEF CalculationsKnowLocks
  <2>1. request[q] \in Request
    BY <1>0 DEF ProductionTypeOK
  <2>2. CASE request[q].op = "calculate" /\ request[q].at = b
    <3>1. request'[q] = [request[q] EXCEPT !.raced = TRUE]
      BY <1>8, <2>2 DEF SetCostLock
    <3> QED
      BY <2>1, <3>1 DEF Request
  <2>3. CASE ~(request[q].op = "calculate" /\ request[q].at = b)
    <3>1. request'[q] = request[q]
      BY <1>8, <2>3 DEF SetCostLock
    <3>2. request[q].at \in Batches /\ request[q].at # b
      BY <2>3, <3>1 DEF ProductionInvariant, StageInvariant, RequestsAreSane
    <3>3. cost'[request[q].at] = cost[request[q].at]
      BY <1>0, <1>8, <3>2 DEF ProductionTypeOK, SetCostLock
    <3> QED
      BY <3>1, <3>3 DEF CalculationsKnowLocks
  <2> QED
    BY <2>2, <2>3
<1>9. ASSUME NEW w \in Warehouses, OpenWarehouse(w) PROVE CalculationsKnowLocks'
  BY <1>9 DEF OpenWarehouse, CalculationsKnowLocks
<1> QED
  BY <1>1, <1>2, <1>3, <1>4, <1>5, <1>6, <1>7, <1>8, <1>9 DEF ProductionNext, StartProduction

\* lockCost: a locked record keeps its figures until it is unlocked, except for a
\* calculation that was under way when it was locked.
THEOREM LockedCostsKeepTheirFigures == ProductionSpec => LockedCostIsKept
<1> DEFINE Kept == \A b \in Batches :
             cost[b].isLocked /\ cost'[b] # cost[b] =>
               ~cost'[b].isLocked \/ \E p \in Procs : request[p].at = b /\ request[p].raced
<1>1. ProductionInit => CalculationsKnowLocks
  BY NoRequestIsRequest DEF ProductionInit, CalculationsKnowLocks
<1>2. ASSUME ProductionInvariant, CalculationsKnowLocks, [ProductionNext]_productionVars
      PROVE  [Kept]_cost
  <2> SUFFICES ASSUME cost' # cost, NEW b \in Batches, cost[b].isLocked, cost'[b] # cost[b]
               PROVE  ~cost'[b].isLocked \/ \E p \in Procs : request[p].at = b /\ request[p].raced
    OBVIOUS
  <2>0. ProductionTypeOK
    BY <1>2 DEF ProductionInvariant, StageInvariant
  <2>1. ASSUME NEW p \in Procs, CalculateCost(p)
        PROVE  request[p].at = b /\ request[p].raced
    <3>1. /\ request[p].op = "calculate"
          /\ cost' = [cost EXCEPT ![request[p].at].exists = TRUE, ![request[p].at].good = request[p].n]
      BY <2>1 DEF CalculateCost
    <3>2. request[p].at = b
      BY <2>0, <3>1 DEF ProductionTypeOK
    <3> QED
      BY <1>2, <3>1, <3>2 DEF CalculationsKnowLocks
  <2>2. ASSUME NEW c \in Batches, SetCostLock(c) PROVE ~cost'[b].isLocked
    <3>1. cost' = [cost EXCEPT ![c].isLocked = ~@]
      BY <2>2 DEF SetCostLock
    <3>2. c = b
      BY <2>0, <3>1 DEF ProductionTypeOK
    <3> QED
      BY <2>0, <3>1, <3>2 DEF ProductionTypeOK, CostRecord
  <2>3. (\E p \in Procs : CalculateCost(p)) \/ \E c \in Batches : SetCostLock(c)
    <3>1. ASSUME NEW p \in Procs PROVE ~StartProduction(p)
      BY DEF StartProduction, ReadForStart, ReadForComplete, ReadForReturn, ReadForCost,
             BeginTransfer
    <3>2. ASSUME NEW p \in Procs, ContinueProduction(p) PROVE CalculateCost(p)
      BY <3>2 DEF ContinueProduction, StartStage, CompleteStage, ReturnToStage, CommitTransfer,
         FailRequest
    <3>3. ASSUME NEW w \in Warehouses PROVE ~OpenWarehouse(w)
      BY DEF OpenWarehouse
    <3> QED
      BY <1>2, <3>1, <3>2, <3>3 DEF ProductionNext, productionVars
  <2> QED
    BY <2>1, <2>2, <2>3
<1>3. ProductionInvariant /\ CalculationsKnowLocks /\ [ProductionNext]_productionVars =>
        CalculationsKnowLocks' /\ [Kept]_cost
  BY <1>2, LocksStayKnown
<1> QED
  BY <1>1, <1>3, ProductionIsSound, PTL DEF ProductionSpec, LockedCostIsKept

-----------------------------------------------------------------------------
(* Cycle counts *)

\* Where a count's figures may be trusted: nobody else has touched it, and its
\* snapshot was the book when the shelf was counted.
Trusted == Counts \ (moved \cup rivals)

\* Two requests that handle one count are rivals.
HandledByOne ==
  \A p, q \in Counters : p # q /\ counting[p].at = counting[q].at /\ counting[p].at \in Counts =>
    counting[p].at \in rivals

\* What a request handles is there, and as it was if nobody else handles it.
RequestsKnowTheirCount ==
  \A p \in Counters :
    counting[p].op # "none" =>
      /\ counting[p].at \in Counts
      /\ count[counting[p].at].status # "absent"
      /\ counting[p].op = "start" /\ counting[p].at \notin rivals =>
           count[counting[p].at].status = "DRAFT"

\* A count that has not begun has counted nothing.
NewCountsAreEmpty ==
  \A c \in Counts : count[c].status \in {"absent", "DRAFT"} => ~count[c].done

\* As long as a count may be trusted, the shelf has no more than the book will
\* show once the difference it found is posted: since it was found goods have
\* left both, or the shelf alone.
DifferencesCoverTheShelf ==
  /\ shelf <= book
  /\ \A c \in Trusted : Started(c) /\ count[c].done => shelf <= book + count[c].variance
  /\ \A p \in Counters : counting[p].at \in Trusted =>
       /\ counting[p].op = "record" =>
            shelf <= book + (counting[p].n - count[counting[p].at].system)
       /\ counting[p].op = "approve" => shelf <= book + counting[p].n

\* The inductive invariant.
CountInvariant ==
  /\ CountTypeOK
  /\ HandledByOne /\ RequestsKnowTheirCount /\ NewCountsAreEmpty
  /\ spoiled \/ DifferencesCoverTheShelf

-----------------------------------------------------------------------------
(* Requests, begun and ended *)

\* Ending a request leaves nothing of it, and the others as they were.
LEMMA FinishingARequest ==
  ASSUME CountTypeOK, NEW p \in Counters, Finish(p)
  PROVE  /\ counting' \in [Counters -> Counting]
         /\ counting'[p] = Idle /\ Idle.op = "none" /\ Idle.at = NoCount
         /\ \A q \in Counters \ {p} : counting'[q] = counting[q]
BY DEF CountTypeOK, Counting, Finish, Idle

\* Whoever ends a request of a count that nobody else handles, unless they are
\* rivals, and changes no other count, leaves the requests as they should be.
LEMMA FinishingIsSane ==
  ASSUME CountInvariant, NEW p \in Counters, Finish(p), rivals \subseteq rivals',
         NEW c \in Counts, counting[p].op # "none" => counting[p].at = c,
         counting[p].op # "none", count'[c].status # "absent",
         \A d \in Counts \ {c} : count'[d] = count[d]
  PROVE  HandledByOne' /\ RequestsKnowTheirCount'
<1>1. /\ counting'[p] = Idle /\ Idle.op = "none" /\ Idle.at = NoCount
      /\ \A q \in Counters \ {p} : counting'[q] = counting[q]
  BY FinishingARequest DEF CountInvariant
<1>2. HandledByOne'
  <2> SUFFICES ASSUME NEW q \in Counters, NEW r \in Counters, q # r,
                      counting'[q].at = counting'[r].at, counting'[q].at \in Counts
               PROVE  counting'[q].at \in rivals'
    BY DEF HandledByOne
  <2>1. q # p /\ r # p
    BY <1>1, NoCountAssumption
  <2> QED
    BY <2>1, <1>1 DEF CountInvariant, HandledByOne
<1>3. RequestsKnowTheirCount'
  <2> SUFFICES ASSUME NEW q \in Counters, counting'[q].op # "none"
               PROVE  /\ counting'[q].at \in Counts
                      /\ count'[counting'[q].at].status # "absent"
                      /\ counting'[q].op = "start" /\ counting'[q].at \notin rivals' =>
                           count'[counting'[q].at].status = "DRAFT"
    BY DEF RequestsKnowTheirCount
  <2>1. q # p /\ counting'[q] = counting[q]
    BY <1>1
  <2>2. /\ counting[q].at \in Counts
        /\ count[counting[q].at].status # "absent"
        /\ counting[q].op = "start" /\ counting[q].at \notin rivals =>
             count[counting[q].at].status = "DRAFT"
    BY <2>1 DEF CountInvariant, RequestsKnowTheirCount
  <2>3. counting[q].at = c => c \in rivals
    BY <2>1 DEF CountInvariant, HandledByOne
  <2> QED
    BY <2>1, <2>2, <2>3
<1> QED
  BY <1>2, <1>3

\* A request that has read a count: it is the only one that handles it, or they
\* are rivals from now on.
LEMMA ReadingACount ==
  ASSUME CountInvariant, NEW p \in Counters, NEW c \in Counts,
         NEW op \in {"start", "record", "approve", "cancel"}, NEW n \in Int,
         ReadCount(p, c, op, n), count[c].status # "absent",
         op = "start" => count[c].status = "DRAFT",
         moved' \in SUBSET Counts, moved \subseteq moved',
         spoiled \/ c \in moved' \/
           /\ op = "record" => shelf <= book + (n - count[c].system)
           /\ op = "approve" /\ c \notin rivals => shelf <= book + n
  PROVE  CountInvariant'
<1>0. CountTypeOK
  BY DEF CountInvariant
<1>1. /\ counting' \in [Counters -> Counting]
      /\ counting'[p].op = op /\ counting'[p].at = c /\ counting'[p].n = n
      /\ \A q \in Counters \ {p} : counting'[q] = counting[q]
  <2> DEFINE r == [op |-> op, at |-> c, n |-> n]
  <2>1. r \in Counting /\ r.op = op /\ r.at = c /\ r.n = n
    BY DEF Counting
  <2>2. counting' = [counting EXCEPT ![p] = r]
    BY DEF ReadCount
  <2> HIDE DEF r
  <2> QED
    BY <1>0, <2>1, <2>2 DEF CountTypeOK
<1>2. /\ rivals' \in SUBSET Counts /\ rivals \subseteq rivals'
      /\ \A q \in Counters : counting[q].at = c => c \in rivals'
      /\ counting[p] = Idle
  BY <1>0 DEF CountTypeOK, ReadCount
<1>3. UNCHANGED <<book, shelf, count, spoiled>>
  BY DEF ReadCount
<1>4. CountTypeOK'
  BY <1>0, <1>1, <1>2, <1>3 DEF CountTypeOK
<1>5. HandledByOne'
  <2> SUFFICES ASSUME NEW q \in Counters, NEW r \in Counters, q # r,
                      counting'[q].at = counting'[r].at, counting'[q].at \in Counts
               PROVE  counting'[q].at \in rivals'
    BY DEF HandledByOne
  <2>1. CASE q # p /\ r # p
    BY <2>1, <1>1, <1>2 DEF CountInvariant, HandledByOne
  <2>2. CASE q = p \/ r = p
    BY <2>2, <1>1, <1>2
  <2> QED
    BY <2>1, <2>2
<1>6. RequestsKnowTheirCount'
  <2> SUFFICES ASSUME NEW q \in Counters, counting'[q].op # "none"
               PROVE  /\ counting'[q].at \in Counts
                      /\ count'[counting'[q].at].status # "absent"
                      /\ counting'[q].op = "start" /\ counting'[q].at \notin rivals' =>
                           count'[counting'[q].at].status = "DRAFT"
    BY DEF RequestsKnowTheirCount
  <2>1. CASE q = p
    BY <2>1, <1>1, <1>3
  <2>2. CASE q # p
    BY <2>2, <1>1, <1>2, <1>3 DEF CountInvariant, RequestsKnowTheirCount
  <2> QED
    BY <2>1, <2>2
<1>7. NewCountsAreEmpty'
  BY <1>3 DEF CountInvariant, NewCountsAreEmpty
<1>8. ASSUME ~spoiled PROVE DifferencesCoverTheShelf'
  <2>1. DifferencesCoverTheShelf /\ Trusted' \subseteq Trusted
    BY <1>2, <1>8 DEF CountInvariant, Trusted
  <2>2. ASSUME NEW d \in Trusted', Started(d)', count'[d].done
        PROVE  shelf' <= book' + count'[d].variance
    BY <2>1, <2>2, <1>3 DEF DifferencesCoverTheShelf, Started
  <2>3. ASSUME NEW q \in Counters, counting'[q].at \in Trusted'
        PROVE  /\ counting'[q].op = "record" =>
                    shelf' <= book' + (counting'[q].n - count'[counting'[q].at].system)
               /\ counting'[q].op = "approve" => shelf' <= book' + counting'[q].n
    <3>1. CASE q = p
      BY <2>3, <3>1, <1>1, <1>2, <1>3, <1>8 DEF Trusted
    <3>2. CASE q # p
      BY <2>1, <2>3, <3>2, <1>1, <1>3 DEF DifferencesCoverTheShelf
    <3> QED
      BY <3>1, <3>2
  <2>4. shelf' <= book'
    BY <2>1, <1>3 DEF DifferencesCoverTheShelf
  <2> QED
    BY <2>2, <2>3, <2>4 DEF DifferencesCoverTheShelf
<1> QED
  BY <1>3, <1>4, <1>5, <1>6, <1>7, <1>8 DEF CountInvariant

-----------------------------------------------------------------------------
(* The steps *)

\* Goods leave the shelf and the book, or the shelf alone.
LEMMA GoodsLeave ==
  ASSUME CountInvariant, Ship \/ Lose
  PROVE  CountInvariant'
<1>0. /\ CountTypeOK /\ UNCHANGED <<count, counting, moved, rivals, spoiled>>
      /\ \/ shelf' = shelf - 1 /\ book' = book - 1 /\ book > 0 /\ shelf > 0
         \/ shelf' = shelf - 1 /\ book' = book /\ shelf > 0
  BY DEF CountInvariant, Ship, Lose
<1>1. /\ shelf \in Nat /\ book \in Nat
      /\ \A c \in Counts : count[c].variance \in Int /\ count[c].system \in Int
      /\ \A p \in Counters : counting[p].n \in Int
  BY <1>0 DEF CountTypeOK, CountRow, Counting
<1>2. CountTypeOK'
  BY <1>0, <1>1 DEF CountTypeOK
<1>3. ASSUME ~spoiled PROVE DifferencesCoverTheShelf'
  <2>1. DifferencesCoverTheShelf /\ Trusted' = Trusted /\ Trusted \subseteq Counts
    BY <1>0, <1>3 DEF CountInvariant, Trusted
  <2>2. \A n \in Int : shelf <= book + n => shelf' <= book' + n
    BY <1>0, <1>1
  <2>3. shelf' <= book'
    BY <2>1, <1>0, <1>1 DEF DifferencesCoverTheShelf
  <2>4. \A c \in Trusted' : Started(c)' /\ count'[c].done => shelf' <= book' + count'[c].variance
    BY <2>1, <2>2, <1>0, <1>1 DEF DifferencesCoverTheShelf, Started
  <2>5. ASSUME NEW p \in Counters, counting'[p].at \in Trusted'
        PROVE  /\ counting'[p].op = "record" =>
                    shelf' <= book' + (counting'[p].n - count'[counting'[p].at].system)
               /\ counting'[p].op = "approve" => shelf' <= book' + counting'[p].n
    <3>1. counting[p].n - count[counting[p].at].system \in Int
      BY <2>1, <2>5, <1>0, <1>1
    <3> QED
      BY <2>1, <2>2, <2>5, <3>1, <1>0, <1>1 DEF DifferencesCoverTheShelf
  <2> QED
    BY <2>3, <2>4, <2>5 DEF DifferencesCoverTheShelf
<1>4. HandledByOne' /\ RequestsKnowTheirCount' /\ NewCountsAreEmpty'
  BY <1>0 DEF CountInvariant, HandledByOne, RequestsKnowTheirCount, NewCountsAreEmpty
<1> QED
  BY <1>0, <1>2, <1>3, <1>4 DEF CountInvariant

\* create: the count has the book's quantity and nothing counted.
LEMMA CreatingACount ==
  ASSUME CountInvariant, NEW c \in Counts, CreateCount(c)
  PROVE  CountInvariant'
<1> DEFINE new == [count[c] EXCEPT !.status = "DRAFT", !.system = book]
<1>0. /\ CountTypeOK /\ count[c].status = "absent" /\ ~count[c].done
      /\ UNCHANGED <<book, shelf, counting, moved, rivals, spoiled>>
  BY DEF CountInvariant, NewCountsAreEmpty, CreateCount
<1>1. /\ count \in [Counts -> CountRow] /\ book \in Nat
      /\ count' = [count EXCEPT ![c] = new]
  BY <1>0 DEF CountTypeOK, CreateCount
<1>2. new \in CountRow /\ new.status = "DRAFT" /\ new.done = count[c].done
  <2>1. count[c] \in CountRow
    BY <1>1
  <2> QED
    BY <1>1, <2>1 DEF CountRow, CountStatuses
<1> HIDE DEF new
<1>3. /\ count' \in [Counts -> CountRow] /\ count'[c] = new
      /\ \A d \in Counts \ {c} : count'[d] = count[d]
  BY <1>1, <1>2
<1>4. CountTypeOK'
  BY <1>0, <1>3 DEF CountTypeOK
<1>5. \A p \in Counters : counting[p].op # "none" => counting[p].at \in Counts \ {c}
  BY <1>0 DEF CountInvariant, RequestsKnowTheirCount
<1>6. HandledByOne' /\ RequestsKnowTheirCount' /\ NewCountsAreEmpty'
  <2>1. HandledByOne'
    BY <1>0 DEF CountInvariant, HandledByOne
  <2>2. RequestsKnowTheirCount'
    BY <1>0, <1>3, <1>5 DEF CountInvariant, RequestsKnowTheirCount
  <2>3. NewCountsAreEmpty'
    BY <1>0, <1>2, <1>3 DEF CountInvariant, NewCountsAreEmpty
  <2> QED
    BY <2>1, <2>2, <2>3
<1>7. ASSUME ~spoiled PROVE DifferencesCoverTheShelf'
  <2>1. DifferencesCoverTheShelf /\ Trusted' = Trusted
    BY <1>0, <1>7 DEF CountInvariant, Trusted
  <2>2. ASSUME NEW d \in Trusted', Started(d)', count'[d].done
        PROVE  shelf' <= book' + count'[d].variance
    <3>1. d # c /\ d \in Counts
      BY <2>2, <1>0, <1>2, <1>3 DEF Trusted
    <3> QED
      BY <2>1, <2>2, <3>1, <1>0, <1>3 DEF DifferencesCoverTheShelf, Started
  <2>3. ASSUME NEW p \in Counters, counting'[p].at \in Trusted'
        PROVE  /\ counting'[p].op = "record" =>
                    shelf' <= book' + (counting'[p].n - count'[counting'[p].at].system)
               /\ counting'[p].op = "approve" => shelf' <= book' + counting'[p].n
    BY <2>1, <2>3, <1>0, <1>3, <1>5 DEF DifferencesCoverTheShelf
  <2>4. shelf' <= book'
    BY <2>1, <1>0 DEF DifferencesCoverTheShelf
  <2> QED
    BY <2>2, <2>3, <2>4 DEF DifferencesCoverTheShelf
<1> QED
  BY <1>0, <1>4, <1>6, <1>7 DEF CountInvariant

\* The four requests read.
LEMMA StartingARequest ==
  ASSUME CountInvariant, NEW p \in Counters, StartCounting(p)
  PROVE  CountInvariant'
<1>0. /\ CountTypeOK /\ shelf \in Nat /\ book \in Nat
      /\ \A c \in Counts : count[c] \in CountRow
      /\ \A c \in Counts : count[c].variance \in Int /\ count[c].system \in Int
      /\ spoiled \/ DifferencesCoverTheShelf
  BY DEF CountInvariant, CountTypeOK, CountRow
<1>1. ASSUME NEW c \in Counts, ReadForCountStart(p, c) PROVE CountInvariant'
  <2>1. /\ ReadCount(p, c, "start", 0) /\ count[c].status = "DRAFT" /\ moved' = moved
        /\ moved \in SUBSET Counts
    BY <1>0, <1>1 DEF ReadForCountStart, CountTypeOK
  <2> QED
    BY <2>1, ReadingACount
<1>2. ASSUME NEW c \in Counts, ReadForRecord(p, c) PROVE CountInvariant'
  <2>1. /\ ReadCount(p, c, "record", shelf) /\ count[c].status = "IN_PROGRESS"
        /\ moved' = (IF book = count[c].system THEN moved ELSE moved \cup {c})
        /\ moved \in SUBSET Counts
    BY <1>0, <1>2 DEF ReadForRecord, CountTypeOK
  <2>2. c \in moved' \/ shelf <= book + (shelf - count[c].system)
    BY <2>1, <1>0
  <2>3. moved' \in SUBSET Counts /\ moved \subseteq moved' /\ shelf \in Int
    BY <2>1, <1>0
  <2> QED
    BY <2>1, <2>2, <2>3, ReadingACount
<1>3. ASSUME NEW c \in Counts, ReadForApprove(p, c) PROVE CountInvariant'
  <2> DEFINE n == IF count[c].done THEN count[c].variance ELSE 0
  <2>1. ReadCount(p, c, "approve", n) /\ Started(c) /\ moved' = moved /\ moved \in SUBSET Counts
    BY <1>0, <1>3 DEF ReadForApprove, MayApprove, CountTypeOK
  <2>2. n \in Int
    BY <1>0
  <2>3. spoiled \/ c \in moved' \/ (c \notin rivals => shelf <= book + n)
    BY <2>1, <1>0 DEF DifferencesCoverTheShelf, Trusted
  <2>4. count[c].status # "absent"
    BY <2>1 DEF Started
  <2> HIDE DEF n
  <2> QED
    BY <2>1, <2>2, <2>3, <2>4, ReadingACount
<1>4. ASSUME NEW c \in Counts, ReadForCountCancel(p, c) PROVE CountInvariant'
  <2>1. /\ ReadCount(p, c, "cancel", 0) /\ count[c].status # "absent" /\ moved' = moved
        /\ moved \in SUBSET Counts
    BY <1>0, <1>4 DEF ReadForCountCancel, CountTypeOK
  <2> QED
    BY <2>1, ReadingACount
<1> QED
  BY <1>1, <1>2, <1>3, <1>4 DEF StartCounting

\* A request that ends, and writes its count without touching goods: what it
\* writes is the invariant's only concern.
LEMMA WritingACount ==
  ASSUME CountInvariant, NEW p \in Counters, NEW c \in Counts, counting[p].at = c,
         counting[p].op # "none", Finish(p), NEW new \in CountRow,
         count' = [count EXCEPT ![c] = new], UNCHANGED <<book, shelf, moved, rivals, spoiled>>,
         new.status \notin {"absent", "DRAFT"},
         spoiled \/ c \notin Trusted \/ new.status \in {"COMPLETED", "CANCELLED"} \/
           ~new.done \/ shelf <= book + new.variance
  PROVE  CountInvariant'
<1>0. CountTypeOK
  BY DEF CountInvariant
<1>1. /\ count' \in [Counts -> CountRow] /\ count'[c] = new
      /\ \A d \in Counts \ {c} : count'[d] = count[d]
  BY <1>0 DEF CountTypeOK
<1>2. /\ counting' \in [Counters -> Counting]
      /\ counting'[p] = Idle /\ Idle.op = "none" /\ Idle.at = NoCount
      /\ \A q \in Counters \ {p} : counting'[q] = counting[q]
  BY <1>0, FinishingARequest
<1>3. CountTypeOK'
  BY <1>0, <1>1, <1>2 DEF CountTypeOK
<1>4. HandledByOne' /\ RequestsKnowTheirCount'
  BY <1>1, FinishingIsSane
<1>5. NewCountsAreEmpty'
  BY <1>1 DEF CountInvariant, NewCountsAreEmpty
<1>6. ASSUME ~spoiled PROVE DifferencesCoverTheShelf'
  <2>1. DifferencesCoverTheShelf /\ Trusted' = Trusted
    BY <1>6 DEF CountInvariant, Trusted
  <2>2. ASSUME NEW d \in Trusted', Started(d)', count'[d].done
        PROVE  shelf' <= book' + count'[d].variance
    <3>1. CASE d = c
      BY <2>1, <2>2, <3>1, <1>1, <1>6 DEF Started
    <3>2. CASE d # c
      BY <2>1, <2>2, <3>2, <1>1 DEF DifferencesCoverTheShelf, Started, Trusted
    <3> QED
      BY <3>1, <3>2
  <2>3. ASSUME NEW q \in Counters, counting'[q].at \in Trusted'
        PROVE  /\ counting'[q].op = "record" =>
                    shelf' <= book' + (counting'[q].n - count'[counting'[q].at].system)
               /\ counting'[q].op = "approve" => shelf' <= book' + counting'[q].n
    <3>1. q # p /\ counting'[q] = counting[q] /\ counting[q].at \in Counts /\ counting[q].at \notin rivals
      BY <2>3, <1>2, NoCountAssumption DEF Trusted
    <3>2. counting[q].at # c
      BY <3>1 DEF CountInvariant, HandledByOne
    <3> QED
      BY <2>1, <2>3, <3>1, <3>2, <1>1 DEF DifferencesCoverTheShelf
  <2>4. shelf' <= book'
    BY <2>1 DEF DifferencesCoverTheShelf
  <2> QED
    BY <2>2, <2>3, <2>4 DEF DifferencesCoverTheShelf
<1> QED
  BY <1>3, <1>4, <1>5, <1>6 DEF CountInvariant

\* approve posts what it has read: the book then has what was on the shelf when
\* it was counted, less what has left both since.
LEMMA ApprovingACount ==
  ASSUME CountInvariant, NEW p \in Counters, ApproveCount(p)
  PROVE  CountInvariant'
<1> DEFINE c == counting[p].at
           n == counting[p].n
           new == [count[c] EXCEPT !.status = "COMPLETED", !.approved = @ \/ n # 0]
<1>0. /\ CountTypeOK /\ counting[p].op = "approve" /\ c \in Counts /\ n \in Int
      /\ Finish(p) /\ book' = book + n /\ book + n >= 0
      /\ UNCHANGED <<shelf, moved>>
      /\ rivals' = (IF n = 0 THEN rivals ELSE rivals \cup Rivals(c))
      /\ spoiled' = (spoiled \/ (n # 0 /\ c \in moved \cup rivals))
  <2>1. CountTypeOK /\ counting[p].op = "approve" /\ counting[p] \in Counting /\ c \in Counts
    BY DEF CountInvariant, CountTypeOK, RequestsKnowTheirCount, ApproveCount
  <2> QED
    BY <2>1 DEF Counting, ApproveCount, Covered
<1>1. /\ count' \in [Counts -> CountRow]
      /\ count'[c].status = "COMPLETED"
      /\ \A d \in Counts \ {c} : count'[d] = count[d]
  <2>1. count[c] \in CountRow /\ count \in [Counts -> CountRow]
    BY <1>0 DEF CountTypeOK
  <2>2. new \in CountRow /\ new.status = "COMPLETED"
    BY <2>1 DEF CountRow, CountStatuses
  <2>3. count' = [count EXCEPT ![c] = new]
    BY <2>1 DEF ApproveCount
  <2> HIDE DEF new, c
  <2> QED
    BY <1>0, <2>1, <2>2, <2>3
<1>2. /\ counting' \in [Counters -> Counting]
      /\ counting'[p] = Idle /\ Idle.op = "none" /\ Idle.at = NoCount
      /\ \A q \in Counters \ {p} : counting'[q] = counting[q]
  BY <1>0, FinishingARequest
<1>3. rivals' \subseteq Counts /\ rivals \subseteq rivals' /\ spoiled' \in BOOLEAN
  BY <1>0 DEF CountTypeOK, Rivals
<1>4. CountTypeOK'
  <2>1. book' \in Nat
    BY <1>0 DEF CountTypeOK
  <2> QED
    BY <2>1, <1>0, <1>1, <1>2, <1>3 DEF CountTypeOK
<1>5. HandledByOne' /\ RequestsKnowTheirCount'
  BY <1>0, <1>1, <1>3, FinishingIsSane
<1>6. NewCountsAreEmpty'
  BY <1>0, <1>1 DEF CountInvariant, NewCountsAreEmpty
<1>7. ASSUME ~spoiled' PROVE DifferencesCoverTheShelf'
  <2>1. DifferencesCoverTheShelf /\ ~spoiled /\ (n # 0 => c \in Trusted)
    BY <1>0, <1>7 DEF CountInvariant, Trusted
  <2>2. ASSUME NEW q \in Counters, counting'[q].at \in Trusted'
        PROVE  /\ n = 0
               /\ counting'[q] = counting[q] /\ counting[q].at \in Counts \ {c}
    <3>1. q # p /\ counting'[q] = counting[q] /\ counting[q].at \in Counts /\ counting[q].at \notin rivals'
      BY <2>2, <1>2, NoCountAssumption DEF Trusted
    <3>2. counting[q].at # c
      BY <3>1, <1>0, <1>3 DEF CountInvariant, HandledByOne
    <3>3. n # 0 => counting[q].at \in Rivals(c)
      BY <3>1, <3>2 DEF Rivals
    <3> QED
      BY <3>1, <3>2, <3>3, <1>0
  <2>3. ASSUME NEW d \in Trusted', Started(d)', count'[d].done
        PROVE  n = 0 /\ d \in Counts \ {c} /\ count'[d] = count[d]
    <3>1. d \in Counts /\ d \notin rivals' /\ d # c
      BY <2>3, <1>1 DEF Trusted, Started
    <3>2. n # 0 => d \in Rivals(c)
      BY <2>3, <3>1, <1>1 DEF Rivals, Started
    <3> QED
      BY <3>1, <3>2, <1>0, <1>1
  <2>4. CASE n = 0
    <3>1. book' = book /\ Trusted' = Trusted
      BY <2>4, <1>0 DEF CountTypeOK, Trusted
    <3>2. ASSUME NEW d \in Trusted', Started(d)', count'[d].done
          PROVE  shelf' <= book' + count'[d].variance
      BY <2>1, <2>3, <3>1, <3>2, <1>0 DEF DifferencesCoverTheShelf, Started
    <3>3. ASSUME NEW q \in Counters, counting'[q].at \in Trusted'
          PROVE  /\ counting'[q].op = "record" =>
                      shelf' <= book' + (counting'[q].n - count'[counting'[q].at].system)
                 /\ counting'[q].op = "approve" => shelf' <= book' + counting'[q].n
      BY <2>1, <2>2, <3>1, <3>3, <1>0, <1>1 DEF DifferencesCoverTheShelf
    <3> QED
      BY <2>1, <3>1, <3>2, <3>3, <1>0 DEF DifferencesCoverTheShelf
  <2>5. CASE n # 0
    <3>1. shelf' <= book'
      BY <2>1, <2>5, <1>0 DEF DifferencesCoverTheShelf
    <3> QED
      BY <2>2, <2>3, <2>5, <3>1 DEF DifferencesCoverTheShelf
  <2> QED
    BY <2>4, <2>5
<1> QED
  BY <1>4, <1>5, <1>6, <1>7 DEF CountInvariant

\* The requests write, or fail.
LEMMA ContinuingARequest ==
  ASSUME CountInvariant, NEW p \in Counters, ContinueCounting(p)
  PROVE  CountInvariant'
<1> DEFINE c == counting[p].at
<1>0. /\ CountTypeOK
      /\ counting[p].op # "none" => c \in Counts /\ count[c] \in CountRow
      /\ counting[p] \in Counting
  BY DEF CountInvariant, CountTypeOK, RequestsKnowTheirCount
<1>1. CASE StartCount(p)
  <2> DEFINE new == [count[c] EXCEPT !.status = "IN_PROGRESS"]
  <2>1. /\ counting[p].op = "start" /\ Finish(p) /\ c \in Counts /\ count[c] \in CountRow
        /\ count' = [count EXCEPT ![c] = new]
        /\ UNCHANGED <<book, shelf, moved, rivals, spoiled>>
    BY <1>0, <1>1 DEF StartCount, CountTypeOK
  <2>2. new \in CountRow /\ new.status = "IN_PROGRESS" /\ new.done = count[c].done
    BY <2>1 DEF CountRow, CountStatuses
  <2>3. c \in Trusted => ~new.done
    BY <2>1, <2>2 DEF CountInvariant, RequestsKnowTheirCount, NewCountsAreEmpty, Trusted
  <2> HIDE DEF new
  <2> QED
    BY <2>1, <2>2, <2>3, WritingACount
<1>2. CASE RecordCount(p)
  <2> DEFINE v == counting[p].n - count[c].system
             e == NeedsRecount(v, count[c].system)
             new == [count[c] EXCEPT !.status = "REVIEW", !.done = TRUE, !.variance = v,
                                     !.recount = e, !.approved = FALSE]
  <2>1. /\ counting[p].op = "record" /\ Finish(p) /\ c \in Counts /\ count[c] \in CountRow
        /\ count' = [count EXCEPT ![c] = new]
        /\ UNCHANGED <<book, shelf, moved, rivals, spoiled>>
    BY <1>0, <1>2 DEF RecordCount, CountTypeOK
  <2>2. v \in Int
    BY <1>0, <2>1 DEF Counting, CountRow
  <2>3. e \in BOOLEAN
    BY DEF NeedsRecount
  <2>4. spoiled \/ c \notin Trusted \/ shelf <= book + v
    BY <2>1 DEF CountInvariant, DifferencesCoverTheShelf
  <2> HIDE DEF v, e
  <2>5. new \in CountRow /\ new.status = "REVIEW" /\ new.variance = v
    BY <2>1, <2>2, <2>3 DEF CountRow, CountStatuses
  <2> HIDE DEF new
  <2> QED
    BY <2>1, <2>4, <2>5, WritingACount
<1>3. CASE ApproveCount(p)
  BY <1>3, ApprovingACount
<1>4. CASE CancelCount(p)
  <2> DEFINE new == [count[c] EXCEPT !.status = "CANCELLED"]
  <2>1. /\ counting[p].op = "cancel" /\ Finish(p) /\ c \in Counts /\ count[c] \in CountRow
        /\ count' = [count EXCEPT ![c] = new]
        /\ UNCHANGED <<book, shelf, moved, rivals, spoiled>>
    BY <1>0, <1>4 DEF CancelCount, CountTypeOK
  <2>2. new \in CountRow /\ new.status = "CANCELLED"
    BY <2>1 DEF CountRow, CountStatuses
  <2> HIDE DEF new
  <2> QED
    BY <2>1, <2>2, WritingACount
<1>5. CASE FailCount(p)
  <2>1. Finish(p) /\ UNCHANGED <<book, shelf, count, moved, rivals, spoiled>>
    BY <1>5 DEF FailCount
  <2>2. /\ counting' \in [Counters -> Counting]
        /\ counting'[p] = Idle /\ Idle.op = "none" /\ Idle.at = NoCount
        /\ \A q \in Counters \ {p} : counting'[q] = counting[q]
    BY <1>0, <2>1, FinishingARequest
  <2>3. CountTypeOK' /\ NewCountsAreEmpty'
    BY <1>0, <2>1, <2>2 DEF CountTypeOK, CountInvariant, NewCountsAreEmpty
  <2>4. HandledByOne'
    BY <2>1, <2>2, NoCountAssumption DEF CountInvariant, HandledByOne
  <2>5. RequestsKnowTheirCount'
    BY <2>1, <2>2 DEF CountInvariant, RequestsKnowTheirCount
  <2>6. ASSUME ~spoiled PROVE DifferencesCoverTheShelf'
    <3>1. DifferencesCoverTheShelf /\ Trusted' = Trusted
      BY <2>1, <2>6 DEF CountInvariant, Trusted
    <3>2. \A d \in Trusted' : Started(d)' /\ count'[d].done => shelf' <= book' + count'[d].variance
      BY <2>1, <3>1 DEF DifferencesCoverTheShelf, Started
    <3>3. ASSUME NEW q \in Counters, counting'[q].at \in Trusted'
          PROVE  /\ counting'[q].op = "record" =>
                      shelf' <= book' + (counting'[q].n - count'[counting'[q].at].system)
                 /\ counting'[q].op = "approve" => shelf' <= book' + counting'[q].n
      <4>1. q # p
        BY <2>2, <3>3, NoCountAssumption DEF Trusted
      <4> QED
        BY <2>1, <2>2, <3>1, <3>3, <4>1 DEF DifferencesCoverTheShelf
    <3> QED
      BY <2>1, <3>1, <3>2, <3>3 DEF DifferencesCoverTheShelf
  <2> QED
    BY <2>1, <2>3, <2>4, <2>5, <2>6 DEF CountInvariant
<1> QED
  BY <1>1, <1>2, <1>3, <1>4, <1>5 DEF ContinueCounting

-----------------------------------------------------------------------------
(* The theorems *)

\* The shelf has what the book says, and nothing is counted.
LEMMA CountsStart == CountInit => CountInvariant
<1> SUFFICES ASSUME CountInit PROVE CountInvariant
  OBVIOUS
<1>1. /\ NoCountYet \in CountRow /\ NoCountYet.status = "absent" /\ ~NoCountYet.done
      /\ Idle \in Counting /\ Idle.op = "none" /\ Idle.at = NoCount
  BY DEF NoCountYet, CountRow, CountStatuses, Idle, Counting
<1>2. CountTypeOK
  BY <1>1, InStockAssumption DEF CountInit, CountTypeOK
<1>3. HandledByOne /\ RequestsKnowTheirCount /\ NewCountsAreEmpty
  BY <1>1, NoCountAssumption DEF CountInit, HandledByOne, RequestsKnowTheirCount, NewCountsAreEmpty
<1>4. /\ shelf <= book
      /\ \A c \in Counts : ~count[c].done
      /\ \A p \in Counters : counting[p].at \notin Counts
  BY <1>1, InStockAssumption, NoCountAssumption DEF CountInit
<1>5. DifferencesCoverTheShelf
  BY <1>4 DEF DifferencesCoverTheShelf, Trusted
<1> QED
  BY <1>2, <1>3, <1>5 DEF CountInvariant

\* Every step keeps the invariant.
LEMMA CountStepsKeepTheInvariant ==
  CountInvariant /\ [CountNext]_countVars => CountInvariant'
<1> SUFFICES ASSUME CountInvariant, [CountNext]_countVars PROVE CountInvariant'
  OBVIOUS
<1>1. CASE UNCHANGED countVars
  BY <1>1 DEF countVars, CountInvariant, CountTypeOK, HandledByOne, RequestsKnowTheirCount,
     NewCountsAreEmpty, DifferencesCoverTheShelf, Trusted, Started
<1>2. CASE CountNext
  BY <1>2, GoodsLeave, CreatingACount, StartingARequest, ContinuingARequest DEF CountNext
<1> QED
  BY <1>1, <1>2

\* The inductive invariant.
THEOREM CountsAreSound == CountSpec => []CountInvariant
BY CountsStart, CountStepsKeepTheInvariant, PTL DEF CountSpec

\* approve: an approval that posts a difference does not make the book show less
\* than the shelf has, whatever leaves meanwhile and whatever requests are
\* repeated or fail, unless its snapshot was stale or it has a rival.
THEOREM CountsWriteOffNoMore == CountSpec => []NothingOnTheShelfIsWrittenOff
<1>1. CountInvariant => NothingOnTheShelfIsWrittenOff
  BY DEF CountInvariant, DifferencesCoverTheShelf, NothingOnTheShelfIsWrittenOff
<1> QED
  BY <1>1, CountsAreSound, PTL

-----------------------------------------------------------------------------
(* The short cache *)

\* A call that is running works for a key.
RunningCallsHaveKeys == \A c \in Calls : call[c].at # "idle" => call[c].key \in Keys

TypesAndKeys == CacheTypeOK /\ RunningCallsHaveKeys

\* An entry that shows at least version v, or is known not to, or is none.
Shows(entry, v) == entry = Absent \/ entry.missed \/ entry.version >= v

\* A call that has read for its key will store such an entry, or is known not to.
WillShow(r) ==
  r.at \in {"read", "fetched", "storing"} => r.missed \/ r.version >= cleared[r.key]

\* The first of the parts: what is stored, and what a call will store.
StoredIsShown ==
  /\ \A k \in Keys : Shows(memory[k], cleared[k]) /\ Shows(redis[k], cleared[k])
  /\ \A c \in Calls : WillShow(call[c])

\* While Redis is scanned, memory holds nothing of the keys, nor do the pages
\* that are done, except what was on its way; and so is every call for them.
ScanIsThorough ==
  writer.at = "scanning" =>
    /\ writer.todo \subseteq writer.keys
    /\ \A k \in writer.keys : memory[k] = Absent \/ memory[k].missed
    /\ \A k \in writer.keys \ writer.todo : redis[k] = Absent \/ redis[k].missed
    /\ \A c \in Calls : call[c].at # "idle" /\ call[c].key \in writer.keys => call[c].missed

ClearedIsPast == \A k \in Keys : cleared[k] <= db[k]

NothingIsMissed == StoredIsShown /\ ScanIsThorough /\ ClearedIsPast

CacheInvariant == TypesAndKeys /\ SingleFlight /\ NothingIsMissed

-----------------------------------------------------------------------------
\* What a call stores is an entry.
LEMMA FilledIsEntry ==
  ASSUME CacheTypeOK, NEW c \in Calls
  PROVE  Filled(c) \in Entry
BY TtlAssumption DEF CacheTypeOK, Filled, Entry, Call

\* No entry is one, and so is an entry that was missed.
LEMMA AbsentAndMissed ==
  Absent \in Entry /\ \A e \in Entry : [e EXCEPT !.missed = TRUE] \in Entry
BY DEF Absent, Entry

\* A copy that lives longer, and may have been missed, is an entry.
LEMMA CopiedEntry ==
  ASSUME NEW e \in Entry, NEW t \in Nat, NEW m \in BOOLEAN
  PROVE  [e EXCEPT !.until = t, !.missed = m] \in Entry
BY DEF Entry

\* Whatever expires, entries stay entries and nothing new appears.
LEMMA ExpireKeepsEntries ==
  ASSUME NEW entries \in [Keys -> Entry], now \in Nat
  PROVE  /\ Expire(entries) \in [Keys -> Entry]
         /\ \A k \in Keys : Expire(entries)[k] = Absent \/ Expire(entries)[k] = entries[k]
BY DEF Expire, Entry, Absent

\* The cache starts in the invariant: nothing is stored and nobody calls.
LEMMA CacheStarts == CacheInit => CacheInvariant
BY PrefixesAssumption
   DEF CacheInit, CacheInvariant, TypesAndKeys, CacheTypeOK, RunningCallsHaveKeys,
       SingleFlight, NothingIsMissed, StoredIsShown, ScanIsThorough, ClearedIsPast, Shows, WillShow, Entry, Absent,
       Call, NoCall, Places, Writer, NoWrite

-----------------------------------------------------------------------------
(* Types *)

\* A call that moves on, reads the database or is told that it was missed is a
\* call, and keeps the rest.
LEMMA MovedCall ==
  ASSUME NEW r \in Call, NEW a \in Places
  PROVE  LET q == [r EXCEPT !.at = a]
         IN  /\ q \in Call /\ q.at = a
             /\ q.key = r.key /\ q.version = r.version /\ q.missed = r.missed
BY DEF Call

\* A call that has read the database.
LEMMA ReadCall ==
  ASSUME NEW r \in Call, NEW v \in Nat
  PROVE  LET q == [r EXCEPT !.at = "read", !.version = v]
         IN  /\ q \in Call /\ q.at = "read"
             /\ q.key = r.key /\ q.version = v /\ q.missed = r.missed
BY DEF Call, Places

\* A call that an invalidation has missed.
LEMMA MissedCall ==
  ASSUME NEW r \in Call
  PROVE  LET q == [r EXCEPT !.missed = TRUE]
         IN  q \in Call /\ q.at = r.at /\ q.key = r.key /\ q.missed
BY DEF Call

\* The calls keep their types and keys when one of them changes.
LEMMA TypedCall ==
  ASSUME TypesAndKeys, NEW c \in Calls, NEW r \in Call, call' = [call EXCEPT ![c] = r],
         r.at # "idle" => r.key \in Keys
  PROVE  call' \in [Calls -> Call] /\ RunningCallsHaveKeys'
BY DEF TypesAndKeys, CacheTypeOK, RunningCallsHaveKeys

\* A call that is not running.
LEMMA NoCallIsACall == NoCall \in Call /\ NoCall.at = "idle"
BY DEF NoCall, Call, Places

\* Every step keeps the types, and a key for each running call.
LEMMA StepsKeepTypes ==
  ASSUME TypesAndKeys, [CacheNext]_cacheVars
  PROVE  TypesAndKeys'
<1>a. /\ CacheTypeOK
      /\ \A c \in Calls : call[c] \in Call /\ (call[c].at # "idle" => call[c].key \in Keys)
  BY DEF TypesAndKeys, CacheTypeOK, RunningCallsHaveKeys
<1>b. ASSUME NEW c \in Calls, NEW a \in Places, call' = [call EXCEPT ![c].at = a],
             call[c].at # "idle"
      PROVE  call' \in [Calls -> Call] /\ RunningCallsHaveKeys'
  <2> DEFINE r == [call[c] EXCEPT !.at = a]
  <2>2. r \in Call /\ r.key \in Keys
    BY <1>a, <1>b, MovedCall
  <2>3. call' = [call EXCEPT ![c] = r]
    BY <1>b
  <2> QED
    BY <2>2, <2>3, TypedCall
<1>c. ASSUME NEW c \in Calls, call' = [call EXCEPT ![c] = NoCall]
      PROVE  call' \in [Calls -> Call] /\ RunningCallsHaveKeys'
  BY <1>c, TypedCall, NoCallIsACall
<1>1. ASSUME NEW c \in Calls, NEW k \in Keys, GetOrSetJson(c, k) \/ FetchForSet(c, k)
      PROVE  TypesAndKeys'
  <2>1. PICK a \in Places, v \in Nat, m \in BOOLEAN :
          call' = [call EXCEPT ![c] =
            [at |-> a, key |-> k, since |-> now, version |-> v, missed |-> m]]
    BY <1>a, <1>1 DEF GetOrSetJson, FetchForSet, Places, CacheTypeOK
  <2>2. [at |-> a, key |-> k, since |-> now, version |-> v, missed |-> m] \in Call
    BY <1>a DEF Call, CacheTypeOK
  <2>3. call' \in [Calls -> Call] /\ RunningCallsHaveKeys'
    BY <2>1, <2>2, TypedCall
  <2> QED
    BY <1>a, <1>1, <2>3 DEF TypesAndKeys, CacheTypeOK, GetOrSetJson, FetchForSet
<1>2. ASSUME NEW c \in Calls, RedisMisses(c) \/ RedisFails(c)
      PROVE  TypesAndKeys'
  <2>1. call[c].at # "idle"
    BY <1>2 DEF RedisMisses, RedisFails
  <2>2. \/ \E a \in Places : call' = [call EXCEPT ![c].at = a]
        \/ call' = [call EXCEPT ![c] = NoCall]
    BY <1>2 DEF RedisMisses, RedisFails, Produce, Places
  <2>3. call' \in [Calls -> Call] /\ RunningCallsHaveKeys'
    BY <1>b, <1>c, <2>1, <2>2
  <2> QED
    BY <1>a, <1>2, <2>3 DEF TypesAndKeys, CacheTypeOK, RedisMisses, RedisFails
<1>3. ASSUME NEW c \in Calls, RedisHits(c)
      PROVE  TypesAndKeys'
  <2> DEFINE k == call[c].key
             copy == [redis[k] EXCEPT !.until = call[c].since + Ttl,
                                      !.missed = @ \/ call[c].missed]
  <2>1. k \in Keys /\ redis[k] \in Entry /\ call[c] \in Call
    BY <1>a, <1>3 DEF RedisHits, CacheTypeOK
  <2>2. copy \in Entry
    <3>1. (redis[k].missed \/ call[c].missed) \in BOOLEAN
      OBVIOUS
    <3>2. call[c].since + Ttl \in Nat
      BY <2>1, TtlAssumption DEF Call
    <3> QED
      BY <2>1, <3>1, <3>2, CopiedEntry
  <2>3. memory' = [memory EXCEPT ![k] = copy]
    BY <1>3 DEF RedisHits
  <2>4. memory' \in [Keys -> Entry]
    BY <1>a, <2>2, <2>3 DEF CacheTypeOK
  <2> QED
    BY <1>a, <1>3, <1>c, <2>4 DEF TypesAndKeys, CacheTypeOK, RedisHits
<1>4. ASSUME NEW c \in Calls, ReadDatabase(c)
      PROVE  TypesAndKeys'
  <2> DEFINE r == [call[c] EXCEPT !.at = "read", !.version = db[call[c].key]]
  <2>1. call[c].key \in Keys /\ db[call[c].key] \in Nat
    BY <1>a, <1>4 DEF ReadDatabase, CacheTypeOK
  <2>3. r \in Call /\ r.key \in Keys
    BY <1>a, <2>1, ReadCall
  <2>4. call' = [call EXCEPT ![c] = r]
    BY <1>4 DEF ReadDatabase
  <2>5. call' \in [Calls -> Call] /\ RunningCallsHaveKeys'
    BY <2>3, <2>4, TypedCall
  <2> QED
    BY <1>a, <1>4, <2>5 DEF TypesAndKeys, CacheTypeOK, ReadDatabase
<1>5. ASSUME NEW c \in Calls, SetJson(c) \/ StoreInRedis(c)
      PROVE  TypesAndKeys'
  <2>1. call[c].at # "idle" /\ "storing" \in Places
    BY <1>5 DEF SetJson, StoreInRedis, Places
  <2>2. \/ call' = [call EXCEPT ![c].at = "storing"]
        \/ call' = [call EXCEPT ![c] = NoCall]
    BY <1>5 DEF SetJson, StoreInRedis
  <2>3. call' \in [Calls -> Call] /\ RunningCallsHaveKeys'
    BY <1>b, <1>c, <2>1, <2>2
  <2> QED
    BY <1>a, <1>5, <2>3, FilledIsEntry DEF TypesAndKeys, CacheTypeOK, SetJson, StoreInRedis
<1>6. ASSUME NEW c \in Calls, ProducerDone(c) \/ ProducerThrows(c)
      PROVE  TypesAndKeys'
  <2> DEFINE stored == [call[c] EXCEPT !.at = "storing"]
  <2>1. call[c].at # "idle" /\ "storing" \in Places
    BY <1>6 DEF ProducerDone, ProducerThrows, Places
  <2>3. stored \in Call /\ stored.key \in Keys
    BY <1>a, <2>1, MovedCall
  <2> HIDE DEF stored
  <2>4. /\ call' = [d \in Calls |-> call'[d]]
        /\ \A d \in Calls : call'[d] \in {call[d], NoCall, stored}
    BY <1>6 DEF ProducerDone, ProducerThrows, stored
  <2>5. call' \in [Calls -> Call] /\ RunningCallsHaveKeys'
    BY <1>a, <2>3, <2>4, NoCallIsACall DEF RunningCallsHaveKeys
  <2> QED
    BY <1>a, <1>6, <2>5, FilledIsEntry
       DEF TypesAndKeys, CacheTypeOK, ProducerDone, ProducerThrows
<1>7. ASSUME NEW keys \in Prefixes, NEW k \in Keys, WriteDatabase(k, keys)
      PROVE  TypesAndKeys'
  BY <1>7, PrefixesAssumption
     DEF WriteDatabase, Writer, TypesAndKeys, CacheTypeOK, RunningCallsHaveKeys
<1>8. CASE InvalidateMemory
  <2>1. \A d \in Calls : call'[d] \in {call[d], [call[d] EXCEPT !.missed = TRUE]}
    BY <1>8 DEF InvalidateMemory
  <2>3. \A d \in Calls : /\ call'[d] \in Call
                         /\ call'[d].at # "idle" => call'[d].key \in Keys
    <3>1. \A d \in Calls : /\ call[d] \in Call
                           /\ call[d].at # "idle" => call[d].key \in Keys
      BY <1>a
    <3>2. ASSUME NEW d \in Calls, call'[d] = [call[d] EXCEPT !.missed = TRUE]
          PROVE  /\ call'[d] \in Call
                 /\ call'[d].at = call[d].at /\ call'[d].key = call[d].key
      BY <3>1, <3>2, MissedCall
    <3> QED
      BY <2>1, <3>1, <3>2
  <2>4. call' \in [Calls -> Call] /\ RunningCallsHaveKeys'
    BY <1>8, <2>3 DEF InvalidateMemory, RunningCallsHaveKeys
  <2>5. memory' \in [Keys -> Entry] /\ redis' \in [Keys -> Entry]
    BY <1>a, <1>8, AbsentAndMissed DEF CacheTypeOK, InvalidateMemory, MissedIn
  <2>6. writer' \in Writer /\ cleared' \in [Keys -> Nat]
    <3>1. \/ writer' = [at |-> "scanning", keys |-> writer.keys, todo |-> writer.keys]
          \/ writer' = NoWrite
      BY <1>a, <1>8 DEF CacheTypeOK, InvalidateMemory, Writer
    <3>2. writer' \in Writer
      BY <1>a, <3>1 DEF CacheTypeOK, Writer, NoWrite
    <3> QED
      BY <1>a, <1>8, <3>2 DEF CacheTypeOK, InvalidateMemory, Cleared
  <2> QED
    BY <1>a, <1>8, <2>4, <2>5, <2>6 DEF TypesAndKeys, CacheTypeOK, InvalidateMemory
<1>9. CASE ScanPage
  <2>1. PICK page \in SUBSET writer.todo :
          /\ redis' = [k \in Keys |-> IF k \in page THEN Absent ELSE redis[k]]
          /\ IF page = writer.todo
             THEN writer' = NoWrite /\ Cleared(writer.keys)
             ELSE writer' = [writer EXCEPT !.todo = @ \ page] /\ UNCHANGED cleared
    BY <1>9 DEF ScanPage
  <2>2. redis' \in [Keys -> Entry]
    BY <1>a, <2>1 DEF CacheTypeOK, Absent, Entry
  <2>3. writer' \in Writer /\ cleared' \in [Keys -> Nat]
    BY <1>a, <2>1 DEF CacheTypeOK, Cleared, Writer, NoWrite
  <2> QED
    BY <1>a, <1>9, <2>2, <2>3 DEF TypesAndKeys, CacheTypeOK, RunningCallsHaveKeys, ScanPage
<1>10. CASE ScanFails
  BY <1>10, AbsentAndMissed DEF ScanFails, MissedIn, Cleared, Writer, NoWrite,
               TypesAndKeys, CacheTypeOK, RunningCallsHaveKeys
<1>11. CASE Tick
  BY <1>11, ExpireKeepsEntries DEF Tick, TypesAndKeys, CacheTypeOK, RunningCallsHaveKeys
<1>12. CASE Restart
  BY <1>12, NoCallIsACall DEF Restart, NoWrite, Writer, Absent, Entry,
                              TypesAndKeys, CacheTypeOK, RunningCallsHaveKeys
<1>13. CASE UNCHANGED cacheVars
  BY <1>13 DEF cacheVars, TypesAndKeys, CacheTypeOK, RunningCallsHaveKeys
<1> QED
  BY <1>1, <1>2, <1>3, <1>4, <1>5, <1>6, <1>7, <1>8, <1>9, <1>10, <1>11, <1>12, <1>13
     DEF CacheNext

-----------------------------------------------------------------------------
(* One producer at a time *)

\* A step that starts no producer, or one for a key that had none, and gives no
\* other call a key keeps SingleFlight.
LEMMA StepsKeepSingleFlight ==
  ASSUME TypesAndKeys, SingleFlight, [CacheNext]_cacheVars
  PROVE  SingleFlight'
<1> USE DEF TypesAndKeys, CacheTypeOK, SingleFlight
<1>1. ASSUME NEW c \in Calls, NEW k \in Keys, GetOrSetJson(c, k) \/ FetchForSet(c, k)
      PROVE  SingleFlight'
  BY <1>1 DEF GetOrSetJson, FetchForSet, InFlight, Call
<1>2. ASSUME NEW c \in Calls, RedisMisses(c) \/ RedisFails(c)
      PROVE  SingleFlight'
  BY <1>2 DEF RedisMisses, RedisFails, Produce, InFlight, Call, NoCall
<1>3. ASSUME NEW c \in Calls, RedisHits(c) \/ StoreInRedis(c) \/ SetJson(c) \/ ReadDatabase(c)
      PROVE  SingleFlight'
  BY <1>3 DEF RedisHits, StoreInRedis, SetJson, ReadDatabase, Call, NoCall
<1>4. ASSUME NEW c \in Calls, ProducerDone(c) \/ ProducerThrows(c)
      PROVE  SingleFlight'
  BY <1>4 DEF ProducerDone, ProducerThrows, Call, NoCall
<1>5. CASE InvalidateMemory
  BY <1>5 DEF InvalidateMemory, Call
<1>6. CASE Restart
  BY <1>6 DEF Restart, NoCall
<1>7. CASE UNCHANGED call
  BY <1>7
<1>8. ASSUME NEW keys \in Prefixes, NEW k \in Keys, WriteDatabase(k, keys)
      PROVE  UNCHANGED call
  BY <1>8 DEF WriteDatabase
<1>9. ScanPage \/ ScanFails \/ Tick \/ UNCHANGED cacheVars => UNCHANGED call
  BY DEF ScanPage, ScanFails, Tick, cacheVars
<1> QED
  BY <1>1, <1>2, <1>3, <1>4, <1>5, <1>6, <1>7, <1>8, <1>9 DEF CacheNext

-----------------------------------------------------------------------------
(* What an invalidation leaves behind *)

\* Steps of one call that leave the database, Redis's pages and the writer alone.
LEMMA CallStepsMissNothing ==
  ASSUME TypesAndKeys, NothingIsMissed, NEW c \in Calls, NEW k \in Keys,
         \/ GetOrSetJson(c, k) \/ FetchForSet(c, k)
         \/ RedisMisses(c) \/ RedisHits(c) \/ RedisFails(c) \/ StoreInRedis(c)
         \/ ReadDatabase(c) \/ ProducerDone(c) \/ ProducerThrows(c) \/ SetJson(c)
  PROVE  NothingIsMissed'
<1>a. /\ CacheTypeOK
      /\ \A d \in Calls : call[d] \in Call /\ (call[d].at # "idle" => call[d].key \in Keys)
  BY DEF TypesAndKeys, CacheTypeOK, RunningCallsHaveKeys
<1>b. UNCHANGED <<db, writer, cleared>>
  BY DEF GetOrSetJson, FetchForSet, RedisMisses, RedisHits, RedisFails, StoreInRedis,
         ReadDatabase, ProducerDone, ProducerThrows, SetJson
<1>c. /\ \A d \in Calls : WillShow(call[d])
      /\ \A d \in Calls : writer.at = "scanning" /\ call[d].at # "idle"
                          /\ call[d].key \in writer.keys => call[d].missed
  BY DEF NothingIsMissed, StoredIsShown, ScanIsThorough
\* What a call knows after its step.
<1> DEFINE Kept(r) == /\ WillShow(r)
                      /\ writer.at = "scanning" /\ r.at # "idle" /\ r.key \in writer.keys
                           => r.missed
<1>d. Kept(NoCall) /\ \A d \in Calls : Kept(call[d])
  BY <1>c DEF NoCall, WillShow
<1>e. ASSUME NEW a \in Places, call[c].at # "idle",
             a \in {"read", "fetched", "storing"} => call[c].at \in {"read", "fetched"}
      PROVE  Kept([call[c] EXCEPT !.at = a])
  BY <1>a, <1>d, <1>e, MovedCall DEF WillShow
<1>1. \A d \in Calls : Kept(call'[d])
  <2>1. CASE GetOrSetJson(c, k)
    <3>1. \A d \in Calls \ {c} : call'[d] = call[d]
      BY <2>1 DEF GetOrSetJson
    <3>2. /\ call'[c].at \notin {"read", "fetched", "storing"}
          /\ call'[c].key = k
          /\ writer.at = "scanning" /\ k \in writer.keys => call'[c].missed
      BY <1>a, <2>1 DEF GetOrSetJson, CacheTypeOK
    <3> QED
      BY <1>d, <3>1, <3>2 DEF WillShow
  <2>2. CASE FetchForSet(c, k)
    <3>1. \A d \in Calls \ {c} : call'[d] = call[d]
      BY <2>2 DEF FetchForSet
    <3>2. /\ call'[c].version = db[k]
          /\ call'[c].key = k
          /\ writer.at = "scanning" /\ k \in writer.keys => call'[c].missed
      BY <1>a, <2>2 DEF FetchForSet, CacheTypeOK
    <3>3. db[k] >= cleared[k]
      BY <1>a DEF NothingIsMissed, ClearedIsPast, CacheTypeOK
    <3> QED
      BY <1>d, <3>1, <3>2, <3>3 DEF WillShow
  <2>3. CASE ReadDatabase(c)
    <3>1. \A d \in Calls \ {c} : call'[d] = call[d]
      BY <1>a, <2>3 DEF ReadDatabase, CacheTypeOK
    <3>2. call[c].key \in Keys /\ db[call[c].key] \in Nat
      BY <1>a, <2>3 DEF ReadDatabase, CacheTypeOK
    <3>3. call'[c] = [call[c] EXCEPT !.at = "read", !.version = db[call[c].key]]
      BY <1>a, <2>3 DEF ReadDatabase, CacheTypeOK
    <3>4. /\ call'[c].version = db[call[c].key]
          /\ call'[c].key = call[c].key
          /\ call'[c].missed = call[c].missed
      <4> DEFINE r == call[c]
                 v == db[call[c].key]
      <4>1. r \in Call /\ v \in Nat
        BY <1>a, <3>2
      <4> HIDE DEF r, v
      <4>2. LET q == [r EXCEPT !.at = "read", !.version = v]
            IN  q.version = v /\ q.key = r.key /\ q.missed = r.missed
        BY <4>1, ReadCall
      <4> QED
        BY <3>3, <4>2 DEF r, v
    <3>5. db[call[c].key] >= cleared[call[c].key]
      BY <1>a, <3>2 DEF NothingIsMissed, ClearedIsPast, CacheTypeOK
    <3>6. call[c].at # "idle"
      BY <2>3 DEF ReadDatabase
    <3> QED
      BY <1>d, <3>1, <3>4, <3>5, <3>6 DEF WillShow
  <2>4. CASE RedisMisses(c) \/ RedisFails(c)
    BY <1>a, <1>d, <1>e, <2>4
       DEF RedisMisses, RedisFails, Produce, Places, CacheTypeOK
  <2>5. CASE RedisHits(c) \/ StoreInRedis(c)
    BY <1>a, <1>d, <2>5 DEF RedisHits, StoreInRedis, CacheTypeOK
  <2>6. CASE SetJson(c) \/ ProducerDone(c) \/ ProducerThrows(c)
    <3>1. \A d \in Calls :
            call'[d] \in {call[d], NoCall} \/
            /\ call'[d] = [call[c] EXCEPT !.at = "storing"]
            /\ call[c].at \in {"fetched", "read"}
      BY <1>a, <2>6 DEF SetJson, ProducerDone, ProducerThrows, CacheTypeOK
    <3> QED
      BY <1>d, <1>e, <3>1 DEF Places
  <2> QED
    BY <2>1, <2>2, <2>3, <2>4, <2>5, <2>6
<1>2. ASSUME call[c].at \in {"read", "fetched", "storing"}
      PROVE  /\ Shows(Filled(c), cleared[call[c].key])
             /\ writer.at = "scanning" /\ call[c].key \in writer.keys => Filled(c).missed
  BY <1>a, <1>d, <1>2 DEF Shows, Filled, WillShow
<1>3. ASSUME RedisHits(c)
      PROVE  /\ Shows(memory'[call[c].key], cleared[call[c].key])
             /\ writer.at = "scanning" /\ call[c].key \in writer.keys
                  => memory'[call[c].key].missed
  <2> DEFINE e == redis[call[c].key]
             copy == [e EXCEPT !.until = call[c].since + Ttl, !.missed = @ \/ call[c].missed]
  <2>1. call[c].key \in Keys /\ e \in Entry /\ Live(e) /\ call[c].at # "idle"
    BY <1>a, <1>3 DEF RedisHits, CacheTypeOK
  <2>2. e # Absent
    BY <1>a, <2>1 DEF Live, Absent, CacheTypeOK
  <2>3. memory'[call[c].key] = copy
    BY <1>a, <1>3, <2>1 DEF RedisHits, CacheTypeOK
  <2>4. copy.version = e.version /\ copy.missed = (e.missed \/ call[c].missed)
    BY <2>1 DEF Entry
  <2>5. e.missed \/ e.version >= cleared[call[c].key]
    BY <2>1, <2>2 DEF NothingIsMissed, StoredIsShown, Shows
  <2> HIDE DEF copy
  <2> QED
    BY <1>d, <2>1, <2>3, <2>4, <2>5 DEF Shows
<1>4. \A j \in Keys :
        \/ memory'[j] = memory[j]
        \/ /\ Shows(memory'[j], cleared[j])
           /\ writer.at = "scanning" /\ j \in writer.keys => memory'[j].missed
  <2>1. CASE UNCHANGED memory
    BY <2>1
  <2>2. CASE RedisHits(c)
    BY <1>a, <1>3, <2>2 DEF RedisHits, CacheTypeOK
  <2>3. CASE SetJson(c) \/ ProducerDone(c)
    BY <1>a, <1>2, <2>3 DEF SetJson, ProducerDone, CacheTypeOK
  <2> QED
    BY <2>1, <2>2, <2>3
       DEF GetOrSetJson, FetchForSet, RedisMisses, RedisFails, StoreInRedis,
           ReadDatabase, ProducerThrows
<1>5. \A j \in Keys :
        \/ redis'[j] = redis[j]
        \/ /\ Shows(redis'[j], cleared[j])
           /\ writer.at = "scanning" /\ j \in writer.keys => redis'[j].missed
  <2>1. CASE UNCHANGED redis
    BY <2>1
  <2>2. CASE StoreInRedis(c)
    BY <1>a, <1>2, <2>2 DEF StoreInRedis, CacheTypeOK
  <2> QED
    BY <2>1, <2>2
       DEF GetOrSetJson, FetchForSet, RedisMisses, RedisHits, RedisFails, SetJson,
           ReadDatabase, ProducerDone, ProducerThrows
<1>6. StoredIsShown'
  BY <1>b, <1>1, <1>4, <1>5 DEF NothingIsMissed, StoredIsShown, WillShow, Shows
<1>7. ScanIsThorough'
  BY <1>a, <1>b, <1>1, <1>4, <1>5 DEF NothingIsMissed, ScanIsThorough, CacheTypeOK, Writer
<1>8. ClearedIsPast'
  BY <1>b DEF NothingIsMissed, ClearedIsPast
<1> QED
  BY <1>6, <1>7, <1>8 DEF NothingIsMissed

\* Every other step: a commit, the invalidation, time, and a restart.
LEMMA OtherStepsMissNothing ==
  ASSUME TypesAndKeys, NothingIsMissed,
         \/ \E keys \in Prefixes, k \in Keys : WriteDatabase(k, keys)
         \/ InvalidateMemory \/ ScanPage \/ ScanFails \/ Tick \/ Restart
         \/ UNCHANGED cacheVars
  PROVE  NothingIsMissed'
<1>a. /\ CacheTypeOK
      /\ \A d \in Calls : call[d] \in Call /\ (call[d].at # "idle" => call[d].key \in Keys)
  BY DEF TypesAndKeys, CacheTypeOK, RunningCallsHaveKeys
<1> USE DEF NothingIsMissed, StoredIsShown, ScanIsThorough, ClearedIsPast
<1>b. \A v, w \in Nat, r \in Call : v <= w /\ r.version >= w => r.version >= v
  BY DEF Call
\* When the keys of an invalidation are cleared, the others keep their claims
\* and the entries and calls of these have been told.
<1>c. ASSUME NEW keys \in SUBSET Keys, Cleared(keys), UNCHANGED db,
             \A k \in Keys \ keys : /\ memory'[k] \in {memory[k], Absent}
                                    /\ redis'[k] \in {redis[k], Absent},
             \A k \in keys : /\ memory'[k] = Absent \/ memory'[k].missed
                             /\ redis'[k] = Absent \/ redis'[k].missed,
             \A d \in Calls :
               \/ call'[d] = call[d] /\ call[d].key \notin keys
               \/ call'[d] = call[d] /\ call[d].at = "idle"
               \/ call'[d].missed,
             writer'.at # "scanning"
      PROVE  NothingIsMissed'
  <2>1. /\ \A k \in keys : cleared'[k] = db[k]
        /\ \A k \in Keys \ keys : cleared'[k] = cleared[k]
    BY <1>c DEF Cleared
  <2>2. \A k \in Keys : Shows(memory[k], cleared[k])' /\ Shows(redis[k], cleared[k])'
    BY <1>c, <2>1 DEF Shows, Absent
  <2>3. \A d \in Calls : WillShow(call[d])'
    BY <1>a, <1>c, <2>1 DEF WillShow
  <2>4. ClearedIsPast'
    BY <1>a, <1>c, <2>1 DEF CacheTypeOK
  <2> QED
    BY <1>c, <2>2, <2>3, <2>4
<1>1. ASSUME NEW keys \in Prefixes, NEW k \in Keys, WriteDatabase(k, keys)
      PROVE  NothingIsMissed'
  <2>1. \A j \in Keys : db'[j] >= db[j] /\ db'[j] \in Nat
    BY <1>a, <1>1 DEF WriteDatabase, CacheTypeOK
  <2>2. ClearedIsPast'
    BY <1>a, <1>1, <2>1 DEF WriteDatabase, CacheTypeOK
  <2> QED
    BY <1>1, <2>2 DEF WriteDatabase, WillShow, Shows
<1>2. CASE InvalidateMemory
  <2>1. writer.keys \in SUBSET Keys
    BY <1>a DEF CacheTypeOK, Writer
  <2>2. \A d \in Calls :
          \/ call'[d] = call[d] /\ call[d].key \notin writer.keys
          \/ call'[d] = [call[d] EXCEPT !.missed = TRUE]
    BY <1>2 DEF InvalidateMemory
  <2>3. \A d \in Calls :
          \/ call'[d] = call[d] /\ call[d].key \notin writer.keys
          \/ call'[d].missed
    BY <1>a, <2>2, MissedCall
  <2>4. \A k \in Keys : memory'[k] = IF k \in writer.keys THEN Absent ELSE memory[k]
    BY <1>2 DEF InvalidateMemory
  <2>5. CASE redisUp
    <3>1. UNCHANGED <<redis, cleared, db>>
      BY <1>2, <2>5 DEF InvalidateMemory
    <3>2. writer' = [writer EXCEPT !.at = "scanning", !.todo = writer.keys]
      BY <1>2, <2>5 DEF InvalidateMemory
    <3>3. writer'.keys = writer.keys /\ writer'.todo = writer.keys
      BY <1>a, <3>2 DEF CacheTypeOK, Writer
    <3>4. StoredIsShown'
      BY <2>3, <2>4, <3>1 DEF WillShow, Shows
    <3>5. ScanIsThorough'
      BY <2>1, <2>3, <2>4, <3>3
    <3> QED
      BY <3>1, <3>4, <3>5
  <2>6. CASE ~redisUp
    <3>1. MissedIn(writer.keys) /\ Cleared(writer.keys) /\ writer' = NoWrite /\ UNCHANGED db
      BY <1>2, <2>6 DEF InvalidateMemory
    <3>2. \A k \in Keys :
            \/ redis'[k] = redis[k] /\ (k \notin writer.keys \/ redis[k] = Absent)
            \/ redis'[k] = [redis[k] EXCEPT !.missed = TRUE] /\ k \in writer.keys
      BY <3>1 DEF MissedIn
    <3>3. \A e \in Entry : [e EXCEPT !.missed = TRUE].missed
      BY DEF Entry
    <3>4. \A k \in Keys :
            \/ redis'[k] = redis[k] /\ (k \notin writer.keys \/ redis[k] = Absent)
            \/ redis'[k].missed /\ k \in writer.keys
      BY <1>a, <3>2, <3>3 DEF CacheTypeOK
    <3> QED
      BY <1>c, <2>1, <2>3, <2>4, <3>1, <3>4 DEF NoWrite
  <2> QED
    BY <2>5, <2>6
<1>3. CASE ScanPage
  <2>1. PICK page \in SUBSET writer.todo :
          /\ redis' = [k \in Keys |-> IF k \in page THEN Absent ELSE redis[k]]
          /\ IF page = writer.todo
             THEN writer' = NoWrite /\ Cleared(writer.keys)
             ELSE writer' = [writer EXCEPT !.todo = @ \ page] /\ UNCHANGED cleared
    BY <1>3 DEF ScanPage
  <2>2. /\ UNCHANGED <<db, memory, call>> /\ writer.at = "scanning"
        /\ writer.keys \in SUBSET Keys
    BY <1>a, <1>3 DEF ScanPage, CacheTypeOK, Writer
  <2>3. CASE page = writer.todo
    BY <1>c, <2>1, <2>2, <2>3 DEF NoWrite
  <2>4. CASE page # writer.todo
    <3>1. writer'.keys = writer.keys /\ writer'.todo = writer.todo \ page
      BY <1>a, <2>1, <2>4 DEF CacheTypeOK, Writer
    <3>2. StoredIsShown'
      BY <2>1, <2>2, <2>4 DEF WillShow, Shows
    <3>3. ScanIsThorough'
      BY <2>1, <2>2, <3>1
    <3> QED
      BY <2>1, <2>2, <2>4, <3>2, <3>3
  <2> QED
    BY <2>3, <2>4
<1>4. CASE ScanFails
  <2>1. \A e \in Entry : [e EXCEPT !.missed = TRUE].missed
    BY DEF Entry
  <2>2. \A k \in Keys :
          \/ redis'[k] = redis[k] /\ (k \notin writer.todo \/ redis[k] = Absent)
          \/ redis'[k].missed /\ k \in writer.todo
    BY <1>a, <1>4, <2>1 DEF ScanFails, MissedIn, CacheTypeOK
  <2>3. /\ writer.todo \subseteq writer.keys /\ writer.keys \in SUBSET Keys
        /\ writer' = NoWrite /\ Cleared(writer.keys)
        /\ UNCHANGED <<db, memory, call>>
    BY <1>a, <1>4 DEF ScanFails, CacheTypeOK, Writer
  <2>4. \A k \in writer.keys : /\ memory'[k] = Absent \/ memory'[k].missed
                               /\ redis'[k] = Absent \/ redis'[k].missed
    BY <1>4, <2>2, <2>3 DEF ScanFails
  <2>5. \A d \in Calls :
          \/ call[d].key \notin writer.keys
          \/ call[d].at = "idle"
          \/ call[d].missed
    BY <1>4 DEF ScanFails
  <2>6. \A k \in Keys \ writer.keys : /\ memory'[k] \in {memory[k], Absent}
                                      /\ redis'[k] \in {redis[k], Absent}
    BY <2>2, <2>3
  <2>7. \A d \in Calls :
          \/ call'[d] = call[d] /\ call[d].key \notin writer.keys
          \/ call'[d] = call[d] /\ call[d].at = "idle"
          \/ call'[d].missed
    BY <2>3, <2>5
  <2>8. writer'.at # "scanning" /\ UNCHANGED db
    BY <2>3 DEF NoWrite
  <2> HIDE DEF NothingIsMissed
  <2> QED
    BY <1>c, <2>3, <2>4, <2>6, <2>7, <2>8
<1>5. CASE Tick
  <2>1. \A k \in Keys : /\ memory'[k] \in {memory[k], Absent}
                        /\ redis'[k] \in {redis[k], Absent}
    BY <1>5 DEF Tick, Expire
  <2>2. UNCHANGED <<db, call, writer, cleared>>
    BY <1>5 DEF Tick
  <2>3. StoredIsShown'
    BY <2>1, <2>2 DEF WillShow, Shows
  <2>4. ScanIsThorough'
    BY <1>a, <2>1, <2>2 DEF CacheTypeOK, Writer
  <2>5. ClearedIsPast'
    BY <2>2
  <2> QED
    BY <2>3, <2>4, <2>5
<1>6. CASE Restart
  BY <1>6 DEF Restart, NoCall, NoWrite, WillShow, Shows
<1>7. CASE UNCHANGED cacheVars
  BY <1>7 DEF cacheVars, WillShow, Shows
<1> QED
  BY <1>1, <1>2, <1>3, <1>4, <1>5, <1>6, <1>7

-----------------------------------------------------------------------------
(* Theorems *)

\* The parts together are inductive.
LEMMA CacheStepsKeepIt == CacheInvariant /\ [CacheNext]_cacheVars => CacheInvariant'
<1> SUFFICES ASSUME CacheInvariant, [CacheNext]_cacheVars
             PROVE  CacheInvariant'
  OBVIOUS
<1>1. TypesAndKeys' /\ SingleFlight'
  BY StepsKeepTypes, StepsKeepSingleFlight DEF CacheInvariant
<1>2. NothingIsMissed'
  <2>1. ASSUME NEW c \in Calls, NEW k \in Keys, GetOrSetJson(c, k) \/ FetchForSet(c, k)
        PROVE  NothingIsMissed'
    BY <2>1, CallStepsMissNothing DEF CacheInvariant
  <2>2. ASSUME NEW c \in Calls,
               \/ RedisMisses(c) \/ RedisHits(c) \/ RedisFails(c) \/ StoreInRedis(c)
               \/ ReadDatabase(c) \/ ProducerDone(c) \/ ProducerThrows(c) \/ SetJson(c)
        PROVE  NothingIsMissed'
    <3>1. call[c].key \in Keys
      BY <2>2 DEF CacheInvariant, TypesAndKeys, RunningCallsHaveKeys, RedisMisses,
                  RedisHits, RedisFails, StoreInRedis, ReadDatabase, ProducerDone,
                  ProducerThrows, SetJson
    <3> QED
      BY <2>2, <3>1, CallStepsMissNothing DEF CacheInvariant
  <2> QED
    BY <2>1, <2>2, OtherStepsMissNothing DEF CacheInvariant, CacheNext
<1> QED
  BY <1>1, <1>2 DEF CacheInvariant

\* The inductive invariant.
THEOREM CacheIsSound == CacheSpec => []CacheInvariant
<1>1. CacheInit => CacheInvariant
  BY CacheStarts
<1>2. CacheInvariant /\ [CacheNext]_cacheVars => CacheInvariant'
  BY CacheStepsKeepIt
<1> QED
  BY <1>1, <1>2, PTL DEF CacheSpec

\* Type correctness.
THEOREM CacheTypes == CacheSpec => []CacheTypeOK
<1>1. CacheInvariant => CacheTypeOK
  BY DEF CacheInvariant, TypesAndKeys
<1> QED
  BY <1>1, CacheIsSound, PTL

\* getOrSetJson's inFlight map: one process runs at most one producer of a key,
\* whatever awaits interleave and whenever Redis fails.
THEOREM OneProducerPerKey == CacheSpec => []SingleFlight
<1>1. CacheInvariant => SingleFlight
  BY DEF CacheInvariant
<1> QED
  BY <1>1, CacheIsSound, PTL

\* invalidatePrefix: an entry older than the last completed invalidation of its
\* key was on its way while that ran, or lay in a Redis it could not reach.
THEOREM InvalidationsAreThorough == CacheSpec => []OnlyMissedEntriesAreStale
<1>1. CacheInvariant => OnlyMissedEntriesAreStale
  <2> SUFFICES ASSUME CacheInvariant PROVE OnlyMissedEntriesAreStale
    OBVIOUS
  <2>1. now \in Nat
    BY DEF CacheInvariant, TypesAndKeys, CacheTypeOK
  <2>2. \A e \in {Absent} : ~Live(e)
    BY <2>1 DEF Live, Absent
  <2>3. \A k \in Keys : Shows(memory[k], cleared[k]) /\ Shows(redis[k], cleared[k])
    BY DEF CacheInvariant, NothingIsMissed, StoredIsShown
  <2> QED
    BY <2>2, <2>3 DEF OnlyMissedEntriesAreStale, Shows
<1> QED
  BY <1>1, CacheIsSound, PTL

-----------------------------------------------------------------------------
(* Production orders *)

\* How the row of an order, what it holds and what it made go together.
StandsFor(o, h, m) ==
  /\ o.status = "PLANNED" => o.snapshots = << >> /\ h = 0 /\ m = 0
  /\ o.status = "IN_PROGRESS" =>
       Len(o.snapshots) = 1 /\ o.snapshots[1].n = o.planned /\ h = o.planned /\ m = 0
  /\ o.status = "COMPLETED" => h = 0 /\ m = o.actual
  /\ o.status = "CANCELLED" => h = 0 /\ m = 0

\* An order that was never worked on by two requests at once stands so.
OrdersStand == \A o \in Orders \ odd : StandsFor(order[o], held[o], made[o])

\* What a request that is the only one of its order knows of it.
Knows(r, o) ==
  /\ r.op \in {"start", "complete", "cancel", "stage"}
  /\ r.status = o.status
  /\ r.op = "start" => r.status = "PLANNED" /\ (r.enough => r.n = o.planned)
  /\ r.op = "complete" =>
       r.status = "IN_PROGRESS" /\ (r.enough => r.row = 1 /\ r.was = o.planned)
  /\ r.op = "cancel" => r.status \in {"PLANNED", "IN_PROGRESS"}

\* The only request of an order knows how the order stands...
RequestsKnowOrders ==
  \A p \in Makers :
    /\ orderRequest[p].op # "none" => orderRequest[p].order \in Orders
    /\ orderRequest[p].order \in Orders \ odd =>
         Knows(orderRequest[p], order[orderRequest[p].order])

\* ...and an order that is not odd has no second request.
OrdersHaveOneRequest ==
  \A p, q \in Makers :
    /\ orderRequest[p].order \in Orders \ odd
    /\ orderRequest[q].order = orderRequest[p].order
    => p = q


-----------------------------------------------------------------------------
(* What an order has reserved *)

\* Consumption rows say how much was reserved.
LEMMA SnapshotsAreInt ==
  ASSUME NEW s \in Seq(Snapshot), NEW l \in Locations
  PROVE  SnapshotsAt(s, l) \in Int
<1> DEFINE f == [i \in DOMAIN s |-> IF s[i].at = l THEN s[i].n ELSE 0]
<1>1. \A i \in DOMAIN s : s[i] \in Snapshot
  OBVIOUS
<1>2. \A i \in DOMAIN s : f[i] \in Int
  BY <1>1 DEF Snapshot
<1>3. DOMAIN s = 1 .. Len(s) /\ Len(s) \in Nat
  OBVIOUS
<1>4. IsFiniteSet(DOMAIN s)
  BY <1>3, FS_Interval
<1> HIDE DEF f
<1>5. SumFunctionOnSet(f, DOMAIN s) \in Int
  BY <1>2, <1>4, SumIsInt
<1> QED
  BY <1>5 DEF f, SnapshotsAt

\* What all locations have of them.
AllSnapshots(s) == SumFunctionOnSet([l \in Locations |-> SnapshotsAt(s, l)], Locations)

\* All of what an order has reserved is a number.
LEMMA AllSnapshotsAreInt ==
  ASSUME NEW s \in Seq(Snapshot)
  PROVE  AllSnapshots(s) \in Int
<1> DEFINE f == [l \in Locations |-> SnapshotsAt(s, l)]
<1>1. \A l \in Locations : f[l] \in Int
  BY SnapshotsAreInt
<1> HIDE DEF f
<1>2. SumFunctionOnSet(f, Locations) \in Int
  BY <1>1, SumIsInt, LocationsAssumption
<1> QED
  BY <1>2 DEF f, AllSnapshots

\* An order with one row has reserved its quantity.
LEMMA OneSnapshot ==
  ASSUME NEW s \in Seq(Snapshot), Len(s) = 1
  PROVE  AllSnapshots(s) = s[1].n
<1>1. DOMAIN s = {1} /\ s[1] \in Snapshot
  BY 1 .. 1 = {1}
<1>2. s[1].n \in Nat /\ s[1].at \in Locations
  BY <1>1 DEF Snapshot
<1>3. ASSUME NEW l \in Locations
      PROVE  SnapshotsAt(s, l) = IF s[1].at = l THEN s[1].n ELSE 0
  <2> DEFINE f == [i \in DOMAIN s |-> IF s[i].at = l THEN s[i].n ELSE 0]
  <2>1. f[1] = (IF s[1].at = l THEN s[1].n ELSE 0) /\ f[1] \in Int
    BY <1>1, <1>2
  <2>2. IsFiniteSet({1}) /\ {1} \ {1} = {}
    BY FS_Singleton
  <2> HIDE DEF f
  <2>3. SumFunctionOnSet(f, {1}) = f[1] + SumFunctionOnSet(f, {1} \ {1})
    BY <2>1, <2>2, SumTakesAny
  <2>4. SumFunctionOnSet(f, {}) = 0
    BY SumOfNothing
  <2>5. SumFunctionOnSet(f, {1} \ {1}) = 0
    BY <2>2, <2>4
  <2>6. SumFunctionOnSet(f, {1}) = f[1]
    BY <2>1, <2>3, <2>5
  <2> QED
    BY <1>1, <2>1, <2>6 DEF f, SnapshotsAt
<1> DEFINE g == [l \in Locations |-> SnapshotsAt(s, l)]
<1>4. PICK at \in Locations : at = s[1].at
  BY <1>2
<1>5. g[at] = s[1].n /\ \A l \in Locations \ {at} : g[l] = 0
  BY <1>3, <1>4
<1> HIDE DEF g
<1>6. \A l \in Locations : g[l] \in Int
  BY <1>2, <1>5
<1>7. SumFunctionOnSet(g, Locations) = g[at] + SumFunctionOnSet(g, Locations \ {at})
  BY <1>6, SumTakesAny, LocationsAssumption
<1>8. SumFunctionOnSet(g, Locations \ {at}) = 0
  BY <1>5, SumOfZeros, FS_RemoveElement, LocationsAssumption
<1>9. SumFunctionOnSet(g, Locations) = s[1].n
  BY <1>2, <1>5, <1>7, <1>8
<1> QED
  BY <1>9 DEF g, AllSnapshots

-----------------------------------------------------------------------------
(* Requests *)

\* No request has no order.
LEMMA NoOrderRequestIsOne ==
  NoOrderRequest \in OrderRequest /\ NoOrderRequest.op = "none" /\ NoOrderRequest.order = NoOrder
<1>1. (CHOOSE l \in Locations : TRUE) \in Locations
  BY LocationsAssumption
<1> QED
  BY <1>1 DEF NoOrderRequest, OrderRequest

\* Where one request changes, the others keep what they have.
LEMMA OneRequestChanges ==
  ASSUME ManufacturingTypeOK, NEW p \in Makers, NEW t \in OrderRequest,
         orderRequest' = [orderRequest EXCEPT ![p] = t]
  PROVE  /\ orderRequest' \in [Makers -> OrderRequest]
         /\ orderRequest'[p] = t
         /\ \A q \in Makers \ {p} : orderRequest'[q] = orderRequest[q]
BY DEF ManufacturingTypeOK

\* What is known of the requests.
RequestsInvariant == RequestsKnowOrders /\ OrdersHaveOneRequest

\* A request ends that was about an order, and at most this order changes.
LEMMA EndingKeepsRequests ==
  ASSUME ManufacturingTypeOK, RequestsInvariant, NEW p \in Makers, EndOrderRequest(p),
         odd \subseteq odd',
         \A o \in Orders : o # orderRequest[p].order => order'[o] = order[o]
  PROVE  RequestsInvariant' /\ orderRequest' \in [Makers -> OrderRequest]
<1>1. /\ orderRequest' \in [Makers -> OrderRequest]
      /\ orderRequest'[p] = NoOrderRequest
      /\ \A q \in Makers \ {p} : orderRequest'[q] = orderRequest[q]
  BY NoOrderRequestIsOne, OneRequestChanges DEF EndOrderRequest
<1>2. orderRequest'[p].op = "none" /\ orderRequest'[p].order \notin Orders
  BY <1>1, NoOrderRequestIsOne, NoOrderAssumption
<1>3. OrdersHaveOneRequest'
  BY <1>1, <1>2 DEF RequestsInvariant, OrdersHaveOneRequest
<1>4. RequestsKnowOrders'
  <2> SUFFICES ASSUME NEW q \in Makers
               PROVE  /\ orderRequest'[q].op # "none" => orderRequest'[q].order \in Orders
                      /\ orderRequest'[q].order \in Orders \ odd' =>
                           Knows(orderRequest'[q], order'[orderRequest'[q].order])
    BY DEF RequestsKnowOrders
  <2>1. CASE q = p
    BY <1>2, <2>1
  <2>2. CASE q # p
    <3>1. orderRequest'[q] = orderRequest[q]
      BY <1>1, <2>2
    <3>2. ASSUME orderRequest[q].order \in Orders \ odd'
          PROVE  order'[orderRequest[q].order] = order[orderRequest[q].order]
      <4>1. orderRequest[q].order \in Orders \ odd
        BY <3>2
      <4>2. orderRequest[p].order # orderRequest[q].order
        BY <2>2, <4>1 DEF RequestsInvariant, OrdersHaveOneRequest
      <4> QED
        BY <4>1, <4>2
    <3> QED
      BY <3>1, <3>2 DEF RequestsInvariant, RequestsKnowOrders
  <2> QED
    BY <2>1, <2>2
<1> QED
  BY <1>1, <1>3, <1>4 DEF RequestsInvariant

\* A request goes on with its order, which stays as it is.
LEMMA GoingOnKeepsRequests ==
  ASSUME ManufacturingTypeOK, RequestsInvariant, NEW p \in Makers, NEW t \in OrderRequest,
         orderRequest' = [orderRequest EXCEPT ![p] = t], UNCHANGED <<odd, order>>,
         t.order = orderRequest[p].order, orderRequest[p].op # "none",
         t.order \in Orders \ odd => Knows(t, order[t.order])
  PROVE  RequestsInvariant' /\ orderRequest' \in [Makers -> OrderRequest]
<1>1. /\ orderRequest' \in [Makers -> OrderRequest]
      /\ orderRequest'[p] = t
      /\ \A q \in Makers \ {p} : orderRequest'[q] = orderRequest[q]
  BY OneRequestChanges
<1>2. \A q \in Makers : orderRequest'[q].order = orderRequest[q].order
  BY <1>1
<1>3. OrdersHaveOneRequest'
  BY <1>2 DEF RequestsInvariant, OrdersHaveOneRequest
<1>4. t.order \in Orders
  BY DEF RequestsInvariant, RequestsKnowOrders
<1>5. RequestsKnowOrders'
  BY <1>1, <1>4 DEF RequestsInvariant, RequestsKnowOrders
<1> QED
  BY <1>1, <1>3, <1>5 DEF RequestsInvariant

\* A request reads its order.
ToRead(op, o, found) == [NoOrderRequest EXCEPT !.op = op, !.order = o, !.status = found]

\* What a request holds that has read the status of its order.
LEMMA RequestToRead ==
  ASSUME NEW op \in {"start", "complete", "cancel", "stage"}, NEW o \in Orders,
         NEW found \in OrderStatuses,
         NEW t, t = ToRead(op, o, found)
  PROVE  /\ t \in OrderRequest
         /\ t.op = op /\ t.order = o /\ t.status = found /\ ~t.enough
<1>1. NoOrderRequest \in OrderRequest /\ ~NoOrderRequest.enough
  BY NoOrderRequestIsOne DEF NoOrderRequest
<1> QED
  BY <1>1 DEF OrderRequest, ToRead

\* The inductive invariant.
ManufacturingInvariant ==
  /\ ManufacturingTypeOK /\ RequestsInvariant /\ OrdersStand /\ AvailableIsUnreserved

\* A request reads its order. A second reader makes the order odd.
LEMMA ReadOrderKeepsInvariant ==
  ASSUME ManufacturingInvariant, NEW p \in Makers, NEW o \in Orders,
         NEW op \in {"start", "complete", "cancel", "stage"},
         NEW statuses, ReadOrder(p, o, op, statuses),
         op = "start" => statuses = {"PLANNED"},
         op = "complete" => statuses = {"IN_PROGRESS"},
         op = "cancel" => statuses = {"PLANNED", "IN_PROGRESS"}
  PROVE  ManufacturingInvariant'
<1> USE DEF ManufacturingInvariant
<1>1. order[o] \in OrderRow
  BY DEF ManufacturingTypeOK
<1>2. PICK found \in OrderStatuses :
        found = order[o].status
  BY <1>1 DEF OrderRow
<1>3. PICK t : t = ToRead(op, o, found)
  OBVIOUS
<1>4. /\ t \in OrderRequest
      /\ t.op = op /\ t.order = o /\ t.status = found /\ ~t.enough
  BY <1>3, RequestToRead
<1>5. /\ orderRequest' = [orderRequest EXCEPT ![p] = t]
      /\ orderRequest[p] = NoOrderRequest /\ found \in statuses
      /\ UNCHANGED <<order, material, product, held, made, twice>>
  BY <1>2, <1>3 DEF ReadOrder, ToRead
<1>6. /\ orderRequest' \in [Makers -> OrderRequest]
      /\ orderRequest'[p] = t
      /\ \A q \in Makers \ {p} : orderRequest'[q] = orderRequest[q]
  BY <1>4, <1>5, OneRequestChanges
<1>7. odd \subseteq odd' /\ odd' \subseteq Orders
  BY DEF ReadOrder, ManufacturingTypeOK
<1>8. o \notin odd' => \A q \in Makers : orderRequest[q].order # o
  BY DEF ReadOrder
<1>9. orderRequest[p].order \notin Orders
  BY <1>5, NoOrderRequestIsOne, NoOrderAssumption
<1>10. Knows(t, order[o])
  BY <1>2, <1>4, <1>5 DEF Knows
<1>11. RequestsKnowOrders'
  BY <1>4, <1>5, <1>6, <1>7, <1>10 DEF RequestsInvariant, RequestsKnowOrders
<1>12. OrdersHaveOneRequest'
  <2> SUFFICES ASSUME NEW q \in Makers, NEW r \in Makers,
                      orderRequest'[q].order \in Orders \ odd',
                      orderRequest'[r].order = orderRequest'[q].order
               PROVE  q = r
    BY DEF OrdersHaveOneRequest
  <2>1. CASE q = p /\ r # p
    BY <1>4, <1>6, <1>8, <2>1
  <2>2. CASE r = p /\ q # p
    BY <1>4, <1>6, <1>8, <2>2
  <2>3. CASE q # p /\ r # p
    BY <1>6, <1>7, <2>3 DEF RequestsInvariant, OrdersHaveOneRequest
  <2> QED
    BY <2>1, <2>2, <2>3
<1>13. ManufacturingTypeOK'
  BY <1>5, <1>6, <1>7 DEF ManufacturingTypeOK
<1>14. OrdersStand' /\ AvailableIsUnreserved'
  BY <1>5, <1>7 DEF OrdersStand, AvailableIsUnreserved
<1> QED
  BY <1>11, <1>12, <1>13, <1>14 DEF RequestsInvariant

\* A start finds material that is free, and reads what the order plans.
LEMMA CheckMaterialKeepsInvariant ==
  ASSUME ManufacturingInvariant, NEW p \in Makers, CheckMaterial(p)
  PROVE  ManufacturingInvariant'
<1> USE DEF ManufacturingInvariant
<1>1. PICK l \in Resolved(Default) :
        orderRequest' = [orderRequest EXCEPT ![p].enough = TRUE,
                           ![p].n = order[orderRequest[p].order].planned, ![p].at = l]
  BY DEF CheckMaterial
<1>2. l \in Locations
  BY DEF Resolved
<1>3. PICK r \in OrderRequest : r = orderRequest[p] /\ r.op = "start"
  BY DEF CheckMaterial, ManufacturingTypeOK
<1>4. r.order \in Orders
  BY <1>3 DEF RequestsInvariant, RequestsKnowOrders
<1>5. PICK need \in Nat : need = order[r.order].planned
  BY <1>4, OrderQuantitiesAssumption DEF ManufacturingTypeOK, OrderRow
<1>6. PICK t : t = [r EXCEPT !.enough = TRUE, !.n = need, !.at = l]
  OBVIOUS
<1>7. /\ t \in OrderRequest /\ t.op = "start" /\ t.order = r.order /\ t.status = r.status
      /\ t.n = need
  BY <1>2, <1>3, <1>5, <1>6 DEF OrderRequest
<1>8. orderRequest' = [orderRequest EXCEPT ![p] = t]
  BY <1>1, <1>3, <1>5, <1>6 DEF ManufacturingTypeOK
<1>9. UNCHANGED <<order, material, product, held, made, twice, odd>>
  BY DEF CheckMaterial
<1>10. t.order \in Orders \ odd => Knows(t, order[t.order])
  BY <1>3, <1>5, <1>7 DEF RequestsInvariant, RequestsKnowOrders, Knows
<1>11. RequestsInvariant' /\ orderRequest' \in [Makers -> OrderRequest]
  BY <1>3, <1>7, <1>8, <1>9, <1>10, GoingOnKeepsRequests
<1> QED
  BY <1>9, <1>11 DEF ManufacturingTypeOK, OrdersStand, AvailableIsUnreserved

\* A completion finds the consumption row and what it had reserved.
LEMMA CheckCompletionKeepsInvariant ==
  ASSUME ManufacturingInvariant, NEW p \in Makers, CheckCompletion(p)
  PROVE  ManufacturingInvariant'
<1> USE DEF ManufacturingInvariant
<1>1. PICK r \in OrderRequest : r = orderRequest[p] /\ r.op = "complete"
  BY DEF CheckCompletion, ManufacturingTypeOK
<1>2. r.order \in Orders
  BY <1>1 DEF RequestsInvariant, RequestsKnowOrders
<1>3. PICK o \in OrderRow : o = order[r.order]
  BY <1>2 DEF ManufacturingTypeOK
<1>4. PICK n \in OrderQuantities, l \in Locations, i \in DOMAIN o.snapshots \cup {0} :
        /\ i # 0 <=> o.snapshots # << >>
        /\ orderRequest' = [orderRequest EXCEPT ![p] =
             [@ EXCEPT !.enough = TRUE, !.n = n, !.at = l, !.row = i,
                       !.was = ReservedQty(o, i)]]
  <2>1. \E n \in OrderQuantities, l \in Locations,
            i \in DOMAIN order[orderRequest[p].order].snapshots \cup {0} :
          /\ i # 0 <=> order[orderRequest[p].order].snapshots # << >>
          /\ orderRequest' = [orderRequest EXCEPT ![p] =
               [@ EXCEPT !.enough = TRUE, !.n = n, !.at = l, !.row = i,
                         !.was = ReservedQty(order[orderRequest[p].order], i)]]
    BY DEF CheckCompletion
  <2>2. o = order[orderRequest[p].order]
    BY <1>1, <1>3
  <2> QED
    BY <2>1, <2>2
<1>5. o.snapshots \in Seq(Snapshot) /\ n \in Nat
  BY <1>4, OrderQuantitiesAssumption DEF OrderRow
<1>6. i \in Nat /\ (i # 0 => i \in 1 .. Len(o.snapshots) /\ o.snapshots[i] \in Snapshot)
  BY <1>4, <1>5
<1>7. PICK was \in Nat : was = ReservedQty(o, i) /\ (i # 0 => was = o.snapshots[i].n)
  BY <1>6 DEF Snapshot, ReservedQty
<1>8. PICK t : t = [r EXCEPT !.enough = TRUE, !.n = n, !.at = l, !.row = i, !.was = was]
  OBVIOUS
<1>9. /\ t \in OrderRequest /\ t.op = "complete" /\ t.order = r.order /\ t.status = r.status
      /\ t.row = i /\ t.was = was
  BY <1>1, <1>4, <1>5, <1>6, <1>7, <1>8 DEF OrderRequest
<1>10. orderRequest' = [orderRequest EXCEPT ![p] = t]
  BY <1>1, <1>4, <1>7, <1>8 DEF ManufacturingTypeOK
<1>11. UNCHANGED <<order, material, product, held, made, twice, odd>>
  BY DEF CheckCompletion
<1>12. ASSUME t.order \in Orders \ odd
       PROVE  Knows(t, order[t.order])
  <2>1. Knows(r, o)
    BY <1>1, <1>3, <1>9, <1>12 DEF RequestsInvariant, RequestsKnowOrders
  <2>2. StandsFor(o, held[t.order], made[t.order])
    BY <1>3, <1>9, <1>12 DEF OrdersStand
  <2>3. o.status = "IN_PROGRESS"
    BY <1>1, <2>1 DEF Knows
  <2>4. Len(o.snapshots) = 1 /\ o.snapshots[1].n = o.planned
    BY <2>2, <2>3 DEF StandsFor
  <2>5. i = 1 /\ was = o.planned
    BY <1>4, <1>5, <1>6, <1>7, <2>4
  <2> QED
    BY <1>1, <1>3, <1>9, <2>1, <2>5 DEF Knows
<1>13. RequestsInvariant' /\ orderRequest' \in [Makers -> OrderRequest]
  BY <1>1, <1>9, <1>10, <1>11, <1>12, GoingOnKeepsRequests
<1> QED
  BY <1>11, <1>13 DEF ManufacturingTypeOK, OrdersStand, AvailableIsUnreserved

-----------------------------------------------------------------------------
(* The steps that write *)

\* An order whose row changes, and what it holds and made with it.
LEMMA OneOrderChanges ==
  ASSUME ManufacturingTypeOK, OrdersStand, NEW o \in Orders, NEW new \in OrderRow,
         NEW h \in Int, NEW m \in Nat, order' = [order EXCEPT ![o] = new],
         held' = [held EXCEPT ![o] = h], made' = [made EXCEPT ![o] = m],
         odd \subseteq odd', o \notin odd' => StandsFor(new, h, m)
  PROVE  /\ OrdersStand'
         /\ order' \in [Orders -> OrderRow] /\ held' \in [Orders -> Int]
         /\ made' \in [Orders -> Nat]
         /\ \A x \in Orders : x # o => order'[x] = order[x]
<1>1. /\ order' \in [Orders -> OrderRow] /\ held' \in [Orders -> Int]
      /\ made' \in [Orders -> Nat]
  BY DEF ManufacturingTypeOK
<1>2. \A x \in Orders : x # o =>
        order'[x] = order[x] /\ held'[x] = held[x] /\ made'[x] = made[x]
  BY DEF ManufacturingTypeOK
<1>3. order'[o] = new /\ held'[o] = h /\ made'[o] = m
  BY DEF ManufacturingTypeOK
<1>4. OrdersStand'
  BY <1>2, <1>3 DEF OrdersStand
<1> QED
  BY <1>1, <1>2, <1>4

\* Reserving and releasing leave what is on hand and not reserved.
LEMMA ReservingMoves ==
  ASSUME NEW stored \in MaterialRow, NEW n \in Int
  PROVE  /\ Reserving(stored, n) \in MaterialRow
         /\ Reserving(stored, n).quantity = stored.quantity
         /\ Reserving(stored, n).reserved = stored.reserved + n
         /\ Reserving(stored, n).available = stored.available - n
<1>1. stored.quantity \in Int /\ stored.reserved \in Int /\ stored.available \in Int
  BY DEF MaterialRow
<1>2. PICK a \in Int, d \in Int : a = stored.available - n /\ d = stored.reserved + n
  BY <1>1
<1>3. Reserving(stored, n) = [stored EXCEPT !.available = a, !.reserved = d]
  BY <1>2 DEF Reserving
<1> QED
  BY <1>2, <1>3 DEF MaterialRow

\* A completion takes what is consumed off a row and gives back what was reserved: a row
\* whose available is what is not reserved stays one.
LEMMA CompletionMoves ==
  ASSUME NEW stored \in MaterialRow, NEW was \in Nat, NEW n \in Nat, NEW legacy \in BOOLEAN
  PROVE  /\ CompletionAt(stored, was, n, legacy) \in MaterialRow
         /\ CompletionAt(stored, was, n, legacy).reserved = stored.reserved - was
         /\ ~legacy /\ stored.available = stored.quantity - stored.reserved =>
              CompletionAt(stored, was, n, legacy).available =
                CompletionAt(stored, was, n, legacy).quantity
                  - CompletionAt(stored, was, n, legacy).reserved
<1>1. PICK adjusted \in MaterialRow :
        /\ adjusted = Reserving(stored, n - was)
        /\ adjusted.quantity = stored.quantity
        /\ adjusted.reserved = stored.reserved + (n - was)
        /\ adjusted.available = stored.available - (n - was)
  BY ReservingMoves
<1>2. CompletionAt(stored, was, n, legacy) =
        [quantity |-> adjusted.quantity - n, reserved |-> adjusted.reserved - n,
         available |-> adjusted.available - (IF legacy THEN n ELSE 0)]
  BY <1>1 DEF CompletionAt
<1>3. /\ stored.quantity \in Int /\ stored.reserved \in Int /\ stored.available \in Int
      /\ adjusted.quantity \in Int /\ adjusted.reserved \in Int /\ adjusted.available \in Int
  BY <1>1 DEF MaterialRow
<1>4. PICK q \in Int, d \in Int, a \in Int :
        /\ q = adjusted.quantity - n /\ d = adjusted.reserved - n
        /\ a = adjusted.available - (IF legacy THEN n ELSE 0)
  BY <1>3
<1>5. CompletionAt(stored, was, n, legacy) = [quantity |-> q, reserved |-> d, available |-> a]
  BY <1>2, <1>4
<1>6. d = stored.reserved - was
  BY <1>1, <1>3, <1>4
<1>7. ~legacy /\ stored.available = stored.quantity - stored.reserved => a = q - d
  BY <1>1, <1>3, <1>4
<1> QED
  BY <1>5, <1>6, <1>7 DEF MaterialRow

\* A start reserves what the order plans, at one location, and records it.
LEMMA StartKeepsInvariant ==
  ASSUME ManufacturingInvariant, NEW p \in Makers, StartProductionOrder(p)
  PROVE  ManufacturingInvariant'
<1> USE DEF ManufacturingInvariant
<1>1. PICK r \in OrderRequest : r = orderRequest[p] /\ r.op = "start" /\ r.enough
  BY DEF StartProductionOrder, ManufacturingTypeOK
<1>2. r.order \in Orders
  BY <1>1 DEF RequestsInvariant, RequestsKnowOrders
<1>3. PICK x \in Orders, o \in OrderRow : x = r.order /\ o = order[x]
  BY <1>2 DEF ManufacturingTypeOK
<1>4. PICK n \in Nat, at \in Locations : n = r.n /\ at = r.at
  BY DEF OrderRequest
<1>5. PICK snap \in Snapshot : snap = [n |-> n, at |-> at]
  BY DEF Snapshot
<1>6. PICK snaps \in Seq(Snapshot) : snaps = Append(o.snapshots, snap)
  <2>1. o.snapshots \in Seq(Snapshot)
    BY DEF OrderRow
  <2>2. Append(o.snapshots, snap) \in Seq(Snapshot)
    BY <2>1
  <2> QED
    BY <2>2
<1>7. PICK new : new = [o EXCEPT !.status = "IN_PROGRESS", !.snapshots = snaps]
  OBVIOUS
<1>8. /\ new \in OrderRow
      /\ new.status = "IN_PROGRESS" /\ new.snapshots = snaps /\ new.planned = o.planned
  BY <1>7 DEF OrderRow, OrderStatuses
<1>9. order' = [order EXCEPT ![x] = new]
  BY <1>1, <1>3, <1>4, <1>5, <1>6, <1>7 DEF StartProductionOrder, ManufacturingTypeOK
<1>10. PICK h \in Int : h = held[x] + n
  BY DEF ManufacturingTypeOK
<1>11. PICK m \in Nat : m = made[x]
  BY DEF ManufacturingTypeOK
<1>12. held' = [held EXCEPT ![x] = h] /\ made' = [made EXCEPT ![x] = m]
  BY <1>1, <1>3, <1>4, <1>10, <1>11 DEF StartProductionOrder, ManufacturingTypeOK
<1>13. ASSUME x \notin odd
       PROVE  StandsFor(new, h, m)
  <2>1. Knows(r, o)
    BY <1>1, <1>3, <1>13 DEF RequestsInvariant, RequestsKnowOrders
  <2>2. o.status = "PLANNED" /\ n = o.planned
    BY <1>1, <1>4, <2>1 DEF Knows
  <2>3. o.snapshots = << >> /\ held[x] = 0 /\ made[x] = 0
    BY <1>3, <1>13, <2>2 DEF OrdersStand, StandsFor
  <2>4. snaps = <<snap>>
    BY <1>6, <2>3
  <2>5. Len(snaps) = 1 /\ snaps[1].n = n
    BY <1>5, <2>4
  <2> QED
    BY <1>8, <1>10, <1>11, <2>2, <2>3, <2>5 DEF StandsFor
<1>14. UNCHANGED <<product, made, twice, odd>> /\ EndOrderRequest(p)
  BY DEF StartProductionOrder
<1>15. /\ OrdersStand'
       /\ order' \in [Orders -> OrderRow] /\ held' \in [Orders -> Int]
       /\ made' \in [Orders -> Nat]
       /\ \A y \in Orders : y # x => order'[y] = order[y]
  BY <1>8, <1>9, <1>12, <1>13, <1>14, OneOrderChanges
<1>16. RequestsInvariant' /\ orderRequest' \in [Makers -> OrderRequest]
  BY <1>1, <1>3, <1>14, <1>15, EndingKeepsRequests
<1>17. PICK stored \in MaterialRow : stored = material[at]
  BY DEF ManufacturingTypeOK
<1>18. material' = [material EXCEPT ![at] = Reserving(stored, n)]
  BY <1>1, <1>4, <1>17 DEF StartProductionOrder, ManufacturingTypeOK
<1>19. PICK shifted \in MaterialRow :
         /\ shifted = Reserving(stored, n) /\ shifted.quantity = stored.quantity
         /\ shifted.reserved = stored.reserved + n /\ shifted.available = stored.available - n
  BY ReservingMoves
<1>20. material' \in [Locations -> MaterialRow]
  BY <1>18, <1>19 DEF ManufacturingTypeOK
<1>21. stored.available = stored.quantity - stored.reserved => shifted.available = shifted.quantity - shifted.reserved
  BY <1>19 DEF MaterialRow
<1>22. AvailableIsUnreserved'
  BY <1>14, <1>17, <1>18, <1>19, <1>21 DEF AvailableIsUnreserved, ManufacturingTypeOK
<1> QED
  BY <1>14, <1>15, <1>16, <1>20, <1>22 DEF ManufacturingTypeOK

\* A quantity in a consumption row.
LEMMA SnapshotPut ==
  ASSUME NEW s \in Seq(Snapshot), NEW i \in Nat, NEW n \in Nat
  PROVE  [s EXCEPT ![i].n = n] \in Seq(Snapshot)
<1>1. CASE i \in 1 .. Len(s)
  <2>1. s[i] \in Snapshot
    BY <1>1
  <2>3. PICK snap \in Snapshot : snap = [s[i] EXCEPT !.n = n]
    BY <2>1 DEF Snapshot
  <2>2. [s EXCEPT ![i] = snap] \in Seq(Snapshot)
    BY <1>1
  <2> QED
    BY <2>2, <2>3
<1>2. CASE i \notin 1 .. Len(s)
  <2>1. [s EXCEPT ![i].n = n] = s
    BY <1>2
  <2> QED
    BY <2>1
<1> QED
  BY <1>1, <1>2

\* A completion consumes, gives the reservation back, and makes the product.
LEMMA CompleteKeepsInvariant ==
  ASSUME ManufacturingInvariant, NEW p \in Makers, CompleteProductionOrder(p)
  PROVE  ManufacturingInvariant'
<1> USE DEF ManufacturingInvariant
<1>1. PICK r \in OrderRequest : r = orderRequest[p] /\ r.op = "complete" /\ r.enough
  BY DEF CompleteProductionOrder, ManufacturingTypeOK
<1>2. r.order \in Orders
  BY <1>1 DEF RequestsInvariant, RequestsKnowOrders
<1>3. PICK x \in Orders, o \in OrderRow : x = r.order /\ o = order[x]
  BY <1>2 DEF ManufacturingTypeOK
<1>4. PICK n \in Nat, at \in Locations, i \in Nat, was \in Nat :
        n = r.n /\ at = r.at /\ i = r.row /\ was = r.was
  BY DEF OrderRequest
<1>5. PICK snap \in Snapshot : snap = [n |-> n, at |-> at]
  BY DEF Snapshot
<1>6. PICK snaps \in Seq(Snapshot) :
        snaps = IF i = 0 THEN Append(o.snapshots, snap) ELSE [o.snapshots EXCEPT ![i].n = n]
  <2>1. o.snapshots \in Seq(Snapshot)
    BY DEF OrderRow
  <2>2. Append(o.snapshots, snap) \in Seq(Snapshot)
    BY <2>1
  <2>3. [o.snapshots EXCEPT ![i].n = n] \in Seq(Snapshot)
    BY <2>1, SnapshotPut
  <2> QED
    BY <2>2, <2>3
<1>7. PICK new : new = [o EXCEPT !.status = "COMPLETED", !.actual = n, !.snapshots = snaps]
  OBVIOUS
<1>8. new \in OrderRow /\ new.status = "COMPLETED" /\ new.actual = n
  BY <1>7 DEF OrderRow, OrderStatuses
<1>9. order' = [order EXCEPT ![x] = new]
  <2>1. order' = [order EXCEPT ![x] = CompletedRow(order[x], r)]
    BY <1>1, <1>3 DEF CompleteProductionOrder
  <2>2. new = CompletedRow(o, r)
    BY <1>4, <1>5, <1>6, <1>7 DEF CompletedRow
  <2> QED
    BY <1>3, <2>1, <2>2
<1>10. PICK stored \in MaterialRow : stored = material[at]
  BY DEF ManufacturingTypeOK
<1>11. PICK legacy \in BOOLEAN : legacy = (i = 0)
  OBVIOUS
<1>12. PICK shifted \in MaterialRow :
         /\ shifted = CompletionAt(stored, was, n, legacy)
         /\ shifted.reserved = stored.reserved - was
         /\ ~legacy /\ stored.available = stored.quantity - stored.reserved =>
              shifted.available = shifted.quantity - shifted.reserved
  BY CompletionMoves
<1>13. material' = [material EXCEPT ![at] = shifted]
  BY <1>1, <1>4, <1>10, <1>11, <1>12 DEF CompleteProductionOrder, ManufacturingTypeOK
<1>14. material' \in [Locations -> MaterialRow] /\ material'[at] = shifted
       /\ \A l \in Locations : l # at => material'[l] = material[l]
  BY <1>13 DEF ManufacturingTypeOK
<1>15. stored.reserved \in Int /\ shifted.reserved \in Int
  BY DEF MaterialRow
<1>16. PICK h \in Int : h = held[x] - was
  BY DEF ManufacturingTypeOK
<1>17. held' = [held EXCEPT ![x] = h]
  <2>1. held' = [held EXCEPT ![x] = @ + material'[at].reserved - material[at].reserved]
    BY <1>1, <1>3, <1>4 DEF CompleteProductionOrder
  <2>2. held[x] \in Int /\ held[x] + material'[at].reserved - material[at].reserved = h
    BY <1>10, <1>12, <1>14, <1>15, <1>16 DEF ManufacturingTypeOK
  <2> QED
    BY <2>1, <2>2 DEF ManufacturingTypeOK
<1>18. PICK m \in Nat : m = made[x] + n
  BY DEF ManufacturingTypeOK
<1>19. made' = [made EXCEPT ![x] = m]
  BY <1>1, <1>3, <1>4, <1>18 DEF CompleteProductionOrder, ManufacturingTypeOK
<1>20. ASSUME x \notin odd
       PROVE  StandsFor(new, h, m)
  <2>1. Knows(r, o)
    BY <1>1, <1>3, <1>20 DEF RequestsInvariant, RequestsKnowOrders
  <2>2. o.status = "IN_PROGRESS" /\ was = o.planned
    BY <1>1, <1>4, <2>1 DEF Knows
  <2>3. held[x] = o.planned /\ made[x] = 0
    BY <1>3, <1>20, <2>2 DEF OrdersStand, StandsFor
  <2>4. h = 0 /\ m = n
    BY <1>16, <1>18, <2>2, <2>3
  <2> QED
    BY <1>8, <2>4 DEF StandsFor
<1>21. odd' = odd /\ EndOrderRequest(p)
  BY DEF CompleteProductionOrder
<1>22. /\ OrdersStand'
       /\ order' \in [Orders -> OrderRow] /\ held' \in [Orders -> Int]
       /\ made' \in [Orders -> Nat]
       /\ \A y \in Orders : y # x => order'[y] = order[y]
  BY <1>8, <1>9, <1>17, <1>19, <1>20, <1>21, OneOrderChanges
<1>23. RequestsInvariant' /\ orderRequest' \in [Makers -> OrderRequest]
  BY <1>1, <1>3, <1>21, <1>22, EndingKeepsRequests
<1>24. twice' = (IF i = 0 THEN twice \cup {at} ELSE twice) /\ product' = product + n
  BY <1>1, <1>4 DEF CompleteProductionOrder
<1>25. AvailableIsUnreserved'
  BY <1>10, <1>11, <1>12, <1>14, <1>24 DEF AvailableIsUnreserved
<1>26. twice' \subseteq Locations /\ product' \in Nat
  BY <1>24 DEF ManufacturingTypeOK
<1> QED
  BY <1>14, <1>21, <1>22, <1>23, <1>25, <1>26 DEF ManufacturingTypeOK

\* A cancellation gives back what its snapshots say, where they say it.
LEMMA CancelKeepsInvariant ==
  ASSUME ManufacturingInvariant, NEW p \in Makers, CancelProductionOrder(p)
  PROVE  ManufacturingInvariant'
<1> USE DEF ManufacturingInvariant
<1>1. PICK r \in OrderRequest : r = orderRequest[p] /\ r.op = "cancel"
  BY DEF CancelProductionOrder, ManufacturingTypeOK
<1>2. r.order \in Orders
  BY <1>1 DEF RequestsInvariant, RequestsKnowOrders
<1>3. PICK x \in Orders, o \in OrderRow : x = r.order /\ o = order[x]
  BY <1>2 DEF ManufacturingTypeOK
<1>4. PICK s \in Seq(Snapshot) : s = o.snapshots
  BY DEF OrderRow
<1>5. PICK new : new = [o EXCEPT !.status = "CANCELLED"]
  OBVIOUS
<1>6. new \in OrderRow /\ new.status = "CANCELLED"
  BY <1>5 DEF OrderRow, OrderStatuses
<1>7. order' = [order EXCEPT ![x] = new]
  BY <1>1, <1>3, <1>5 DEF CancelProductionOrder, ManufacturingTypeOK
<1>8. UNCHANGED <<product, made, twice, odd>> /\ EndOrderRequest(p)
  BY DEF CancelProductionOrder
<1>9. PICK m \in Nat : m = made[x]
  BY DEF ManufacturingTypeOK
<1>10. made' = [made EXCEPT ![x] = m]
  BY <1>8, <1>9 DEF ManufacturingTypeOK
<1>11. PICK h \in Int :
         h = IF r.status = "IN_PROGRESS" THEN held[x] - AllSnapshots(s) ELSE held[x]
  BY AllSnapshotsAreInt DEF ManufacturingTypeOK
<1>12. held' = [held EXCEPT ![x] = h]
  <2>1. CASE r.status = "IN_PROGRESS"
    <3>1. held' = [held EXCEPT ![x] =
             @ - SumFunctionOnSet([l \in Locations |-> SnapshotsAt(o.snapshots, l)], Locations)]
      BY <1>1, <1>3, <2>1 DEF CancelProductionOrder
    <3>2. held' = [held EXCEPT ![x] = @ - AllSnapshots(s)]
      BY <1>4, <3>1 DEF AllSnapshots
    <3> QED
      BY <1>11, <2>1, <3>2 DEF ManufacturingTypeOK
  <2>2. CASE r.status # "IN_PROGRESS"
    <3>1. held' = held
      BY <1>1, <2>2 DEF CancelProductionOrder
    <3> QED
      BY <1>11, <2>2, <3>1 DEF ManufacturingTypeOK
  <2> QED
    BY <2>1, <2>2
<1>13. ASSUME x \notin odd
       PROVE  StandsFor(new, h, m)
  <2>1. Knows(r, o)
    BY <1>1, <1>3, <1>13 DEF RequestsInvariant, RequestsKnowOrders
  <2>2. r.status = o.status /\ o.status \in {"PLANNED", "IN_PROGRESS"}
    BY <1>1, <2>1 DEF Knows
  <2>3. StandsFor(o, held[x], made[x])
    BY <1>3, <1>13 DEF OrdersStand
  <2>4. CASE o.status = "PLANNED"
    BY <1>6, <1>9, <1>11, <2>2, <2>3, <2>4 DEF StandsFor
  <2>5. CASE o.status = "IN_PROGRESS"
    <3>1. Len(s) = 1 /\ s[1].n = held[x] /\ made[x] = 0
      BY <1>4, <2>3, <2>5 DEF StandsFor
    <3>2. AllSnapshots(s) = held[x]
      BY <3>1, OneSnapshot
    <3>3. held[x] \in Int
      BY DEF ManufacturingTypeOK
    <3>4. h = 0
      BY <1>11, <2>2, <2>5, <3>2, <3>3
    <3> QED
      BY <1>6, <1>9, <3>1, <3>4 DEF StandsFor
  <2> QED
    BY <2>2, <2>4, <2>5
<1>14. /\ OrdersStand'
       /\ order' \in [Orders -> OrderRow] /\ held' \in [Orders -> Int]
       /\ made' \in [Orders -> Nat]
       /\ \A y \in Orders : y # x => order'[y] = order[y]
  BY <1>6, <1>7, <1>8, <1>10, <1>12, <1>13, OneOrderChanges
<1>15. RequestsInvariant' /\ orderRequest' \in [Makers -> OrderRequest]
  BY <1>1, <1>3, <1>8, <1>14, EndingKeepsRequests
<1>16. material' \in [Locations -> MaterialRow] /\ AvailableIsUnreserved'
  <2>1. CASE r.status # "IN_PROGRESS"
    <3>1. material' = material
      BY <1>1, <2>1 DEF CancelProductionOrder
    <3> QED
      BY <1>8, <3>1 DEF ManufacturingTypeOK, AvailableIsUnreserved
  <2>2. CASE r.status = "IN_PROGRESS"
    <3>1. material' = [l \in Locations |-> Reserving(material[l], -SnapshotsAt(s, l))]
      BY <1>1, <1>3, <1>4, <2>2 DEF CancelProductionOrder
    <3>2. ASSUME NEW l \in Locations
          PROVE  /\ material'[l] \in MaterialRow
                 /\ material[l].available = material[l].quantity - material[l].reserved =>
                      material'[l].available = material'[l].quantity - material'[l].reserved
      <4>1. PICK stored \in MaterialRow : stored = material[l]
        BY DEF ManufacturingTypeOK
      <4>2. PICK n \in Int : n = -SnapshotsAt(s, l)
        BY SnapshotsAreInt
      <4>3. PICK shifted \in MaterialRow :
              /\ shifted = Reserving(stored, n) /\ shifted.quantity = stored.quantity
              /\ shifted.reserved = stored.reserved + n /\ shifted.available = stored.available - n
        BY ReservingMoves
      <4>4. material'[l] = shifted
        BY <3>1, <4>1, <4>2, <4>3
      <4>5. stored.available = stored.quantity - stored.reserved =>
              shifted.available = shifted.quantity - shifted.reserved
        BY <4>3 DEF MaterialRow
      <4> QED
        BY <4>1, <4>4, <4>5
    <3>3. material' \in [Locations -> MaterialRow]
      BY <3>1, <3>2
    <3> QED
      BY <1>8, <3>2, <3>3 DEF AvailableIsUnreserved
  <2> QED
    BY <2>1, <2>2
<1> QED
  BY <1>8, <1>14, <1>15, <1>16 DEF ManufacturingTypeOK

\* A stage update can only set an order to work that already was, unless it is odd.
LEMMA StageKeepsInvariant ==
  ASSUME ManufacturingInvariant, NEW p \in Makers, StageSetsInProgress(p)
  PROVE  ManufacturingInvariant'
<1> USE DEF ManufacturingInvariant
<1>1. PICK x \in Orders : x = orderRequest[p].order
  BY DEF StageSetsInProgress, RequestsInvariant, RequestsKnowOrders
<1>2. PICK new : new = [order[x] EXCEPT !.status = "IN_PROGRESS"]
  OBVIOUS
<1>3. new \in OrderRow
  BY <1>2 DEF ManufacturingTypeOK, OrderRow, OrderStatuses
<1>4. PICK h \in Int, m \in Nat : h = held[x] /\ m = made[x]
  BY DEF ManufacturingTypeOK
<1>5. /\ order' = [order EXCEPT ![x] = new]
      /\ held' = [held EXCEPT ![x] = h] /\ made' = [made EXCEPT ![x] = m]
  BY <1>1, <1>2, <1>4 DEF StageSetsInProgress, ManufacturingTypeOK
<1>6. x \in odd' /\ odd \subseteq odd' /\ odd' \subseteq Orders
  BY <1>1 DEF StageSetsInProgress, ManufacturingTypeOK
<1>7. UNCHANGED <<material, product, held, made, twice>> /\ EndOrderRequest(p)
  BY DEF StageSetsInProgress
<1>8. /\ OrdersStand'
      /\ order' \in [Orders -> OrderRow] /\ held' \in [Orders -> Int]
      /\ made' \in [Orders -> Nat]
      /\ \A y \in Orders : y # x => order'[y] = order[y]
  BY <1>3, <1>5, <1>6, OneOrderChanges
<1>9. RequestsInvariant' /\ orderRequest' \in [Makers -> OrderRequest]
  BY <1>1, <1>6, <1>7, <1>8, EndingKeepsRequests
<1> QED
  BY <1>6, <1>7, <1>8, <1>9 DEF ManufacturingTypeOK, AvailableIsUnreserved

\* A request that is refused changes no order.
LEMMA FailKeepsInvariant ==
  ASSUME ManufacturingInvariant, NEW p \in Makers, FailManufacturing(p)
  PROVE  ManufacturingInvariant'
<1> USE DEF ManufacturingInvariant
<1>1. EndOrderRequest(p) /\ UNCHANGED <<order, material, product, held, made, twice, odd>>
  BY DEF FailManufacturing
<1>2. RequestsInvariant' /\ orderRequest' \in [Makers -> OrderRequest]
  BY <1>1, EndingKeepsRequests
<1> QED
  BY <1>1, <1>2 DEF ManufacturingTypeOK, OrdersStand, AvailableIsUnreserved

-----------------------------------------------------------------------------
(* Every step *)

\* The invariant holds before any request.
LEMMA ManufacturingInitInvariant ==
  ASSUME ManufacturingInit
  PROVE  ManufacturingInvariant
<1>1. /\ NoOrderRequest \in OrderRequest /\ NoOrderRequest.op = "none"
      /\ NoOrderRequest.order \notin Orders
  BY NoOrderRequestIsOne, NoOrderAssumption
<1>2. ASSUME NEW o \in Orders
      PROVE  order[o] \in OrderRow /\ order[o].status = "PLANNED" /\ order[o].snapshots = << >>
  <2>1. PICK n \in OrderQuantities :
          order[o] = [status |-> "PLANNED", planned |-> n, actual |-> 0, snapshots |-> << >>]
    BY DEF ManufacturingInit
  <2>2. << >> \in Seq(Snapshot)
    OBVIOUS
  <2> QED
    BY <2>1, <2>2 DEF OrderRow, OrderStatuses
<1>3. order \in [Orders -> OrderRow]
  <2>1. order = [o \in Orders |-> order[o]]
    BY DEF ManufacturingInit
  <2> QED
    BY <1>2, <2>1
<1>4. \A l \in Locations :
        /\ material[l] \in MaterialRow
        /\ material[l].available = material[l].quantity - material[l].reserved
  BY OpeningAssumption DEF ManufacturingInit, MaterialRow
<1>5. material \in [Locations -> MaterialRow]
  BY <1>4 DEF ManufacturingInit
<1>6. ManufacturingTypeOK
  BY <1>1, <1>3, <1>5 DEF ManufacturingInit, ManufacturingTypeOK
<1>7. RequestsInvariant
  BY <1>1 DEF ManufacturingInit, RequestsInvariant, RequestsKnowOrders, OrdersHaveOneRequest
<1>8. OrdersStand
  BY <1>2 DEF ManufacturingInit, OrdersStand, StandsFor
<1>9. AvailableIsUnreserved
  BY <1>4 DEF AvailableIsUnreserved
<1> QED
  BY <1>6, <1>7, <1>8, <1>9 DEF ManufacturingInvariant

\* Every step keeps the invariant.
LEMMA ManufacturingStepKeepsInvariant ==
  ASSUME ManufacturingInvariant, ManufacturingNext
  PROVE  ManufacturingInvariant'
<1>1. PICK p \in Makers : StartManufacturing(p) \/ ContinueManufacturing(p)
  BY DEF ManufacturingNext
<1>2. ASSUME StartManufacturing(p)
      PROVE  ManufacturingInvariant'
  <2>1. PICK o \in Orders : \/ ReadForOrderStart(p, o) \/ ReadForOrderComplete(p, o)
                            \/ ReadForOrderCancel(p, o) \/ ReadForStage(p, o)
    BY <1>2 DEF StartManufacturing
  <2>2. CASE ReadForOrderStart(p, o)
    BY <2>2, ReadOrderKeepsInvariant DEF ReadForOrderStart
  <2>3. CASE ReadForOrderComplete(p, o)
    BY <2>3, ReadOrderKeepsInvariant DEF ReadForOrderComplete
  <2>4. CASE ReadForOrderCancel(p, o)
    BY <2>4, ReadOrderKeepsInvariant DEF ReadForOrderCancel
  <2>5. CASE ReadForStage(p, o)
    BY <2>5, ReadOrderKeepsInvariant DEF ReadForStage
  <2> QED
    BY <2>1, <2>2, <2>3, <2>4, <2>5
<1>3. ASSUME ContinueManufacturing(p)
      PROVE  ManufacturingInvariant'
  BY <1>3, CheckMaterialKeepsInvariant, StartKeepsInvariant, CheckCompletionKeepsInvariant,
    CompleteKeepsInvariant, CancelKeepsInvariant, StageKeepsInvariant, FailKeepsInvariant
  DEF ContinueManufacturing
<1> QED
  BY <1>1, <1>2, <1>3

\* So does a step of something else.
LEMMA ManufacturingStutterKeepsInvariant ==
  ASSUME ManufacturingInvariant, UNCHANGED manufacturingVars
  PROVE  ManufacturingInvariant'
BY DEF manufacturingVars, ManufacturingInvariant, ManufacturingTypeOK, RequestsInvariant,
  RequestsKnowOrders, OrdersHaveOneRequest, OrdersStand, AvailableIsUnreserved

\* The invariant is inductive.
LEMMA ManufacturingInvariantHolds == ManufacturingSpec => []ManufacturingInvariant
<1>1. ManufacturingInit => ManufacturingInvariant
  BY ManufacturingInitInvariant
<1>2. ManufacturingInvariant /\ [ManufacturingNext]_manufacturingVars => ManufacturingInvariant'
  BY ManufacturingStepKeepsInvariant, ManufacturingStutterKeepsInvariant
<1> QED
  BY <1>1, <1>2, PTL DEF ManufacturingSpec

\* The types of ManufacturingService's orders, its requests and the stock.
THEOREM ManufacturingTypes == ManufacturingSpec => []ManufacturingTypeOK
<1>1. ManufacturingInvariant => ManufacturingTypeOK
  BY DEF ManufacturingInvariant
<1> QED
  BY <1>1, ManufacturingInvariantHolds, PTL

\* Whatever requests for whatever orders interleave, an order that one request at a
\* time works on holds its material exactly while it is in progress and makes its
\* product once, and what is available stays what is on hand and not reserved.
THEOREM MaterialAlwaysAddsUp == ManufacturingSpec => []MaterialAddsUp
<1>1. ManufacturingInvariant => OrdersHoldTheirMaterial
  <2> SUFFICES ASSUME ManufacturingInvariant, NEW o \in Orders \ odd
               PROVE  /\ held[o] = IF order[o].status = "IN_PROGRESS" THEN order[o].planned ELSE 0
                      /\ made[o] = IF order[o].status = "COMPLETED" THEN order[o].actual ELSE 0
    BY DEF OrdersHoldTheirMaterial
  <2>1. StandsFor(order[o], held[o], made[o])
    BY DEF ManufacturingInvariant, OrdersStand
  <2>2. order[o].status \in OrderStatuses
    BY DEF ManufacturingInvariant, ManufacturingTypeOK, OrderRow
  <2> QED
    BY <2>1, <2>2 DEF StandsFor, OrderStatuses
<1>2. ManufacturingInvariant => MaterialAddsUp
  BY <1>1 DEF MaterialAddsUp, ManufacturingInvariant
<1> QED
  BY <1>2, ManufacturingInvariantHolds, PTL

-----------------------------------------------------------------------------
(* Picking and shipping *)

\* The requests that work on a pick list.
ListOps == {"set", "record", "count", "finish"}
\* A request works on a list...
Working(p, k) == job[p].op \in ListOps /\ job[p].at = k
\* ...and has written lines of it that it has not committed.
Writing(p, k) == job[p].op \in {"count", "finish"} /\ job[p].at = k
\* The statuses of a shipment that has left.
HasLeft == {"DISPATCHED", "IN_TRANSIT", "DELIVERED", "RETURNED"}

\* What a request names is there, and it writes no status that it must not.
JobsAreSane ==
  \A p \in Pickers :
    /\ job[p].op \in ListOps => job[p].at \in PickLists
    /\ job[p].op \in {"ship", "label"} => job[p].at \in Shipments
    /\ job[p].op = "set" => job[p].status \in PickStatuses \ {"COMPLETED"}
    /\ job[p].op = "ship" => job[p].status \in ShipmentStatuses
    /\ job[p].op = "ship" /\ job[p].status \in HasLeft => job[p].shipped

\* Two transactions hold no line between them.
LinesAreLocked ==
  \A p, q \in Pickers, k \in PickLists :
    p # q /\ Writing(p, k) /\ Writing(q, k) =>
      DOMAIN job[p].lines \cap DOMAIN job[q].lines = {}

\* Of a list of which nothing was taken back meanwhile, what a transaction will
\* write is no less than what is there, unless it is the only one; and a
\* transaction has counted no line as done that will not be.
PicksGrow ==
  \A k \in PickLists \ lowered :
    /\ \A p, q \in Pickers : p # q /\ Writing(p, k) /\ Working(q, k) =>
         \A i \in DOMAIN job[p].lines : job[p].lines[i] >= picked[k][i]
    /\ \A p \in Pickers : job[p].op = "finish" /\ job[p].at = k => job[p].n <= Counted(p)
    /\ pickList[k].status = "COMPLETED" => DoneOf(picked[k]) = Cardinality(PickLines)

\* A list that one request at a time works on: the one knows how it stands.
OneAtATime ==
  \A k \in PickLists \ together :
    /\ \A p, q \in Pickers : Working(p, k) /\ Working(q, k) => p = q
    /\ \A p \in Pickers : job[p].op = "finish" /\ job[p].at = k => job[p].n = Counted(p)
    /\ \A p \in Pickers : job[p].op = "set" /\ job[p].at = k =>
         DoneOf(picked[k]) # Cardinality(PickLines)
    /\ pickList[k].n = DoneOf(picked[k])
    /\ DoneOf(picked[k]) = Cardinality(PickLines) => pickList[k].status = "COMPLETED"

\* A shipment that has left has the date on which it did.
ShipmentsHaveLeft == \A s \in Shipments : shipment[s].status \in HasLeft => shipment[s].shipped

-----------------------------------------------------------------------------
\* The statuses of a shipment, one by one.
LEMMA ShipmentStatusesListed ==
  ShipmentStatuses = {"absent", "PENDING", "LABELED", "DISPATCHED", "IN_TRANSIT", "DELIVERED",
                      "RETURNED", "CANCELLED"}
BY DEF ShipmentStatuses, AllowedNext

\* A shipment leaves by being dispatched.
LEMMA LeavingIsDispatching ==
  ASSUME NEW st \in ShipmentStatuses, NEW next \in AllowedNext[st]
  PROVE  /\ next \in ShipmentStatuses
         /\ next \in HasLeft => next = "DISPATCHED" \/ st \in HasLeft
<1>1. st \in {"absent", "PENDING", "LABELED", "DISPATCHED", "IN_TRANSIT", "DELIVERED",
              "RETURNED", "CANCELLED"}
  BY ShipmentStatusesListed
<1>2. CASE st = "absent"      BY <1>2, ShipmentStatusesListed DEF AllowedNext, HasLeft
<1>3. CASE st = "PENDING"     BY <1>3, ShipmentStatusesListed DEF AllowedNext, HasLeft
<1>4. CASE st = "LABELED"     BY <1>4, ShipmentStatusesListed DEF AllowedNext, HasLeft
<1>5. CASE st = "DISPATCHED"  BY <1>5, ShipmentStatusesListed DEF AllowedNext, HasLeft
<1>6. CASE st = "IN_TRANSIT"  BY <1>6, ShipmentStatusesListed DEF AllowedNext, HasLeft
<1>7. CASE st = "DELIVERED"   BY <1>7, ShipmentStatusesListed DEF AllowedNext, HasLeft
<1>8. CASE st = "RETURNED"    BY <1>8, ShipmentStatusesListed DEF AllowedNext, HasLeft
<1>9. CASE st = "CANCELLED"   BY <1>9, ShipmentStatusesListed DEF AllowedNext, HasLeft
<1> QED
  BY <1>1, <1>2, <1>3, <1>4, <1>5, <1>6, <1>7, <1>8, <1>9

-----------------------------------------------------------------------------
(* Lines that are done *)

\* What is picked of the lines of a list.
PickedLines == [PickLines -> 0 .. Wanted]

\* The lines that are done are counted, and are no more than there are.
LEMMA DoneIsCounted ==
  ASSUME NEW lines \in PickedLines
  PROVE  DoneOf(lines) \in Nat /\ DoneOf(lines) <= Cardinality(PickLines)
<1>1. {i \in DOMAIN lines : lines[i] >= Wanted} \subseteq PickLines
  BY DEF PickedLines
<1> QED
  BY <1>1, PickLinesAssumption, FS_Subset, FS_CardinalityType DEF DoneOf

\* Where more is picked, no fewer lines are done.
LEMMA DoneGrows ==
  ASSUME NEW lines \in PickedLines, NEW more \in PickedLines,
         \A i \in PickLines : lines[i] <= more[i]
  PROVE  DoneOf(lines) <= DoneOf(more)
<1>1. {i \in DOMAIN lines : lines[i] >= Wanted} \subseteq {i \in DOMAIN more : more[i] >= Wanted}
  BY WantedAssumption DEF PickedLines
<1>2. {i \in DOMAIN more : more[i] >= Wanted} \subseteq PickLines
  BY DEF PickedLines
<1> QED
  BY <1>1, <1>2, PickLinesAssumption, FS_Subset DEF DoneOf

\* Nothing is done where nothing is picked, and there are lines.
LEMMA NothingIsDone ==
  /\ DoneOf([i \in PickLines |-> 0]) = 0
  /\ Cardinality(PickLines) \in Nat /\ Cardinality(PickLines) # 0
<1>1. {i \in PickLines : [j \in PickLines |-> 0][i] >= Wanted} = {}
  BY WantedAssumption
<1>2. DoneOf([i \in PickLines |-> 0]) = 0
  BY <1>1, FS_EmptySet DEF DoneOf
<1> QED
  BY <1>2, PickLinesAssumption, FS_EmptySet, FS_CardinalityType

\* What a transaction sees are the lines of its list.
LEMMA SeenAreLines ==
  ASSUME FulfilmentTypeOK, NEW p \in Pickers, job[p].at \in PickLists
  PROVE  LinesSeen(p) \in PickedLines
<1>1. job[p] \in Job /\ picked[job[p].at] \in PickedLines
  BY DEF FulfilmentTypeOK, PickedLines
<1>2. job[p].lines \in UNION {[I -> 0 .. Wanted] : I \in SUBSET PickLines}
  BY <1>1 DEF Job
<1>3. \A i \in DOMAIN job[p].lines : job[p].lines[i] \in 0 .. Wanted
  BY <1>2
<1> QED
  BY <1>1, <1>3 DEF LinesSeen, PickedLines

-----------------------------------------------------------------------------
(* What the actions do to the requests *)

\* No request is a job, without an operation.
LEMMA NoJobIsJob == NoJob \in Job /\ NoJob.op = "none" /\ NoJob.at = NoTarget
<1>1. NoLines \in UNION {[I -> 0 .. Wanted] : I \in SUBSET PickLines}
  BY DEF NoLines
<1>2. "absent" \in PickStatuses \cup ShipmentStatuses
  BY ShipmentStatusesListed
<1> QED
  BY <1>1, <1>2 DEF NoJob, Job

\* What the four kinds of requests begin with.
ToSet(k, s) == [NoJob EXCEPT !.op = "set", !.at = k, !.status = s]
\* A request that records picks,
ToRecord(k, lines) == [NoJob EXCEPT !.op = "record", !.at = k, !.lines = lines]
\* one that moves a shipment,
ToShip(k, s, shipped) ==
  [NoJob EXCEPT !.op = "ship", !.at = k, !.status = s, !.shipped = shipped]
\* and one that prints its label.
ToLabel(k) == [NoJob EXCEPT !.op = "label", !.at = k]

\* What each of these requests holds: one that sets a status,
LEMMA JobToSet ==
  ASSUME NEW k \in PickLists, NEW s \in PickStatuses \ {"COMPLETED"},
         NEW t, t = ToSet(k, s)
  PROVE  t \in Job /\ t.op = "set" /\ t.at = k /\ t.status = s
BY NoJobIsJob DEF Job, ToSet

\* one that records picks,
LEMMA JobToRecord ==
  ASSUME NEW k \in PickLists, NEW I \in SUBSET PickLines, NEW lines \in [I -> 0 .. Wanted],
         NEW t, t = ToRecord(k, lines)
  PROVE  t \in Job /\ t.op = "record" /\ t.at = k /\ t.lines = lines
<1>1. lines \in UNION {[J -> 0 .. Wanted] : J \in SUBSET PickLines}
  OBVIOUS
<1> QED
  BY <1>1, NoJobIsJob DEF Job, ToRecord

\* one that moves a shipment,
LEMMA JobToShip ==
  ASSUME NEW k \in Shipments, NEW s \in ShipmentStatuses, NEW shipped \in BOOLEAN,
         NEW t, t = ToShip(k, s, shipped)
  PROVE  t \in Job /\ t.op = "ship" /\ t.at = k /\ t.status = s /\ t.shipped = shipped
BY NoJobIsJob DEF Job, ToShip

\* one that prints a label.
LEMMA JobToLabel ==
  ASSUME NEW k \in Shipments, NEW t, t = ToLabel(k)
  PROVE  t \in Job /\ t.op = "label" /\ t.at = k
BY NoJobIsJob DEF Job, ToLabel

\* Where one request gets another job, the others keep theirs, and the type is kept.
LEMMA OneJobChanges ==
  ASSUME FulfilmentTypeOK, NEW p \in Pickers, NEW t \in Job, job' = [job EXCEPT ![p] = t]
  PROVE  /\ job' \in [Pickers -> Job]
         /\ job'[p] = t
         /\ \A q \in Pickers \ {p} : job'[q] = job[q]
BY DEF FulfilmentTypeOK

-----------------------------------------------------------------------------
(* Shipments, and the requests *)

\* The inductive invariant, without the lists.
ShippingInvariant == FulfilmentTypeOK /\ JobsAreSane /\ ShipmentsHaveLeft

\* This half of the invariant holds before any request.
LEMMA ShippingInit ==
  ASSUME FulfilmentInit
  PROVE  ShippingInvariant
<1>1. NoJob \in Job /\ NoJob.op = "none"
  BY NoJobIsJob
<1>2. [status |-> "absent", n |-> 0] \in [status : PickStatuses, n : Nat]
  BY DEF PickStatuses
<1>3. [status |-> "absent", shipped |-> FALSE] \in [status : ShipmentStatuses, shipped : BOOLEAN]
  BY ShipmentStatusesListed
<1>4. FulfilmentTypeOK
  BY <1>1, <1>2, <1>3, WantedAssumption DEF FulfilmentInit, FulfilmentTypeOK
<1>5. JobsAreSane
  BY <1>1 DEF FulfilmentInit, JobsAreSane, ListOps
<1>6. ShipmentsHaveLeft
  BY DEF FulfilmentInit, ShipmentsHaveLeft, HasLeft
<1> QED
  BY <1>4, <1>5, <1>6 DEF ShippingInvariant

\* A request that keeps its place in what is sane.
JobIsSane(t) ==
  /\ t.op \in ListOps => t.at \in PickLists
  /\ t.op \in {"ship", "label"} => t.at \in Shipments
  /\ t.op = "set" => t.status \in PickStatuses \ {"COMPLETED"}
  /\ t.op = "ship" => t.status \in ShipmentStatuses
  /\ t.op = "ship" /\ t.status \in HasLeft => t.shipped

\* A request that takes the place of another leaves the requests sane.
LEMMA SaneJobsStay ==
  ASSUME FulfilmentTypeOK, JobsAreSane, NEW p \in Pickers, NEW t \in Job, JobIsSane(t),
         job' = [job EXCEPT ![p] = t]
  PROVE  JobsAreSane' /\ job' \in [Pickers -> Job]
<1>1. job'[p] = t /\ job' \in [Pickers -> Job] /\ \A q \in Pickers \ {p} : job'[q] = job[q]
  BY OneJobChanges
<1>2. \A q \in Pickers : JobIsSane(job[q])
  BY DEF JobsAreSane, JobIsSane
<1>3. \A q \in Pickers : JobIsSane(job'[q])
  BY <1>1, <1>2
<1> QED
  BY <1>1, <1>3 DEF JobsAreSane, JobIsSane

\* To do nothing is sane.
LEMMA NoJobIsSane == NoJob \in Job /\ JobIsSane(NoJob)
BY NoJobIsJob DEF JobIsSane, ListOps

\* A request that reads a list to set its status is sane,
LEMMA ReadListForStatusKeepsShipping ==
  ASSUME ShippingInvariant, NEW p \in Pickers, NEW k \in PickLists, ReadListForStatus(p, k)
  PROVE  ShippingInvariant'
<1> USE DEF ShippingInvariant
<1>1. PICK s \in {"ASSIGNED", "IN_PROGRESS", "CANCELLED"} :
        ReadList(p, k, ToSet(k, s))
  BY DEF ReadListForStatus, ToSet
<1>2. s \in PickStatuses \ {"COMPLETED"}
  BY <1>1 DEF PickStatuses
<1>3. PICK t : t = ToSet(k, s)
  OBVIOUS
<1>4. t \in Job /\ t.op = "set" /\ t.at = k /\ t.status = s
  BY <1>2, <1>3, JobToSet
<1>5. job' = [job EXCEPT ![p] = t] /\ SameGoods
  BY <1>1, <1>3 DEF ReadList
<1>6. together' \subseteq PickLists /\ lowered' \subseteq PickLists
  BY <1>1 DEF ReadList, FulfilmentTypeOK
<1>7. JobIsSane(t)
  BY <1>2, <1>4 DEF JobIsSane, ListOps
<1>8. JobsAreSane' /\ job' \in [Pickers -> Job]
  BY <1>4, <1>5, <1>7, SaneJobsStay
<1> QED
  BY <1>5, <1>6, <1>8 DEF FulfilmentTypeOK, SameGoods, ShipmentsHaveLeft

\* and one that reads it to record picks,
LEMMA ReadListForRecordKeepsShipping ==
  ASSUME ShippingInvariant, NEW p \in Pickers, NEW k \in PickLists, ReadListForRecord(p, k)
  PROVE  ShippingInvariant'
<1> USE DEF ShippingInvariant
<1>1. PICK I \in SUBSET PickLines \ {{}} : \E lines \in [I -> 0 .. Wanted] :
        ReadList(p, k, ToRecord(k, lines))
  BY DEF ReadListForRecord, ToRecord
<1>2. PICK lines \in [I -> 0 .. Wanted] :
        ReadList(p, k, ToRecord(k, lines))
  BY <1>1
<1>3. PICK t : t = ToRecord(k, lines)
  OBVIOUS
<1>4. t \in Job /\ t.op = "record" /\ t.at = k
  BY <1>3, JobToRecord
<1>5. job' = [job EXCEPT ![p] = t] /\ SameGoods
  BY <1>2, <1>3 DEF ReadList
<1>6. together' \subseteq PickLists /\ lowered' \subseteq PickLists
  BY <1>2 DEF ReadList, FulfilmentTypeOK
<1>7. JobIsSane(t)
  BY <1>4 DEF JobIsSane, ListOps
<1>8. JobsAreSane' /\ job' \in [Pickers -> Job]
  BY <1>4, <1>5, <1>7, SaneJobsStay
<1> QED
  BY <1>5, <1>6, <1>8 DEF FulfilmentTypeOK, SameGoods, ShipmentsHaveLeft

\* and one that reads a shipment to move it: the date of leaving is set on the way,
LEMMA ReadShipmentForStatusKeepsShipping ==
  ASSUME ShippingInvariant, NEW p \in Pickers, NEW s \in Shipments, ReadShipmentForStatus(p, s)
  PROVE  ShippingInvariant'
<1> USE DEF ShippingInvariant
<1>1. PICK next \in ShipmentStatuses :
        /\ MayMoveTo(s, next)
        /\ ReadShipment(p, s, ToShip(s, next, shipment[s].shipped \/ next = "DISPATCHED"))
  BY DEF ReadShipmentForStatus, ToShip
<1>2. shipment[s].status \in ShipmentStatuses /\ shipment[s].shipped \in BOOLEAN
  BY DEF FulfilmentTypeOK
<1>3. next \in HasLeft => next = "DISPATCHED" \/ shipment[s].status \in HasLeft
  BY <1>1, <1>2, LeavingIsDispatching DEF MayMoveTo
<1>4. PICK shipped \in BOOLEAN : shipped = (shipment[s].shipped \/ next = "DISPATCHED")
  OBVIOUS
<1>5. next \in HasLeft => shipped
  BY <1>3, <1>4 DEF ShipmentsHaveLeft
<1>6. PICK t : t = ToShip(s, next, shipped)
  OBVIOUS
<1>7. ReadShipment(p, s, t)
  BY <1>1, <1>4, <1>6
<1>11. t \in Job /\ t.op = "ship" /\ t.at = s /\ t.status = next /\ t.shipped = shipped
  BY <1>6, JobToShip
<1>8. job' = [job EXCEPT ![p] = t] /\ UNCHANGED <<together, lowered>> /\ SameGoods
  BY <1>7 DEF ReadShipment
<1>9. JobIsSane(t)
  BY <1>5, <1>11 DEF JobIsSane, ListOps
<1>10. JobsAreSane' /\ job' \in [Pickers -> Job]
  BY <1>8, <1>9, <1>11, SaneJobsStay
<1> QED
  BY <1>8, <1>10 DEF FulfilmentTypeOK, SameGoods, ShipmentsHaveLeft

\* and one that reads it to print its label.
LEMMA ReadShipmentForLabelKeepsShipping ==
  ASSUME ShippingInvariant, NEW p \in Pickers, NEW s \in Shipments, ReadShipmentForLabel(p, s)
  PROVE  ShippingInvariant'
<1> USE DEF ShippingInvariant
<1>1. PICK t : t = ToLabel(s)
  OBVIOUS
<1>2. job' = [job EXCEPT ![p] = t] /\ UNCHANGED <<together, lowered>> /\ SameGoods
  BY <1>1 DEF ReadShipmentForLabel, ReadShipment, ToLabel
<1>3. t \in Job /\ t.op = "label" /\ t.at = s
  BY <1>1, JobToLabel
<1>4. JobIsSane(t)
  BY <1>3 DEF JobIsSane, ListOps
<1>5. JobsAreSane' /\ job' \in [Pickers -> Job]
  BY <1>2, <1>3, <1>4, SaneJobsStay
<1> QED
  BY <1>2, <1>5 DEF FulfilmentTypeOK, SameGoods, ShipmentsHaveLeft

\* A shipment that is written as having left was dispatched first.
LEMMA UpdateShipmentStatusKeepsShipping ==
  ASSUME ShippingInvariant, NEW p \in Pickers, UpdateShipmentStatus(p)
  PROVE  ShippingInvariant'
<1> USE DEF ShippingInvariant
<1>1. JobsAreSane' /\ job' \in [Pickers -> Job]
  BY NoJobIsSane, SaneJobsStay DEF UpdateShipmentStatus, JobEnds
<1>2. /\ job[p].at \in Shipments /\ job[p].status \in ShipmentStatuses
      /\ job[p].shipped \in BOOLEAN /\ (job[p].status \in HasLeft => job[p].shipped)
  BY DEF UpdateShipmentStatus, JobsAreSane, FulfilmentTypeOK, Job
<1>3. PICK s \in Shipments, next \in ShipmentStatuses, shipped \in BOOLEAN :
        /\ s = job[p].at /\ next = job[p].status /\ shipped = job[p].shipped
  BY <1>2
<1>4. shipment' = [shipment EXCEPT ![s] = [status |-> next, shipped |-> shipped]]
  BY <1>3 DEF UpdateShipmentStatus
<1>5. shipment' \in [Shipments -> [status : ShipmentStatuses, shipped : BOOLEAN]]
  BY <1>4 DEF FulfilmentTypeOK
<1>6. ShipmentsHaveLeft'
  BY <1>2, <1>3, <1>4 DEF ShipmentsHaveLeft, FulfilmentTypeOK
<1> QED
  BY <1>1, <1>5, <1>6 DEF FulfilmentTypeOK, UpdateShipmentStatus

\* A label marks no shipment as left.
LEMMA GenerateLabelKeepsShipping ==
  ASSUME ShippingInvariant, NEW p \in Pickers, GenerateLabel(p)
  PROVE  ShippingInvariant'
<1> USE DEF ShippingInvariant
<1>1. JobsAreSane' /\ job' \in [Pickers -> Job]
  BY NoJobIsSane, SaneJobsStay DEF GenerateLabel, JobEnds
<1>2. PICK s \in Shipments : s = job[p].at
  BY DEF GenerateLabel, JobsAreSane
<1>3. shipment' = [shipment EXCEPT ![s].status = "LABELED"]
  BY <1>2 DEF GenerateLabel
<1>4. "LABELED" \in ShipmentStatuses
  BY ShipmentStatusesListed
<1>5. shipment' \in [Shipments -> [status : ShipmentStatuses, shipped : BOOLEAN]]
  BY <1>3, <1>4 DEF FulfilmentTypeOK
<1>6. ShipmentsHaveLeft'
  BY <1>3 DEF ShipmentsHaveLeft, FulfilmentTypeOK, HasLeft
<1> QED
  BY <1>1, <1>5, <1>6 DEF FulfilmentTypeOK, GenerateLabel

\* A new shipment has not left.
LEMMA CreateShipmentKeepsShipping ==
  ASSUME ShippingInvariant, NEW s \in Shipments, CreateShipment(s)
  PROVE  ShippingInvariant'
<1> USE DEF ShippingInvariant
<1>1. "PENDING" \in ShipmentStatuses
  BY ShipmentStatusesListed
<1>2. shipment' \in [Shipments -> [status : ShipmentStatuses, shipped : BOOLEAN]]
  BY <1>1 DEF FulfilmentTypeOK, CreateShipment
<1>3. ShipmentsHaveLeft'
  BY DEF ShipmentsHaveLeft, FulfilmentTypeOK, HasLeft, CreateShipment
<1> QED
  BY <1>2, <1>3 DEF FulfilmentTypeOK, CreateShipment, JobsAreSane
-----------------------------------------------------------------------------
(* Pick lists *)

\* The inductive invariant of the lists.
ListInvariant == LinesAreLocked /\ PicksGrow /\ OneAtATime

\* What a transaction of these lines sees of a list.
SeenLines(lines, counts) == [i \in PickLines |-> IF i \in DOMAIN lines THEN lines[i] ELSE counts[i]]

\* What a transaction counts is what is done of the lines that it sees.
LEMMA CountedIsOfSeen ==
  ASSUME NEW q \in Pickers
  PROVE  Counted(q) = DoneOf(SeenLines(job[q].lines, picked[job[q].at]))
BY DEF Counted, LinesSeen, SeenLines

\* This half of the invariant holds before any request.
LEMMA ListInit ==
  ASSUME FulfilmentInit
  PROVE  ListInvariant
<1>1. NoJob.op = "none"
  BY NoJobIsJob
<1>2. \A q \in Pickers : job[q].op = "none"
  BY <1>1 DEF FulfilmentInit
<1>3. \A k \in PickLists :
        /\ pickList[k].status = "absent" /\ pickList[k].n = 0
        /\ picked[k] = [i \in PickLines |-> 0]
  BY DEF FulfilmentInit
<1>4. LinesAreLocked
  BY <1>2 DEF LinesAreLocked, Writing
<1>5. PicksGrow
  BY <1>2, <1>3 DEF PicksGrow, Writing
<1>6. OneAtATime
  BY <1>2, <1>3, NothingIsDone DEF OneAtATime, Working, ListOps
<1> QED
  BY <1>4, <1>5, <1>6 DEF ListInvariant

\* What an action does to the requests at the lists when one of them ends, or
\* turns to a shipment.
Leaves(p) ==
  /\ job' \in [Pickers -> Job]
  /\ job'[p].op \notin ListOps
  /\ \A q \in Pickers \ {p} : job'[q] = job[q]

\* A request that ends and writes nothing disturbs no list.
LEMMA LeavingKeepsLists ==
  ASSUME ListInvariant, NEW p \in Pickers, Leaves(p),
         UNCHANGED <<pickList, picked, together, lowered>>
  PROVE  ListInvariant'
<1>1. \A q \in Pickers, k \in PickLists :
        /\ Working(q, k)' => q # p /\ Working(q, k)
        /\ Writing(q, k)' => q # p /\ Writing(q, k)
  BY DEF Leaves, Working, Writing, ListOps
<1>2. \A q \in Pickers : q # p => job'[q] = job[q] /\ Counted(q)' = Counted(q)
  BY DEF Leaves, Counted, LinesSeen
<1>3. \A q \in Pickers : job'[q].op \in {"finish", "set"} => q # p
  BY DEF Leaves, ListOps
<1>4. LinesAreLocked'
  BY <1>1, <1>2 DEF ListInvariant, LinesAreLocked
<1>5. PicksGrow'
  BY <1>1, <1>2, <1>3 DEF ListInvariant, PicksGrow
<1>6. OneAtATime'
  BY <1>1, <1>2, <1>3 DEF ListInvariant, OneAtATime
<1> QED
  BY <1>4, <1>5, <1>6 DEF ListInvariant

\* The end of a request is such a step.
LEMMA EndingLeaves ==
  ASSUME FulfilmentTypeOK, NEW p \in Pickers, JobEnds(p)
  PROVE  Leaves(p)
<1>1. job' = [job EXCEPT ![p] = NoJob]
  BY DEF JobEnds
<1> QED
  BY <1>1, NoJobIsJob, OneJobChanges DEF Leaves, ListOps

\* So is a request about a shipment, whose list there is none of.
LEMMA ReadShipmentLeaves ==
  ASSUME FulfilmentTypeOK, NEW p \in Pickers, NEW s \in Shipments, NEW t \in Job,
         t.op \in {"ship", "label"}, ReadShipment(p, s, t)
  PROVE  Leaves(p) /\ UNCHANGED <<pickList, picked, together, lowered>>
<1>1. job' = [job EXCEPT ![p] = t] /\ UNCHANGED <<pickList, picked, together, lowered>>
  BY DEF ReadShipment, SameGoods
<1> QED
  BY <1>1, OneJobChanges DEF Leaves, ListOps

\* A new list has nothing picked.
LEMMA CreatePickListKeepsLists ==
  ASSUME FulfilmentTypeOK, ListInvariant, NEW k \in PickLists, CreatePickList(k)
  PROVE  ListInvariant'
<1>1. UNCHANGED <<picked, job, together, lowered>> /\ pickList[k].status = "absent"
  BY DEF CreatePickList
<1>2. PICK s \in {"PENDING", "ASSIGNED"} : pickList' = [pickList EXCEPT ![k].status = s]
  BY DEF CreatePickList
<1>3. /\ \A j \in PickLists : j # k => pickList'[j] = pickList[j]
      /\ pickList'[k].status # "COMPLETED" /\ pickList'[k].n = pickList[k].n
  BY <1>2 DEF FulfilmentTypeOK
<1>4. \A q \in Pickers, j \in PickLists :
        Working(q, j)' = Working(q, j) /\ Writing(q, j)' = Writing(q, j)
  BY <1>1 DEF Working, Writing
<1>5. \A q \in Pickers : Counted(q)' = Counted(q)
  BY <1>1 DEF Counted, LinesSeen
<1>6. LinesAreLocked'
  BY <1>1, <1>4 DEF ListInvariant, LinesAreLocked
<1>7. PicksGrow'
  BY <1>1, <1>3, <1>4, <1>5 DEF ListInvariant, PicksGrow
<1>8. OneAtATime'
  BY <1>1, <1>3, <1>4, <1>5 DEF ListInvariant, OneAtATime
<1> QED
  BY <1>6, <1>7, <1>8 DEF ListInvariant

\* A request that reads a list.
LEMMA ReadListKeepsLists ==
  ASSUME ShippingInvariant, ListInvariant, NEW p \in Pickers, NEW k \in PickLists, NEW t \in Job,
         t.op \in {"set", "record"}, t.at = k, pickList[k].status # "COMPLETED",
         ReadList(p, k, t)
  PROVE  ListInvariant'
<1>1. /\ job[p] = NoJob /\ job' = [job EXCEPT ![p] = t]
      /\ pickList' = pickList /\ picked' = picked
  BY DEF ReadList, SameGoods
<1>2. job' \in [Pickers -> Job] /\ job'[p] = t /\ \A q \in Pickers \ {p} : job'[q] = job[q]
  BY <1>1, OneJobChanges DEF ShippingInvariant
<1>3. \A q \in Pickers, j \in PickLists :
        /\ Writing(q, j)' => q # p /\ Writing(q, j)
        /\ Working(q, j)' => (q = p /\ j = k) \/ (q # p /\ Working(q, j))
  BY <1>2 DEF Working, Writing
<1>4. \A q \in Pickers : q # p => job'[q] = job[q] /\ Counted(q)' = Counted(q)
  BY <1>1, <1>2 DEF Counted, LinesSeen
<1>5. \A q \in Pickers, j \in PickLists : Working(q, j) \/ Writing(q, j) => q \in At(j)
  BY DEF Working, Writing, At
<1>6. LinesAreLocked'
  BY <1>3, <1>4 DEF ListInvariant, LinesAreLocked
<1>7. PicksGrow'
  <2> SUFFICES ASSUME NEW j \in PickLists \ lowered'
               PROVE  /\ \A q, r \in Pickers : q # r /\ Writing(q, j)' /\ Working(r, j)' =>
                           \A i \in DOMAIN job'[q].lines : job'[q].lines[i] >= picked[j][i]
                      /\ \A q \in Pickers : job'[q].op = "finish" /\ job'[q].at = j =>
                           job'[q].n <= Counted(q)'
                      /\ pickList[j].status = "COMPLETED" =>
                           DoneOf(picked[j]) = Cardinality(PickLines)
    BY <1>1 DEF PicksGrow
  <2>1. j \in PickLists \ lowered
    BY DEF ReadList
  <2>2. ASSUME NEW q \in Pickers, NEW r \in Pickers, q # r, Writing(q, j)', Working(r, j)',
               NEW i \in DOMAIN job'[q].lines
        PROVE  job'[q].lines[i] >= picked[j][i]
    <3>1. q # p /\ Writing(q, j) /\ job'[q] = job[q]
      BY <1>3, <1>4, <2>2
    <3>2. CASE r # p
      BY <1>3, <2>1, <2>2, <3>1, <3>2 DEF ListInvariant, PicksGrow
    <3>3. CASE r = p
      <4>1. j = k /\ q \in At(k)
        BY <1>3, <1>5, <2>2, <3>1, <3>3
      <4>2. ~(job[q].lines[i] < picked[k][i])
        BY <2>2, <3>1, <4>1 DEF ReadList
      <4>3. i \in PickLines /\ job[q].lines[i] \in 0 .. Wanted
        <5>1. job[q].lines \in UNION {[I -> 0 .. Wanted] : I \in SUBSET PickLines}
          BY DEF ShippingInvariant, FulfilmentTypeOK, Job
        <5> QED
          BY <2>2, <3>1, <5>1
      <4>4. picked[k][i] \in 0 .. Wanted
        BY <4>3 DEF ShippingInvariant, FulfilmentTypeOK
      <4> QED
        BY <3>1, <4>1, <4>2, <4>3, <4>4, WantedAssumption
    <3> QED
      BY <3>2, <3>3
  <2>3. \A q \in Pickers : job'[q].op = "finish" => q # p
    BY <1>2
  <2>4. \A q \in Pickers : job'[q].op = "finish" /\ job'[q].at = j => job'[q].n <= Counted(q)'
    BY <1>4, <2>1, <2>3 DEF ListInvariant, PicksGrow
  <2>5. pickList[j].status = "COMPLETED" => DoneOf(picked[j]) = Cardinality(PickLines)
    BY <2>1 DEF ListInvariant, PicksGrow
  <2> QED
    BY <2>2, <2>4, <2>5
<1>8. OneAtATime'
  <2> SUFFICES ASSUME NEW j \in PickLists \ together'
               PROVE  /\ \A q, r \in Pickers : Working(q, j)' /\ Working(r, j)' => q = r
                      /\ \A q \in Pickers : job'[q].op = "finish" /\ job'[q].at = j =>
                           job'[q].n = Counted(q)'
                      /\ \A q \in Pickers : job'[q].op = "set" /\ job'[q].at = j =>
                           DoneOf(picked[j]) # Cardinality(PickLines)
                      /\ pickList[j].n = DoneOf(picked[j])
                      /\ DoneOf(picked[j]) = Cardinality(PickLines) =>
                           pickList[j].status = "COMPLETED"
    BY <1>1 DEF OneAtATime
  <2>1. j \in PickLists \ together /\ (j = k => At(k) = {})
    BY DEF ReadList
  <2>2. \A q, r \in Pickers : Working(q, j)' /\ Working(r, j)' => q = r
    BY <1>3, <1>5, <2>1 DEF ListInvariant, OneAtATime
  <2>3. \A q \in Pickers : job'[q].op = "finish" /\ job'[q].at = j => job'[q].n = Counted(q)'
    BY <1>2, <1>4, <2>1 DEF ListInvariant, OneAtATime
  <2>4. /\ pickList[j].n = DoneOf(picked[j])
        /\ DoneOf(picked[j]) = Cardinality(PickLines) => pickList[j].status = "COMPLETED"
    BY <2>1 DEF ListInvariant, OneAtATime
  <2>5. \A q \in Pickers : job'[q].op = "set" /\ job'[q].at = j =>
          DoneOf(picked[j]) # Cardinality(PickLines)
    BY <1>2, <2>1, <2>4 DEF ListInvariant, OneAtATime
  <2> QED
    BY <2>2, <2>3, <2>4, <2>5
<1> QED
  BY <1>6, <1>7, <1>8 DEF ListInvariant

\* A request that sets a status never sets the list to completed.
LEMMA SetListStatusKeepsLists ==
  ASSUME ShippingInvariant, ListInvariant, NEW p \in Pickers, SetListStatus(p)
  PROVE  ListInvariant'
<1>1. Leaves(p) /\ UNCHANGED <<picked, together, lowered>>
  BY EndingLeaves DEF SetListStatus, ShippingInvariant
<1>2. PICK k \in PickLists, s \in PickStatuses \ {"COMPLETED"} :
        /\ k = job[p].at /\ s = job[p].status /\ job[p].op = "set"
        /\ pickList' = [pickList EXCEPT ![k].status = s]
  BY DEF SetListStatus, ShippingInvariant, JobsAreSane, ListOps
<1>3. /\ \A j \in PickLists : j # k => pickList'[j] = pickList[j]
      /\ pickList'[k].status # "COMPLETED" /\ pickList'[k].n = pickList[k].n
  BY <1>2 DEF ShippingInvariant, FulfilmentTypeOK
<1>4. \A q \in Pickers, j \in PickLists :
        /\ Working(q, j)' => q # p /\ Working(q, j)
        /\ Writing(q, j)' => q # p /\ Writing(q, j)
  BY <1>1 DEF Leaves, Working, Writing, ListOps
<1>5. \A q \in Pickers : q # p => job'[q] = job[q] /\ Counted(q)' = Counted(q)
  BY <1>1 DEF Leaves, Counted, LinesSeen
<1>6. \A q \in Pickers : job'[q].op \in {"finish", "set"} => q # p
  BY <1>1 DEF Leaves, ListOps
<1>7. k \notin together => DoneOf(picked[k]) # Cardinality(PickLines)
  BY <1>2 DEF ListInvariant, OneAtATime
<1>8. LinesAreLocked'
  BY <1>4, <1>5 DEF ListInvariant, LinesAreLocked
<1>9. PicksGrow'
  BY <1>1, <1>3, <1>4, <1>5, <1>6 DEF ListInvariant, PicksGrow
<1>10. OneAtATime'
  BY <1>1, <1>3, <1>4, <1>5, <1>6, <1>7 DEF ListInvariant, OneAtATime
<1> QED
  BY <1>8, <1>9, <1>10 DEF ListInvariant

\* A request that writes its lines locks them, and finds none of them locked.
LEMMA WriteLinesKeepsAll ==
  ASSUME ShippingInvariant, ListInvariant, NEW p \in Pickers, WriteLines(p)
  PROVE  ShippingInvariant' /\ ListInvariant'
<1>1. PICK k \in PickLists : k = job[p].at
  BY DEF WriteLines, ShippingInvariant, JobsAreSane, ListOps
<1>2. PICK t : t = [job[p] EXCEPT !.op = "count"]
  OBVIOUS
<1>3. job[p] \in Job /\ job[p].op = "record" /\ JobIsSane(job[p])
  BY DEF WriteLines, ShippingInvariant, FulfilmentTypeOK, JobsAreSane, JobIsSane
<1>4. t \in Job /\ t.op = "count" /\ t.at = k /\ t.lines = job[p].lines
  BY <1>1, <1>2, <1>3 DEF Job
<1>5. job' = [job EXCEPT ![p] = t]
  BY <1>2 DEF WriteLines
<1>6. UNCHANGED <<pickList, picked, shipment, together>>
  BY DEF WriteLines, SameGoods
<1>7. JobIsSane(t)
  BY <1>4 DEF JobIsSane, ListOps
<1>8. JobsAreSane' /\ job' \in [Pickers -> Job]
  BY <1>4, <1>5, <1>7, SaneJobsStay DEF ShippingInvariant
<1>9. lowered' \subseteq PickLists
  BY <1>1 DEF WriteLines, ShippingInvariant, FulfilmentTypeOK
<1>10. ShippingInvariant'
  BY <1>6, <1>8, <1>9 DEF ShippingInvariant, FulfilmentTypeOK, ShipmentsHaveLeft
<1>11. job'[p] = t /\ \A q \in Pickers \ {p} : job'[q] = job[q]
  BY <1>4, <1>5, OneJobChanges DEF ShippingInvariant
<1>12. \A q \in Pickers, j \in PickLists :
         /\ Working(q, j)' = Working(q, j)
         /\ Writing(q, j)' => (q = p /\ j = k) \/ (q # p /\ Writing(q, j))
         /\ job'[q].lines = job[q].lines
  BY <1>1, <1>3, <1>4, <1>11 DEF Working, Writing, ListOps
<1>13. \A q \in Pickers : q # p => job'[q] = job[q] /\ Counted(q)' = Counted(q)
  BY <1>6, <1>11 DEF Counted, LinesSeen
<1>14. \A q \in Pickers : job'[q].op \in {"finish", "set"} => q # p
  BY <1>4, <1>11
<1>15. \A q \in Pickers \ {p} : Writing(q, k) => DOMAIN job[q].lines \cap DOMAIN t.lines = {}
  BY <1>1, <1>4 DEF WriteLines, Writing, At
<1>16. LinesAreLocked'
  <2> SUFFICES ASSUME NEW q \in Pickers, NEW r \in Pickers, NEW j \in PickLists,
                      q # r, Writing(q, j)', Writing(r, j)'
               PROVE  DOMAIN job'[q].lines \cap DOMAIN job'[r].lines = {}
    BY DEF LinesAreLocked
  <2>1. CASE q = p
    BY <1>11, <1>12, <1>15, <2>1
  <2>2. CASE r = p
    BY <1>11, <1>12, <1>15, <2>2
  <2>3. CASE q # p /\ r # p
    BY <1>12, <2>3 DEF ListInvariant, LinesAreLocked
  <2> QED
    BY <2>1, <2>2, <2>3
<1>17. PicksGrow'
  <2> SUFFICES ASSUME NEW j \in PickLists \ lowered'
               PROVE  /\ \A q, r \in Pickers : q # r /\ Writing(q, j)' /\ Working(r, j)' =>
                           \A i \in DOMAIN job'[q].lines : job'[q].lines[i] >= picked[j][i]
                      /\ \A q \in Pickers : job'[q].op = "finish" /\ job'[q].at = j =>
                           job'[q].n <= Counted(q)'
                      /\ pickList[j].status = "COMPLETED" =>
                           DoneOf(picked[j]) = Cardinality(PickLines)
    BY <1>6 DEF PicksGrow
  <2>1. j \in PickLists \ lowered
    BY DEF WriteLines
  <2>2. ASSUME NEW q \in Pickers, NEW r \in Pickers, q # r, Writing(q, j)', Working(r, j)',
               NEW i \in DOMAIN job'[q].lines
        PROVE  job'[q].lines[i] >= picked[j][i]
    <3>1. CASE q # p
      BY <1>12, <2>1, <2>2, <3>1 DEF ListInvariant, PicksGrow
    <3>2. CASE q = p
      <4>1. j = k /\ Working(r, k)
        BY <1>12, <2>2, <3>2
      <4>2. At(k) # {p}
        BY <2>2, <3>2, <4>1 DEF At, Working
      <4>3. ~(job[p].lines[i] < picked[k][i])
        BY <1>1, <1>12, <2>2, <3>2, <4>1, <4>2 DEF WriteLines
      <4>4. i \in PickLines /\ job[p].lines[i] \in 0 .. Wanted
        <5>1. job[p].lines \in UNION {[I -> 0 .. Wanted] : I \in SUBSET PickLines}
          BY <1>3 DEF Job
        <5> QED
          BY <1>12, <2>2, <3>2, <5>1
      <4>5. picked[k][i] \in 0 .. Wanted
        BY <4>4 DEF ShippingInvariant, FulfilmentTypeOK
      <4> QED
        BY <1>12, <3>2, <4>1, <4>3, <4>4, <4>5, WantedAssumption
    <3> QED
      BY <3>1, <3>2
  <2>3. \A q \in Pickers : job'[q].op = "finish" /\ job'[q].at = j => job'[q].n <= Counted(q)'
    BY <1>13, <1>14, <2>1 DEF ListInvariant, PicksGrow
  <2>4. pickList[j].status = "COMPLETED" => DoneOf(picked[j]) = Cardinality(PickLines)
    BY <2>1 DEF ListInvariant, PicksGrow
  <2> QED
    BY <2>2, <2>3, <2>4
<1>18. OneAtATime'
  BY <1>6, <1>12, <1>13, <1>14 DEF ListInvariant, OneAtATime
<1> QED
  BY <1>10, <1>16, <1>17, <1>18 DEF ListInvariant

\* A request counts the lines that it has written together with those committed.
LEMMA CountLinesKeepsAll ==
  ASSUME ShippingInvariant, ListInvariant, NEW p \in Pickers, CountLines(p)
  PROVE  ShippingInvariant' /\ ListInvariant'
<1>1. PICK k \in PickLists : k = job[p].at
  BY DEF CountLines, ShippingInvariant, JobsAreSane, ListOps
<1>2. job[p] \in Job /\ job[p].op = "count"
  BY DEF CountLines, ShippingInvariant, FulfilmentTypeOK
<1>3. Counted(p) \in Nat
  BY <1>1, SeenAreLines, DoneIsCounted DEF ShippingInvariant, Counted
<1>4. PICK n \in Nat : n = Counted(p)
  BY <1>3
<1>5. PICK t : t = [job[p] EXCEPT !.op = "finish", !.n = n]
  OBVIOUS
<1>6. t \in Job /\ t.op = "finish" /\ t.at = k /\ t.lines = job[p].lines /\ t.n = n
  BY <1>1, <1>2, <1>5 DEF Job
<1>7. job' = [job EXCEPT ![p] = t]
  BY <1>4, <1>5 DEF CountLines
<1>8. UNCHANGED <<pickList, picked, shipment, together, lowered>>
  BY DEF CountLines, SameGoods
<1>9. JobIsSane(t)
  BY <1>6 DEF JobIsSane, ListOps
<1>10. JobsAreSane' /\ job' \in [Pickers -> Job]
  BY <1>6, <1>7, <1>9, SaneJobsStay DEF ShippingInvariant
<1>11. ShippingInvariant'
  BY <1>8, <1>10 DEF ShippingInvariant, FulfilmentTypeOK, ShipmentsHaveLeft
<1>12. job'[p] = t /\ \A q \in Pickers \ {p} : job'[q] = job[q]
  BY <1>6, <1>7, OneJobChanges DEF ShippingInvariant
<1>13. \A q \in Pickers, j \in PickLists :
         /\ Working(q, j)' = Working(q, j) /\ Writing(q, j)' = Writing(q, j)
         /\ job'[q].lines = job[q].lines /\ job'[q].at = job[q].at
  BY <1>1, <1>2, <1>6, <1>12 DEF Working, Writing, ListOps
<1>14. \A q \in Pickers : Counted(q)' = Counted(q)
  <2> SUFFICES ASSUME NEW q \in Pickers PROVE Counted(q)' = Counted(q)
    OBVIOUS
  <2>1. job'[q].lines = job[q].lines /\ job'[q].at = job[q].at
    BY <1>1, <1>13
  <2> QED
    BY <1>8, <2>1 DEF Counted, LinesSeen
<1>15. LinesAreLocked'
  BY <1>13 DEF ListInvariant, LinesAreLocked
<1>16. \A q \in Pickers : q = p => job'[q].n = Counted(q)' /\ job'[q].n <= Counted(q)'
                                   /\ job'[q].op # "set"
  BY <1>4, <1>6, <1>12, <1>14
<1>17. PicksGrow'
  BY <1>8, <1>12, <1>13, <1>14, <1>16 DEF ListInvariant, PicksGrow
<1>18. OneAtATime'
  BY <1>8, <1>12, <1>13, <1>14, <1>16 DEF ListInvariant, OneAtATime
<1> QED
  BY <1>11, <1>15, <1>17, <1>18 DEF ListInvariant

\* A request that commits: its lines and the status by its count.
LEMMA CommitPicksKeepsAll ==
  ASSUME ShippingInvariant, ListInvariant, NEW p \in Pickers, CommitPicks(p)
  PROVE  ShippingInvariant' /\ ListInvariant'
<1>1. PICK k \in PickLists : k = job[p].at /\ job[p].op = "finish"
  BY DEF CommitPicks, ShippingInvariant, JobsAreSane, ListOps
<1>2. PICK counts \in PickedLines : counts = LinesSeen(p)
  BY <1>1, SeenAreLines DEF ShippingInvariant
<1>3. PICK n \in Nat : n = job[p].n
  BY DEF ShippingInvariant, FulfilmentTypeOK, Job
<1>4. PICK next \in {"COMPLETED", "IN_PROGRESS"} :
        next = IF n >= Cardinality(PickLines) THEN "COMPLETED" ELSE "IN_PROGRESS"
  OBVIOUS
<1>5. /\ picked' = [picked EXCEPT ![k] = counts]
      /\ pickList' = [pickList EXCEPT ![k] = [status |-> next, n |-> n]]
      /\ UNCHANGED <<shipment, together, lowered>>
  BY <1>1, <1>2, <1>3, <1>4 DEF CommitPicks
<1>6. /\ picked'[k] = counts /\ pickList'[k].status = next /\ pickList'[k].n = n
      /\ \A j \in PickLists : j # k => picked'[j] = picked[j] /\ pickList'[j] = pickList[j]
  BY <1>5 DEF ShippingInvariant, FulfilmentTypeOK
<1>7. next \in PickStatuses
  BY DEF PickStatuses
<1>8. /\ picked' \in [PickLists -> PickedLines]
      /\ pickList' \in [PickLists -> [status : PickStatuses, n : Nat]]
  BY <1>5, <1>7 DEF ShippingInvariant, FulfilmentTypeOK, PickedLines
<1>9. JobsAreSane' /\ job' \in [Pickers -> Job]
  BY NoJobIsSane, SaneJobsStay DEF CommitPicks, JobEnds, ShippingInvariant
<1>10. ShippingInvariant'
  BY <1>5, <1>8, <1>9 DEF ShippingInvariant, FulfilmentTypeOK, ShipmentsHaveLeft, PickedLines
<1>11. Leaves(p)
  BY EndingLeaves DEF CommitPicks, ShippingInvariant
<1>12. \A q \in Pickers, j \in PickLists :
        /\ Working(q, j)' => q # p /\ Working(q, j)
        /\ Writing(q, j)' => q # p /\ Writing(q, j)
  BY <1>11 DEF Leaves, Working, Writing, ListOps
<1>13. \A q \in Pickers : q # p => job'[q] = job[q]
  BY <1>11 DEF Leaves
<1>14. \A q \in Pickers : job'[q].op \in {"finish", "set"} => q # p
  BY <1>11 DEF Leaves, ListOps
<1>15. Writing(p, k) /\ Working(p, k)
  BY <1>1 DEF Writing, Working, ListOps
<1>16. \A q \in Pickers : q # p /\ job[q].at # k => Counted(q)' = Counted(q)
  <2> SUFFICES ASSUME NEW q \in Pickers, q # p, job[q].at # k
               PROVE  Counted(q)' = Counted(q)
    OBVIOUS
  <2>1. job'[q] = job[q] /\ picked'[job[q].at] = picked[job[q].at]
    BY <1>5, <1>13 DEF ShippingInvariant, FulfilmentTypeOK
  <2> QED
    BY <2>1 DEF Counted, LinesSeen
<1>17. DoneOf(counts) = Counted(p) /\ DoneOf(counts) \in Nat /\ DoneOf(counts) <= Cardinality(PickLines)
  BY <1>2, DoneIsCounted DEF Counted
<1>18. Cardinality(PickLines) \in Nat
  BY NothingIsDone
<1>19. LinesAreLocked'
  BY <1>12, <1>13 DEF ListInvariant, LinesAreLocked
<1>20. PicksGrow'
  <2> SUFFICES ASSUME NEW j \in PickLists \ lowered'
               PROVE  /\ \A q, r \in Pickers : q # r /\ Writing(q, j)' /\ Working(r, j)' =>
                           \A i \in DOMAIN job'[q].lines : job'[q].lines[i] >= picked'[j][i]
                      /\ \A q \in Pickers : job'[q].op = "finish" /\ job'[q].at = j =>
                           job'[q].n <= Counted(q)'
                      /\ pickList'[j].status = "COMPLETED" =>
                           DoneOf(picked'[j]) = Cardinality(PickLines)
    BY DEF PicksGrow
  <2>1. j \in PickLists \ lowered
    BY <1>5
  <2>2. CASE j # k
    <3>1. \A q \in Pickers : q # p /\ job[q].at = j => Counted(q)' = Counted(q)
      BY <1>16, <2>2
    <3> QED
      BY <1>6, <1>12, <1>13, <1>14, <2>1, <2>2, <3>1 DEF ListInvariant, PicksGrow
  <2>3. CASE j = k
    <3>1. ASSUME NEW q \in Pickers, q # p, Writing(q, k), NEW i \in DOMAIN job[q].lines
          PROVE  i \notin DOMAIN job[p].lines /\ job[q].lines[i] >= picked[k][i]
                 /\ counts[i] = picked[k][i]
      <4>1. i \notin DOMAIN job[p].lines
        BY <1>15, <3>1 DEF ListInvariant, LinesAreLocked
      <4>2. job[q].lines[i] >= picked[k][i]
        BY <1>15, <2>1, <2>3, <3>1 DEF ListInvariant, PicksGrow
      <4>3. i \in PickLines
        <5>1. job[q].lines \in UNION {[I -> 0 .. Wanted] : I \in SUBSET PickLines}
          BY DEF ShippingInvariant, FulfilmentTypeOK, Job
        <5> QED
          BY <3>1, <5>1
      <4> QED
        BY <1>1, <1>2, <4>1, <4>2, <4>3 DEF LinesSeen
    <3>2. \A q, r \in Pickers : q # r /\ Writing(q, k)' /\ Working(r, k)' =>
            \A i \in DOMAIN job'[q].lines : job'[q].lines[i] >= picked'[k][i]
      BY <1>6, <1>12, <1>13, <3>1
    <3>3. ASSUME NEW q \in Pickers, job'[q].op = "finish", job'[q].at = k
          PROVE  job'[q].n <= Counted(q)'
      <4>1. q # p /\ job'[q] = job[q] /\ job[q].op = "finish" /\ job[q].at = k
        BY <1>13, <1>14, <3>3
      <4>2. Working(q, k) /\ job[q].n <= Counted(q)
        BY <2>1, <2>3, <4>1 DEF ListInvariant, PicksGrow, Working, ListOps
      <4>3. \A i \in DOMAIN job[p].lines : job[p].lines[i] >= picked[k][i]
        BY <1>15, <2>1, <2>3, <4>1, <4>2 DEF ListInvariant, PicksGrow
      <4>4. \A i \in PickLines : picked[k][i] <= counts[i]
        <5> SUFFICES ASSUME NEW i \in PickLines PROVE picked[k][i] <= counts[i]
          OBVIOUS
        <5>1. picked[k][i] \in 0 .. Wanted /\ counts[i] \in 0 .. Wanted
          BY DEF ShippingInvariant, FulfilmentTypeOK, PickedLines
        <5>2. counts[i] = IF i \in DOMAIN job[p].lines THEN job[p].lines[i] ELSE picked[k][i]
          BY <1>1, <1>2 DEF LinesSeen
        <5> QED
          BY <4>3, <5>1, <5>2, WantedAssumption
      <4>5. PICK lines : lines = job[q].lines
        OBVIOUS
      <4>6. \A i \in DOMAIN lines : lines[i] \in 0 .. Wanted
        <5>1. job[q].lines \in UNION {[I -> 0 .. Wanted] : I \in SUBSET PickLines}
          BY DEF ShippingInvariant, FulfilmentTypeOK, Job
        <5> QED
          BY <4>5, <5>1
      <4>7. PICK before \in PickedLines : before = SeenLines(lines, picked[k])
        <5>1. picked[k] \in PickedLines
          BY DEF PickedLines, ShippingInvariant, FulfilmentTypeOK
        <5>2. SeenLines(lines, picked[k]) \in PickedLines
          BY <4>6, <5>1 DEF SeenLines, PickedLines
        <5> QED
          BY <5>2
      <4>8. PICK after \in PickedLines : after = SeenLines(lines, counts)
        BY <4>6 DEF SeenLines, PickedLines
      <4>9. \A i \in PickLines : before[i] <= after[i]
        <5> SUFFICES ASSUME NEW i \in PickLines PROVE before[i] <= after[i]
          OBVIOUS
        <5>1. before[i] \in 0 .. Wanted /\ after[i] \in 0 .. Wanted
          BY DEF PickedLines
        <5>2. /\ before[i] = IF i \in DOMAIN lines THEN lines[i] ELSE picked[k][i]
              /\ after[i] = IF i \in DOMAIN lines THEN lines[i] ELSE counts[i]
          BY <4>7, <4>8 DEF SeenLines
        <5> QED
          BY <4>4, <5>1, <5>2, WantedAssumption
      <4>10. DoneOf(before) <= DoneOf(after)
        BY ONLY <4>9, DoneGrows
      <4>11. Counted(q) = DoneOf(before)
        BY <4>1, <4>5, <4>7, CountedIsOfSeen
      <4>12. Counted(q)' = DoneOf(after)
        BY <1>6, <4>1, <4>5, <4>8 DEF Counted, LinesSeen, SeenLines
      <4>13. DoneOf(before) \in Nat /\ DoneOf(after) \in Nat
        BY ONLY DoneIsCounted
      <4>14. job[q].n \in Nat
        BY DEF ShippingInvariant, FulfilmentTypeOK, Job
      <4> QED
        BY <4>1, <4>2, <4>10, <4>11, <4>12, <4>13, <4>14
    <3>4. pickList'[k].status = "COMPLETED" => DoneOf(picked'[k]) = Cardinality(PickLines)
      <4>1. n <= DoneOf(counts)
        BY <1>1, <1>3, <1>17, <2>1, <2>3 DEF ListInvariant, PicksGrow
      <4> QED
        BY <1>4, <1>6, <1>17, <1>18, <4>1
    <3> QED
      BY <2>3, <3>2, <3>3, <3>4
  <2> QED
    BY <2>2, <2>3
<1>21. OneAtATime'
  <2> SUFFICES ASSUME NEW j \in PickLists \ together'
               PROVE  /\ \A q, r \in Pickers : Working(q, j)' /\ Working(r, j)' => q = r
                      /\ \A q \in Pickers : job'[q].op = "finish" /\ job'[q].at = j =>
                           job'[q].n = Counted(q)'
                      /\ \A q \in Pickers : job'[q].op = "set" /\ job'[q].at = j =>
                           DoneOf(picked'[j]) # Cardinality(PickLines)
                      /\ pickList'[j].n = DoneOf(picked'[j])
                      /\ DoneOf(picked'[j]) = Cardinality(PickLines) =>
                           pickList'[j].status = "COMPLETED"
    BY DEF OneAtATime
  <2>1. j \in PickLists \ together
    BY <1>5
  <2>2. CASE j # k
    <3>1. \A q \in Pickers : q # p /\ job[q].at = j => Counted(q)' = Counted(q)
      BY <1>16, <2>2
    <3> QED
      BY <1>6, <1>12, <1>13, <1>14, <2>1, <2>2, <3>1 DEF ListInvariant, OneAtATime
  <2>3. CASE j = k
    <3>1. \A q \in Pickers : Working(q, k) => q = p
      BY <1>15, <2>1, <2>3 DEF ListInvariant, OneAtATime
    <3>2. \A q \in Pickers : job'[q].op \in {"finish", "set"} => job'[q].at # k
      <4> SUFFICES ASSUME NEW q \in Pickers, job'[q].op \in {"finish", "set"}, job'[q].at = k
                   PROVE  FALSE
        OBVIOUS
      <4>1. q # p /\ Working(q, k)
        BY <1>13, <1>14 DEF Working, ListOps
      <4> QED
        BY <3>1, <4>1
    <3>3. n = DoneOf(counts)
      BY <1>1, <1>3, <1>17, <2>1, <2>3 DEF ListInvariant, OneAtATime
    <3>4. \A q, r \in Pickers : Working(q, k)' /\ Working(r, k)' => q = r
      BY <1>12, <3>1
    <3> QED
      BY <1>4, <1>6, <1>18, <2>3, <3>2, <3>3, <3>4
  <2> QED
    BY <2>2, <2>3
<1> QED
  BY <1>10, <1>19, <1>20, <1>21 DEF ListInvariant

-----------------------------------------------------------------------------
(* Every step *)

\* The inductive invariant.
FulfilmentInvariant == ShippingInvariant /\ ListInvariant

\* A request that starts keeps the invariant,
LEMMA RequestOfFulfilmentKeepsInvariant ==
  ASSUME FulfilmentInvariant, NEW p \in Pickers, StartFulfilment(p)
  PROVE  FulfilmentInvariant'
<1> USE DEF FulfilmentInvariant
<1>1. ASSUME NEW k \in PickLists, ReadListForStatus(p, k)
      PROVE  FulfilmentInvariant'
  <2>1. ShippingInvariant'
    BY <1>1, ReadListForStatusKeepsShipping
  <2>2. PICK s \in PickStatuses \ {"COMPLETED"} : ReadList(p, k, ToSet(k, s))
    BY <1>1 DEF ReadListForStatus, ToSet, PickStatuses
  <2>3. PICK t : t = ToSet(k, s)
    OBVIOUS
  <2>4. t \in Job /\ t.op = "set" /\ t.at = k
    BY <2>3, JobToSet
  <2>5. ReadList(p, k, t) /\ pickList[k].status # "COMPLETED"
    BY <1>1, <2>2, <2>3 DEF ReadListForStatus
  <2> QED
    BY <2>1, <2>4, <2>5, ReadListKeepsLists
<1>2. ASSUME NEW k \in PickLists, ReadListForRecord(p, k)
      PROVE  FulfilmentInvariant'
  <2>1. ShippingInvariant'
    BY <1>2, ReadListForRecordKeepsShipping
  <2>2. PICK I \in SUBSET PickLines : \E lines \in [I -> 0 .. Wanted] :
          ReadList(p, k, ToRecord(k, lines))
    BY <1>2 DEF ReadListForRecord, ToRecord
  <2>3. PICK lines \in [I -> 0 .. Wanted] : ReadList(p, k, ToRecord(k, lines))
    BY <2>2
  <2>4. PICK t : t = ToRecord(k, lines)
    OBVIOUS
  <2>5. t \in Job /\ t.op = "record" /\ t.at = k
    BY <2>4, JobToRecord
  <2>6. ReadList(p, k, t) /\ pickList[k].status # "COMPLETED"
    BY <1>2, <2>3, <2>4 DEF ReadListForRecord
  <2> QED
    BY <2>1, <2>5, <2>6, ReadListKeepsLists
<1>3. ASSUME NEW s \in Shipments, ReadShipmentForStatus(p, s)
      PROVE  FulfilmentInvariant'
  <2>1. ShippingInvariant'
    BY <1>3, ReadShipmentForStatusKeepsShipping
  <2>2. PICK next \in ShipmentStatuses :
          ReadShipment(p, s, ToShip(s, next, shipment[s].shipped \/ next = "DISPATCHED"))
    BY <1>3 DEF ReadShipmentForStatus, ToShip
  <2>3. PICK shipped \in BOOLEAN : shipped = (shipment[s].shipped \/ next = "DISPATCHED")
    OBVIOUS
  <2>4. PICK t : t = ToShip(s, next, shipped)
    OBVIOUS
  <2>5. t \in Job /\ t.op = "ship"
    BY <2>4, JobToShip
  <2>6. ReadShipment(p, s, t)
    BY <2>2, <2>3, <2>4
  <2>7. Leaves(p) /\ UNCHANGED <<pickList, picked, together, lowered>>
    BY <2>5, <2>6, ReadShipmentLeaves DEF ShippingInvariant
  <2> QED
    BY <2>1, <2>7, LeavingKeepsLists
<1>4. ASSUME NEW s \in Shipments, ReadShipmentForLabel(p, s)
      PROVE  FulfilmentInvariant'
  <2>1. ShippingInvariant'
    BY <1>4, ReadShipmentForLabelKeepsShipping
  <2>2. PICK t : t = ToLabel(s)
    OBVIOUS
  <2>3. t \in Job /\ t.op = "label"
    BY <2>2, JobToLabel
  <2>4. ReadShipment(p, s, t)
    BY <1>4, <2>2 DEF ReadShipmentForLabel, ToLabel
  <2>5. Leaves(p) /\ UNCHANGED <<pickList, picked, together, lowered>>
    BY <2>3, <2>4, ReadShipmentLeaves DEF ShippingInvariant
  <2> QED
    BY <2>1, <2>5, LeavingKeepsLists
<1> QED
  BY <1>1, <1>2, <1>3, <1>4 DEF StartFulfilment

\* and one that goes on,
LEMMA StepOfFulfilmentKeepsInvariant ==
  ASSUME FulfilmentInvariant, NEW p \in Pickers, ContinueFulfilment(p)
  PROVE  FulfilmentInvariant'
<1> USE DEF FulfilmentInvariant
<1>1. CASE SetListStatus(p)
  <2>1. ListInvariant'
    BY <1>1, SetListStatusKeepsLists
  <2>2. PICK k \in PickLists, s \in PickStatuses :
          pickList' = [pickList EXCEPT ![k].status = s]
    BY <1>1 DEF SetListStatus, ShippingInvariant, JobsAreSane, ListOps
  <2>3. pickList' \in [PickLists -> [status : PickStatuses, n : Nat]]
    BY <2>2 DEF ShippingInvariant, FulfilmentTypeOK
  <2>4. JobsAreSane' /\ job' \in [Pickers -> Job]
    BY <1>1, NoJobIsSane, SaneJobsStay DEF SetListStatus, JobEnds, ShippingInvariant
  <2>5. UNCHANGED <<picked, shipment, together, lowered>>
    BY <1>1 DEF SetListStatus
  <2> QED
    BY <2>1, <2>3, <2>4, <2>5 DEF ShippingInvariant, FulfilmentTypeOK, ShipmentsHaveLeft
<1>2. CASE WriteLines(p)
  BY <1>2, WriteLinesKeepsAll
<1>3. CASE CountLines(p)
  BY <1>3, CountLinesKeepsAll
<1>4. CASE CommitPicks(p)
  BY <1>4, CommitPicksKeepsAll
<1>5. CASE UpdateShipmentStatus(p)
  <2>1. ShippingInvariant'
    BY <1>5, UpdateShipmentStatusKeepsShipping
  <2>2. Leaves(p) /\ UNCHANGED <<pickList, picked, together, lowered>>
    BY <1>5, EndingLeaves DEF UpdateShipmentStatus, ShippingInvariant
  <2> QED
    BY <2>1, <2>2, LeavingKeepsLists
<1>6. CASE GenerateLabel(p)
  <2>1. ShippingInvariant'
    BY <1>6, GenerateLabelKeepsShipping
  <2>2. Leaves(p) /\ UNCHANGED <<pickList, picked, together, lowered>>
    BY <1>6, EndingLeaves DEF GenerateLabel, ShippingInvariant
  <2> QED
    BY <2>1, <2>2, LeavingKeepsLists
<1>7. CASE FailFulfilment(p)
  <2>1. JobsAreSane' /\ job' \in [Pickers -> Job]
    BY <1>7, NoJobIsSane, SaneJobsStay DEF FailFulfilment, JobEnds, ShippingInvariant
  <2>2. Leaves(p) /\ UNCHANGED <<pickList, picked, shipment, together, lowered>>
    BY <1>7, EndingLeaves DEF FailFulfilment, SameGoods, ShippingInvariant
  <2>3. ShippingInvariant'
    BY <2>1, <2>2 DEF ShippingInvariant, FulfilmentTypeOK, ShipmentsHaveLeft
  <2> QED
    BY <2>2, <2>3, LeavingKeepsLists
<1> QED
  BY <1>1, <1>2, <1>3, <1>4, <1>5, <1>6, <1>7 DEF ContinueFulfilment

\* so every step does,
LEMMA FulfilmentStepKeepsInvariant ==
  ASSUME FulfilmentInvariant, FulfilmentNext
  PROVE  FulfilmentInvariant'
<1> USE DEF FulfilmentInvariant
<1>1. ASSUME NEW k \in PickLists, CreatePickList(k)
      PROVE  FulfilmentInvariant'
  <2>1. ListInvariant'
    BY <1>1, CreatePickListKeepsLists DEF ShippingInvariant
  <2>2. PICK s \in {"PENDING", "ASSIGNED"} : pickList' = [pickList EXCEPT ![k].status = s]
    BY <1>1 DEF CreatePickList
  <2>3. s \in PickStatuses
    BY DEF PickStatuses
  <2>4. pickList' \in [PickLists -> [status : PickStatuses, n : Nat]]
    BY <2>2, <2>3 DEF ShippingInvariant, FulfilmentTypeOK
  <2>5. UNCHANGED <<picked, shipment, job, together, lowered>>
    BY <1>1 DEF CreatePickList
  <2> QED
    BY <2>1, <2>4, <2>5 DEF ShippingInvariant, FulfilmentTypeOK, ShipmentsHaveLeft, JobsAreSane
<1>2. ASSUME NEW s \in Shipments, CreateShipment(s)
      PROVE  FulfilmentInvariant'
  <2>1. ShippingInvariant'
    BY <1>2, CreateShipmentKeepsShipping
  <2>2. UNCHANGED <<pickList, picked, job, together, lowered>>
    BY <1>2 DEF CreateShipment
  <2>3. \A q \in Pickers, j \in PickLists :
          Working(q, j)' = Working(q, j) /\ Writing(q, j)' = Writing(q, j)
    BY <2>2 DEF Working, Writing
  <2>4. \A q \in Pickers : Counted(q)' = Counted(q)
    BY <2>2 DEF Counted, LinesSeen
  <2>5. ListInvariant'
    BY <2>2, <2>3, <2>4 DEF ListInvariant, LinesAreLocked, PicksGrow, OneAtATime
  <2> QED
    BY <2>1, <2>5
<1>3. ASSUME NEW p \in Pickers, StartFulfilment(p) \/ ContinueFulfilment(p)
      PROVE  FulfilmentInvariant'
  BY <1>3, RequestOfFulfilmentKeepsInvariant, StepOfFulfilmentKeepsInvariant
<1> QED
  BY <1>1, <1>2, <1>3 DEF FulfilmentNext

\* and a step of something else.
LEMMA FulfilmentStutterKeepsInvariant ==
  ASSUME FulfilmentInvariant, UNCHANGED fulfilmentVars
  PROVE  FulfilmentInvariant'
<1>1. UNCHANGED <<pickList, picked, shipment, job, together, lowered>>
  BY DEF fulfilmentVars
<1>2. \A q \in Pickers, j \in PickLists :
        Working(q, j)' = Working(q, j) /\ Writing(q, j)' = Writing(q, j)
  BY <1>1 DEF Working, Writing
<1>3. \A q \in Pickers : Counted(q)' = Counted(q)
  BY <1>1 DEF Counted, LinesSeen
<1>4. ListInvariant'
  BY <1>1, <1>2, <1>3
  DEF FulfilmentInvariant, ListInvariant, LinesAreLocked, PicksGrow, OneAtATime
<1>5. ShippingInvariant'
  BY <1>1
  DEF FulfilmentInvariant, ShippingInvariant, FulfilmentTypeOK, ShipmentsHaveLeft, JobsAreSane
<1> QED
  BY <1>4, <1>5 DEF FulfilmentInvariant

\* The invariant is inductive.
LEMMA FulfilmentInvariantHolds == FulfilmentSpec => []FulfilmentInvariant
<1>1. FulfilmentInit => FulfilmentInvariant
  BY ShippingInit, ListInit DEF FulfilmentInvariant
<1>2. FulfilmentInvariant /\ [FulfilmentNext]_fulfilmentVars => FulfilmentInvariant'
  BY FulfilmentStepKeepsInvariant, FulfilmentStutterKeepsInvariant
<1> QED
  BY <1>1, <1>2, PTL DEF FulfilmentSpec

\* Picking and shipping (wms-advanced: PickListsService, ShipmentsService) keep their types.
THEOREM FulfilmentTypes == FulfilmentSpec => []FulfilmentTypeOK
<1>1. FulfilmentInvariant => FulfilmentTypeOK
  BY DEF FulfilmentInvariant, ShippingInvariant
<1> QED
  BY <1>1, FulfilmentInvariantHolds, PTL

\* A pick list on which nothing was taken back is completed only when every line of it is
\* done (PickListsService.recordPick); if requests worked on it one at a time, its count is
\* that of its lines, and it is completed once they are. A shipment that has left has the
\* date of that (ShipmentsService.updateStatus).
THEOREM FulfilmentIsTracedAlways == FulfilmentSpec => []FulfilmentIsTraced
<1>1. FulfilmentInvariant => FulfilmentIsTraced
  BY DEF FulfilmentInvariant, ShippingInvariant, ListInvariant, PicksGrow, OneAtATime,
    ShipmentsHaveLeft, HasLeft, FulfilmentIsTraced
<1> QED
  BY <1>1, FulfilmentInvariantHolds, PTL

-----------------------------------------------------------------------------
(* Batches *)

\* A function from the rows of the ledgers to integers agrees with itself: on a
\* batch, on all of them, and on a place.
LotAgrees(f, b) ==
  f[InLot(b)] = SumFunctionOnSet([l \in Shelves |-> f[InLevel(b, l)]], Shelves)
LotsAgree(f) == \A b \in Lots : LotAgrees(f, b)
StockAgrees(f, l) ==
  f[InStockLevel(l)] = SumFunctionOnSet([b \in Lots |-> f[InLevel(b, l)]], Lots)
\* It agrees everywhere but on these places and batches.
AgreesBut(f, parted) ==
  (\A b \in Lots \ parted : LotAgrees(f, b)) /\ \A l \in Shelves \ parted : StockAgrees(f, l)
\* All of it agrees, but on those that an unchecked document has parted.
Agrees(f) == AgreesBut(f, forced)

\* By how much the i-th statement of a part, and all of it, will change a row.
Change(steps, i, r) ==
  IF i <= Len(steps) /\ steps[i].need # "check" /\ steps[i].row = r THEN steps[i].by ELSE 0
Ahead(steps) ==
  [r \in LedgerRows |-> Change(steps, 1, r) + Change(steps, 2, r) + Change(steps, 3, r)
                          + Change(steps, 4, r) + Change(steps, 5, r)]

\* What p has changed and not committed.
Changed(p) == [r \in LedgerRows |-> IF owner[r] = p THEN latest[r].n - row[r].n ELSE 0]

\* What p has changed at the end of the part that it is in.
Current(script) == IF script = << >> THEN << >> ELSE Head(script)
InAll(p) == [r \in LedgerRows |-> Changed(p)[r] + Ahead(Current(hand[p].script))[r]]

\* Statements as receipts, sales, and all others make them.
StatementIsSane(op, read, st) ==
  /\ st.row[1] = "lot" =>
       st.status \in {"keep", "drain"} \/ (op = "receive" /\ st.status = Topped(read))
  /\ st.row[1] = "level" /\ op = "sell" => st.need = "units"

\* A part has a few such statements. One of a sale charges the stock last, for then the
\* levels that it charges were found to hold it.
PartIsSane(op, read, steps) ==
  /\ Len(steps) \in 1 .. 5
  /\ \A i \in 1 .. Len(steps) : StatementIsSane(op, read, steps[i])
  /\ op = "sell" => \A i \in 1 .. Len(steps) :
       steps[i].row[1] = "stock" /\ steps[i].need # "check" => i = Len(steps)

\* Every part that a script has not begun agrees with itself.
ScriptIsSane(op, read, places, script) ==
  \A i \in 1 .. Len(script) :
    /\ PartIsSane(op, read, script[i])
    /\ i > 1 => AgreesBut(Ahead(script[i]), places)
\* So do the scripts of all transactions.
ScriptsAreSane ==
  \A p \in Hands : ScriptIsSane(hand[p].op, hand[p].read, forced, hand[p].script)

\* Only a transaction owns rows.
OwnersAreAtWork ==
  /\ \A r \in LedgerRows : owner[r] = NoHand => latest[r] = row[r]
  /\ \A p \in Hands : hand[p].op \in {"none", "allocate", "inspect"} =>
       hand[p].script = << >> /\ \A r \in LedgerRows : owner[r] # p

\* The amounts that are committed,
Amounts == [r \in LedgerRows |-> row[r].n]
\* agree, and will once any transaction has finished the part that it is in.
LedgersMove == Agrees(Amounts) /\ \A p \in Hands : Agrees(InAll(p))

\* No level of a batch is negative, committed or not, but at a place that was parted.
LevelsArePositive ==
  \A b \in Lots, l \in Shelves \ forced : row[InLevel(b, l)].n >= 0 /\ latest[InLevel(b, l)].n >= 0

\* A document is of its kind and its batch.
PapersAreSane ==
  /\ \A d \in Papers : paper[d].status = "absent" => paper[d].kind = "none"
  /\ \A d \in Papers : paper[d].kind \in {"bill", "inspection"} => paper[d].lot \in Lots
  /\ \A p \in Hands : hand[p].op = "inspect" =>
       hand[p].paper \in Papers /\ paper[hand[p].paper].kind = "inspection"
  /\ \A p \in Hands : hand[p].op = "allocate" =>
       hand[p].paper \in Papers 

\* The statuses in which a batch is not sold...
Held(s) == s \notin Sellable \cup {"none"}
\* ...and is, while an inspection of it is open, unless a user overruled the inspection.
HoldsStand ==
  \A d \in Papers \ overruled :
    paper[d].kind = "inspection" /\ paper[d].status = "open" =>
      Held(row[InLot(paper[d].lot)].status) /\ Held(latest[InLot(paper[d].lot)].status)

\* The inductive invariant.
BatchInvariant ==
  /\ BatchTypeOK /\ ScriptsAreSane /\ OwnersAreAtWork /\ LedgersMove /\ LevelsArePositive
  /\ PapersAreSane /\ HoldsStand

-----------------------------------------------------------------------------
(* The rows of the ledgers *)

\* The rows are told apart...
LEMMA RowsAreApart ==
  \A b, c \in Lots, l, m \in Shelves :
    /\ InLot(b) \in LedgerRows /\ InLevel(b, l) \in LedgerRows /\ InStockLevel(l) \in LedgerRows
    /\ InLot(b) = InLot(c) => b = c
    /\ InLevel(b, l) = InLevel(c, m) => b = c /\ l = m
    /\ InStockLevel(l) = InStockLevel(m) => l = m
    /\ InLot(b) # InLevel(c, l) /\ InLot(b) # InStockLevel(l)
    /\ InLevel(b, l) # InStockLevel(m)
BY DEF InLot, InLevel, InStockLevel, LedgerRows

\* ...and say where they are.
LEMMA RowsSayWhere ==
  \A b \in Lots, l \in Shelves :
    /\ InLot(b)[1] = "lot" /\ InLot(b)[2] = b
    /\ InLevel(b, l)[1] = "level" /\ InLevel(b, l)[2] = b /\ InLevel(b, l)[3] = l
    /\ InStockLevel(l)[1] = "stock" /\ InStockLevel(l)[3] = l
BY DEF InLot, InLevel, InStockLevel

\* There are no others.
LEMMA RowsAreOfThreeKinds ==
  ASSUME NEW r \in LedgerRows
  PROVE  \/ \E b \in Lots : r = InLot(b)
         \/ \E b \in Lots, l \in Shelves : r = InLevel(b, l)
         \/ \E l \in Shelves : r = InStockLevel(l)
BY DEF LedgerRows

-----------------------------------------------------------------------------
(* Ledgers that agree *)

\* An amount for every row.
Amount == [LedgerRows -> Int]

\* Only the batch and its levels matter to the one, the place to the other.
LEMMA LotAgreesAlike ==
  ASSUME NEW f, NEW g, NEW b \in Lots, LotAgrees(f, b),
         f[InLot(b)] = g[InLot(b)],
         \A l \in Shelves : f[InLevel(b, l)] = g[InLevel(b, l)]
  PROVE  LotAgrees(g, b)
<1>1. [l \in Shelves |-> g[InLevel(b, l)]] = [l \in Shelves |-> f[InLevel(b, l)]]
  OBVIOUS
<1>2. f[InLot(b)] = SumFunctionOnSet([l \in Shelves |-> f[InLevel(b, l)]], Shelves)
  BY DEF LotAgrees
<1>3. g[InLot(b)] = SumFunctionOnSet([l \in Shelves |-> g[InLevel(b, l)]], Shelves)
  BY <1>1, <1>2
<1> QED
  BY <1>3 DEF LotAgrees

\* The same at one place.
LEMMA StockAgreesAlike ==
  ASSUME NEW f, NEW g, NEW l \in Shelves, StockAgrees(f, l),
         f[InStockLevel(l)] = g[InStockLevel(l)],
         \A b \in Lots : f[InLevel(b, l)] = g[InLevel(b, l)]
  PROVE  StockAgrees(g, l)
<1>1. [b \in Lots |-> g[InLevel(b, l)]] = [b \in Lots |-> f[InLevel(b, l)]]
  OBVIOUS
<1>2. f[InStockLevel(l)] = SumFunctionOnSet([b \in Lots |-> f[InLevel(b, l)]], Lots)
  BY DEF StockAgrees
<1>3. g[InStockLevel(l)] = SumFunctionOnSet([b \in Lots |-> g[InLevel(b, l)]], Lots)
  BY <1>1, <1>2
<1> QED
  BY <1>3 DEF StockAgrees

\* What agrees by itself agrees together.
LEMMA LotAgreesTogether ==
  ASSUME NEW f \in Amount, NEW g \in Amount, NEW h, NEW b \in Lots,
         \A r \in LedgerRows : h[r] = f[r] + g[r], LotAgrees(f, b), LotAgrees(g, b)
  PROVE  LotAgrees(h, b)
<1>1. PICK ff : ff = [l \in Shelves |-> f[InLevel(b, l)]]
  OBVIOUS
<1>2. PICK gg : gg = [l \in Shelves |-> g[InLevel(b, l)]]
  OBVIOUS
<1>3. PICK hh : hh = [l \in Shelves |-> h[InLevel(b, l)]]
  OBVIOUS
<1>4. \A l \in Shelves : ff[l] \in Int /\ gg[l] \in Int /\ hh[l] = ff[l] + gg[l]
  BY <1>1, <1>2, <1>3, RowsAreApart DEF Amount
<1>5. SumFunctionOnSet(hh, Shelves) = SumFunctionOnSet(ff, Shelves) + SumFunctionOnSet(gg, Shelves)
  BY ONLY <1>4, ShelvesAssumption, SumOfBoth
<1>6. f[InLot(b)] = SumFunctionOnSet(ff, Shelves) /\ g[InLot(b)] = SumFunctionOnSet(gg, Shelves)
  BY <1>1, <1>2 DEF LotAgrees
<1>0. InLot(b) \in LedgerRows
  BY DEF LedgerRows
<1>7. h[InLot(b)] = f[InLot(b)] + g[InLot(b)]
  BY <1>0
<1>8. h[InLot(b)] = SumFunctionOnSet(hh, Shelves)
  BY <1>5, <1>6, <1>7
<1> QED
  BY <1>3, <1>8 DEF LotAgrees

\* And at one place.
LEMMA StockAgreesTogether ==
  ASSUME NEW f \in Amount, NEW g \in Amount, NEW h, NEW l \in Shelves,
         \A r \in LedgerRows : h[r] = f[r] + g[r], StockAgrees(f, l), StockAgrees(g, l)
  PROVE  StockAgrees(h, l)
<1>1. PICK ff : ff = [b \in Lots |-> f[InLevel(b, l)]]
  OBVIOUS
<1>2. PICK gg : gg = [b \in Lots |-> g[InLevel(b, l)]]
  OBVIOUS
<1>3. PICK hh : hh = [b \in Lots |-> h[InLevel(b, l)]]
  OBVIOUS
<1>4. \A b \in Lots : ff[b] \in Int /\ gg[b] \in Int /\ hh[b] = ff[b] + gg[b]
  BY <1>1, <1>2, <1>3, RowsAreApart DEF Amount
<1>0. IsFiniteSet(Lots) /\ InStockLevel(l) \in LedgerRows
  BY LotsAssumption DEF LedgerRows
<1>5. SumFunctionOnSet(hh, Lots) = SumFunctionOnSet(ff, Lots) + SumFunctionOnSet(gg, Lots)
  BY ONLY <1>0, <1>4, SumOfBoth
<1>6. f[InStockLevel(l)] = SumFunctionOnSet(ff, Lots) /\ g[InStockLevel(l)] = SumFunctionOnSet(gg, Lots)
  BY <1>1, <1>2 DEF StockAgrees
<1>7. h[InStockLevel(l)] = f[InStockLevel(l)] + g[InStockLevel(l)]
  BY <1>0
<1>8. h[InStockLevel(l)] = SumFunctionOnSet(hh, Lots)
  BY <1>5, <1>6, <1>7
<1> QED
  BY <1>3, <1>8 DEF StockAgrees

\* One quantity of one batch comes to one place, and nothing else.
OneMove(f, b, l, n) ==
  \A r \in LedgerRows :
    f[r] = IF r \in {InLot(b), InLevel(b, l), InStockLevel(l)} THEN n ELSE 0

\* A sum of which all terms but one are nothing.
LEMMA OneSum ==
  ASSUME NEW f, NEW S, IsFiniteSet(S), NEW x \in S, NEW n \in Int, f[x] = n,
         \A y \in S \ {x} : f[y] = 0
  PROVE  SumFunctionOnSet(f, S) = n
<1>1. \A y \in S : f[y] \in Int
  OBVIOUS
<1>2. SumFunctionOnSet(f, S) = f[x] + SumFunctionOnSet(f, S \ {x})
  BY <1>1, SumTakesAny
<1>3. SumFunctionOnSet(f, S \ {x}) = 0
  BY SumOfZeros, FS_RemoveElement
<1> QED
  BY <1>2, <1>3

\* What arrives or leaves at one place, of one batch, agrees with itself.
LEMMA OneMoveAgrees ==
  ASSUME NEW f, NEW b \in Lots, NEW l \in Shelves, NEW n \in Int, OneMove(f, b, l, n)
  PROVE  LotsAgree(f) /\ \A m \in Shelves : StockAgrees(f, m)
<1>1. ASSUME NEW c \in Lots
      PROVE  f[InLot(c)] = SumFunctionOnSet([m \in Shelves |-> f[InLevel(c, m)]], Shelves)
  <2>1. PICK ff : ff = [m \in Shelves |-> f[InLevel(c, m)]]
    OBVIOUS
  <2>2. \A m \in Shelves : ff[m] = IF c = b /\ m = l THEN n ELSE 0
    BY <2>1, RowsAreApart DEF OneMove
  <2>3. f[InLot(c)] = IF c = b THEN n ELSE 0
    BY RowsAreApart DEF OneMove
  <2>4. CASE c = b
    <3>1. ff[l] = n /\ \A m \in Shelves \ {l} : ff[m] = 0
      BY <2>2, <2>4
    <3>2. SumFunctionOnSet(ff, Shelves) = n
      BY ONLY <3>1, ShelvesAssumption, OneSum, n \in Int, l \in Shelves
    <3> QED
      BY <2>1, <2>3, <2>4, <3>2
  <2>5. CASE c # b
    <3>1. \A m \in Shelves : ff[m] = 0
      BY <2>2, <2>5
    <3>2. SumFunctionOnSet(ff, Shelves) = 0
      BY ONLY <3>1, ShelvesAssumption, SumOfZeros
    <3> QED
      BY <2>1, <2>3, <2>5, <3>2
  <2> QED
    BY <2>4, <2>5
<1>2. ASSUME NEW m \in Shelves
      PROVE  f[InStockLevel(m)] = SumFunctionOnSet([c \in Lots |-> f[InLevel(c, m)]], Lots)
  <2>1. PICK ff : ff = [c \in Lots |-> f[InLevel(c, m)]]
    OBVIOUS
  <2>2. \A c \in Lots : ff[c] = IF c = b /\ m = l THEN n ELSE 0
    BY <2>1, RowsAreApart DEF OneMove
  <2>3. f[InStockLevel(m)] = IF m = l THEN n ELSE 0
    BY RowsAreApart DEF OneMove
  <2>4. CASE m = l
    <3>1. ff[b] = n /\ \A c \in Lots \ {b} : ff[c] = 0
      BY <2>2, <2>4
    <3>2. SumFunctionOnSet(ff, Lots) = n
      BY ONLY <3>1, LotsAssumption, OneSum, n \in Int, b \in Lots
    <3> QED
      BY <2>1, <2>3, <2>4, <3>2
  <2>5. CASE m # l
    <3>1. \A c \in Lots : ff[c] = 0
      BY <2>2, <2>5
    <3>2. SumFunctionOnSet(ff, Lots) = 0
      BY ONLY <3>1, LotsAssumption, SumOfZeros
    <3> QED
      BY <2>1, <2>3, <2>5, <3>2
  <2> QED
    BY <2>4, <2>5
<1> QED
  BY <1>1, <1>2 DEF LotsAgree, LotAgrees, StockAgrees

\* Nothing does.
LEMMA ZeroAgrees ==
  ASSUME NEW f, \A r \in LedgerRows : f[r] = 0
  PROVE  LotsAgree(f) /\ \A l \in Shelves : StockAgrees(f, l)
<1>1. IsFiniteSet(Lots) /\ IsFiniteSet(Shelves)
  BY LotsAssumption, ShelvesAssumption
<1>2. ASSUME NEW b \in Lots
      PROVE  f[InLot(b)] = SumFunctionOnSet([l \in Shelves |-> f[InLevel(b, l)]], Shelves)
  <2>1. PICK ff : ff = [l \in Shelves |-> f[InLevel(b, l)]]
    OBVIOUS
  <2>2. \A l \in Shelves : ff[l] = 0
    BY <2>1 DEF LedgerRows
  <2>3. SumFunctionOnSet(ff, Shelves) = 0
    BY ONLY <1>1, <2>2, SumOfZeros
  <2>4. f[InLot(b)] = 0
    BY DEF LedgerRows
  <2> QED
    BY <2>1, <2>3, <2>4
<1>3. ASSUME NEW l \in Shelves
      PROVE  f[InStockLevel(l)] = SumFunctionOnSet([b \in Lots |-> f[InLevel(b, l)]], Lots)
  <2>1. PICK ff : ff = [b \in Lots |-> f[InLevel(b, l)]]
    OBVIOUS
  <2>2. \A b \in Lots : ff[b] = 0
    BY <2>1 DEF LedgerRows
  <2>3. SumFunctionOnSet(ff, Lots) = 0
    BY ONLY <1>1, <2>2, SumOfZeros
  <2>4. f[InStockLevel(l)] = 0
    BY DEF LedgerRows
  <2> QED
    BY <2>1, <2>3, <2>4
<1> QED
  BY <1>2, <1>3 DEF LotsAgree, LotAgrees, StockAgrees

\* Where fewer places and batches count and no amount that counts is another.
LEMMA AgreesAlike ==
  ASSUME NEW f, NEW g, NEW F, NEW G, F \subseteq G, AgreesBut(f, F),
         \A b \in Lots \ G : f[InLot(b)] = g[InLot(b)],
         \A b \in Lots, l \in Shelves :
           b \notin G \/ l \notin G => f[InLevel(b, l)] = g[InLevel(b, l)],
         \A l \in Shelves \ G : f[InStockLevel(l)] = g[InStockLevel(l)]
  PROVE  AgreesBut(g, G)
<1>1. (\A b \in Lots \ F : LotAgrees(f, b)) /\ \A l \in Shelves \ F : StockAgrees(f, l)
  BY DEF AgreesBut
<1>2. ASSUME NEW b \in Lots \ G
      PROVE  LotAgrees(g, b)
  <2>1. LotAgrees(f, b) /\ b \in Lots /\ f[InLot(b)] = g[InLot(b)]
    BY <1>1, <1>2
  <2>2. \A l \in Shelves : f[InLevel(b, l)] = g[InLevel(b, l)]
    BY <1>2
  <2> QED
    BY ONLY <2>1, <2>2, LotAgreesAlike
<1>3. ASSUME NEW l \in Shelves \ G
      PROVE  StockAgrees(g, l)
  <2>1. StockAgrees(f, l) /\ l \in Shelves /\ f[InStockLevel(l)] = g[InStockLevel(l)]
    BY <1>1, <1>3
  <2>2. \A b \in Lots : f[InLevel(b, l)] = g[InLevel(b, l)]
    BY <2>1
  <2> QED
    BY ONLY <2>1, <2>2, StockAgreesAlike
<1> QED
  BY <1>2, <1>3 DEF AgreesBut

\* Amounts that are the same agree alike, and where less is asked.
LEMMA AgreesTheSame ==
  ASSUME NEW f, NEW g, NEW F, NEW G, F \subseteq G, AgreesBut(f, F),
         \A r \in LedgerRows : f[r] = g[r]
  PROVE  AgreesBut(g, G)
<1>1. /\ \A b \in Lots \ G : f[InLot(b)] = g[InLot(b)]
      /\ \A b \in Lots, l \in Shelves :
           b \notin G \/ l \notin G => f[InLevel(b, l)] = g[InLevel(b, l)]
      /\ \A l \in Shelves \ G : f[InStockLevel(l)] = g[InStockLevel(l)]
  BY DEF LedgerRows
<1> QED
  BY <1>1, AgreesAlike

\* Sums of what agrees agree.
LEMMA AgreesTogether ==
  ASSUME NEW f \in Amount, NEW g \in Amount, NEW h, NEW F,
         \A r \in LedgerRows : h[r] = f[r] + g[r], AgreesBut(f, F), AgreesBut(g, F)
  PROVE  AgreesBut(h, F)
<1>1. ASSUME NEW b \in Lots \ F
      PROVE  LotAgrees(h, b)
  <2>1. LotAgrees(f, b) /\ LotAgrees(g, b) /\ b \in Lots
    BY <1>1 DEF AgreesBut
  <2> QED
    BY <2>1, LotAgreesTogether
<1>2. ASSUME NEW l \in Shelves \ F
      PROVE  StockAgrees(h, l)
  <2>1. StockAgrees(f, l) /\ StockAgrees(g, l) /\ l \in Shelves
    BY <1>2 DEF AgreesBut
  <2> QED
    BY <2>1, StockAgreesTogether
<1> QED
  BY <1>1, <1>2 DEF AgreesBut

-----------------------------------------------------------------------------
(* What the parts of scripts change *)

\* A statement changes a row by a number,
LEMMA ChangeIsInt ==
  ASSUME NEW steps \in Part, NEW i \in 1 .. 5, NEW r \in LedgerRows
  PROVE  Change(steps, i, r) \in Int
<1>1. CASE i <= Len(steps)
  <2>1. Len(steps) \in Nat /\ i \in 1 .. Len(steps)
    BY <1>1 DEF Part
  <2>2. steps[i] \in Statements
    BY <2>1 DEF Part
  <2> QED
    BY <2>2 DEF Change, Statements
<1>2. CASE ~(i <= Len(steps))
  BY <1>2 DEF Change
<1> QED
  BY <1>1, <1>2

\* and a part every row.
LEMMA AheadIsAnAmount ==
  ASSUME NEW steps \in Part
  PROVE  Ahead(steps) \in Amount
<1>1. \A r \in LedgerRows : Ahead(steps)[r] \in Int
  <2> TAKE r \in LedgerRows
  <2>1. \A i \in 1 .. 5 : Change(steps, i, r) \in Int
    BY ChangeIsInt
  <2> QED
    BY <2>1 DEF Ahead
<1> QED
  BY <1>1 DEF Ahead, Amount

\* No statement changes nothing.
LEMMA NothingAhead ==
  ASSUME NEW steps, Len(steps) = 0
  PROVE  \A r \in LedgerRows : Ahead(steps)[r] = 0
BY DEF Ahead, Change

\* The first statement, and then the rest.
LEMMA AheadGoesOn ==
  ASSUME NEW steps \in Part, Len(steps) \in 1 .. 5, NEW r \in LedgerRows
  PROVE  Ahead(steps)[r] = Change(steps, 1, r) + Ahead(Tail(steps))[r]
<1>1. PICK rest : rest = Tail(steps)
  OBVIOUS
<1>2. rest \in Part /\ Len(rest) = Len(steps) - 1
  BY <1>1 DEF Part
<1>3. \A i \in 1 .. Len(rest) : rest[i] = steps[i + 1]
  BY <1>1 DEF Part
<1>4. \A i \in 1 .. 5 : Change(rest, i, r) = Change(steps, i + 1, r)
  BY <1>2, <1>3 DEF Change
<1>5. Change(steps, 6, r) = 0
  BY DEF Change
<1>6. \A i \in 1 .. 5 : Change(steps, i, r) \in Int
  BY ChangeIsInt
<1>7. /\ Change(rest, 1, r) = Change(steps, 2, r)
      /\ Change(rest, 2, r) = Change(steps, 3, r)
      /\ Change(rest, 3, r) = Change(steps, 4, r)
      /\ Change(rest, 4, r) = Change(steps, 5, r)
      /\ Change(rest, 5, r) = 0
  BY <1>4, <1>5
<1>8. Ahead(steps)[r] = Change(steps, 1, r) + Change(steps, 2, r) + Change(steps, 3, r)
                          + Change(steps, 4, r) + Change(steps, 5, r)
  BY DEF Ahead
<1>9. Ahead(rest)[r] = Change(rest, 1, r) + Change(rest, 2, r) + Change(rest, 3, r)
                          + Change(rest, 4, r) + Change(rest, 5, r)
  BY DEF Ahead
<1> QED
  BY <1>1, <1>6, <1>7, <1>8, <1>9

\* A receipt adds to a batch, its level and the stock of the place.
LEMMA ReceivedIsSane ==
  ASSUME BatchTypeOK, NEW b \in Lots, NEW l \in Shelves, NEW n \in Int,
         NEW steps, steps = Received(b, l, n)
  PROVE  /\ steps \in Part
         /\ PartIsSane("receive", StatusOf(b), steps)
         /\ LotsAgree(Ahead(steps)) /\ \A m \in Shelves : StockAgrees(Ahead(steps), m)
<1>1. InLot(b) \in LedgerRows /\ InLevel(b, l) \in LedgerRows /\ InStockLevel(l) \in LedgerRows
  BY DEF LedgerRows
<1>2. Topped(StatusOf(b)) \in LotStatuses \cup {"row"}
  BY <1>1 DEF BatchTypeOK, StatusOf, Topped, LotStatuses
<1>3. PICK s : s = Topped(StatusOf(b))
  OBVIOUS
<1>4. PICK need \in {"new", "nothing"} : need = IF StatusOf(b) = "none" THEN "new" ELSE "nothing"
  OBVIOUS
<1>5. PICK lot : lot = Statement(InLot(b), n, need, s)
  OBVIOUS
<1>6. PICK levelStep : levelStep = Statement(InLevel(b, l), n, "nothing", "row")
  OBVIOUS
<1>7. PICK stock : stock = Statement(InStockLevel(l), n, "nothing", "row")
  OBVIOUS
<1>8. steps = <<lot, levelStep, stock>>
  BY <1>3, <1>4, <1>5, <1>6, <1>7 DEF Received
<1>9. lot \in Statements /\ levelStep \in Statements /\ stock \in Statements
  BY <1>1, <1>2, <1>3, <1>5, <1>6, <1>7 DEF Statement, Statements
<1>10. steps \in Part /\ Len(steps) = 3 /\ steps[1] = lot /\ steps[2] = levelStep /\ steps[3] = stock
  BY <1>8, <1>9 DEF Part
<1>11. PartIsSane("receive", StatusOf(b), steps)
  <2>1. /\ lot.status = Topped(StatusOf(b))
        /\ levelStep.row[1] = "level" /\ stock.row[1] = "stock"
    BY <1>3, <1>5, <1>6, <1>7, RowsSayWhere DEF Statement
  <2> QED
    BY <1>10, <2>1 DEF PartIsSane, StatementIsSane
<1>12. OneMove(Ahead(steps), b, l, n)
  <2> SUFFICES ASSUME NEW r \in LedgerRows
               PROVE  Ahead(steps)[r] =
                        IF r \in {InLot(b), InLevel(b, l), InStockLevel(l)} THEN n ELSE 0
    BY DEF OneMove
  <2>1. /\ Change(steps, 1, r) = IF r = InLot(b) THEN n ELSE 0
        /\ Change(steps, 2, r) = IF r = InLevel(b, l) THEN n ELSE 0
        /\ Change(steps, 3, r) = IF r = InStockLevel(l) THEN n ELSE 0
        /\ Change(steps, 4, r) = 0 /\ Change(steps, 5, r) = 0
    BY <1>4, <1>5, <1>6, <1>7, <1>10 DEF Change, Statement
  <2> QED
    BY <2>1, RowsAreApart DEF Ahead
<1> QED
  BY <1>10, <1>11, <1>12, OneMoveAgrees

\* The first half of a correction that is charged to the stock: its check and its write.
StockPart(steps) == SubSeq(steps, 1, 2)

\* A correction checks the stock, and charges it, the batch and its level.
LEMMA CorrectedIsSane ==
  ASSUME NEW b \in Lots, NEW l \in Shelves, NEW n \in Int,
         NEW steps, steps = Corrected(b, l, n), NEW cut, cut = StockPart(steps),
         NEW op, op \notin {"sell", "receive"}, NEW read
  PROVE  /\ steps \in Part /\ cut \in Part
         /\ PartIsSane(op, read, steps) /\ PartIsSane(op, read, cut)
         /\ LotsAgree(Ahead(steps)) /\ \A m \in Shelves : StockAgrees(Ahead(steps), m)
         /\ LotsAgree(Ahead(cut)) /\ \A m \in Shelves \ {l} : StockAgrees(Ahead(cut), m)
<1>1. InLot(b) \in LedgerRows /\ InLevel(b, l) \in LedgerRows /\ InStockLevel(l) \in LedgerRows
  BY DEF LedgerRows
<1>2. PICK check : check = Statement(InStockLevel(l), n, "check", "row")
  OBVIOUS
<1>3. PICK stock : stock = Statement(InStockLevel(l), n, "nothing", "row")
  OBVIOUS
<1>4. PICK lot : lot = Statement(InLot(b), n, "nothing", "keep")
  OBVIOUS
<1>5. PICK levelStep : levelStep = Statement(InLevel(b, l), n, "nothing", "keep")
  OBVIOUS
<1>6. steps = <<check, stock, lot, levelStep>>
  BY <1>2, <1>3, <1>4, <1>5 DEF Corrected
<1>7. check \in Statements /\ stock \in Statements /\ lot \in Statements /\ levelStep \in Statements
  BY <1>1, <1>2, <1>3, <1>4, <1>5 DEF Statement, Statements, LotStatuses
<1>8. /\ steps \in Part /\ Len(steps) = 4
      /\ steps[1] = check /\ steps[2] = stock /\ steps[3] = lot /\ steps[4] = levelStep
  BY <1>6, <1>7 DEF Part
<1>9. Len(cut) = 2 /\ cut[1] = steps[1] /\ cut[2] = steps[2]
  <2>1. steps \in Seq(Statements) /\ 1 \in 1 .. Len(steps) + 1 /\ 2 \in 0 .. Len(steps)
    BY <1>8 DEF Part
  <2> QED
    BY <2>1 DEF StockPart
<1>10. cut \in Part /\ Len(cut) = 2 /\ cut[1] = check /\ cut[2] = stock
  <2>1. steps \in Seq(Statements) /\ cut = SubSeq(steps, 1, 2)
    BY <1>8 DEF Part, StockPart
  <2>2. 1 \in Nat /\ 2 \in Nat /\ Len(steps) = 4
    BY <1>8
  <2>3. SubSeq(steps, 1, 2) \in Seq(Statements)
    BY ONLY <2>1, <2>2, SubSeqProperties
  <2> QED
    BY <1>8, <1>9, <2>1, <2>3 DEF Part
<1>11. lot.status = "keep" /\ check.row[1] = "stock" /\ stock.row[1] = "stock" /\ levelStep.row[1] = "level"
  BY <1>2, <1>3, <1>4, <1>5, RowsSayWhere DEF Statement
<1>12. PartIsSane(op, read, steps) /\ PartIsSane(op, read, cut)
  BY <1>8, <1>10, <1>11 DEF PartIsSane, StatementIsSane
<1>13. OneMove(Ahead(steps), b, l, n)
  <2> SUFFICES ASSUME NEW r \in LedgerRows
               PROVE  Ahead(steps)[r] =
                        IF r \in {InLot(b), InLevel(b, l), InStockLevel(l)} THEN n ELSE 0
    BY DEF OneMove
  <2>1. /\ Change(steps, 1, r) = 0
        /\ Change(steps, 2, r) = IF r = InStockLevel(l) THEN n ELSE 0
        /\ Change(steps, 3, r) = IF r = InLot(b) THEN n ELSE 0
        /\ Change(steps, 4, r) = IF r = InLevel(b, l) THEN n ELSE 0
        /\ Change(steps, 5, r) = 0
    BY <1>2, <1>3, <1>4, <1>5, <1>8 DEF Change, Statement
  <2> QED
    BY <2>1, RowsAreApart DEF Ahead
<1>14. \A r \in LedgerRows \ {InStockLevel(l)} : Ahead(cut)[r] = 0
  <2> TAKE r \in LedgerRows \ {InStockLevel(l)}
  <2>1. /\ Change(cut, 1, r) = 0 /\ Change(cut, 2, r) = 0 /\ Change(cut, 3, r) = 0
        /\ Change(cut, 4, r) = 0 /\ Change(cut, 5, r) = 0
    BY <1>2, <1>3, <1>10 DEF Change, Statement
  <2> QED
    BY <2>1 DEF Ahead
<1>15. LotsAgree(Ahead(cut)) /\ \A m \in Shelves \ {l} : StockAgrees(Ahead(cut), m)
  <2>1. PICK zero : zero = [r \in LedgerRows |-> 0]
    OBVIOUS
  <2>2. LotsAgree(zero) /\ \A m \in Shelves : StockAgrees(zero, m)
    BY <2>1, ZeroAgrees
  <2>3. AgreesBut(zero, {})
    BY <2>2 DEF AgreesBut, LotsAgree
  <2>4. \A c \in Lots : zero[InLot(c)] = Ahead(cut)[InLot(c)]
    BY <1>14, <2>1, RowsAreApart
  <2>5. \A c \in Lots, m \in Shelves : zero[InLevel(c, m)] = Ahead(cut)[InLevel(c, m)]
    BY <1>14, <2>1, RowsAreApart
  <2>6. \A m \in Shelves \ {l} : zero[InStockLevel(m)] = Ahead(cut)[InStockLevel(m)]
    BY <1>14, <2>1, RowsAreApart
  <2>7. AgreesBut(Ahead(cut), {l})
    BY ONLY <2>3, <2>4, <2>5, <2>6, AgreesAlike, {} \subseteq {l}
  <2> QED
    BY <2>7, ShelvesAssumption DEF AgreesBut, LotsAgree
<1> QED
  BY <1>8, <1>10, <1>12, <1>13, <1>15, OneMoveAgrees

\* A sale charges the level if it has the units, then the batch and the stock.
LEMMA ConsumedIsSane ==
  ASSUME NEW line \in Allocated, NEW steps, steps = Consumed(line), NEW read
  PROVE  /\ steps \in Part
         /\ PartIsSane("sell", read, steps)
         /\ LotsAgree(Ahead(steps)) /\ \A m \in Shelves : StockAgrees(Ahead(steps), m)
<1>1. PICK b \in Lots : b = line.lot
  BY DEF Allocated
<1>2. PICK l \in Shelves : l = line.place
  BY DEF Allocated
<1>3. PICK n \in Int : n = -line.n
  BY DEF Allocated
<1>4. InLot(b) \in LedgerRows /\ InLevel(b, l) \in LedgerRows /\ InStockLevel(l) \in LedgerRows
  BY DEF LedgerRows
<1>5. PICK levelStep : levelStep = Statement(InLevel(b, l), n, "units", "keep")
  OBVIOUS
<1>6. PICK lot : lot = Statement(InLot(b), n, "nothing", "drain")
  OBVIOUS
<1>7. PICK check : check = Statement(InStockLevel(l), n, "check", "row")
  OBVIOUS
<1>8. PICK stock : stock = Statement(InStockLevel(l), n, "nothing", "row")
  OBVIOUS
<1>9. steps = <<levelStep, lot, check, stock>>
  BY <1>1, <1>2, <1>3, <1>5, <1>6, <1>7, <1>8 DEF Consumed
<1>10. check \in Statements /\ stock \in Statements /\ lot \in Statements /\ levelStep \in Statements
  BY <1>4, <1>5, <1>6, <1>7, <1>8 DEF Statement, Statements
<1>11. /\ steps \in Part /\ Len(steps) = 4
       /\ steps[1] = levelStep /\ steps[2] = lot /\ steps[3] = check /\ steps[4] = stock
  BY <1>9, <1>10 DEF Part
<1>12. PartIsSane("sell", read, steps)
  <2>1. /\ levelStep.row[1] = "level" /\ levelStep.need = "units"
        /\ lot.row[1] = "lot" /\ lot.status = "drain"
        /\ check.row[1] = "stock" /\ check.need = "check" /\ stock.row[1] = "stock"
    BY <1>5, <1>6, <1>7, <1>8, RowsSayWhere DEF Statement
  <2> QED
    BY <1>11, <2>1 DEF PartIsSane, StatementIsSane
<1>13. OneMove(Ahead(steps), b, l, n)
  <2> SUFFICES ASSUME NEW r \in LedgerRows
               PROVE  Ahead(steps)[r] =
                        IF r \in {InLot(b), InLevel(b, l), InStockLevel(l)} THEN n ELSE 0
    BY DEF OneMove
  <2>1. /\ Change(steps, 1, r) = IF r = InLevel(b, l) THEN n ELSE 0
        /\ Change(steps, 2, r) = IF r = InLot(b) THEN n ELSE 0
        /\ Change(steps, 3, r) = 0
        /\ Change(steps, 4, r) = IF r = InStockLevel(l) THEN n ELSE 0
        /\ Change(steps, 5, r) = 0
    BY <1>5, <1>6, <1>7, <1>8, <1>11 DEF Change, Statement
  <2> QED
    BY <2>1, RowsAreApart DEF Ahead
<1> QED
  BY <1>11, <1>12, <1>13, OneMoveAgrees

\* A return adds to a batch, its level and the stock.
LEMMA ReturnedIsSane ==
  ASSUME NEW line \in Allocated, NEW steps, steps = Returned(line),
         NEW op, op \notin {"sell", "receive"}, NEW read
  PROVE  /\ steps \in Part
         /\ PartIsSane(op, read, steps)
         /\ LotsAgree(Ahead(steps)) /\ \A m \in Shelves : StockAgrees(Ahead(steps), m)
<1>1. PICK b \in Lots : b = line.lot
  BY DEF Allocated
<1>2. PICK l \in Shelves : l = line.place
  BY DEF Allocated
<1>3. PICK n \in Int : n = line.n
  BY DEF Allocated
<1>4. InLot(b) \in LedgerRows /\ InLevel(b, l) \in LedgerRows /\ InStockLevel(l) \in LedgerRows
  BY DEF LedgerRows
<1>5. PICK lot : lot = Statement(InLot(b), n, "nothing", "keep")
  OBVIOUS
<1>6. PICK levelStep : levelStep = Statement(InLevel(b, l), n, "nothing", "keep")
  OBVIOUS
<1>7. PICK stock : stock = Statement(InStockLevel(l), n, "nothing", "row")
  OBVIOUS
<1>8. steps = <<lot, levelStep, stock>>
  BY <1>1, <1>2, <1>3, <1>5, <1>6, <1>7 DEF Returned
<1>9. lot \in Statements /\ levelStep \in Statements /\ stock \in Statements
  BY <1>4, <1>5, <1>6, <1>7 DEF Statement, Statements
<1>10. steps \in Part /\ Len(steps) = 3 /\ steps[1] = lot /\ steps[2] = levelStep /\ steps[3] = stock
  BY <1>8, <1>9 DEF Part
<1>11. PartIsSane(op, read, steps)
  <2>1. lot.status = "keep" /\ levelStep.row[1] = "level" /\ stock.row[1] = "stock"
    BY <1>5, <1>6, <1>7, RowsSayWhere DEF Statement
  <2> QED
    BY <1>10, <2>1 DEF PartIsSane, StatementIsSane
<1>12. OneMove(Ahead(steps), b, l, n)
  <2> SUFFICES ASSUME NEW r \in LedgerRows
               PROVE  Ahead(steps)[r] =
                        IF r \in {InLot(b), InLevel(b, l), InStockLevel(l)} THEN n ELSE 0
    BY DEF OneMove
  <2>1. /\ Change(steps, 1, r) = IF r = InLot(b) THEN n ELSE 0
        /\ Change(steps, 2, r) = IF r = InLevel(b, l) THEN n ELSE 0
        /\ Change(steps, 3, r) = IF r = InStockLevel(l) THEN n ELSE 0
        /\ Change(steps, 4, r) = 0 /\ Change(steps, 5, r) = 0
    BY <1>5, <1>6, <1>7, <1>10 DEF Change, Statement
  <2> QED
    BY <2>1, RowsAreApart DEF Ahead
<1> QED
  BY <1>10, <1>11, <1>12, OneMoveAgrees

\* Putting away takes from one level and its stock what it adds to others: two moves.
LEMMA PutAwayIsSane ==
  ASSUME NEW b \in Lots, NEW from \in Shelves, NEW bin \in Shelves, NEW n \in Int,
         NEW steps, steps = PutAway(b, from, bin, n),
         NEW op, op \notin {"sell", "receive"}, NEW read
  PROVE  /\ steps \in Part
         /\ PartIsSane(op, read, steps)
         /\ LotsAgree(Ahead(steps)) /\ \A m \in Shelves : StockAgrees(Ahead(steps), m)
<1>1. /\ InLevel(b, from) \in LedgerRows /\ InStockLevel(from) \in LedgerRows
      /\ InLevel(b, bin) \in LedgerRows /\ InStockLevel(bin) \in LedgerRows
  BY DEF LedgerRows
<1>2. PICK k \in Int : k = -n
  OBVIOUS
<1>3. PICK check : check = Statement(InStockLevel(from), k, "check", "row")
  OBVIOUS
<1>4. PICK stock : stock = Statement(InStockLevel(from), k, "nothing", "row")
  OBVIOUS
<1>5. PICK into : into = Statement(InStockLevel(bin), n, "nothing", "row")
  OBVIOUS
<1>6. PICK levelStep : levelStep = Statement(InLevel(b, from), k, "nothing", "keep")
  OBVIOUS
<1>7. PICK other : other = Statement(InLevel(b, bin), n, "nothing", "row")
  OBVIOUS
<1>8. steps = <<check, stock, into, levelStep, other>>
  BY <1>2, <1>3, <1>4, <1>5, <1>6, <1>7 DEF PutAway
<1>9. /\ check \in Statements /\ stock \in Statements /\ into \in Statements
      /\ levelStep \in Statements /\ other \in Statements
  BY <1>1, <1>3, <1>4, <1>5, <1>6, <1>7 DEF Statement, Statements
<1>10. /\ steps \in Part /\ Len(steps) = 5
       /\ steps[1] = check /\ steps[2] = stock /\ steps[3] = into
       /\ steps[4] = levelStep /\ steps[5] = other
  BY <1>8, <1>9 DEF Part
<1>11. PartIsSane(op, read, steps)
  <2>1. /\ check.row[1] = "stock" /\ stock.row[1] = "stock" /\ into.row[1] = "stock"
        /\ levelStep.row[1] = "level" /\ other.row[1] = "level"
    BY <1>3, <1>4, <1>5, <1>6, <1>7, RowsSayWhere DEF Statement
  <2> QED
    BY <1>10, <2>1 DEF PartIsSane, StatementIsSane
<1>12. PICK f : f = [r \in LedgerRows |->
                       IF r \in {InLot(b), InLevel(b, from), InStockLevel(from)} THEN k ELSE 0]
  OBVIOUS
<1>13. PICK g : g = [r \in LedgerRows |->
                       IF r \in {InLot(b), InLevel(b, bin), InStockLevel(bin)} THEN n ELSE 0]
  OBVIOUS
<1>14. f \in Amount /\ g \in Amount /\ OneMove(f, b, from, k) /\ OneMove(g, b, bin, n)
  BY <1>12, <1>13 DEF Amount, OneMove
<1>15. \A r \in LedgerRows : Ahead(steps)[r] = f[r] + g[r]
  <2> TAKE r \in LedgerRows
  <2>1. /\ Change(steps, 1, r) = 0
        /\ Change(steps, 2, r) = IF r = InStockLevel(from) THEN k ELSE 0
        /\ Change(steps, 3, r) = IF r = InStockLevel(bin) THEN n ELSE 0
        /\ Change(steps, 4, r) = IF r = InLevel(b, from) THEN k ELSE 0
        /\ Change(steps, 5, r) = IF r = InLevel(b, bin) THEN n ELSE 0
    BY <1>3, <1>4, <1>5, <1>6, <1>7, <1>10 DEF Change, Statement
  <2>2. /\ f[r] = IF r \in {InLot(b), InLevel(b, from), InStockLevel(from)} THEN k ELSE 0
        /\ g[r] = IF r \in {InLot(b), InLevel(b, bin), InStockLevel(bin)} THEN n ELSE 0
    BY <1>12, <1>13
  <2>3. Ahead(steps)[r] = Change(steps, 1, r) + Change(steps, 2, r) + Change(steps, 3, r)
                            + Change(steps, 4, r) + Change(steps, 5, r)
    BY DEF Ahead
  <2>4. /\ InLevel(b, from) # InStockLevel(from) /\ InLevel(b, from) # InStockLevel(bin)
        /\ InLevel(b, bin) # InStockLevel(from) /\ InLevel(b, bin) # InStockLevel(bin)
        /\ InLot(b) # InLevel(b, from) /\ InLot(b) # InLevel(b, bin)
        /\ InLot(b) # InStockLevel(from) /\ InLot(b) # InStockLevel(bin)
    BY RowsAreApart
  <2> QED
    BY <1>2, <2>1, <2>2, <2>3, <2>4
<1>16. AgreesBut(f, {}) /\ AgreesBut(g, {})
  BY <1>14, OneMoveAgrees DEF AgreesBut, LotsAgree
<1>17. AgreesBut(Ahead(steps), {})
  BY <1>14, <1>15, <1>16, AgreesTogether
<1> QED
  BY <1>10, <1>11, <1>17 DEF AgreesBut, LotsAgree

\* What is put away without naming a batch: the stock alone.
StockMoved(steps) == SubSeq(steps, 1, 3)

\* It leaves all ledgers but those of the two places as they are.
LEMMA StockMovedIsSane ==
  ASSUME NEW b, NEW from \in Shelves, NEW bin \in Shelves, NEW n \in Int,
         NEW whole, whole = PutAway(b, from, bin, n), NEW cut, cut = StockMoved(whole),
         NEW op, op \notin {"sell", "receive"}, NEW read
  PROVE  /\ cut \in Part /\ PartIsSane(op, read, cut)
         /\ LotsAgree(Ahead(cut)) /\ \A m \in Shelves \ {from, bin} : StockAgrees(Ahead(cut), m)
<1>1. InStockLevel(from) \in LedgerRows /\ InStockLevel(bin) \in LedgerRows
  BY DEF LedgerRows
<1>2. PICK k \in Int : k = -n
  OBVIOUS
<1>3. PICK check : check = Statement(InStockLevel(from), k, "check", "row")
  OBVIOUS
<1>4. PICK stock : stock = Statement(InStockLevel(from), k, "nothing", "row")
  OBVIOUS
<1>5. PICK into : into = Statement(InStockLevel(bin), n, "nothing", "row")
  OBVIOUS
<1>6. whole[1] = check /\ whole[2] = stock /\ whole[3] = into
  BY <1>2, <1>3, <1>4, <1>5 DEF PutAway
<1>7. check \in Statements /\ stock \in Statements /\ into \in Statements
  BY <1>1, <1>3, <1>4, <1>5 DEF Statement, Statements
<1>8. /\ cut \in Seq(Statements) /\ Len(cut) = 3
      /\ cut[1] = check /\ cut[2] = stock /\ cut[3] = into
  <2>1. PICK S : S = Statements
    OBVIOUS
  <2>2. \A i \in 1 .. 3 : whole[i] \in S
    <3> TAKE i \in 1 .. 3
    <3>1. i = 1 \/ i = 2 \/ i = 3
      OBVIOUS
    <3> QED
      BY <1>6, <1>7, <2>1, <3>1
  <2>3. 1 \in Int /\ 3 \in Int
    OBVIOUS
  <2>4. /\ SubSeq(whole, 1, 3) \in Seq(S)
        /\ Len(SubSeq(whole, 1, 3)) = IF 1 <= 3 THEN 3 - 1 + 1 ELSE 0
        /\ \A i \in 1 .. 3 - 1 + 1 : SubSeq(whole, 1, 3)[i] = whole[1 + i - 1]
    BY ONLY <2>2, <2>3, SubSeqProperties
  <2>5. cut = SubSeq(whole, 1, 3)
    BY DEF StockMoved
  <2> QED
    BY ONLY <1>6, <2>1, <2>4, <2>5
<1>9. cut \in Part
  BY <1>8 DEF Part
<1>10. check.row[1] = "stock" /\ stock.row[1] = "stock" /\ into.row[1] = "stock"
  BY <1>3, <1>4, <1>5 DEF Statement, InStockLevel
<1>11. PartIsSane(op, read, cut)
  BY <1>8, <1>10 DEF PartIsSane, StatementIsSane
<1>12. \A r \in LedgerRows \ {InStockLevel(from), InStockLevel(bin)} : Ahead(cut)[r] = 0
  <2> TAKE r \in LedgerRows \ {InStockLevel(from), InStockLevel(bin)}
  <2>1. /\ Change(cut, 1, r) = 0 /\ Change(cut, 2, r) = 0 /\ Change(cut, 3, r) = 0
        /\ Change(cut, 4, r) = 0 /\ Change(cut, 5, r) = 0
    BY <1>3, <1>4, <1>5, <1>8 DEF Change, Statement
  <2> QED
    BY <2>1 DEF Ahead
<1>13. PICK zero : zero = [r \in LedgerRows |-> 0]
  OBVIOUS
<1>14. LotsAgree(zero) /\ \A m \in Shelves : StockAgrees(zero, m)
  BY <1>13, ZeroAgrees
<1>15. AgreesBut(zero, {})
  BY <1>14 DEF AgreesBut, LotsAgree
<1>16. \A c \in Lots : zero[InLot(c)] = Ahead(cut)[InLot(c)]
  BY <1>12, <1>13, RowsAreApart
<1>17. \A c \in Lots, m \in Shelves : zero[InLevel(c, m)] = Ahead(cut)[InLevel(c, m)]
  BY <1>12, <1>13, RowsAreApart
<1>18. \A m \in Shelves \ {from, bin} : zero[InStockLevel(m)] = Ahead(cut)[InStockLevel(m)]
  <2> TAKE m \in Shelves \ {from, bin}
  <2>1. /\ InStockLevel(m) \in LedgerRows
        /\ InStockLevel(m) # InStockLevel(from) /\ InStockLevel(m) # InStockLevel(bin)
    BY DEF InStockLevel, LedgerRows
  <2> QED
    BY <1>12, <1>13, <2>1
<1>19. AgreesBut(Ahead(cut), {from, bin})
  BY ONLY <1>15, <1>16, <1>17, <1>18, AgreesAlike, {} \subseteq {from, bin}
<1> QED
  BY <1>9, <1>11, <1>19, ShelvesAssumption DEF AgreesBut, LotsAgree
-----------------------------------------------------------------------------
(* Scripts go on *)

\* What is left of a part is sane,
LEMMA TailIsSane ==
  ASSUME NEW op, NEW read, NEW steps \in Part, PartIsSane(op, read, steps), Len(steps) # 1
  PROVE  Tail(steps) \in Part /\ PartIsSane(op, read, Tail(steps))
<1>1. PICK rest : rest = Tail(steps)
  OBVIOUS
<1>2. Len(steps) \in 2 .. 5 /\ steps \in Seq(Statements)
  BY DEF PartIsSane, Part
<1>3. /\ rest \in Seq(Statements) /\ Len(rest) = Len(steps) - 1
      /\ \A i \in 1 .. Len(rest) : rest[i] = steps[i + 1]
  <2>1. steps # << >> /\ Len(steps) \in Nat
    BY <1>2
  <2>2. rest \in Seq(Statements) /\ Len(rest) = Len(steps) - 1
    BY <1>1, <1>2, <2>1
  <2>3. \A i \in 1 .. Len(rest) : rest[i] = steps[i + 1]
    BY <1>1, <1>2, <2>1, <2>2
  <2> QED
    BY <2>2, <2>3
<1>4. \A i \in 1 .. Len(rest) : i + 1 \in 1 .. Len(steps)
  BY <1>2, <1>3
<1>5. /\ Len(rest) \in 1 .. 5
      /\ \A i \in 1 .. Len(rest) : StatementIsSane(op, read, rest[i])
  <2>1. Len(rest) \in 1 .. 5
    BY <1>2, <1>3
  <2>2. \A i \in 1 .. Len(steps) : StatementIsSane(op, read, steps[i])
    BY DEF PartIsSane
  <2>3. \A i \in 1 .. Len(rest) : StatementIsSane(op, read, rest[i])
    BY <1>3, <1>4, <2>2
  <2> QED
    BY <2>1, <2>3
<1>6. ASSUME op = "sell", NEW i \in 1 .. Len(rest), rest[i].row[1] = "stock", rest[i].need # "check"
      PROVE  i = Len(rest)
  <2>1. i + 1 = Len(steps)
    BY <1>3, <1>4, <1>6 DEF PartIsSane
  <2> QED
    BY <1>2, <1>3, <2>1
<1>7. PartIsSane(op, read, rest)
  BY <1>5, <1>6 DEF PartIsSane
<1> QED
  BY <1>1, <1>3, <1>7 DEF Part

\* and a script when more places are forced,
LEMMA ScriptsStaySane ==
  ASSUME NEW script, NEW op, NEW read, NEW F, NEW G, F \subseteq G,
         ScriptIsSane(op, read, F, script)
  PROVE  ScriptIsSane(op, read, G, script)
<1> SUFFICES ASSUME NEW i \in 1 .. Len(script)
             PROVE  /\ PartIsSane(op, read, script[i])
                    /\ i > 1 => AgreesBut(Ahead(script[i]), G)
  BY DEF ScriptIsSane
<1>1. PartIsSane(op, read, script[i]) /\ (i > 1 => AgreesBut(Ahead(script[i]), F))
  BY DEF ScriptIsSane
<1> QED
  BY <1>1, AgreesTheSame

\* and what is left of it after a statement.
LEMMA AfterIsSane ==
  ASSUME NEW script \in Seq(Part), script # << >>, NEW op, NEW read, NEW F, NEW G, F \subseteq G,
         ScriptIsSane(op, read, F, script), NEW rest, rest = After(script)
  PROVE  rest \in Seq(Part) /\ ScriptIsSane(op, read, G, rest)
<1>0. \A i \in 1 .. Len(script) : /\ PartIsSane(op, read, script[i])
                                  /\ i > 1 => AgreesBut(Ahead(script[i]), F)
  BY DEF ScriptIsSane
<1> SUFFICES /\ rest \in Seq(Part)
               /\ \A i \in 1 .. Len(rest) : /\ PartIsSane(op, read, rest[i])
                                            /\ i > 1 => AgreesBut(Ahead(rest[i]), G)
  BY DEF ScriptIsSane
<1>1. PICK steps : steps = Head(script)
  OBVIOUS
<1>2. steps \in Part /\ PartIsSane(op, read, steps) /\ steps = script[1] /\ Len(script) > 0
  BY <1>0, <1>1
<1>3. PICK tail : tail = Tail(script)
  OBVIOUS
<1>4. /\ tail \in Seq(Part) /\ Len(tail) = Len(script) - 1
      /\ \A i \in 1 .. Len(tail) : tail[i] = script[i + 1]
  BY <1>2, <1>3
<1>5. \A i \in 1 .. Len(tail) : PartIsSane(op, read, tail[i]) /\ AgreesBut(Ahead(tail[i]), F)
  <2> TAKE i \in 1 .. Len(tail)
  <2>1. i + 1 \in 1 .. Len(script) /\ i + 1 > 1
    BY <1>4
  <2> QED
    BY <1>0, <1>4, <2>1
<1>6. \A i \in 1 .. Len(tail) : AgreesBut(Ahead(tail[i]), G)
  <2> TAKE i \in 1 .. Len(tail)
  <2> QED
    BY <1>5, AgreesTheSame
<1>7. CASE Len(steps) = 1
  <2>1. rest = tail
    BY <1>1, <1>3, <1>7 DEF After
  <2> QED
    BY <1>4, <1>5, <1>6, <2>1
<1>8. CASE Len(steps) # 1
  <2>1. PICK head : head = Tail(steps)
    OBVIOUS
  <2>2. head \in Part /\ PartIsSane(op, read, head)
    BY <1>2, <1>8, <2>1, TailIsSane
  <2>3. rest = <<head>> \o tail
    BY <1>1, <1>3, <1>8, <2>1 DEF After
  <2>4. /\ rest \in Seq(Part) /\ Len(rest) = Len(tail) + 1 /\ rest[1] = head
        /\ \A i \in 2 .. Len(rest) : rest[i] = tail[i - 1]
    BY <1>4, <2>2, <2>3
  <2>5. ASSUME NEW i \in 1 .. Len(rest)
        PROVE  PartIsSane(op, read, rest[i]) /\ (i > 1 => AgreesBut(Ahead(rest[i]), G))
    <3>1. CASE i = 1
      BY <2>2, <2>4, <3>1
    <3>2. CASE i # 1
      <4>1. i \in 2 .. Len(rest) /\ i - 1 \in 1 .. Len(tail)
        BY <1>4, <2>4, <3>2
      <4> QED
        BY <1>5, <1>6, <2>4, <4>1
    <3> QED
      BY <3>1, <3>2
  <2> QED
    BY <2>4, <2>5
<1> QED
  BY <1>7, <1>8

\* After its part's next statement the transaction is where that part leads, or where
\* the next part will lead.
LEMMA AfterAgrees ==
  ASSUME NEW script \in Seq(Part), script # << >>, NEW op, NEW read, NEW F,
         ScriptIsSane(op, read, F, script),
         NEW f \in Amount, NEW g, AgreesBut(g, F),
         \A r \in LedgerRows : g[r] = f[r] + Ahead(Tail(Head(script)))[r],
         NEW h, \A r \in LedgerRows : h[r] = f[r] + Ahead(Current(After(script)))[r]
  PROVE  AgreesBut(h, F)
<1>0. \A i \in 1 .. Len(script) : /\ PartIsSane(op, read, script[i])
                                  /\ i > 1 => AgreesBut(Ahead(script[i]), F)
  BY DEF ScriptIsSane
<1>1. PICK steps : steps = Head(script)
  OBVIOUS
<1>2. steps \in Part /\ PartIsSane(op, read, steps) /\ steps = script[1] /\ Len(script) > 0
  BY <1>0, <1>1
<1>3. PICK tail : tail = Tail(script)
  OBVIOUS
<1>4. /\ tail \in Seq(Part) /\ Len(tail) = Len(script) - 1
      /\ \A i \in 1 .. Len(tail) : tail[i] = script[i + 1]
  BY <1>2, <1>3
<1>5. CASE Len(steps) # 1
  <2>1. PICK head : head = Tail(steps)
    OBVIOUS
  <2>2. PICK rest : rest = <<head>> \o tail
    OBVIOUS
  <2>3. After(script) = rest
    BY <1>1, <1>3, <1>5, <2>1, <2>2 DEF After
  <2>4. head \in Part
    BY <1>2, <1>5, <2>1, TailIsSane
  <2>5. rest # << >> /\ Head(rest) = head
    BY <1>4, <2>2, <2>4
  <2>6. Current(After(script)) = head
    BY <2>3, <2>5 DEF Current
  <2>7. \A r \in LedgerRows : g[r] = h[r]
    BY <1>1, <2>1, <2>6
  <2> QED
    BY <2>7, AgreesTheSame
<1>6. CASE Len(steps) = 1
  <2>1. After(script) = tail
    BY <1>1, <1>3, <1>6 DEF After
  <2>2. Len(Tail(steps)) = 0
    <3>1. steps \in Seq(Statements)
      BY <1>2 DEF Part
    <3>2. steps # << >>
      <4>1. Len(<< >>) = 0 /\ 0 # 1
        OBVIOUS
      <4> QED
        BY <1>6, <4>1
    <3> QED
      BY <1>6, <3>1, <3>2
  <2>3. \A r \in LedgerRows : f[r] = g[r]
    <3> TAKE r \in LedgerRows
    <3>1. Ahead(Tail(steps))[r] = 0 /\ f[r] \in Int
      BY <2>2, NothingAhead DEF Amount
    <3> QED
      BY <1>1, <3>1
  <2>4. AgreesBut(f, F)
    BY <2>3, AgreesTheSame
  <2>5. CASE tail = << >>
    <3>1. \A r \in LedgerRows : f[r] = h[r]
      <4> TAKE r \in LedgerRows
      <4>1. Len(Current(tail)) = 0 /\ f[r] \in Int
        BY <2>5 DEF Amount, Current
      <4>2. Ahead(Current(tail))[r] = 0
        BY <4>1, NothingAhead
      <4> QED
        BY <2>1, <4>1, <4>2
    <3> QED
      BY <2>4, <3>1, AgreesTheSame
  <2>6. CASE tail # << >>
    <3>1. PICK next : next = Head(tail)
      OBVIOUS
    <3>2. next \in Part /\ next = script[2] /\ 2 \in 1 .. Len(script)
      BY <1>4, <2>6, <3>1
    <3>3. AgreesBut(Ahead(next), F)
      BY <1>0, <3>2
    <3>4. Current(tail) = next
      BY <2>6, <3>1 DEF Current
    <3>5. \A r \in LedgerRows : h[r] = f[r] + Ahead(next)[r]
      BY <2>1, <3>4
    <3>6. Ahead(next) \in Amount
      BY <3>2, AheadIsAnAmount
    <3> QED
      BY <2>4, <3>3, <3>5, <3>6, AgreesTogether
  <2> QED
    BY <2>5, <2>6
<1> QED
  BY <1>5, <1>6
-----------------------------------------------------------------------------
(* Amounts in steps *)

\* What a transaction has changed is an amount.
LEMMA ChangedIsAnAmount ==
  ASSUME BatchTypeOK, NEW p \in Hands
  PROVE  Changed(p) \in Amount
<1>1. \A r \in LedgerRows : latest[r].n \in Int /\ row[r].n \in Int
  BY DEF BatchTypeOK
<1> QED
  BY <1>1 DEF Changed, Amount

\* A transaction that stays out of it.
LEMMA OthersAgree ==
  ASSUME NEW q \in Hands, Agrees(InAll(q)), forced \subseteq forced',
         hand'[q].script = hand[q].script,
         \A r \in LedgerRows : Changed(q)'[r] = Changed(q)[r]
  PROVE  Agrees(InAll(q))'
<1>1. PICK g : g = InAll(q)'
  OBVIOUS
<1>2. \A r \in LedgerRows : InAll(q)[r] = g[r]
  BY <1>1 DEF InAll
<1>3. AgreesBut(g, forced')
  BY <1>2, AgreesTheSame DEF Agrees
<1> QED
  BY <1>1, <1>3 DEF Agrees

\* A transaction that has done nothing yet.
LEMMA NewOnesAgree ==
  ASSUME NEW q \in Hands, NEW script, hand'[q].script = script,
         \A r \in LedgerRows : owner'[r] # q,
         script \in Seq(Part), script = << >> \/ AgreesBut(Ahead(Head(script)), forced')
  PROVE  Agrees(InAll(q))'
<1>1. PICK g : g = InAll(q)'
  OBVIOUS
<1>2. PICK f : f = Ahead(Current(script))
  OBVIOUS
<1>3. \A r \in LedgerRows : g[r] = 0 + f[r]
  BY <1>1, <1>2 DEF InAll, Changed
<1>4. Current(script) \in Part
  BY DEF Current, Part
<1>5. f \in Amount
  BY <1>2, <1>4, AheadIsAnAmount
<1>6. \A r \in LedgerRows : f[r] = g[r]
  BY <1>3, <1>5 DEF Amount
<1>7. AgreesBut(f, forced')
  <2>1. CASE script = << >>
    <3>1. Len(Current(script)) = 0
      BY <2>1 DEF Current
    <3>2. \A r \in LedgerRows : f[r] = 0
      BY <1>2, <3>1, NothingAhead
    <3> QED
      BY <3>2, ZeroAgrees DEF AgreesBut, LotsAgree
  <2>2. CASE script # << >>
    BY <1>2, <2>2 DEF Current
  <2> QED
    BY <2>1, <2>2
<1>8. AgreesBut(g, forced')
  BY <1>6, <1>7, AgreesTheSame
<1> QED
  BY <1>1, <1>8 DEF Agrees

\* The committed amounts agree while nobody commits.
LEMMA AmountsStay ==
  ASSUME Agrees(Amounts), forced \subseteq forced',
         \A r \in LedgerRows : row'[r].n = row[r].n
  PROVE  Agrees(Amounts)'
<1>1. PICK g : g = Amounts'
  OBVIOUS
<1>2. \A r \in LedgerRows : Amounts[r] = g[r]
  BY <1>1 DEF Amounts
<1>3. AgreesBut(g, forced')
  BY <1>2, AgreesTheSame DEF Agrees
<1> QED
  BY <1>1, <1>3 DEF Agrees

-----------------------------------------------------------------------------
(* The next statement *)

\* A transaction executes the next statement of its script.
Writes(p, script, steps, st) ==
  /\ script \in Seq(Part) /\ script # << >>
  /\ steps \in Part /\ Len(steps) \in 1 .. 5
  /\ PartIsSane(hand[p].op, hand[p].read, steps)
  /\ st \in Statements /\ st = steps[1]
  /\ Meets(p, st)
  /\ hand' = [hand EXCEPT ![p].script = After(script)]
  /\ \/ st.need = "check" /\ UNCHANGED <<latest, owner, forced, overruled>>
     \/ /\ st.need # "check" /\ Misses(p, st)
        /\ forced' = forced \cup {st.row[2], st.row[3]}
        /\ UNCHANGED <<latest, owner, overruled>>
     \/ /\ st.need # "check" /\ ~Misses(p, st)
        /\ owner[st.row] \in {p, NoHand}
        /\ latest' = [latest EXCEPT ![st.row] =
             [n |-> NewAmount(st, latest[st.row]), status |-> NewStatus(st, latest[st.row])]]
        /\ owner' = [owner EXCEPT ![st.row] = p]
        /\ forced' = IF /\ latest[st.row].n + st.by < 0 /\ st.row[1] # "lot"
                        /\ hand[p].op # "sell"
                     THEN forced \cup {st.row[3]} ELSE forced
        /\ overruled' =
             IF /\ st.row[1] = "lot" /\ Lifts(st.row[2], NewStatus(st, latest[st.row]))
                /\ hand[p].op = "receive" /\ hand[p].read # StatusOf(st.row[2])
             THEN overruled \cup HoldsOn(st.row[2]) ELSE overruled
  /\ UNCHANGED <<row, paper, scanned>>

\* Which it does.
LEMMA ExecuteUnfolds ==
  ASSUME BatchInvariant, NEW p \in Hands, Execute(p),
         NEW script, script = hand[p].script, NEW steps, steps = Head(script),
         NEW st, st = Head(steps)
  PROVE  Writes(p, script, steps, st)
<1>1. script \in Seq(Part) /\ script # << >>
  BY DEF Execute, BatchInvariant, BatchTypeOK, Hand
<1>2. steps \in Part /\ steps = script[1] /\ 1 \in 1 .. Len(script)
  BY <1>1
<1>3. PartIsSane(hand[p].op, hand[p].read, steps)
  BY <1>2 DEF BatchInvariant, ScriptsAreSane, ScriptIsSane
<1>4. Len(steps) \in 1 .. 5
  BY <1>3 DEF PartIsSane
<1>5. st \in Statements /\ st = steps[1]
  BY <1>2, <1>4 DEF Part
<1>6. st = Head(Head(hand[p].script))
  OBVIOUS
<1> QED
  BY <1>1, <1>2, <1>3, <1>4, <1>5, <1>6 DEF Execute, Writes

\* A statement that misses is one on a level.
LEMMA MissesAreLevels ==
  ASSUME NEW p \in Hands, NEW st \in Statements, Misses(p, st)
  PROVE  \E b \in Lots, l \in Shelves : st.row = InLevel(b, l) /\ st.row[2] = b /\ st.row[3] = l
<1>1. PICK r \in LedgerRows : r = st.row /\ r[1] = "level"
  BY DEF Misses, Statements
<1>2. (\A b \in Lots : r # InLot(b)) /\ \A l \in Shelves : r # InStockLevel(l)
  BY <1>1 DEF InLot, InStockLevel
<1>3. PICK b \in Lots, l \in Shelves : r = InLevel(b, l)
  BY <1>2, RowsAreOfThreeKinds
<1> QED
  BY <1>1, <1>3, RowsSayWhere

\* It leaves rows, requests and owners of their types,
LEMMA ExecuteKeepsTypes ==
  ASSUME BatchInvariant, NEW p \in Hands, Execute(p)
  PROVE  BatchTypeOK'
<1>1. PICK script : script = hand[p].script
  OBVIOUS
<1>2. PICK steps : steps = Head(script)
  OBVIOUS
<1>3. PICK st : st = Head(steps)
  OBVIOUS
<1>4. /\ script \in Seq(Part) /\ script # << >> /\ st \in Statements
      /\ hand' = [hand EXCEPT ![p].script = After(script)]
      /\ UNCHANGED <<row, paper, scanned>>
      /\ \/ st.need # "check" /\ ~Misses(p, st)
         \/ Misses(p, st) /\ forced' = forced \cup {st.row[2], st.row[3]}
              /\ UNCHANGED <<latest, owner, overruled>>
         \/ UNCHANGED <<latest, owner, forced, overruled>>
  <2>1. Writes(p, script, steps, st)
    BY <1>1, <1>2, <1>3, ExecuteUnfolds
  <2> QED
    BY <2>1 DEF Writes
<1>5. BatchTypeOK
  BY DEF BatchInvariant
<1>6. After(script) \in Seq(Part)
  <2>1. ScriptIsSane(hand[p].op, hand[p].read, forced, script)
    BY <1>1 DEF BatchInvariant, ScriptsAreSane
  <2> QED
    BY <1>4, <2>1, AfterIsSane
<1>7. hand' \in [Hands -> Hand]
  <2>1. PICK rest \in Seq(Part) : rest = After(script)
    BY <1>6
  <2>2. hand \in [Hands -> Hand] /\ hand' = [hand EXCEPT ![p].script = rest]
    BY <1>4, <1>5, <2>1 DEF BatchTypeOK
  <2>3. PICK h : h = [hand[p] EXCEPT !.script = rest]
    OBVIOUS
  <2>4. h \in Hand
    BY <2>1, <2>2, <2>3 DEF Hand
  <2>5. hand' = [hand EXCEPT ![p] = h]
    BY <2>2, <2>3
  <2> QED
    BY <2>2, <2>4, <2>5
<1>8. CASE UNCHANGED <<latest, owner, forced, overruled>>
  BY <1>4, <1>5, <1>7, <1>8 DEF BatchTypeOK
<1>10. CASE Misses(p, st) /\ forced' = forced \cup {st.row[2], st.row[3]}
              /\ UNCHANGED <<latest, owner, overruled>>
  <2>1. st.row[2] \in Lots /\ st.row[3] \in Shelves
    BY <1>4, <1>10, MissesAreLevels
  <2>2. forced' \subseteq Shelves \cup Lots
    BY <1>5, <1>10, <2>1 DEF BatchTypeOK
  <2> QED
    BY <1>4, <1>5, <1>7, <1>10, <2>2 DEF BatchTypeOK
<1>9. CASE st.need # "check" /\ ~Misses(p, st)
  <2>1. st.row \in LedgerRows /\ st.by \in Int
        /\ st.status \in LotStatuses \cup {"keep", "drain", "row"}
    BY <1>4 DEF Statements
  <2>2. /\ latest' = [latest EXCEPT ![st.row] =
             [n |-> NewAmount(st, latest[st.row]), status |-> NewStatus(st, latest[st.row])]]
        /\ owner' = [owner EXCEPT ![st.row] = p]
        /\ forced' = IF /\ latest[st.row].n + st.by < 0 /\ st.row[1] # "lot"
                        /\ hand[p].op # "sell"
                     THEN forced \cup {st.row[3]} ELSE forced
        /\ overruled' =
             IF /\ st.row[1] = "lot" /\ Lifts(st.row[2], NewStatus(st, latest[st.row]))
                /\ hand[p].op = "receive" /\ hand[p].read # StatusOf(st.row[2])
             THEN overruled \cup HoldsOn(st.row[2]) ELSE overruled
    <3>1. Writes(p, script, steps, st)
      BY <1>1, <1>2, <1>3, ExecuteUnfolds
    <3> QED
      BY <1>9, <3>1 DEF Writes
  <2>3. PICK n : n = NewAmount(st, latest[st.row])
    OBVIOUS
  <2>4. PICK s : s = NewStatus(st, latest[st.row])
    OBVIOUS
  <2>5. latest[st.row].n \in Int /\ latest[st.row].status \in LotStatuses \cup {"none", "row"}
    BY <1>5, <2>1 DEF BatchTypeOK
  <2>6. n \in Int
    BY <2>1, <2>3, <2>5 DEF NewAmount
  <2>7. s \in LotStatuses \cup {"none", "row"}
    BY <2>1, <2>4, <2>5 DEF NewStatus, LotStatuses
  <2>8. latest' \in [LedgerRows -> [n : Int, status : LotStatuses \cup {"none", "row"}]]
    <3>1. PICK v \in [n : Int, status : LotStatuses \cup {"none", "row"}] : v = [n |-> n, status |-> s]
      <4>1. [n |-> n, status |-> s] \in [n : Int, status : LotStatuses \cup {"none", "row"}]
        BY <2>6, <2>7
      <4> QED
        BY <4>1
    <3>2. latest' = [latest EXCEPT ![st.row] = v]
      BY <2>2, <2>3, <2>4, <3>1
    <3>3. latest \in [LedgerRows -> [n : Int, status : LotStatuses \cup {"none", "row"}]]
      BY <1>5 DEF BatchTypeOK
    <3> QED
      BY <2>1, <3>1, <3>2, <3>3
  <2>9. owner' \in [LedgerRows -> Hands \cup {NoHand}]
    BY <1>5, <2>1, <2>2 DEF BatchTypeOK
  <2>10. forced' \subseteq Shelves \cup Lots
    <3>1. st.row[1] # "lot" => st.row[3] \in Shelves
      <4>1. \A r \in LedgerRows : r[3] \in Shelves
        BY DockAssumption DEF LedgerRows, InLot, InLevel, InStockLevel
      <4> QED
        BY <2>1, <4>1
    <3> QED
      BY <1>5, <2>2, <3>1 DEF BatchTypeOK
  <2>11. overruled' \subseteq Papers
    BY <1>5, <2>2 DEF BatchTypeOK, HoldsOn
  <2> QED
    BY <1>4, <1>5, <1>7, <2>8, <2>9, <2>10, <2>11 DEF BatchTypeOK
<1> QED
  BY <1>4, <1>8, <1>9, <1>10

\* the rest of its script sane,
LEMMA ExecuteKeepsScripts ==
  ASSUME BatchInvariant, NEW p \in Hands, Execute(p)
  PROVE  ScriptsAreSane'
<1>1. PICK script : script = hand[p].script
  OBVIOUS
<1>2. /\ script \in Seq(Part) /\ script # << >>
      /\ hand' = [hand EXCEPT ![p].script = After(script)]
      /\ forced \subseteq forced'
  <2>1. PICK steps : steps = Head(script)
    OBVIOUS
  <2>2. PICK st : st = Head(steps)
    OBVIOUS
  <2>3. Writes(p, script, steps, st)
    BY <1>1, <2>1, <2>2, ExecuteUnfolds
  <2> QED
    BY <2>3 DEF Writes
<1>3. hand \in [Hands -> Hand]
  BY DEF BatchInvariant, BatchTypeOK
<1>4. \A q \in Hands : /\ hand'[q].op = hand[q].op /\ hand'[q].read = hand[q].read
                       /\ q # p => hand'[q].script = hand[q].script
  BY <1>2, <1>3 DEF Hand
<1>5. hand'[p].script = After(script)
  BY <1>2, <1>3 DEF Hand
<1>6. PICK rest : rest = After(script)
  OBVIOUS
<1>7. ScriptIsSane(hand[p].op, hand[p].read, forced', rest)
  <2>1. ScriptIsSane(hand[p].op, hand[p].read, forced, script)
    BY <1>1 DEF BatchInvariant, ScriptsAreSane
  <2> QED
    BY <1>2, <1>6, <2>1, AfterIsSane
<1>8. ASSUME NEW q \in Hands
      PROVE  ScriptIsSane(hand'[q].op, hand'[q].read, forced', hand'[q].script)
  <2>1. CASE q = p
    BY <1>4, <1>5, <1>6, <1>7, <2>1
  <2>2. CASE q # p
    BY <1>2, <1>4, <2>2, ScriptsStaySane DEF BatchInvariant, ScriptsAreSane
  <2> QED
    BY <2>1, <2>2
<1> QED
  BY <1>8 DEF ScriptsAreSane

\* the rows with owners that work,
LEMMA ExecuteKeepsOwners ==
  ASSUME BatchInvariant, NEW p \in Hands, Execute(p)
  PROVE  OwnersAreAtWork'
<1>1. PICK script : script = hand[p].script
  OBVIOUS
<1>2. PICK steps : steps = Head(script)
  OBVIOUS
<1>3. PICK st : st = Head(steps)
  OBVIOUS
<1>4. /\ script # << >> /\ st \in Statements
      /\ hand' = [hand EXCEPT ![p].script = After(script)]
      /\ row' = row
      /\ \/ UNCHANGED <<latest, owner, overruled>>
         \/ /\ owner[st.row] \in {p, NoHand}
            /\ latest' = [latest EXCEPT ![st.row] =
                 [n |-> NewAmount(st, latest[st.row]), status |-> NewStatus(st, latest[st.row])]]
            /\ owner' = [owner EXCEPT ![st.row] = p]
  <2>1. Writes(p, script, steps, st)
    BY <1>1, <1>2, <1>3, ExecuteUnfolds
  <2> QED
    BY <2>1 DEF Writes
<1>5. /\ hand \in [Hands -> Hand] /\ owner \in [LedgerRows -> Hands \cup {NoHand}]
      /\ DOMAIN latest = LedgerRows /\ st.row \in LedgerRows
  BY <1>4 DEF BatchInvariant, BatchTypeOK, Statements
<1>6. /\ \A r \in LedgerRows : owner[r] = NoHand => latest[r] = row[r]
      /\ \A q \in Hands : hand[q].op \in {"none", "allocate", "inspect"} =>
           hand[q].script = << >> /\ \A r \in LedgerRows : owner[r] # q
  BY DEF BatchInvariant, OwnersAreAtWork
<1>7. hand[p].op \notin {"none", "allocate", "inspect"}
  BY <1>1, <1>4, <1>6
<1>8. \A q \in Hands : /\ hand'[q].op = hand[q].op
                       /\ q # p => hand'[q].script = hand[q].script
  BY <1>4, <1>5 DEF Hand
<1>9. \A r \in LedgerRows : \/ owner'[r] = owner[r] /\ latest'[r] = latest[r]
                            \/ owner'[r] = p
  BY <1>4, <1>5
<1>10. \A r \in LedgerRows : owner'[r] = NoHand => latest'[r] = row'[r]
  BY <1>4, <1>6, <1>9, NoHandAssumption
<1>11. \A q \in Hands : hand'[q].op \in {"none", "allocate", "inspect"} =>
         hand'[q].script = << >> /\ \A r \in LedgerRows : owner'[r] # q
  BY <1>6, <1>7, <1>8, <1>9
<1> QED
  BY <1>10, <1>11 DEF OwnersAreAtWork

\* no level negative,
LEMMA ExecuteKeepsLevels ==
  ASSUME BatchInvariant, NEW p \in Hands, Execute(p)
  PROVE  LevelsArePositive'
<1>1. PICK script : script = hand[p].script
  OBVIOUS
<1>2. PICK steps : steps = Head(script)
  OBVIOUS
<1>3. PICK st : st = Head(steps)
  OBVIOUS
<1>4. /\ PartIsSane(hand[p].op, hand[p].read, steps) /\ st = steps[1] /\ Len(steps) \in 1 .. 5
      /\ st \in Statements /\ Meets(p, st)
      /\ row' = row
      /\ \/ UNCHANGED latest /\ forced \subseteq forced'
         \/ /\ latest' = [latest EXCEPT ![st.row] =
                 [n |-> NewAmount(st, latest[st.row]), status |-> NewStatus(st, latest[st.row])]]
            /\ forced' = IF /\ latest[st.row].n + st.by < 0 /\ st.row[1] # "lot"
                            /\ hand[p].op # "sell"
                         THEN forced \cup {st.row[3]} ELSE forced
  <2>1. Writes(p, script, steps, st)
    BY <1>1, <1>2, <1>3, ExecuteUnfolds
  <2> QED
    BY <2>1 DEF Writes
<1>5. /\ DOMAIN latest = LedgerRows /\ st.row \in LedgerRows /\ st.by \in Int
      /\ latest[st.row].n \in Int
  BY <1>4 DEF BatchInvariant, BatchTypeOK, Statements
<1>6. \A b \in Lots, l \in Shelves \ forced :
        row[InLevel(b, l)].n >= 0 /\ latest[InLevel(b, l)].n >= 0
  BY DEF BatchInvariant, LevelsArePositive
<1>7. CASE UNCHANGED latest /\ forced \subseteq forced'
  BY <1>4, <1>6, <1>7 DEF LevelsArePositive
<1>8. CASE /\ latest' = [latest EXCEPT ![st.row] =
                [n |-> NewAmount(st, latest[st.row]), status |-> NewStatus(st, latest[st.row])]]
           /\ forced' = IF /\ latest[st.row].n + st.by < 0 /\ st.row[1] # "lot"
                           /\ hand[p].op # "sell"
                        THEN forced \cup {st.row[3]} ELSE forced
  <2> SUFFICES ASSUME NEW b \in Lots, NEW l \in Shelves \ forced'
               PROVE  row'[InLevel(b, l)].n >= 0 /\ latest'[InLevel(b, l)].n >= 0
    BY DEF LevelsArePositive
  <2>1. l \in Shelves /\ l \notin forced /\ InLevel(b, l) \in LedgerRows
    BY <1>8 DEF LedgerRows
  <2>2. row'[InLevel(b, l)].n >= 0 /\ latest[InLevel(b, l)].n >= 0
    BY <1>4, <1>6, <2>1
  <2>3. CASE st.row # InLevel(b, l)
    BY <1>5, <1>8, <2>1, <2>2, <2>3
  <2>4. CASE st.row = InLevel(b, l)
    <3>1. st.row[1] = "level" /\ st.row[3] = l
      BY <2>1, <2>4, RowsSayWhere
    <3>2. latest'[InLevel(b, l)].n = latest[st.row].n + st.by
      BY <1>5, <1>8, <2>4, <3>1 DEF NewAmount
    <3>3. CASE hand[p].op # "sell"
      <4>1. ~(latest[st.row].n + st.by < 0)
        BY <1>8, <3>1, <3>3
      <4> QED
        BY <1>5, <2>2, <3>2, <4>1
    <3>4. CASE hand[p].op = "sell"
      <4>1. st.need = "units"
        BY <1>4, <3>1, <3>4 DEF PartIsSane, StatementIsSane
      <4>2. latest[st.row].n + st.by >= 0
        BY <1>4, <4>1 DEF Meets
      <4> QED
        BY <2>2, <3>2, <4>2
    <3> QED
      BY <3>3, <3>4
  <2> QED
    BY <2>3, <2>4
<1> QED
  BY <1>4, <1>7, <1>8

\* What will be after a part is an amount.
LEMMA InAllIsAnAmount ==
  ASSUME BatchTypeOK, NEW p \in Hands
  PROVE  InAll(p) \in Amount /\ Amounts \in Amount
<1>1. Changed(p) \in Amount
  BY ChangedIsAnAmount
<1>2. hand[p].script \in Seq(Part)
  BY DEF BatchTypeOK, Hand
<1>3. Current(hand[p].script) \in Part
  BY <1>2 DEF Current, Part
<1>4. Ahead(Current(hand[p].script)) \in Amount
  BY <1>3, AheadIsAnAmount
<1>5. \A r \in LedgerRows : Changed(p)[r] \in Int /\ Ahead(Current(hand[p].script))[r] \in Int
  BY <1>1, <1>4 DEF Amount
<1>6. InAll(p) \in Amount
  BY <1>5 DEF InAll, Amount
<1>7. \A r \in LedgerRows : row[r].n \in Int
  BY DEF BatchTypeOK
<1>8. Amounts \in Amount
  BY <1>7 DEF Amounts, Amount
<1> QED
  BY <1>6, <1>8

\* What a row holds for the transaction that locks it.
LEMMA LockedRow ==
  ASSUME BatchInvariant, NEW p \in Hands, NEW r \in LedgerRows, owner[r] \in {p, NoHand}
  PROVE  latest[r].n = row[r].n + Changed(p)[r]
<1>1. latest[r].n \in Int /\ row[r].n \in Int
  BY DEF BatchInvariant, BatchTypeOK
<1>2. owner[r] = NoHand => latest[r] = row[r]
  BY DEF BatchInvariant, OwnersAreAtWork
<1>3. Changed(p)[r] = IF owner[r] = p THEN latest[r].n - row[r].n ELSE 0
  BY DEF Changed
<1> QED
  BY <1>1, <1>2, <1>3, NoHandAssumption

\* A sale takes from the place what it has taken from its batches there.
LEMMA SalesLeaveEnough ==
  ASSUME BatchInvariant, NEW p \in Hands, NEW script, script = hand[p].script,
         NEW steps, steps = Head(script), NEW st, Writes(p, script, steps, st),
         hand[p].op = "sell", st.need # "check",
         NEW l \in Shelves, l \notin forced, st.row = InStockLevel(l)
  PROVE  latest[st.row].n + st.by >= 0
<1>0. ~Misses(p, st)
  BY DEF Misses, InStockLevel
<1>1. /\ script # << >> /\ steps \in Part /\ PartIsSane("sell", hand[p].read, steps)
      /\ st \in Statements /\ st = steps[1] /\ owner[st.row] \in {p, NoHand}
      /\ Len(steps) \in 1 .. 5
  BY <1>0 DEF Writes
<1>2. 1 \in 1 .. Len(steps) /\ st.row[1] = "stock"
  <2>1. InStockLevel(l)[1] = "stock"
    BY DEF InStockLevel
  <2> QED
    BY <1>1, <2>1
<1>3. Len(steps) = 1
  BY <1>1, <1>2 DEF PartIsSane
<1>4. BatchTypeOK /\ StockAgrees(InAll(p), l) /\ StockAgrees(Amounts, l)
  BY DEF BatchInvariant, LedgersMove, Agrees, AgreesBut
<1>5. Changed(p) \in Amount /\ InAll(p) \in Amount /\ Amounts \in Amount
  BY <1>4, ChangedIsAnAmount, InAllIsAnAmount
<1>6. \A r \in LedgerRows : InAll(p)[r] = Changed(p)[r] + IF r = st.row THEN st.by ELSE 0
  <2> TAKE r \in LedgerRows
  <2>1. Current(hand[p].script) = steps
    BY <1>1 DEF Current
  <2>2. Ahead(steps)[r] = Change(steps, 1, r) + Ahead(Tail(steps))[r]
    BY <1>1, AheadGoesOn
  <2>3. Change(steps, 1, r) = IF r = st.row THEN st.by ELSE 0
    BY <1>1, <1>3 DEF Change
  <2>4. Ahead(Tail(steps))[r] = 0
    <3>1. steps \in Seq(Statements)
      BY <1>1 DEF Part
    <3>2. steps # << >>
      <4>1. Len(<< >>) = 0 /\ 0 # 1
        OBVIOUS
      <4> QED
        BY <1>3, <4>1
    <3>3. Len(Tail(steps)) = 0
      BY <1>3, <3>1, <3>2
    <3> QED
      BY <3>3, NothingAhead
  <2>5. st.by \in Int
    BY <1>1 DEF Statements
  <2>6. InAll(p)[r] = Changed(p)[r] + Ahead(steps)[r]
    BY <2>1 DEF InAll
  <2> QED
    BY <2>2, <2>3, <2>4, <2>5, <2>6
<1>7. PICK total : total = [r \in LedgerRows |-> Amounts[r] + InAll(p)[r]]
  OBVIOUS
<1>8. StockAgrees(total, l)
  <2>1. \A r \in LedgerRows : total[r] = Amounts[r] + InAll(p)[r]
    BY <1>7
  <2> QED
    BY <1>4, <1>5, <2>1, StockAgreesTogether
<1>9. \A b \in Lots : total[InLevel(b, l)] \in Nat
  <2> TAKE b \in Lots
  <2>1. InLevel(b, l) \in LedgerRows /\ InLevel(b, l) # st.row
    BY RowsAreApart
  <2>2. total[InLevel(b, l)] = row[InLevel(b, l)].n + Changed(p)[InLevel(b, l)] + 0
    BY <1>5, <1>6, <1>7, <2>1 DEF Amounts, Amount
  <2>3. /\ row[InLevel(b, l)].n \in Int /\ latest[InLevel(b, l)].n \in Int
        /\ row[InLevel(b, l)].n >= 0 /\ latest[InLevel(b, l)].n >= 0
    BY <1>4, <2>1 DEF BatchInvariant, BatchTypeOK, LevelsArePositive
  <2>4. Changed(p)[InLevel(b, l)] =
          IF owner[InLevel(b, l)] = p THEN latest[InLevel(b, l)].n - row[InLevel(b, l)].n ELSE 0
    BY <2>1 DEF Changed
  <2> QED
    BY ONLY <2>2, <2>3, <2>4
<1>10. total[InStockLevel(l)] >= 0
  <2>1. PICK ff : ff = [b \in Lots |-> total[InLevel(b, l)]]
    OBVIOUS
  <2>2. \A b \in Lots : ff[b] \in Nat
    BY <1>9, <2>1
  <2>3. IsFiniteSet(Lots)
    BY LotsAssumption
  <2>4. SumFunctionOnSet(ff, Lots) \in Nat
    BY ONLY <2>2, <2>3, SumIsNat
  <2>5. total[InStockLevel(l)] = SumFunctionOnSet(ff, Lots)
    BY <1>8, <2>1 DEF StockAgrees
  <2> QED
    BY <2>4, <2>5
<1>11. total[st.row] = latest[st.row].n + st.by
  <2>1. st.row \in LedgerRows /\ st.by \in Int
    BY <1>1 DEF Statements
  <2>2. latest[st.row].n = row[st.row].n + Changed(p)[st.row]
    BY <1>1, <2>1, LockedRow
  <2>3. row[st.row].n \in Int /\ Changed(p)[st.row] \in Int
    BY <1>4, <1>5, <2>1 DEF BatchTypeOK, Amount
  <2>4. total[st.row] = row[st.row].n + (Changed(p)[st.row] + st.by)
    BY <1>6, <1>7, <2>1 DEF Amounts
  <2> QED
    BY <2>1, <2>2, <2>3, <2>4
<1> QED
  BY <1>10, <1>11

\* What is done and what is ahead stay the same together.
LEMMA ExecuteMovesLedgers ==
  ASSUME BatchInvariant, NEW p \in Hands, Execute(p)
  PROVE  LedgersMove'
<1>1. PICK script : script = hand[p].script
  OBVIOUS
<1>2. PICK steps : steps = Head(script)
  OBVIOUS
<1>3. PICK st : st = Head(steps)
  OBVIOUS
<1>4. Writes(p, script, steps, st)
  BY <1>1, <1>2, <1>3, ExecuteUnfolds
<1>5. BatchTypeOK /\ BatchTypeOK' /\ Agrees(Amounts) /\ \A q \in Hands : Agrees(InAll(q))
  BY ExecuteKeepsTypes DEF BatchInvariant, LedgersMove
<1>6. /\ script \in Seq(Part) /\ script # << >> /\ steps \in Part /\ Len(steps) \in 1 .. 5
      /\ st \in Statements /\ st = steps[1]
      /\ hand' = [hand EXCEPT ![p].script = After(script)]
      /\ row' = row /\ forced \subseteq forced'
  BY <1>4 DEF Writes
<1>7. \/ /\ latest' = latest /\ owner' = owner
         /\ st.need = "check" \/ (Misses(p, st) /\ forced' = forced \cup {st.row[2], st.row[3]})
      \/ /\ st.need # "check" /\ owner[st.row] \in {p, NoHand}
         /\ latest' = [latest EXCEPT ![st.row] =
              [n |-> NewAmount(st, latest[st.row]), status |-> NewStatus(st, latest[st.row])]]
         /\ owner' = [owner EXCEPT ![st.row] = p]
  BY <1>4 DEF Writes
<1>8. st.row \in LedgerRows /\ st.by \in Int
  BY <1>6 DEF Statements
<1>9. DOMAIN latest = LedgerRows /\ DOMAIN owner = LedgerRows /\ hand \in [Hands -> Hand]
  BY <1>5 DEF BatchTypeOK
<1>10. Agrees(Amounts)'
  BY <1>5, <1>6, AmountsStay
<1>11. ASSUME NEW q \in Hands, q # p
       PROVE  Agrees(InAll(q))'
  <2>1. hand'[q].script = hand[q].script
    BY <1>6, <1>9, <1>11
  <2>2. \A r \in LedgerRows : Changed(q)'[r] = Changed(q)[r]
    <3> TAKE r \in LedgerRows
    <3>1. \/ owner'[r] = owner[r] /\ latest'[r] = latest[r]
          \/ owner'[r] = p /\ owner[r] \in {p, NoHand}
      BY <1>7, <1>8, <1>9
    <3>2. q # NoHand
      BY NoHandAssumption
    <3> QED
      BY <1>6, <1>11, <3>1, <3>2 DEF Changed
  <2> QED
    BY <1>5, <1>6, <2>1, <2>2, OthersAgree
<1>12. PICK f : f = Changed(p)'
  OBVIOUS
<1>13. f \in Amount
  <2>1. \A r \in LedgerRows : latest'[r].n \in Int /\ row'[r].n \in Int
    BY <1>5 DEF BatchTypeOK
  <2> QED
    BY <1>12, <2>1 DEF Changed, Amount
<1>14. PICK c : c = Changed(p)
  OBVIOUS
<1>15. PICK tail : tail = Ahead(Tail(steps))
  OBVIOUS
<1>16. PICK g : g = [r \in LedgerRows |-> f[r] + tail[r]]
  OBVIOUS
<1>17. c \in Amount /\ tail \in Amount
  <2>1. Tail(steps) \in Part
    <3>1. steps \in Seq(Statements)
      BY <1>6 DEF Part
    <3>2. steps # << >>
      <4>1. Len(<< >>) = 0 /\ 0 \notin 1 .. 5
        OBVIOUS
      <4> QED
        BY <1>6, <4>1
    <3> QED
      BY <3>1, <3>2 DEF Part
  <2> QED
    BY <1>5, <1>14, <1>15, <2>1, ChangedIsAnAmount, AheadIsAnAmount
<1>18. \A r \in LedgerRows : InAll(p)[r] = c[r] + (Change(steps, 1, r) + tail[r])
  <2> TAKE r \in LedgerRows
  <2>1. Current(script) = steps
    BY <1>2, <1>6 DEF Current
  <2>2. Ahead(steps)[r] = Change(steps, 1, r) + tail[r]
    BY <1>6, <1>15, AheadGoesOn
  <2> QED
    BY <1>1, <1>14, <2>1, <2>2 DEF InAll
<1>19. \A r \in LedgerRows \ {st.row} : g[r] = InAll(p)[r]
  <2> TAKE r \in LedgerRows \ {st.row}
  <2>1. Change(steps, 1, r) = 0
    BY <1>6 DEF Change
  <2>2. f[r] = c[r]
    <3>1. owner'[r] = owner[r] /\ latest'[r] = latest[r]
      BY <1>7, <1>8, <1>9
    <3> QED
      BY <1>6, <1>12, <1>14, <3>1 DEF Changed
  <2>3. c[r] \in Int /\ tail[r] \in Int
    BY <1>17 DEF Amount
  <2> QED
    BY <1>16, <1>18, <2>1, <2>2, <2>3
<1>20. \/ g[st.row] = InAll(p)[st.row]
       \/ /\ st.need # "check" /\ st.row[1] = "stock" /\ latest[st.row].n + st.by < 0
          /\ forced' = IF hand[p].op # "sell" THEN forced \cup {st.row[3]} ELSE forced
       \/ Misses(p, st) /\ forced' = forced \cup {st.row[2], st.row[3]}
  <2>1. c[st.row] \in Int /\ tail[st.row] \in Int /\ f[st.row] \in Int
    BY <1>8, <1>13, <1>17 DEF Amount
  <2>2. g[st.row] = f[st.row] + tail[st.row]
    BY <1>8, <1>16
  <2>3. InAll(p)[st.row] = c[st.row] + (Change(steps, 1, st.row) + tail[st.row])
    BY <1>8, <1>18
  <2>4. CASE st.need = "check"
    <3>1. Change(steps, 1, st.row) = 0
      BY <1>6, <2>4 DEF Change
    <3>2. f[st.row] = c[st.row]
      BY <1>6, <1>7, <1>12, <1>14, <2>4 DEF Changed
    <3> QED
      BY <2>1, <2>2, <2>3, <3>1, <3>2
  <2>5. CASE st.need # "check" /\ ~Misses(p, st) /\ ~(st.row[1] = "stock" /\ latest[st.row].n + st.by < 0)
    <3>1. Change(steps, 1, st.row) = st.by
      BY <1>6, <2>5 DEF Change
    <3>2. latest[st.row].n = row[st.row].n + c[st.row]
      BY <1>4, <1>8, <1>14, <2>5, LockedRow DEF Writes
    <3>3. NewAmount(st, latest[st.row]) = latest[st.row].n + st.by
      BY <2>5 DEF NewAmount
    <3>4. owner'[st.row] = p /\ latest'[st.row].n = latest[st.row].n + st.by
      <4>1. /\ owner' = [owner EXCEPT ![st.row] = p]
            /\ latest' = [latest EXCEPT ![st.row] =
                 [n |-> NewAmount(st, latest[st.row]), status |-> NewStatus(st, latest[st.row])]]
        BY <1>4, <2>5 DEF Writes
      <4> QED
        BY <1>8, <1>9, <3>3, <4>1
    <3>5. f[st.row] = latest'[st.row].n - row[st.row].n
      BY <1>6, <1>8, <1>12, <3>4 DEF Changed
    <3>6. row[st.row].n \in Int
      BY <1>5, <1>8 DEF BatchTypeOK
    <3> QED
      BY <1>8, <2>1, <2>2, <2>3, <3>1, <3>2, <3>4, <3>5, <3>6
  <2>6. CASE st.need # "check" /\ st.row[1] = "stock" /\ latest[st.row].n + st.by < 0
    BY <1>4, <2>6 DEF Writes, Misses
  <2>7. CASE st.need # "check" /\ Misses(p, st)
    BY <1>4, <2>7 DEF Writes
  <2> QED
    BY <2>4, <2>5, <2>6, <2>7
<1>21. AgreesBut(InAll(p), forced)
  BY <1>5 DEF Agrees
<1>22. AgreesBut(g, forced')
  <2>1. CASE g[st.row] = InAll(p)[st.row]
    <3>1. \A r \in LedgerRows : InAll(p)[r] = g[r]
      BY <1>19, <2>1
    <3> QED
      BY <1>6, <1>21, <3>1, AgreesTheSame
  <2>2. CASE /\ st.need # "check" /\ st.row[1] = "stock" /\ latest[st.row].n + st.by < 0
             /\ forced' = IF hand[p].op # "sell" THEN forced \cup {st.row[3]} ELSE forced
    <3>1. PICK l \in Shelves : st.row = InStockLevel(l)
      <4>1. st.row \in LedgerRows /\ st.row[1] = "stock"
        BY <1>8, <2>2
      <4>3. PICK r \in LedgerRows : r = st.row
        BY <4>1
      <4>2. \A b \in Lots, m \in Shelves : r # InLot(b) /\ r # InLevel(b, m)
        BY <4>1, <4>3 DEF InLot, InLevel
      <4>4. \/ \E b \in Lots : r = InLot(b)
            \/ \E b \in Lots, m \in Shelves : r = InLevel(b, m)
            \/ \E m \in Shelves : r = InStockLevel(m)
        BY <4>3, RowsAreOfThreeKinds
      <4>5. \A b \in Lots : r # InLot(b)
        BY <4>1, <4>3 DEF InLot
      <4>6. \E m \in Shelves : r = InStockLevel(m)
        BY <4>2, <4>4, <4>5
      <4> QED
        BY <4>3, <4>6
    <3>2. l \in forced'
      <4>1. CASE hand[p].op # "sell"
        BY <2>2, <3>1, <4>1, RowsSayWhere DEF InStockLevel
      <4>2. CASE hand[p].op = "sell"
        <5>1. latest[st.row].n \in Int
          BY <1>5, <1>8 DEF BatchTypeOK
        <5>2. l \in forced
          BY <1>1, <1>2, <1>4, <1>8, <2>2, <3>1, <4>2, <5>1, SalesLeaveEnough
        <5> QED
          BY <1>6, <5>2
      <4> QED
        BY <4>1, <4>2
    <3>3. \A b \in Lots : InAll(p)[InLot(b)] = g[InLot(b)]
      BY <1>19, <3>1, RowsAreApart
    <3>4. \A b \in Lots, m \in Shelves : InAll(p)[InLevel(b, m)] = g[InLevel(b, m)]
      BY <1>19, <3>1, RowsAreApart
    <3>5. \A m \in Shelves \ forced' : InAll(p)[InStockLevel(m)] = g[InStockLevel(m)]
      <4> TAKE m \in Shelves \ forced'
      <4>1. InStockLevel(m) \in LedgerRows /\ InStockLevel(m) # st.row
        BY <3>1, <3>2 DEF InStockLevel, LedgerRows
      <4> QED
        BY <1>19, <4>1
    <3> QED
      BY <1>6, <1>21, <3>3, <3>4, <3>5, AgreesAlike
  <2>3. CASE Misses(p, st) /\ forced' = forced \cup {st.row[2], st.row[3]}
    <3>1. PICK b \in Lots, l \in Shelves :
            st.row = InLevel(b, l) /\ st.row[2] = b /\ st.row[3] = l
      BY <1>6, <2>3, MissesAreLevels
    <3>2. b \in forced' /\ l \in forced'
      BY <2>3, <3>1
    <3>3. \A k \in Lots : InAll(p)[InLot(k)] = g[InLot(k)]
      BY <1>19, <3>1, RowsAreApart
    <3>4. ASSUME NEW k \in Lots, NEW m \in Shelves, k \notin forced' \/ m \notin forced'
          PROVE  InAll(p)[InLevel(k, m)] = g[InLevel(k, m)]
      <4>1. InLevel(k, m) \in LedgerRows /\ InLevel(k, m) # st.row
        BY <3>1, <3>2, <3>4, RowsAreApart
      <4> QED
        BY <1>19, <4>1
    <3>5. \A m \in Shelves : InAll(p)[InStockLevel(m)] = g[InStockLevel(m)]
      BY <1>19, <3>1, RowsAreApart
    <3> QED
      BY <1>6, <1>21, <3>3, <3>4, <3>5, AgreesAlike
  <2> QED
    BY <1>20, <2>1, <2>2, <2>3
<1>23. Agrees(InAll(p))'
  <2>1. PICK h : h = InAll(p)'
    OBVIOUS
  <2>2. hand'[p].script = After(script)
    BY <1>6, <1>9
  <2>3. \A r \in LedgerRows : h[r] = f[r] + Ahead(Current(After(script)))[r]
    BY <1>12, <2>1, <2>2 DEF InAll
  <2>4. \A r \in LedgerRows : g[r] = f[r] + Ahead(Tail(Head(script)))[r]
    BY <1>2, <1>15, <1>16
  <2>5. ScriptIsSane(hand[p].op, hand[p].read, forced', script)
    <3>1. ScriptIsSane(hand[p].op, hand[p].read, forced, script)
      BY <1>1 DEF BatchInvariant, ScriptsAreSane
    <3> QED
      BY <1>6, <3>1, ScriptsStaySane
  <2>6. AgreesBut(h, forced')
    BY <1>6, <1>13, <1>22, <2>3, <2>4, <2>5, AfterAgrees
  <2> QED
    BY <2>1, <2>6 DEF Agrees
<1> QED
  BY <1>10, <1>11, <1>23 DEF LedgersMove

\* No document and no hold is lost,
LEMMA ExecuteKeepsPapers ==
  ASSUME BatchInvariant, NEW p \in Hands, Execute(p)
  PROVE  PapersAreSane'
<1>1. hand' = [hand EXCEPT ![p].script = After(@)] /\ paper' = paper
  BY DEF Execute
<1>2. hand \in [Hands -> Hand]
  BY DEF BatchInvariant, BatchTypeOK
<1>3. \A q \in Hands : hand'[q].op = hand[q].op /\ hand'[q].paper = hand[q].paper
  BY <1>1, <1>2 DEF Hand
<1> QED
  BY <1>1, <1>3 DEF BatchInvariant, PapersAreSane

\* What a receipt or a sale writes on a held batch leaves it held, or the receipt
\* overwrites a status that it has not read.
LEMMA ExecuteKeepsHolds ==
  ASSUME BatchInvariant, NEW p \in Hands, Execute(p)
  PROVE  HoldsStand'
<1>1. PICK script : script = hand[p].script
  OBVIOUS
<1>2. PICK steps : steps = Head(script)
  OBVIOUS
<1>3. PICK st : st = Head(steps)
  OBVIOUS
<1>4. Writes(p, script, steps, st)
  BY <1>1, <1>2, <1>3, ExecuteUnfolds
<1>5. row' = row /\ paper' = paper /\ overruled \subseteq overruled'
  BY <1>4 DEF Writes
<1>6. st \in Statements /\ st = steps[1] /\ Len(steps) \in 1 .. 5
      /\ PartIsSane(hand[p].op, hand[p].read, steps)
  BY <1>4 DEF Writes
<1>7. StatementIsSane(hand[p].op, hand[p].read, st)
  <2>1. 1 \in 1 .. Len(steps)
    BY <1>6
  <2> QED
    BY <1>6, <2>1 DEF PartIsSane
<1> SUFFICES ASSUME NEW d \in Papers \ overruled',
                    paper'[d].kind = "inspection" /\ paper'[d].status = "open"
             PROVE  /\ Held(row'[InLot(paper'[d].lot)].status)
                    /\ Held(latest'[InLot(paper'[d].lot)].status)
  BY DEF HoldsStand
<1>8. PICK b \in Lots : b = paper[d].lot
  BY <1>5 DEF BatchInvariant, PapersAreSane
<1>9. d \in Papers \ overruled /\ paper[d].kind = "inspection" /\ paper[d].status = "open"
  BY <1>5
<1>10. Held(row[InLot(b)].status) /\ Held(latest[InLot(b)].status)
  BY <1>8, <1>9 DEF BatchInvariant, HoldsStand
<1>11. Held(latest'[InLot(b)].status)
  <2>1. InLot(b) \in LedgerRows /\ st.row \in LedgerRows /\ DOMAIN latest = LedgerRows
    BY <1>6 DEF BatchInvariant, BatchTypeOK, LedgerRows, Statements
  <2>2. CASE latest'[InLot(b)] = latest[InLot(b)]
    BY <1>10, <2>2
  <2>3. CASE latest'[InLot(b)] # latest[InLot(b)]
    <3>1. /\ st.row = InLot(b)
          /\ latest' = [latest EXCEPT ![st.row] =
               [n |-> NewAmount(st, latest[st.row]), status |-> NewStatus(st, latest[st.row])]]
          /\ overruled' =
               IF /\ st.row[1] = "lot" /\ Lifts(st.row[2], NewStatus(st, latest[st.row]))
                  /\ hand[p].op = "receive" /\ hand[p].read # StatusOf(st.row[2])
               THEN overruled \cup HoldsOn(st.row[2]) ELSE overruled
      <4>1. latest' # latest
        BY <2>3
      <4>2. /\ latest' = [latest EXCEPT ![st.row] =
               [n |-> NewAmount(st, latest[st.row]), status |-> NewStatus(st, latest[st.row])]]
            /\ overruled' =
               IF /\ st.row[1] = "lot" /\ Lifts(st.row[2], NewStatus(st, latest[st.row]))
                  /\ hand[p].op = "receive" /\ hand[p].read # StatusOf(st.row[2])
               THEN overruled \cup HoldsOn(st.row[2]) ELSE overruled
        BY <1>4, <4>1 DEF Writes
      <4>3. st.row = InLot(b)
        BY <2>1, <2>3, <4>2
      <4> QED
        BY <4>2, <4>3
    <3>2. PICK s : s = NewStatus(st, latest[st.row])
      OBVIOUS
    <3>3. latest'[InLot(b)].status = s
      BY <2>1, <3>1, <3>2
    <3>4. st.row[1] = "lot" /\ st.row[2] = b
      BY <3>1 DEF InLot
    <3>5. st.status \in {"keep", "drain"} \/ (hand[p].op = "receive" /\ st.status = Topped(hand[p].read))
      BY <1>7, <3>4 DEF StatementIsSane
    <3>6. CASE st.status \in {"keep", "drain"}
      <4>1. s \in {"CONSUMED", latest[st.row].status}
        BY <3>2, <3>6 DEF NewStatus
      <4> QED
        BY <1>10, <3>1, <3>3, <4>1 DEF Held, Sellable
    <3>7. CASE hand[p].op = "receive" /\ st.status = Topped(hand[p].read)
                 /\ st.status \notin {"keep", "drain"}
      <4>1. s = Topped(hand[p].read)
        BY <3>2, <3>7 DEF NewStatus
      <4>2. s # "none"
        BY <4>1 DEF Topped
      <4>3. CASE s \notin Sellable
        BY <3>3, <4>2, <4>3 DEF Held
      <4>4. CASE s \in Sellable
        <5>1. StatusOf(b) \notin Sellable /\ StatusOf(b) # "none"
          BY <1>10 DEF Held, StatusOf
        <5>2. hand[p].read # StatusOf(b)
          BY <4>1, <4>4, <5>1 DEF Topped
        <5>3. Lifts(b, s)
          BY <4>4, <5>1 DEF Lifts
        <5>4. overruled' = overruled \cup HoldsOn(b)
          BY <3>1, <3>2, <3>4, <3>7, <5>2, <5>3
        <5>5. d \in HoldsOn(b)
          BY <1>8, <1>9 DEF HoldsOn
        <5> QED
          BY <5>4, <5>5
      <4> QED
        BY <4>3, <4>4
    <3> QED
      BY <3>5, <3>6, <3>7
  <2> QED
    BY <2>2, <2>3
<1> QED
  BY <1>5, <1>8, <1>10, <1>11

\* so the invariant stands.
LEMMA ExecuteKeepsInvariant ==
  ASSUME BatchInvariant, NEW p \in Hands, Execute(p)
  PROVE  BatchInvariant'
<1> QED
  BY ExecuteKeepsTypes, ExecuteKeepsScripts, ExecuteKeepsOwners, ExecuteMovesLedgers,
     ExecuteKeepsLevels, ExecuteKeepsPapers, ExecuteKeepsHolds DEF BatchInvariant
-----------------------------------------------------------------------------
(* The transaction ends *)

\* Nothing is in a request's hands any more.
LEMMA IdleHand ==
  ASSUME BatchTypeOK, NEW p \in Hands, hand' = [hand EXCEPT ![p] = HandIdle]
  PROVE  /\ hand' \in [Hands -> Hand] /\ hand'[p] = HandIdle
         /\ \A q \in Hands \ {p} : hand'[q] = hand[q]
<1>1. HandIdle \in Hand
  BY DEF HandIdle, Hand
<1> QED
  BY <1>1 DEF BatchTypeOK

\* A hand that is done has no script.
LEMMA IdleScript ==
  ASSUME NEW h, h = HandIdle, NEW F
  PROVE  /\ h.op = "none" /\ h.paper = NoPaper /\ h.script = << >> /\ ScriptIsSane(h.op, h.read, F, h.script)
<1>1. h.op = "none" /\ h.paper = NoPaper /\ h.script = << >>
  BY DEF HandIdle
<1>2. Len(<< >>) = 0
  OBVIOUS
<1>3. 1 .. Len(h.script) = {}
  BY <1>1, <1>2
<1> QED
  BY <1>1, <1>3 DEF ScriptIsSane

\* The document's mark leaves a document, of its kind and of its batch, and no
\* inspection opens.
LEMMA MarkedIsAPaper ==
  ASSUME BatchTypeOK, NEW p \in Hands, NEW doc \in Paper, NEW new, new = Marked(p, doc)
  PROVE  /\ new \in Paper /\ new.kind = doc.kind /\ new.lot = doc.lot
         /\ new.status \in {doc.status, "posted", "cancelled"}
<1>1. hand[p].lines \in Seq(Allocated)
  BY DEF BatchTypeOK, Hand
<1>2. doc.lines \in Seq(Allocated)
  BY DEF Paper
<1>3. PICK lines \in Seq(Allocated) : lines = doc.lines \o hand[p].lines
  <2>1. doc.lines \o hand[p].lines \in Seq(Allocated)
    BY <1>1, <1>2
  <2> QED
    BY <2>1
<1>4. \/ new = doc
      \/ new = [doc EXCEPT !.status = "posted"]
      \/ new = [doc EXCEPT !.status = "cancelled"]
      \/ new = [doc EXCEPT !.status = "posted", !.lines = lines]
  BY <1>3 DEF Marked
<1> QED
  BY <1>3, <1>4 DEF Paper

\* A commit writes what its transaction changed, as types have it.
LEMMA CommitKeepsTypes ==
  ASSUME BatchInvariant, NEW p \in Hands, CommitBatches(p)
  PROVE  BatchTypeOK'
<1>1. BatchTypeOK
  BY DEF BatchInvariant
<1>2. hand' \in [Hands -> Hand]
  BY <1>1, IdleHand DEF CommitBatches
<1>3. row' \in [LedgerRows -> [n : Int, status : LotStatuses \cup {"none", "row"}]]
  <2>1. /\ row' = [r \in LedgerRows |-> IF owner[r] = p THEN latest[r] ELSE row[r]]
        /\ \A r \in LedgerRows : /\ latest[r] \in [n : Int, status : LotStatuses \cup {"none", "row"}]
                                 /\ row[r] \in [n : Int, status : LotStatuses \cup {"none", "row"}]
    BY <1>1 DEF CommitBatches, BatchTypeOK
  <2> QED
    BY <2>1
<1>4. owner' \in [LedgerRows -> Hands \cup {NoHand}]
  BY <1>1 DEF CommitBatches, Release, BatchTypeOK
<1>5. paper' \in [Papers -> Paper]
  <2>1. paper \in [Papers -> Paper]
    BY <1>1 DEF BatchTypeOK
  <2>2. CASE hand[p].paper = NoPaper
    BY <2>1, <2>2 DEF CommitBatches
  <2>3. CASE hand[p].paper # NoPaper
    <3>1. PICK d \in Papers : d = hand[p].paper
      BY <1>1, <2>3 DEF BatchTypeOK, Hand
    <3>2. PICK new : new = Marked(p, paper[d])
      OBVIOUS
    <3>3. new \in Paper
      BY <1>1, <2>1, <3>2, MarkedIsAPaper
    <3>4. paper' = [paper EXCEPT ![d] = new]
      BY <2>3, <3>1, <3>2 DEF CommitBatches
    <3> QED
      BY <2>1, <3>3, <3>4
  <2> QED
    BY <2>2, <2>3
<1>6. latest' = latest /\ scanned' = scanned /\ forced' = forced /\ overruled' = overruled
  BY DEF CommitBatches
<1> QED
  BY <1>1, <1>2, <1>3, <1>4, <1>5, <1>6 DEF BatchTypeOK
\* The committed rows gain what the transaction has changed.
LEMMA CommitMovesLedgers ==
  ASSUME BatchInvariant, NEW p \in Hands, CommitBatches(p)
  PROVE  LedgersMove'
<1>1. BatchTypeOK /\ Agrees(Amounts) /\ \A q \in Hands : Agrees(InAll(q))
  BY DEF BatchInvariant, LedgersMove
<1>2. /\ hand[p].script = << >>
      /\ row' = [r \in LedgerRows |-> IF owner[r] = p THEN latest[r] ELSE row[r]]
      /\ owner' = [r \in LedgerRows |-> IF owner[r] = p THEN NoHand ELSE owner[r]]
      /\ hand' = [hand EXCEPT ![p] = HandIdle]
      /\ latest' = latest /\ forced' = forced
  BY DEF CommitBatches, Release
<1>3. hand'[p] = HandIdle /\ \A q \in Hands \ {p} : hand'[q] = hand[q]
  BY <1>1, <1>2, IdleHand
<1>4. \A q \in Hands : q # NoHand
  BY NoHandAssumption
<1>5. Agrees(Amounts)'
  <2>1. PICK g : g = Amounts'
    OBVIOUS
  <2>2. \A r \in LedgerRows : g[r] = Amounts[r] + InAll(p)[r]
    <3> TAKE r \in LedgerRows
    <3>1. latest[r].n \in Int /\ row[r].n \in Int
      BY <1>1 DEF BatchTypeOK
    <3>2. Ahead(Current(hand[p].script))[r] = 0
      <4>1. Len(Current(hand[p].script)) = 0
        BY <1>2 DEF Current
      <4> QED
        BY <4>1, NothingAhead
    <3>3. InAll(p)[r] = (IF owner[r] = p THEN latest[r].n - row[r].n ELSE 0) + 0
      BY <3>2 DEF InAll, Changed
    <3>4. g[r] = IF owner[r] = p THEN latest[r].n ELSE row[r].n
      BY <1>2, <2>1 DEF Amounts
    <3>5. Amounts[r] = row[r].n
      BY DEF Amounts
    <3> QED
      BY <3>1, <3>3, <3>4, <3>5
  <2>3. Amounts \in Amount /\ InAll(p) \in Amount
    BY <1>1, InAllIsAnAmount
  <2>4. AgreesBut(Amounts, forced) /\ AgreesBut(InAll(p), forced)
    BY <1>1 DEF Agrees
  <2>5. AgreesBut(g, forced)
    BY <2>2, <2>3, <2>4, AgreesTogether
  <2> QED
    BY <1>2, <2>1, <2>5 DEF Agrees
<1>6. Agrees(InAll(p))'
  <2>1. hand'[p].script = << >>
    BY <1>3 DEF HandIdle
  <2>2. \A r \in LedgerRows : owner'[r] # p
    BY <1>2, <1>4
  <2>3. << >> \in Seq(Part)
    OBVIOUS
  <2> QED
    BY <2>1, <2>2, <2>3, NewOnesAgree
<1>7. ASSUME NEW q \in Hands, q # p
      PROVE  Agrees(InAll(q))'
  <2>1. hand'[q].script = hand[q].script
    BY <1>3, <1>7
  <2>2. \A r \in LedgerRows : Changed(q)'[r] = Changed(q)[r]
    BY <1>2, <1>4, <1>7 DEF Changed
  <2> QED
    BY <1>1, <1>2, <2>1, <2>2, OthersAgree
<1> QED
  BY <1>5, <1>6, <1>7 DEF LedgersMove

\* The mark of a commit on its document changes neither kind nor batch, and opens nothing.
LEMMA MarksKeepPapers ==
  ASSUME BatchInvariant, NEW p \in Hands, CommitBatches(p), NEW d \in Papers
  PROVE  /\ paper'[d].kind = paper[d].kind /\ paper'[d].lot = paper[d].lot
         /\ paper'[d].status \in {paper[d].status, "posted", "cancelled"}
<1>1. BatchTypeOK /\ paper \in [Papers -> Paper]
  BY DEF BatchInvariant, BatchTypeOK
<1>2. CASE hand[p].paper = NoPaper
  BY <1>2 DEF CommitBatches
<1>3. CASE hand[p].paper # NoPaper
  <2>1. PICK e \in Papers : e = hand[p].paper
    BY <1>1, <1>3 DEF BatchTypeOK, Hand
  <2>2. PICK new : new = Marked(p, paper[e])
    OBVIOUS
  <2>3. paper' = [paper EXCEPT ![e] = new]
    BY <1>3, <2>1, <2>2 DEF CommitBatches
  <2>4. /\ new \in Paper /\ new.kind = paper[e].kind /\ new.lot = paper[e].lot
        /\ new.status \in {paper[e].status, "posted", "cancelled"}
    BY <1>1, <2>2, MarkedIsAPaper
  <2> QED
    BY <1>1, <2>3, <2>4
<1> QED
  BY <1>2, <1>3

\* A commit keeps the invariant: all of a transaction has been done, so that what it
\* changed agrees.
LEMMA CommitKeepsInvariant ==
  ASSUME BatchInvariant, NEW p \in Hands, CommitBatches(p)
  PROVE  BatchInvariant'
<1>1. BatchTypeOK /\ BatchTypeOK'
  BY CommitKeepsTypes DEF BatchInvariant
<1>2. /\ row' = [r \in LedgerRows |-> IF owner[r] = p THEN latest[r] ELSE row[r]]
      /\ owner' = [r \in LedgerRows |-> IF owner[r] = p THEN NoHand ELSE owner[r]]
      /\ hand' = [hand EXCEPT ![p] = HandIdle]
      /\ latest' = latest /\ forced' = forced /\ overruled' = overruled
  BY DEF CommitBatches, Release
<1>3. hand'[p] = HandIdle /\ \A q \in Hands \ {p} : hand'[q] = hand[q]
  BY <1>1, <1>2, IdleHand
<1>4. \A q \in Hands : q # NoHand
  BY NoHandAssumption
<1>5. ScriptsAreSane'
  <2> SUFFICES ASSUME NEW q \in Hands
               PROVE  ScriptIsSane(hand'[q].op, hand'[q].read, forced', hand'[q].script)
    BY DEF ScriptsAreSane
  <2>1. CASE q = p
    BY <1>3, <2>1, IdleScript
  <2>2. CASE q # p
    BY <1>2, <1>3, <2>2 DEF BatchInvariant, ScriptsAreSane
  <2> QED
    BY <2>1, <2>2
<1>6. OwnersAreAtWork'
  <2>1. \A r \in LedgerRows : owner'[r] = NoHand => latest'[r] = row'[r]
    BY <1>2 DEF BatchInvariant, OwnersAreAtWork
  <2>2. \A q \in Hands : hand'[q].op \in {"none", "allocate", "inspect"} =>
          hand'[q].script = << >> /\ \A r \in LedgerRows : owner'[r] # q
    BY <1>2, <1>3, <1>4 DEF BatchInvariant, OwnersAreAtWork, HandIdle
  <2> QED
    BY <2>1, <2>2 DEF OwnersAreAtWork
<1>7. LevelsArePositive'
  <2> SUFFICES ASSUME NEW b \in Lots, NEW l \in Shelves \ forced
               PROVE  row'[InLevel(b, l)].n >= 0 /\ latest'[InLevel(b, l)].n >= 0
    BY <1>2 DEF LevelsArePositive
  <2>1. row[InLevel(b, l)].n >= 0 /\ latest[InLevel(b, l)].n >= 0 /\ InLevel(b, l) \in LedgerRows
    BY DEF BatchInvariant, LevelsArePositive, LedgerRows
  <2> QED
    BY <1>2, <2>1
<1>8. PapersAreSane'
  <2>1. \A d \in Papers : paper'[d].status = "absent" => paper'[d].kind = "none"
    BY MarksKeepPapers DEF BatchInvariant, PapersAreSane
  <2>2. \A d \in Papers : paper'[d].kind \in {"bill", "inspection"} => paper'[d].lot \in Lots
    BY MarksKeepPapers DEF BatchInvariant, PapersAreSane
  <2>3. \A q \in Hands : hand'[q].op = "inspect" =>
          hand'[q].paper \in Papers /\ paper'[hand'[q].paper].kind = "inspection"
    <3> SUFFICES ASSUME NEW q \in Hands, hand'[q].op = "inspect"
                 PROVE  hand'[q].paper \in Papers /\ paper'[hand'[q].paper].kind = "inspection"
      OBVIOUS
    <3>1. q # p /\ hand'[q] = hand[q]
      BY <1>3 DEF HandIdle
    <3>2. hand[q].paper \in Papers /\ paper[hand[q].paper].kind = "inspection"
      BY <3>1 DEF BatchInvariant, PapersAreSane
    <3> QED
      BY <3>1, <3>2, MarksKeepPapers
  <2>4. \A q \in Hands : hand'[q].op = "allocate" => hand'[q].paper \in Papers
    BY <1>3 DEF BatchInvariant, PapersAreSane, HandIdle
  <2> QED
    BY <2>1, <2>2, <2>3, <2>4 DEF PapersAreSane
<1>9. HoldsStand'
  <2> SUFFICES ASSUME NEW d \in Papers \ overruled,
                      paper'[d].kind = "inspection" /\ paper'[d].status = "open"
               PROVE  /\ Held(row'[InLot(paper'[d].lot)].status)
                      /\ Held(latest'[InLot(paper'[d].lot)].status)
    BY <1>2 DEF HoldsStand
  <2>1. paper[d].kind = "inspection" /\ paper[d].status = "open" /\ paper'[d].lot = paper[d].lot
    BY MarksKeepPapers
  <2>2. PICK b \in Lots : b = paper[d].lot
    BY <2>1 DEF BatchInvariant, PapersAreSane
  <2>3. Held(row[InLot(b)].status) /\ Held(latest[InLot(b)].status) /\ InLot(b) \in LedgerRows
    BY <2>1, <2>2 DEF BatchInvariant, HoldsStand, LedgerRows
  <2> QED
    BY <1>2, <2>1, <2>2, <2>3
<1> QED
  BY <1>1, <1>5, <1>6, <1>7, <1>8, <1>9, CommitMovesLedgers DEF BatchInvariant

\* A transaction that fails gives up what it changed.
LEMMA FailBatchesKeepsInvariant ==
  ASSUME BatchInvariant, NEW p \in Hands, FailBatches(p)
  PROVE  BatchInvariant'
<1>1. BatchTypeOK
  BY DEF BatchInvariant
<1>2. /\ latest' = [r \in LedgerRows |-> IF owner[r] = p THEN row[r] ELSE latest[r]]
      /\ owner' = [r \in LedgerRows |-> IF owner[r] = p THEN NoHand ELSE owner[r]]
      /\ hand' = [hand EXCEPT ![p] = HandIdle]
      /\ row' = row /\ paper' = paper /\ scanned' = scanned
      /\ forced' = forced /\ overruled' = overruled
  BY DEF FailBatches, Release
<1>3. /\ hand' \in [Hands -> Hand] /\ hand'[p] = HandIdle
      /\ \A q \in Hands \ {p} : hand'[q] = hand[q]
  BY <1>1, <1>2, IdleHand
<1>4. \A q \in Hands : q # NoHand
  BY NoHandAssumption
<1>5. ScriptsAreSane'
  <2> SUFFICES ASSUME NEW q \in Hands
               PROVE  ScriptIsSane(hand'[q].op, hand'[q].read, forced', hand'[q].script)
    BY DEF ScriptsAreSane
  <2>1. CASE q = p
    BY <1>3, <2>1, IdleScript
  <2>2. CASE q # p
    BY <1>2, <1>3, <2>2 DEF BatchInvariant, ScriptsAreSane
  <2> QED
    BY <2>1, <2>2
<1>6. OwnersAreAtWork'
  <2>1. \A r \in LedgerRows : owner'[r] = NoHand => latest'[r] = row'[r]
    BY <1>2 DEF BatchInvariant, OwnersAreAtWork
  <2>2. \A q \in Hands : hand'[q].op \in {"none", "allocate", "inspect"} =>
          hand'[q].script = << >> /\ \A r \in LedgerRows : owner'[r] # q
    BY <1>2, <1>3, <1>4 DEF BatchInvariant, OwnersAreAtWork, HandIdle
  <2> QED
    BY <2>1, <2>2 DEF OwnersAreAtWork
<1>7. LevelsArePositive'
  <2> SUFFICES ASSUME NEW b \in Lots, NEW l \in Shelves \ forced
               PROVE  row'[InLevel(b, l)].n >= 0 /\ latest'[InLevel(b, l)].n >= 0
    BY <1>2 DEF LevelsArePositive
  <2>1. row[InLevel(b, l)].n >= 0 /\ latest[InLevel(b, l)].n >= 0 /\ InLevel(b, l) \in LedgerRows
    BY DEF BatchInvariant, LevelsArePositive, LedgerRows
  <2> QED
    BY <1>2, <2>1
<1>8. PapersAreSane'
  BY <1>2, <1>3 DEF BatchInvariant, PapersAreSane, HandIdle
<1>9. HoldsStand'
  <2> SUFFICES ASSUME NEW d \in Papers \ overruled,
                      paper[d].kind = "inspection" /\ paper[d].status = "open"
               PROVE  /\ Held(row'[InLot(paper[d].lot)].status)
                      /\ Held(latest'[InLot(paper[d].lot)].status)
    BY <1>2 DEF HoldsStand
  <2>1. PICK b \in Lots : b = paper[d].lot
    BY DEF BatchInvariant, PapersAreSane
  <2>2. Held(row[InLot(b)].status) /\ Held(latest[InLot(b)].status) /\ InLot(b) \in LedgerRows
    BY <2>1 DEF BatchInvariant, HoldsStand, LedgerRows
  <2> QED
    BY <1>2, <2>1, <2>2
<1>10. BatchTypeOK'
  <2>1. latest' \in [LedgerRows -> [n : Int, status : LotStatuses \cup {"none", "row"}]]
    <3>1. \A r \in LedgerRows : /\ latest[r] \in [n : Int, status : LotStatuses \cup {"none", "row"}]
                                /\ row[r] \in [n : Int, status : LotStatuses \cup {"none", "row"}]
      BY <1>1 DEF BatchTypeOK
    <3> QED
      BY <1>2, <3>1
  <2>2. owner' \in [LedgerRows -> Hands \cup {NoHand}]
    BY <1>1, <1>2 DEF BatchTypeOK
  <2> QED
    BY <1>1, <1>2, <1>3, <2>1, <2>2 DEF BatchTypeOK
<1>11. LedgersMove'
  <2>1. Agrees(Amounts)'
    BY <1>2, AmountsStay DEF BatchInvariant, LedgersMove
  <2>2. Agrees(InAll(p))'
    <3>1. hand'[p].script = << >>
      BY <1>3 DEF HandIdle
    <3>2. \A r \in LedgerRows : owner'[r] # p
      BY <1>2, <1>4
    <3>3. << >> \in Seq(Part)
      OBVIOUS
    <3> QED
      BY <3>1, <3>2, <3>3, NewOnesAgree
  <2>3. ASSUME NEW q \in Hands, q # p
        PROVE  Agrees(InAll(q))'
    <3>1. hand'[q].script = hand[q].script
      BY <1>3, <2>3
    <3>2. \A r \in LedgerRows : Changed(q)'[r] = Changed(q)[r]
      BY <1>2, <1>4, <2>3 DEF Changed
    <3>3. Agrees(InAll(q)) /\ forced \subseteq forced'
      BY <1>2 DEF BatchInvariant, LedgersMove
    <3> QED
      BY <3>1, <3>2, <3>3, OthersAgree
  <2> QED
    BY <2>1, <2>2, <2>3 DEF LedgersMove
<1> QED
  BY <1>5, <1>6, <1>7, <1>8, <1>9, <1>10, <1>11 DEF BatchInvariant
-----------------------------------------------------------------------------
(* A request begins *)

\* A transaction that starts with a script that is sane keeps the invariant.
LEMMA StartsKeepInvariant ==
  ASSUME BatchInvariant, NEW p \in Hands, hand[p].op \in {"none", "allocate"},
         NEW h \in Hand, hand' = [hand EXCEPT ![p] = h],
         UNCHANGED <<row, latest, owner, paper, scanned, overruled>>,
         forced \subseteq forced', forced' \subseteq Shelves \cup Lots,
         ScriptIsSane(h.op, h.read, forced', h.script),
         h.script = << >> \/ AgreesBut(Ahead(Head(h.script)), forced'),
         h.op \in {"none", "allocate", "inspect"} => h.script = << >>,
         h.op = "inspect" => h.paper \in Papers /\ paper[h.paper].kind = "inspection",
         h.op = "allocate" => h.paper \in Papers
  PROVE  BatchInvariant'
<1>1. BatchTypeOK /\ hand \in [Hands -> Hand]
  BY DEF BatchInvariant, BatchTypeOK
<1>2. hand'[p] = h /\ \A q \in Hands \ {p} : hand'[q] = hand[q]
  BY <1>1
<1>3. \A r \in LedgerRows : owner[r] # p
  BY DEF BatchInvariant, OwnersAreAtWork
<1>4. BatchTypeOK'
  <2>1. hand' \in [Hands -> Hand]
    BY <1>1
  <2> QED
    BY <1>1, <2>1 DEF BatchTypeOK
<1>5. ScriptsAreSane'
  <2> SUFFICES ASSUME NEW q \in Hands
               PROVE  ScriptIsSane(hand'[q].op, hand'[q].read, forced', hand'[q].script)
    BY DEF ScriptsAreSane
  <2>1. CASE q = p
    BY <1>2, <2>1
  <2>2. CASE q # p
    <3>1. ScriptIsSane(hand[q].op, hand[q].read, forced, hand[q].script)
      BY DEF BatchInvariant, ScriptsAreSane
    <3>2. ScriptIsSane(hand[q].op, hand[q].read, forced', hand[q].script)
      BY <3>1, ScriptsStaySane
    <3> QED
      BY <1>2, <2>2, <3>2
  <2> QED
    BY <2>1, <2>2
<1>6. OwnersAreAtWork'
  BY <1>2, <1>3 DEF BatchInvariant, OwnersAreAtWork
<1>7. LedgersMove'
  <2>1. Agrees(Amounts)'
    BY AmountsStay DEF BatchInvariant, LedgersMove
  <2>2. Agrees(InAll(p))'
    <3>1. PICK script \in Seq(Part) : script = h.script
      BY DEF Hand
    <3>2. hand'[p].script = script /\ (script = << >> \/ AgreesBut(Ahead(Head(script)), forced'))
      BY <1>2, <3>1
    <3>3. \A r \in LedgerRows : owner'[r] # p
      BY <1>3
    <3> QED
      BY <3>2, <3>3, NewOnesAgree
  <2>3. ASSUME NEW q \in Hands, q # p
        PROVE  Agrees(InAll(q))'
    <3>1. hand'[q].script = hand[q].script
      BY <1>2, <2>3
    <3>2. \A r \in LedgerRows : Changed(q)'[r] = Changed(q)[r]
      BY DEF Changed
    <3>3. Agrees(InAll(q))
      BY DEF BatchInvariant, LedgersMove
    <3> QED
      BY <3>1, <3>2, <3>3, OthersAgree
  <2> QED
    BY <2>1, <2>2, <2>3 DEF LedgersMove
<1>8. LevelsArePositive'
  BY DEF BatchInvariant, LevelsArePositive
<1>9. PapersAreSane'
  BY <1>2 DEF BatchInvariant, PapersAreSane
<1>10. HoldsStand'
  BY DEF BatchInvariant, HoldsStand
<1> QED
  BY <1>4, <1>5, <1>6, <1>7, <1>8, <1>9, <1>10 DEF BatchInvariant

\* A script of one part that agrees.
LEMMA OnePartIsSane ==
  ASSUME NEW steps \in Part, NEW op, NEW read, NEW F,
         PartIsSane(op, read, steps), LotsAgree(Ahead(steps)),
         \A l \in Shelves \ F : StockAgrees(Ahead(steps), l),
         NEW script, script = <<steps>>
  PROVE  /\ script \in Seq(Part) /\ ScriptIsSane(op, read, F, script)
         /\ AgreesBut(Ahead(Head(script)), F)
<1>1. script \in Seq(Part) /\ Len(script) = 1 /\ script[1] = steps /\ Head(script) = steps
  OBVIOUS
<1>2. AgreesBut(Ahead(steps), F)
  BY DEF AgreesBut, LotsAgree
<1> QED
  BY <1>1, <1>2 DEF ScriptIsSane

\* What Take gives the request.
LEMMA TakesHand ==
  ASSUME BatchInvariant, NEW p \in Hands, NEW op, NEW d, NEW script, Take(p, op, d, script),
         op \in {"receive", "unreceive", "unsell", "putaway", "count"},
         d \in Papers \cup {NoPaper}, script \in Seq(Part),
         NEW read, read = (IF op = "receive" THEN StatusOf(paper[d].lot) ELSE "none"),
         read \in LotStatuses \cup {"none", "row"},
         forced \subseteq forced', forced' \subseteq Shelves \cup Lots,
         UNCHANGED <<row, latest, owner, paper, scanned, overruled>>,
         ScriptIsSane(op, read, forced', script),
         script = << >> \/ AgreesBut(Ahead(Head(script)), forced')
  PROVE  BatchInvariant'
<1>1. PICK h : h = [op |-> op, paper |-> d, script |-> script, lines |-> << >>, read |-> read]
  OBVIOUS
<1>2. h \in Hand
  BY <1>1 DEF Hand
<1>3. hand' = [hand EXCEPT ![p] = h] /\ hand[p].op = "none"
  BY <1>1 DEF Take
<1>4. h.op = op /\ h.paper = d /\ h.script = script /\ h.read = read
  BY <1>1
<1> QED
  BY <1>2, <1>3, <1>4, StartsKeepInvariant

\* A purchase invoice that is posted receives its batches,
LEMMA PostBillKeepsInvariant ==
  ASSUME BatchInvariant, NEW p \in Hands, NEW d \in Papers, PostBill(p, d)
  PROVE  BatchInvariant'
<1>1. BatchTypeOK /\ paper[d] \in Paper
  BY DEF BatchInvariant, BatchTypeOK
<1>2. PICK b \in Lots : b = paper[d].lot
  BY DEF PostBill, BatchInvariant, PapersAreSane
<1>3. PICK l \in Shelves : l = paper[d].place
  BY <1>1 DEF Paper
<1>4. PICK n \in Int : n = paper[d].n
  BY <1>1 DEF Paper
<1>5. PICK steps : steps = Received(b, l, n)
  OBVIOUS
<1>6. PICK script : script = <<steps>>
  OBVIOUS
<1>7. PICK read : read = StatusOf(b)
  OBVIOUS
<1>8. /\ steps \in Part /\ PartIsSane("receive", read, steps)
      /\ LotsAgree(Ahead(steps)) /\ \A m \in Shelves : StockAgrees(Ahead(steps), m)
  BY <1>1, <1>5, <1>7, ReceivedIsSane
<1>9. /\ script \in Seq(Part) /\ ScriptIsSane("receive", read, forced, script)
      /\ AgreesBut(Ahead(Head(script)), forced)
  BY <1>6, <1>8, OnePartIsSane
<1>10. Take(p, "receive", d, script)
  BY <1>2, <1>3, <1>4, <1>5, <1>6 DEF PostBill
<1>11. UNCHANGED <<row, latest, owner, paper, scanned, overruled, forced>>
  BY DEF PostBill, Ledgers
<1>12. read = (IF "receive" = "receive" THEN StatusOf(paper[d].lot) ELSE "none")
  BY <1>2, <1>7
<1>13. read \in LotStatuses \cup {"none", "row"} /\ forced \subseteq Shelves \cup Lots
  BY <1>1, <1>7 DEF StatusOf, LedgerRows, BatchTypeOK
<1> QED
  BY <1>9, <1>10, <1>11, <1>12, <1>13, TakesHand

\* one that is cancelled corrects them away,
LEMMA CancelBillKeepsInvariant ==
  ASSUME BatchInvariant, NEW p \in Hands, NEW d \in Papers, CancelBill(p, d)
  PROVE  BatchInvariant'
<1>1. BatchTypeOK /\ paper[d] \in Paper
  BY DEF BatchInvariant, BatchTypeOK
<1>2. PICK b \in Lots : b = paper[d].lot
  BY DEF CancelBill, BatchInvariant, PapersAreSane
<1>3. PICK l \in Shelves : l = paper[d].place
  BY <1>1 DEF Paper
<1>4. PICK n \in Int : n = -paper[d].n
  BY <1>1 DEF Paper
<1>5. PICK whole : whole = Corrected(b, l, n)
  OBVIOUS
<1>6. PICK cut : cut = StockPart(whole)
  OBVIOUS
<1>7. PICK steps : steps = IF paper[d].named THEN whole ELSE cut
  OBVIOUS
<1>8. PICK script : script = <<steps>>
  OBVIOUS
<1>9. forced' = IF paper[d].named THEN forced ELSE forced \cup {l}
  BY <1>3 DEF CancelBill
<1>10. /\ steps \in Part /\ PartIsSane("unreceive", "none", steps)
       /\ LotsAgree(Ahead(steps)) /\ \A m \in Shelves \ forced' : StockAgrees(Ahead(steps), m)
  <2>1. /\ whole \in Part /\ cut \in Part
        /\ PartIsSane("unreceive", "none", whole) /\ PartIsSane("unreceive", "none", cut)
        /\ LotsAgree(Ahead(whole)) /\ \A m \in Shelves : StockAgrees(Ahead(whole), m)
        /\ LotsAgree(Ahead(cut)) /\ \A m \in Shelves \ {l} : StockAgrees(Ahead(cut), m)
    <3>1. PICK op : op = "unreceive"
      OBVIOUS
    <3>2. PICK read : read = "none"
      OBVIOUS
    <3>3. op \notin {"sell", "receive"}
      BY <3>1
    <3>4. /\ whole \in Part /\ cut \in Part
          /\ PartIsSane(op, read, whole) /\ PartIsSane(op, read, cut)
          /\ LotsAgree(Ahead(whole)) /\ \A m \in Shelves : StockAgrees(Ahead(whole), m)
          /\ LotsAgree(Ahead(cut)) /\ \A m \in Shelves \ {l} : StockAgrees(Ahead(cut), m)
      BY ONLY <1>5, <1>6, <3>3, b \in Lots, l \in Shelves, n \in Int, CorrectedIsSane
    <3> QED
      BY <3>1, <3>2, <3>4
  <2>2. CASE paper[d].named
    BY <1>7, <2>1, <2>2
  <2>3. CASE ~paper[d].named
    <3>1. steps = cut /\ l \in forced'
      BY <1>7, <1>9, <2>3
    <3> QED
      BY <2>1, <3>1
  <2> QED
    BY <2>2, <2>3
<1>11. /\ script \in Seq(Part) /\ ScriptIsSane("unreceive", "none", forced', script)
       /\ AgreesBut(Ahead(Head(script)), forced')
  BY <1>8, <1>10, OnePartIsSane
<1>12. Take(p, "unreceive", d, script)
  BY <1>2, <1>3, <1>4, <1>5, <1>6, <1>7, <1>8 DEF CancelBill, StockPart
<1>13. UNCHANGED <<row, latest, owner, paper, scanned, overruled>>
  BY DEF CancelBill
<1>14. forced \subseteq forced' /\ forced' \subseteq Shelves \cup Lots
  BY <1>1, <1>9 DEF BatchTypeOK
<1>15. "none" = (IF "unreceive" = "receive" THEN StatusOf(paper[d].lot) ELSE "none")
  OBVIOUS
<1>16. "none" \in LotStatuses \cup {"none", "row"}
  OBVIOUS
<1> QED
  BY <1>11, <1>12, <1>13, <1>14, <1>15, <1>16, TakesHand

\* a task that is completed puts them away,
LEMMA CompleteTaskKeepsInvariant ==
  ASSUME BatchInvariant, NEW p \in Hands, NEW d \in Papers, NEW bin \in Shelves,
         CompleteTask(p, d, bin)
  PROVE  BatchInvariant'
<1>1. BatchTypeOK /\ paper[d] \in Paper
  BY DEF BatchInvariant, BatchTypeOK
<1>2. PICK b \in Lots \cup {0} : b = paper[d].lot
  BY <1>1 DEF Paper
<1>3. PICK l \in Shelves : l = paper[d].place
  BY <1>1 DEF Paper
<1>4. PICK n \in Int : n = paper[d].n
  BY <1>1 DEF Paper
<1>5. PICK whole : whole = PutAway(b, l, bin, n)
  OBVIOUS
<1>6. PICK cut : cut = StockMoved(whole)
  OBVIOUS
<1>7. PICK steps : steps = IF b = 0 THEN cut ELSE whole
  OBVIOUS
<1>8. PICK script : script = <<steps>>
  OBVIOUS
<1>9. PICK op : op = "putaway"
  OBVIOUS
<1>10. PICK read : read = "none"
  OBVIOUS
<1>11. op \notin {"sell", "receive"} /\ op \in {"receive", "unreceive", "unsell", "putaway", "count"}
  BY <1>9
<1>12. forced' = IF b = 0 THEN forced \cup {l, bin} ELSE forced
  BY <1>2, <1>3 DEF CompleteTask
<1>13. /\ steps \in Part /\ PartIsSane(op, read, steps)
       /\ LotsAgree(Ahead(steps)) /\ \A m \in Shelves \ forced' : StockAgrees(Ahead(steps), m)
  <2>1. CASE b = 0
    <3>1. /\ cut \in Part /\ PartIsSane(op, read, cut)
          /\ LotsAgree(Ahead(cut)) /\ \A m \in Shelves \ {l, bin} : StockAgrees(Ahead(cut), m)
      BY ONLY <1>5, <1>6, <1>11, l \in Shelves, bin \in Shelves, n \in Int, StockMovedIsSane
    <3>2. steps = cut /\ Shelves \ forced' \subseteq Shelves \ {l, bin}
      BY <1>7, <1>12, <2>1
    <3> QED
      BY <3>1, <3>2
  <2>2. CASE b # 0
    <3>1. b \in Lots /\ steps = whole
      BY <1>7, <2>2
    <3>2. /\ whole \in Part /\ PartIsSane(op, read, whole)
          /\ LotsAgree(Ahead(whole)) /\ \A m \in Shelves : StockAgrees(Ahead(whole), m)
      BY ONLY <1>5, <1>11, <3>1, l \in Shelves, bin \in Shelves, n \in Int, PutAwayIsSane
    <3> QED
      BY <3>1, <3>2
  <2> QED
    BY <2>1, <2>2
<1>14. /\ script \in Seq(Part) /\ ScriptIsSane(op, read, forced', script)
       /\ AgreesBut(Ahead(Head(script)), forced')
  BY <1>8, <1>13, OnePartIsSane
<1>15. Take(p, op, d, script)
  BY <1>2, <1>3, <1>4, <1>5, <1>6, <1>7, <1>8, <1>9 DEF CompleteTask, StockMoved
<1>16. UNCHANGED <<row, latest, owner, paper, scanned, overruled>>
  BY DEF CompleteTask
<1>17. /\ read = (IF op = "receive" THEN StatusOf(paper[d].lot) ELSE "none")
       /\ read \in LotStatuses \cup {"none", "row"}
  BY <1>9, <1>10
<1>18. forced \subseteq forced' /\ forced' \subseteq Shelves \cup Lots
  BY <1>1, <1>12 DEF BatchTypeOK
<1> QED
  BY <1>11, <1>14, <1>15, <1>16, <1>17, <1>18, TakesHand

\* a count posts what it found,
LEMMA PostVarianceKeepsInvariant ==
  ASSUME BatchInvariant, NEW p \in Hands, NEW b \in Lots, NEW l \in Shelves, NEW n \in {-1, 1},
         PostVariance(p, b, l, n)
  PROVE  BatchInvariant'
<1>1. BatchTypeOK /\ n \in Int
  BY DEF BatchInvariant
<1>2. PICK steps : steps = Corrected(b, l, n)
  OBVIOUS
<1>3. PICK cut : cut = StockPart(steps)
  OBVIOUS
<1>4. PICK script : script = <<steps>>
  OBVIOUS
<1>5. PICK op : op = "count"
  OBVIOUS
<1>6. PICK read : read = "none"
  OBVIOUS
<1>7. op \notin {"sell", "receive"} /\ op \in {"receive", "unreceive", "unsell", "putaway", "count"}
  BY <1>5
<1>8. /\ steps \in Part /\ PartIsSane(op, read, steps)
      /\ LotsAgree(Ahead(steps)) /\ \A m \in Shelves : StockAgrees(Ahead(steps), m)
  BY ONLY <1>1, <1>2, <1>3, <1>7, b \in Lots, l \in Shelves, CorrectedIsSane
<1>9. UNCHANGED <<row, latest, owner, paper, scanned, overruled, forced>>
  BY DEF PostVariance, Ledgers
<1>10. /\ script \in Seq(Part) /\ ScriptIsSane(op, read, forced', script)
       /\ AgreesBut(Ahead(Head(script)), forced')
  BY <1>4, <1>8, OnePartIsSane
<1>11. PICK d : d = NoPaper
  OBVIOUS
<1>12. Take(p, op, d, script)
  BY <1>2, <1>4, <1>5, <1>11 DEF PostVariance
<1>13. /\ read = (IF op = "receive" THEN StatusOf(paper[d].lot) ELSE "none")
       /\ read \in LotStatuses \cup {"none", "row"}
       /\ forced \subseteq forced' /\ forced' \subseteq Shelves \cup Lots
       /\ d \in Papers \cup {NoPaper}
  BY <1>1, <1>5, <1>6, <1>9, <1>11 DEF BatchTypeOK
<1> QED
  BY <1>7, <1>9, <1>10, <1>12, <1>13, TakesHand

\* and a sales invoice that is cancelled returns what it took.
LEMMA CancelSaleKeepsInvariant ==
  ASSUME BatchInvariant, NEW p \in Hands, NEW d \in Papers, CancelSale(p, d)
  PROVE  BatchInvariant'
<1>1. BatchTypeOK /\ paper[d] \in Paper
  BY DEF BatchInvariant, BatchTypeOK
<1>2. PICK lines \in Seq(Allocated) : lines = paper[d].lines
  BY <1>1 DEF Paper
<1>3. PICK script : script = [i \in DOMAIN lines |-> Returned(lines[i])]
  OBVIOUS
<1>4. PICK op : op = "unsell"
  OBVIOUS
<1>5. PICK read : read = "none"
  OBVIOUS
<1>6. op \notin {"sell", "receive"} /\ op \in {"receive", "unreceive", "unsell", "putaway", "count"}
  BY <1>4
<1>7. ASSUME NEW i \in 1 .. Len(lines)
      PROVE  /\ script[i] \in Part /\ PartIsSane(op, read, script[i])
             /\ AgreesBut(Ahead(script[i]), forced)
  <2>1. PICK line \in Allocated : line = lines[i]
    BY <1>2
  <2>2. PICK steps : steps = Returned(line)
    OBVIOUS
  <2>3. /\ steps \in Part /\ PartIsSane(op, read, steps)
        /\ LotsAgree(Ahead(steps)) /\ \A m \in Shelves : StockAgrees(Ahead(steps), m)
    BY ONLY <1>6, <2>2, line \in Allocated, ReturnedIsSane
  <2>4. script[i] = steps
    BY <1>3, <2>1, <2>2
  <2> QED
    BY <2>3, <2>4 DEF AgreesBut, LotsAgree
<1>8. script \in Seq(Part) /\ Len(script) = Len(lines)
  BY <1>2, <1>3, <1>7
<1>9. UNCHANGED <<row, latest, owner, paper, scanned, overruled, forced>>
  BY DEF CancelSale, Ledgers
<1>10. ScriptIsSane(op, read, forced', script)
  BY <1>7, <1>8, <1>9 DEF ScriptIsSane
<1>11. script = << >> \/ AgreesBut(Ahead(Head(script)), forced')
  <2>1. CASE script # << >>
    <3>1. Head(script) = script[1] /\ 1 \in 1 .. Len(lines)
      BY <1>8, <2>1
    <3> QED
      BY <1>7, <1>9, <3>1
  <2> QED
    BY <2>1
<1>12. Take(p, op, d, script)
  BY <1>2, <1>3, <1>4 DEF CancelSale
<1>13. /\ read = (IF op = "receive" THEN StatusOf(paper[d].lot) ELSE "none")
       /\ read \in LotStatuses \cup {"none", "row"}
       /\ forced \subseteq forced' /\ forced' \subseteq Shelves \cup Lots
  BY <1>1, <1>4, <1>5, <1>9 DEF BatchTypeOK
<1> QED
  BY <1>6, <1>8, <1>9, <1>10, <1>11, <1>12, <1>13, TakesHand

\* A transaction that only has read keeps the invariant.
LEMMA ReadsKeepInvariant ==
  ASSUME BatchInvariant, NEW p \in Hands, NEW d \in Papers,
         ReadSaleForPost(p, d) \/ ReadInspection(p, d)
  PROVE  BatchInvariant'
<1>1. BatchTypeOK /\ hand[p] \in Hand
  BY DEF BatchInvariant, BatchTypeOK
<1>2. hand[p].op = "none" /\ UNCHANGED <<row, latest, owner, paper, scanned, overruled, forced>>
  BY DEF ReadSaleForPost, ReadInspection, Ledgers
<1>3. PICK op \in {"allocate", "inspect"} :
        /\ hand' = [hand EXCEPT ![p].op = op, ![p].paper = d]
        /\ op = "inspect" => paper[d].kind = "inspection"
  BY DEF ReadSaleForPost, ReadInspection
<1>4. PICK h : h = [hand[p] EXCEPT !.op = op, !.paper = d]
  OBVIOUS
<1>5. h \in Hand /\ h.op = op /\ h.paper = d /\ h.script = hand[p].script
  BY <1>1, <1>4 DEF Hand
<1>6. hand' = [hand EXCEPT ![p] = h]
  BY <1>1, <1>3, <1>4 DEF BatchTypeOK
<1>7. h.script = << >>
  BY <1>2, <1>5 DEF BatchInvariant, OwnersAreAtWork
<1>8. ScriptIsSane(h.op, h.read, forced', h.script)
  <2>1. Len(<< >>) = 0
    OBVIOUS
  <2>2. 1 .. Len(h.script) = {}
    BY <1>7, <2>1
  <2> QED
    BY <2>2 DEF ScriptIsSane
<1>9. forced \subseteq forced' /\ forced' \subseteq Shelves \cup Lots
  BY <1>1, <1>2 DEF BatchTypeOK
<1> QED
  BY <1>2, <1>3, <1>5, <1>6, <1>7, <1>8, <1>9, StartsKeepInvariant

\* What a sale takes of one batch is not negative.
LEMMA ShareIsNat ==
  ASSUME BatchTypeOK, NEW b \in Lots, NEW l \in Shelves, NEW n \in Int
  PROVE  Share(b, l, n) \in Nat
<1>1. PICK before : before = {c \in Lots : c < b /\ Candidate(c, l)}
  OBVIOUS
<1>2. PICK taken : taken = [c \in before |-> row[InLevel(c, l)].n]
  OBVIOUS
<1>3. IsFiniteSet(before) /\ before \subseteq Lots
  BY <1>1, LotsAssumption, FS_Subset
<1>4. \A c \in Lots : row[InLevel(c, l)].n \in Int
  BY DEF BatchTypeOK, LedgerRows
<1>5. \A c \in before : taken[c] \in Int
  BY <1>2, <1>3, <1>4
<1>6. SumFunctionOnSet(taken, before) \in Int
  BY <1>3, <1>5, SumIsInt
<1>7. PICK open \in Int : open = n - SumFunctionOnSet(taken, before)
  BY <1>6
<1>8. Share(b, l, n) = IF ~Candidate(b, l) \/ open <= 0 THEN 0
                       ELSE IF open < row[InLevel(b, l)].n THEN open ELSE row[InLevel(b, l)].n
  BY <1>1, <1>2, <1>7 DEF Share
<1>9. Candidate(b, l) => row[InLevel(b, l)].n > 0
  BY DEF Candidate
<1> QED
  BY <1>4, <1>7, <1>8, <1>9

\* A sales invoice that is posted takes its shares from the batches, earliest expiry first.
LEMMA PostSaleKeepsInvariant ==
  ASSUME BatchInvariant, NEW p \in Hands, PostSale(p)
  PROVE  BatchInvariant'
<1>1. BatchTypeOK /\ hand[p] \in Hand /\ hand[p].op = "allocate"
  BY DEF BatchInvariant, BatchTypeOK, PostSale
<1>2. PICK d \in Papers : d = hand[p].paper
  BY <1>1 DEF BatchInvariant, PapersAreSane
<1>3. paper[d] \in Paper
  BY <1>1 DEF BatchTypeOK
<1>4. PICK l \in Shelves : l = paper[d].place
  BY <1>3 DEF Paper
<1>5. PICK n \in Int : n = paper[d].n
  BY <1>3 DEF Paper
<1>6. PICK chosen : chosen = {b \in Lots : Share(b, l, n) > 0}
  OBVIOUS
<1>7. PICK lots \in InOrder(chosen) :
        hand' = [hand EXCEPT ![p].op = "sell", ![p].lines = Allocation(lots, l, n),
                             ![p].script = [i \in DOMAIN Allocation(lots, l, n) |->
                                              Consumed(Allocation(lots, l, n)[i])]]
  <2> DEFINE sale == paper[hand[p].paper]
  <2>1. PICK lots \in InOrder({b \in Lots : Share(b, sale.place, sale.n) > 0}) :
          hand' = [hand EXCEPT ![p].op = "sell", ![p].lines = Allocation(lots, sale.place, sale.n),
                               ![p].script = [i \in DOMAIN Allocation(lots, sale.place, sale.n) |->
                                                Consumed(Allocation(lots, sale.place, sale.n)[i])]]
    BY DEF PostSale
  <2>2. sale.place = l /\ sale.n = n
    BY <1>2, <1>4, <1>5
  <2> HIDE DEF sale
  <2>3. lots \in InOrder(chosen)
    BY <1>6, <2>1, <2>2
  <2> QED
    BY <2>1, <2>2, <2>3
<1>8. PICK lines : lines = Allocation(lots, l, n)
  OBVIOUS
<1>9. PICK k \in Nat : k = Cardinality(chosen)
  <2>1. IsFiniteSet(chosen)
    BY <1>6, LotsAssumption, FS_Subset
  <2> QED
    BY <2>1, FS_CardinalityType
<1>10. lots \in [1 .. k -> Lots]
  BY <1>6, <1>7, <1>9 DEF InOrder
<1>11. lines = [i \in 1 .. k |-> [lot |-> lots[i], place |-> l, n |-> Share(lots[i], l, n)]]
  BY <1>8, <1>10 DEF Allocation
<1>12. \A i \in 1 .. k : lines[i] \in Allocated
  <2> TAKE i \in 1 .. k
  <2>1. PICK b \in Lots : b = lots[i]
    BY <1>10
  <2>2. Share(b, l, n) \in Nat
    BY <1>1, ShareIsNat
  <2>3. lines[i] = [lot |-> b, place |-> l, n |-> Share(b, l, n)]
    BY <1>11, <2>1
  <2> QED
    BY <2>2, <2>3 DEF Allocated
<1>13. lines \in Seq(Allocated) /\ Len(lines) = k /\ DOMAIN lines = 1 .. k
  BY <1>11, <1>12
<1>14. PICK script : script = [i \in 1 .. k |-> Consumed(lines[i])]
  OBVIOUS
<1>15. PICK read : read = hand[p].read
  OBVIOUS
<1>16. ASSUME NEW i \in 1 .. k
       PROVE  /\ script[i] \in Part /\ PartIsSane("sell", read, script[i])
              /\ AgreesBut(Ahead(script[i]), forced)
  <2>1. PICK line \in Allocated : line = lines[i]
    BY <1>12
  <2>2. PICK steps : steps = Consumed(line)
    OBVIOUS
  <2>3. /\ steps \in Part /\ PartIsSane("sell", read, steps)
        /\ LotsAgree(Ahead(steps)) /\ \A m \in Shelves : StockAgrees(Ahead(steps), m)
    BY <2>2, ConsumedIsSane
  <2>4. script[i] = steps
    BY <1>14, <2>1, <2>2
  <2> QED
    BY <2>3, <2>4 DEF AgreesBut, LotsAgree
<1>17. script \in Seq(Part) /\ Len(script) = k
  BY <1>14, <1>16
<1>18. PICK h : h = [hand[p] EXCEPT !.op = "sell", !.lines = lines, !.script = script]
  OBVIOUS
<1>19. h \in Hand /\ h.op = "sell" /\ h.read = read /\ h.script = script
  BY <1>1, <1>13, <1>15, <1>17, <1>18 DEF Hand
<1>20. hand' = [hand EXCEPT ![p] = h]
  BY <1>1, <1>7, <1>8, <1>13, <1>14, <1>18 DEF BatchTypeOK
<1>21. UNCHANGED <<row, latest, owner, paper, scanned, overruled, forced>>
  BY DEF PostSale, Ledgers
<1>22. ScriptIsSane(h.op, h.read, forced', h.script)
  BY <1>16, <1>17, <1>19, <1>21 DEF ScriptIsSane
<1>23. h.script = << >> \/ AgreesBut(Ahead(Head(h.script)), forced')
  <2>1. CASE script # << >>
    <3>1. Head(script) = script[1] /\ 1 \in 1 .. k
      BY <1>17, <2>1
    <3> QED
      BY <1>16, <1>19, <1>21, <3>1
  <2> QED
    BY <1>19, <2>1
<1>24. forced \subseteq forced' /\ forced' \subseteq Shelves \cup Lots
  BY <1>1, <1>21 DEF BatchTypeOK
<1> QED
  BY <1>1, <1>19, <1>20, <1>21, <1>22, <1>23, <1>24, StartsKeepInvariant

-----------------------------------------------------------------------------
(* Holds and documents *)

\* A status is written between transactions: no amount changes.
LEMMA SetToKeepsLedgers ==
  ASSUME BatchInvariant, NEW b \in Lots, NEW s \in LotStatuses, SetTo(b, s),
         hand' \in [Hands -> Hand], paper' \in [Papers -> Paper],
         scanned' \in [Lots -> {"none"} \cup Sellable], overruled' \subseteq Papers,
         \A q \in Hands : hand'[q] = hand[q] \/ (hand'[q] = HandIdle /\ hand[q].op = "inspect")
  PROVE  /\ BatchTypeOK' /\ ScriptsAreSane' /\ OwnersAreAtWork' /\ LedgersMove'
         /\ LevelsArePositive'
<1>1. BatchTypeOK /\ InLot(b) \in LedgerRows
  BY DEF BatchInvariant, LedgerRows
<1>2. /\ row' = [row EXCEPT ![InLot(b)].status = s]
      /\ latest' = [latest EXCEPT ![InLot(b)].status = s]
      /\ owner' = owner /\ forced' = forced /\ owner[InLot(b)] = NoHand
  BY DEF SetTo, Free
<1>3. BatchTypeOK'
  <2>1. /\ row' \in [LedgerRows -> [n : Int, status : LotStatuses \cup {"none", "row"}]]
        /\ latest' \in [LedgerRows -> [n : Int, status : LotStatuses \cup {"none", "row"}]]
    BY <1>1, <1>2 DEF BatchTypeOK
  <2> QED
    BY <1>1, <1>2, <2>1 DEF BatchTypeOK
<1>4. \A r \in LedgerRows : row'[r].n = row[r].n /\ latest'[r].n = latest[r].n
  BY <1>1, <1>2 DEF BatchTypeOK
<1>5. ASSUME NEW q \in Hands, hand'[q] # hand[q]
      PROVE  /\ hand'[q] = HandIdle /\ hand[q].script = << >>
             /\ \A r \in LedgerRows : owner[r] # q
  BY <1>5 DEF BatchInvariant, OwnersAreAtWork
<1>6. \A q \in Hands : hand'[q].script = hand[q].script
  BY <1>5 DEF HandIdle
<1>7. ScriptsAreSane'
  <2> SUFFICES ASSUME NEW q \in Hands
               PROVE  ScriptIsSane(hand'[q].op, hand'[q].read, forced', hand'[q].script)
    BY DEF ScriptsAreSane
  <2>1. CASE hand'[q] = hand[q]
    BY <1>2, <2>1 DEF BatchInvariant, ScriptsAreSane
  <2>2. CASE hand'[q] # hand[q]
    BY <1>5, <2>2, IdleScript
  <2> QED
    BY <2>1, <2>2
<1>8. OwnersAreAtWork'
  <2>1. \A r \in LedgerRows : owner'[r] = NoHand => latest'[r] = row'[r]
    <3> SUFFICES ASSUME NEW r \in LedgerRows, owner[r] = NoHand
                 PROVE  latest'[r] = row'[r]
      BY <1>2
    <3>1. latest[r] = row[r] /\ DOMAIN latest = LedgerRows /\ DOMAIN row = LedgerRows
      BY <1>1 DEF BatchInvariant, OwnersAreAtWork, BatchTypeOK
    <3>2. CASE r = InLot(b)
      BY <1>1, <1>2, <3>1, <3>2
    <3>3. CASE r # InLot(b)
      BY <1>1, <1>2, <3>1, <3>3
    <3> QED
      BY <3>2, <3>3
  <2>2. \A q \in Hands : hand'[q].op \in {"none", "allocate", "inspect"} =>
          hand'[q].script = << >> /\ \A r \in LedgerRows : owner'[r] # q
    <3> SUFFICES ASSUME NEW q \in Hands, hand'[q].op \in {"none", "allocate", "inspect"}
                 PROVE  hand'[q].script = << >> /\ \A r \in LedgerRows : owner'[r] # q
      OBVIOUS
    <3>1. CASE hand'[q] = hand[q]
      BY <1>2, <3>1 DEF BatchInvariant, OwnersAreAtWork
    <3>2. CASE hand'[q] # hand[q]
      BY <1>2, <1>5, <1>6, <3>2
    <3> QED
      BY <3>1, <3>2
  <2> QED
    BY <2>1, <2>2 DEF OwnersAreAtWork
<1>9. LedgersMove'
  <2>1. Agrees(Amounts)'
    <3>1. Agrees(Amounts) /\ forced \subseteq forced'
      BY <1>2 DEF BatchInvariant, LedgersMove
    <3> QED
      BY <1>4, <3>1, AmountsStay
  <2>2. ASSUME NEW q \in Hands
        PROVE  Agrees(InAll(q))'
    <3>1. \A r \in LedgerRows : Changed(q)'[r] = Changed(q)[r]
      BY <1>2, <1>4 DEF Changed
    <3>2. Agrees(InAll(q)) /\ forced \subseteq forced'
      BY <1>2 DEF BatchInvariant, LedgersMove
    <3> QED
      BY <1>6, <3>1, <3>2, OthersAgree
  <2> QED
    BY <2>1, <2>2 DEF LedgersMove
<1>10. LevelsArePositive'
  <2> SUFFICES ASSUME NEW c \in Lots, NEW l \in Shelves \ forced
               PROVE  row'[InLevel(c, l)].n >= 0 /\ latest'[InLevel(c, l)].n >= 0
    BY <1>2 DEF LevelsArePositive
  <2>1. /\ row[InLevel(c, l)].n >= 0 /\ latest[InLevel(c, l)].n >= 0
        /\ InLevel(c, l) \in LedgerRows
    BY DEF BatchInvariant, LevelsArePositive, LedgerRows
  <2> QED
    BY <1>4, <2>1
<1> QED
  BY <1>3, <1>7, <1>8, <1>9, <1>10

\* A hold on b ends, is overruled, or was none already.
LEMMA SetToKeepsHolds ==
  ASSUME BatchInvariant, NEW b \in Lots, NEW s \in LotStatuses, SetTo(b, s),
         \A d \in Papers \ overruled' :
           paper'[d].kind = "inspection" /\ paper'[d].status = "open" =>
             \/ paper'[d].lot = b /\ s \notin Sellable
             \/ /\ d \notin overruled /\ paper'[d] = paper[d]
                /\ paper[d].lot = b /\ s \in Sellable => StatusOf(b) \in Sellable
  PROVE  HoldsStand'
<1>1. BatchTypeOK /\ InLot(b) \in LedgerRows /\ s # "none"
  BY DEF BatchInvariant, LedgerRows, LotStatuses
<1>2. /\ row' = [row EXCEPT ![InLot(b)].status = s]
      /\ latest' = [latest EXCEPT ![InLot(b)].status = s]
  BY DEF SetTo
<1> SUFFICES ASSUME NEW d \in Papers \ overruled',
                    paper'[d].kind = "inspection" /\ paper'[d].status = "open"
             PROVE  /\ Held(row'[InLot(paper'[d].lot)].status)
                    /\ Held(latest'[InLot(paper'[d].lot)].status)
  BY DEF HoldsStand
<1>3. row'[InLot(b)].status = s /\ latest'[InLot(b)].status = s
  BY <1>1, <1>2 DEF BatchTypeOK
<1>4. CASE paper'[d].lot = b /\ s \notin Sellable
  BY <1>1, <1>3, <1>4 DEF Held
<1>5. CASE /\ d \notin overruled /\ paper'[d] = paper[d]
           /\ paper[d].lot = b /\ s \in Sellable => StatusOf(b) \in Sellable
  <2>1. PICK c \in Lots : c = paper[d].lot
    BY <1>5 DEF BatchInvariant, PapersAreSane
  <2>2. Held(row[InLot(c)].status) /\ Held(latest[InLot(c)].status) /\ InLot(c) \in LedgerRows
    BY <1>5, <2>1 DEF BatchInvariant, HoldsStand, LedgerRows
  <2>3. CASE c = b
    <3>1. s \notin Sellable
      BY <1>5, <2>1, <2>2, <2>3 DEF Held, StatusOf
    <3> QED
      BY <1>1, <1>3, <1>5, <2>1, <2>3, <3>1 DEF Held
  <2>4. CASE c # b
    <3>1. InLot(c) # InLot(b)
      BY <2>4 DEF InLot
    <3>2. row'[InLot(c)] = row[InLot(c)] /\ latest'[InLot(c)] = latest[InLot(c)]
      BY <1>1, <1>2, <2>2, <3>1 DEF BatchTypeOK
    <3> QED
      BY <1>5, <2>1, <2>2, <3>2
  <2> QED
    BY <2>3, <2>4
<1> QED
  BY <1>4, <1>5

\* A user who sets the status of a batch overrules its inspections.
LEMMA SetBatchStatusKeepsInvariant ==
  ASSUME BatchInvariant, NEW b \in Lots, NEW s \in {"AVAILABLE", "QUARANTINE"}, SetBatchStatus(b, s)
  PROVE  BatchInvariant'
<1>1. BatchTypeOK /\ s \in LotStatuses
  BY DEF BatchInvariant, LotStatuses
<1>2. /\ SetTo(b, s) /\ UNCHANGED <<hand, paper, scanned>>
      /\ overruled' = IF Lifts(b, s) THEN overruled \cup HoldsOn(b) ELSE overruled
  BY DEF SetBatchStatus
<1>3. /\ hand' \in [Hands -> Hand] /\ paper' \in [Papers -> Paper]
      /\ scanned' \in [Lots -> {"none"} \cup Sellable] /\ overruled' \subseteq Papers
  BY <1>1, <1>2 DEF BatchTypeOK, HoldsOn
<1>4. \A d \in Papers \ overruled' :
        paper'[d].kind = "inspection" /\ paper'[d].status = "open" =>
          /\ d \notin overruled /\ paper'[d] = paper[d]
          /\ paper[d].lot = b /\ s \in Sellable => StatusOf(b) \in Sellable
  BY <1>2 DEF Lifts, HoldsOn
<1>5. HoldsStand'
  BY <1>1, <1>2, <1>4, SetToKeepsHolds
<1>6. PapersAreSane'
  BY <1>2 DEF BatchInvariant, PapersAreSane
<1> QED
  BY <1>1, <1>2, <1>3, <1>5, <1>6, SetToKeepsLedgers DEF BatchInvariant

\* A scan only reads.
LEMMA ScanBatchKeepsInvariant ==
  ASSUME BatchInvariant, NEW b \in Lots, ScanBatch(b)
  PROVE  BatchInvariant'
<1>1. BatchTypeOK /\ scanned[b] \in Sellable
  BY DEF BatchInvariant, BatchTypeOK, ScanBatch
<1>2. /\ scanned' = [scanned EXCEPT ![b] = "none"] /\ UNCHANGED <<hand, paper>>
      /\ scanned' \in [Lots -> {"none"} \cup Sellable]
  BY <1>1 DEF ScanBatch, BatchTypeOK
<1>3. CASE UNCHANGED <<row, latest, owner, forced, overruled>>
  <2>1. BatchTypeOK'
    BY <1>1, <1>2, <1>3 DEF BatchTypeOK
  <2>2. ScriptsAreSane' /\ OwnersAreAtWork' /\ LevelsArePositive' /\ PapersAreSane' /\ HoldsStand'
    BY <1>2, <1>3 DEF BatchInvariant, ScriptsAreSane, OwnersAreAtWork, LevelsArePositive,
                      PapersAreSane, HoldsStand
  <2>3. LedgersMove'
    BY <1>2, <1>3 DEF BatchInvariant, LedgersMove, Agrees, Amounts, InAll, Changed
  <2> QED
    BY <2>1, <2>2, <2>3 DEF BatchInvariant
<1>4. ASSUME NEW s \in {"EXPIRED", "QUARANTINE", "NEAR_EXPIRY"}, SetTo(b, s),
             overruled' = IF Lifts(b, s) /\ StatusOf(b) # scanned[b]
                          THEN overruled \cup HoldsOn(b) ELSE overruled
      PROVE  BatchInvariant'
  <2>1. s \in LotStatuses
    BY DEF LotStatuses
  <2>2. /\ hand' \in [Hands -> Hand] /\ paper' \in [Papers -> Paper] /\ overruled' \subseteq Papers
    BY <1>1, <1>2, <1>4 DEF BatchTypeOK, HoldsOn
  <2>3. \A d \in Papers \ overruled' :
          paper'[d].kind = "inspection" /\ paper'[d].status = "open" =>
            /\ d \notin overruled /\ paper'[d] = paper[d]
            /\ paper[d].lot = b /\ s \in Sellable => StatusOf(b) \in Sellable
    BY <1>1, <1>2, <1>4 DEF Lifts, HoldsOn
  <2>4. HoldsStand'
    BY <1>4, <2>1, <2>3, SetToKeepsHolds
  <2>5. PapersAreSane'
    BY <1>2 DEF BatchInvariant, PapersAreSane
  <2>6. \A q \in Hands : hand'[q] = hand[q]
    BY <1>2
  <2> QED
    BY <1>1, <1>2, <1>4, <2>1, <2>2, <2>4, <2>5, <2>6, SetToKeepsLedgers DEF BatchInvariant
<1> QED
  BY <1>3, <1>4 DEF ScanBatch

\* An inspection holds its batch when it opens,
LEMMA CreateInspectionKeepsInvariant ==
  ASSUME BatchInvariant, NEW d \in Papers, NEW b \in Lots, CreateInspection(d, b)
  PROVE  BatchInvariant'
<1>1. BatchTypeOK /\ "QUARANTINE" \in LotStatuses /\ "QUARANTINE" \notin Sellable
  BY DEF BatchInvariant, LotStatuses, Sellable
<1>2. PICK new : new = [NoDocument EXCEPT !.kind = "inspection", !.status = "open", !.lot = b]
  OBVIOUS
<1>3. /\ new \in Paper /\ new.kind = "inspection" /\ new.status = "open" /\ new.lot = b
  <2>1. << >> \in Seq(Allocated)
    OBVIOUS
  <2> QED
    BY <1>2, <2>1, DockAssumption DEF NoDocument, Paper
<1>4. /\ paper[d].status = "absent" /\ paper' = [paper EXCEPT ![d] = new]
      /\ SetTo(b, "QUARANTINE") /\ UNCHANGED <<hand, scanned, overruled>>
  BY <1>2 DEF CreateInspection
<1>5. /\ paper' \in [Papers -> Paper] /\ paper'[d] = new
      /\ \A e \in Papers \ {d} : paper'[e] = paper[e]
  BY <1>1, <1>3, <1>4 DEF BatchTypeOK
<1>6. /\ hand' \in [Hands -> Hand] /\ scanned' \in [Lots -> {"none"} \cup Sellable]
      /\ overruled' \subseteq Papers /\ \A q \in Hands : hand'[q] = hand[q]
  BY <1>1, <1>4 DEF BatchTypeOK
<1>7. \A e \in Papers \ overruled' :
        paper'[e].kind = "inspection" /\ paper'[e].status = "open" =>
          \/ paper'[e].lot = b /\ "QUARANTINE" \notin Sellable
          \/ /\ e \notin overruled /\ paper'[e] = paper[e]
             /\ paper[e].lot = b /\ "QUARANTINE" \in Sellable => StatusOf(b) \in Sellable
  BY <1>1, <1>3, <1>4, <1>5
<1>8. HoldsStand'
  BY <1>1, <1>4, <1>7, SetToKeepsHolds
<1>9. PapersAreSane'
  <2>1. \A q \in Hands : hand'[q].op = "inspect" =>
          hand'[q].paper \in Papers /\ paper'[hand'[q].paper].kind = "inspection"
    BY <1>3, <1>5, <1>6 DEF BatchInvariant, PapersAreSane
  <2> QED
    BY <1>3, <1>5, <1>6, <2>1 DEF BatchInvariant, PapersAreSane
<1> QED
  BY <1>1, <1>4, <1>5, <1>6, <1>8, <1>9, SetToKeepsLedgers DEF BatchInvariant

\* and its result sets the status of the batch.
LEMMA RecordInspectionKeepsInvariant ==
  ASSUME BatchInvariant, NEW p \in Hands, RecordInspection(p)
  PROVE  BatchInvariant'
<1>1. BatchTypeOK /\ hand[p].op = "inspect"
  BY DEF BatchInvariant, RecordInspection
<1>2. PICK d \in Papers : d = hand[p].paper /\ paper[d].kind = "inspection"
  BY <1>1 DEF BatchInvariant, PapersAreSane
<1>3. PICK b \in Lots : b = paper[d].lot
  BY <1>2 DEF BatchInvariant, PapersAreSane
<1>4. PICK s \in {"AVAILABLE", "QUARANTINE", "REJECTED"} :
        /\ SetTo(b, s) /\ paper' = [paper EXCEPT ![d].status = "posted"]
        /\ overruled' = IF Lifts(b, s) THEN overruled \cup (HoldsOn(b) \ {d}) ELSE overruled
        /\ hand' = [hand EXCEPT ![p] = HandIdle] /\ scanned' = scanned
  BY <1>2, <1>3 DEF RecordInspection
<1>5. s \in LotStatuses
  BY DEF LotStatuses
<1>6. /\ hand' \in [Hands -> Hand] /\ hand'[p] = HandIdle
      /\ \A q \in Hands \ {p} : hand'[q] = hand[q]
  BY <1>1, <1>4, IdleHand
<1>7. paper' \in [Papers -> Paper] /\ paper'[d].status = "posted"
      /\ \A e \in Papers : /\ paper'[e].kind = paper[e].kind /\ paper'[e].lot = paper[e].lot
                           /\ e # d => paper'[e] = paper[e]
  <2>1. paper \in [Papers -> Paper]
    BY <1>1 DEF BatchTypeOK
  <2>2. PICK new : new = [paper[d] EXCEPT !.status = "posted"]
    OBVIOUS
  <2>3. /\ new \in Paper /\ new.kind = paper[d].kind /\ new.lot = paper[d].lot
        /\ new.status = "posted"
    BY <2>1, <2>2 DEF Paper
  <2>4. paper' = [paper EXCEPT ![d] = new]
    BY <1>4, <2>1, <2>2
  <2> QED
    BY <2>1, <2>3, <2>4
<1>8. scanned' \in [Lots -> {"none"} \cup Sellable] /\ overruled' \subseteq Papers
  BY <1>1, <1>4 DEF BatchTypeOK, HoldsOn
<1>9. \A q \in Hands : hand'[q] = hand[q] \/ (hand'[q] = HandIdle /\ hand[q].op = "inspect")
  BY <1>1, <1>6
<1>10. \A e \in Papers \ overruled' :
         paper'[e].kind = "inspection" /\ paper'[e].status = "open" =>
           /\ e \notin overruled /\ paper'[e] = paper[e]
           /\ paper[e].lot = b /\ s \in Sellable => StatusOf(b) \in Sellable
  BY <1>4, <1>7 DEF Lifts, HoldsOn
<1>11. HoldsStand'
  BY <1>4, <1>5, <1>10, SetToKeepsHolds
<1>12. PapersAreSane'
  <2>1. \A q \in Hands : hand'[q].op = "inspect" =>
          hand'[q].paper \in Papers /\ paper'[hand'[q].paper].kind = "inspection"
    <3> SUFFICES ASSUME NEW q \in Hands, hand'[q].op = "inspect"
                 PROVE  hand'[q].paper \in Papers /\ paper'[hand'[q].paper].kind = "inspection"
      OBVIOUS
    <3>1. hand'[q] = hand[q]
      BY <1>6 DEF HandIdle
    <3> QED
      BY <1>7, <3>1 DEF BatchInvariant, PapersAreSane
  <2>2. \A q \in Hands : hand'[q].op = "allocate" => hand'[q].paper \in Papers
    BY <1>6 DEF BatchInvariant, PapersAreSane, HandIdle
  <2>3. \A e \in Papers : paper'[e].status = "absent" => paper'[e].kind = "none"
    BY <1>7 DEF BatchInvariant, PapersAreSane
  <2>4. \A e \in Papers : paper'[e].kind \in {"bill", "inspection"} => paper'[e].lot \in Lots
    BY <1>7 DEF BatchInvariant, PapersAreSane
  <2> QED
    BY <2>1, <2>2, <2>3, <2>4 DEF PapersAreSane
<1> QED
  BY <1>4, <1>5, <1>6, <1>7, <1>8, <1>9, <1>11, <1>12, SetToKeepsLedgers DEF BatchInvariant
\* Only documents change: none of them opens an inspection.
LEMMA PapersKeepInvariant ==
  ASSUME BatchInvariant, NEW d \in Papers, NEW new \in Paper,
         paper' = [paper EXCEPT ![d] = new], UNCHANGED hand, Ledgers,
         new.status # "absent", paper[d].status = "absent" \/ new.kind = paper[d].kind,
         new.kind # "inspection", new.kind = "bill" => new.lot \in Lots
  PROVE  BatchInvariant'
<1>1. BatchTypeOK /\ UNCHANGED <<row, latest, owner, scanned, forced, overruled, hand>>
  BY DEF BatchInvariant, Ledgers
<1>2. /\ paper' \in [Papers -> Paper] /\ paper'[d] = new
      /\ \A e \in Papers \ {d} : paper'[e] = paper[e]
  BY <1>1 DEF BatchTypeOK
<1>3. BatchTypeOK'
  BY <1>1, <1>2 DEF BatchTypeOK
<1>4. ScriptsAreSane' /\ OwnersAreAtWork' /\ LevelsArePositive'
  BY <1>1 DEF BatchInvariant, ScriptsAreSane, OwnersAreAtWork, LevelsArePositive
<1>5. LedgersMove'
  BY <1>1 DEF BatchInvariant, LedgersMove, Agrees, Amounts, InAll, Changed
<1>6. PapersAreSane'
  <2>1. \A q \in Hands : hand'[q].op = "inspect" =>
          hand'[q].paper \in Papers /\ paper'[hand'[q].paper].kind = "inspection"
    <3> SUFFICES ASSUME NEW q \in Hands, hand[q].op = "inspect"
                 PROVE  hand[q].paper \in Papers /\ paper'[hand[q].paper].kind = "inspection"
      BY <1>1
    <3>1. hand[q].paper \in Papers /\ paper[hand[q].paper].kind = "inspection"
      BY DEF BatchInvariant, PapersAreSane
    <3>2. hand[q].paper # d
      BY <3>1 DEF BatchInvariant, PapersAreSane
    <3> QED
      BY <1>2, <3>1, <3>2
  <2>2. \A q \in Hands : hand'[q].op = "allocate" => hand'[q].paper \in Papers
    BY <1>1 DEF BatchInvariant, PapersAreSane
  <2>3. \A e \in Papers : paper'[e].status = "absent" => paper'[e].kind = "none"
    BY <1>2 DEF BatchInvariant, PapersAreSane
  <2>4. \A e \in Papers : paper'[e].kind \in {"bill", "inspection"} => paper'[e].lot \in Lots
    BY <1>2 DEF BatchInvariant, PapersAreSane
  <2> QED
    BY <2>1, <2>2, <2>3, <2>4 DEF PapersAreSane
<1>7. HoldsStand'
  <2> SUFFICES ASSUME NEW e \in Papers \ overruled,
                      paper'[e].kind = "inspection" /\ paper'[e].status = "open"
               PROVE  /\ Held(row[InLot(paper'[e].lot)].status)
                      /\ Held(latest[InLot(paper'[e].lot)].status)
    BY <1>1 DEF HoldsStand
  <2>1. paper'[e] = paper[e]
    BY <1>2
  <2> QED
    BY <2>1 DEF BatchInvariant, HoldsStand
<1> QED
  BY <1>3, <1>4, <1>5, <1>6, <1>7 DEF BatchInvariant

\* A document that is drafted is new,
LEMMA DraftKeepsInvariant ==
  ASSUME BatchInvariant, NEW d \in Papers, DraftPaper(d)
  PROVE  BatchInvariant'
<1>1. << >> \in Seq(Allocated) /\ Units \subseteq Nat
  BY UnitsAssumption
<1>2. CASE DraftBill(d)
  <2>1. PICK b \in Lots, l \in Shelves, n \in Units, named \in BOOLEAN :
          /\ named \/ StatusOf(b) = "none"
          /\ paper' = [paper EXCEPT ![d] =
               [NoDocument EXCEPT !.kind = "bill", !.status = "open", !.lot = b, !.place = l,
                                  !.n = n, !.named = named]]
    BY <1>2, Zenon DEF DraftBill
  <2>2. PICK new : new = [NoDocument EXCEPT !.kind = "bill", !.status = "open", !.lot = b,
                                            !.place = l, !.n = n, !.named = named]
    OBVIOUS
  <2>3. new \in Paper /\ new.kind = "bill" /\ new.status = "open" /\ new.lot = b
    BY <1>1, <2>2 DEF NoDocument, Paper
  <2>4. paper' = [paper EXCEPT ![d] = new]
    BY <2>1, <2>2
  <2> QED
    BY <1>2, <2>3, <2>4, PapersKeepInvariant DEF DraftBill
<1>3. CASE DraftSale(d)
  <2>1. PICK l \in Shelves, n \in Units :
          paper' = [paper EXCEPT ![d] =
            [NoDocument EXCEPT !.kind = "sale", !.status = "open", !.place = l, !.n = n]]
    BY <1>3 DEF DraftSale
  <2>2. PICK new : new = [NoDocument EXCEPT !.kind = "sale", !.status = "open", !.place = l, !.n = n]
    OBVIOUS
  <2>3. new \in Paper /\ new.kind = "sale" /\ new.status = "open"
    BY <1>1, <2>2 DEF NoDocument, Paper
  <2>4. paper' = [paper EXCEPT ![d] = new]
    BY <2>1, <2>2
  <2> QED
    BY <1>3, <2>3, <2>4, PapersKeepInvariant DEF DraftSale
<1>4. CASE CreateTask(d)
  <2>1. PICK b \in Lots \cup {0}, l \in Shelves, n \in Units :
          paper' = [paper EXCEPT ![d] =
            [NoDocument EXCEPT !.kind = "task", !.status = "open", !.lot = b, !.place = l, !.n = n]]
    BY <1>4 DEF CreateTask
  <2>2. PICK new : new = [NoDocument EXCEPT !.kind = "task", !.status = "open", !.lot = b,
                                            !.place = l, !.n = n]
    OBVIOUS
  <2>3. new \in Paper /\ new.kind = "task" /\ new.status = "open" /\ new.lot = b
    BY <1>1, <2>2 DEF NoDocument, Paper
  <2>4. paper' = [paper EXCEPT ![d] = new]
    BY <2>1, <2>2
  <2> QED
    BY <1>4, <2>3, <2>4, PapersKeepInvariant DEF CreateTask
<1> QED
  BY <1>2, <1>3, <1>4 DEF DraftPaper

\* or is cancelled before anything was done for it.
LEMMA CancelDraftKeepsInvariant ==
  ASSUME BatchInvariant, NEW d \in Papers, CancelDraft(d)
  PROVE  BatchInvariant'
<1>1. paper \in [Papers -> Paper]
  BY DEF BatchInvariant, BatchTypeOK
<1>2. PICK new : new = [paper[d] EXCEPT !.status = "cancelled"]
  OBVIOUS
<1>3. /\ new \in Paper /\ new.kind = paper[d].kind /\ new.status = "cancelled"
      /\ new.lot = paper[d].lot
  BY <1>1, <1>2 DEF Paper
<1>4. /\ paper' = [paper EXCEPT ![d] = new] /\ paper[d].kind \in {"bill", "sale", "task"}
      /\ UNCHANGED hand /\ Ledgers
  BY <1>1, <1>2 DEF CancelDraft
<1>5. new.kind = "bill" => new.lot \in Lots
  BY <1>3 DEF BatchInvariant, PapersAreSane
<1> QED
  BY <1>3, <1>4, <1>5, PapersKeepInvariant

\* What was scanned is nobody else's.
LEMMA OnlyScanKeepsInvariant ==
  ASSUME BatchInvariant, scanned' \in [Lots -> {"none"} \cup Sellable],
         UNCHANGED <<row, latest, owner, hand, paper, forced, overruled>>
  PROVE  BatchInvariant'
<1>1. BatchTypeOK'
  BY DEF BatchInvariant, BatchTypeOK
<1>2. /\ ScriptsAreSane' /\ OwnersAreAtWork' /\ LevelsArePositive' /\ PapersAreSane'
      /\ HoldsStand'
  BY DEF BatchInvariant, ScriptsAreSane, OwnersAreAtWork, LevelsArePositive, PapersAreSane,
         HoldsStand
<1>3. LedgersMove'
  BY DEF BatchInvariant, LedgersMove, Agrees, Amounts, InAll, Changed
<1> QED
  BY <1>1, <1>2, <1>3 DEF BatchInvariant

\* Every step keeps the invariant.
LEMMA BatchStepKeepsInvariant ==
  ASSUME BatchInvariant, [BatchNext]_batchVars
  PROVE  BatchInvariant'
<1>1. CASE UNCHANGED batchVars
  <2>1. /\ UNCHANGED <<row, latest, owner, hand, paper, forced, overruled>>
        /\ scanned' \in [Lots -> {"none"} \cup Sellable]
    BY <1>1 DEF batchVars, BatchInvariant, BatchTypeOK
  <2> QED
    BY <2>1, OnlyScanKeepsInvariant
<1>2. ASSUME NEW d \in Papers, DraftPaper(d) \/ CancelDraft(d)
      PROVE  BatchInvariant'
  BY <1>2, DraftKeepsInvariant, CancelDraftKeepsInvariant
<1>3. ASSUME NEW p \in Hands, StartBatches(p)
      PROVE  BatchInvariant'
  BY <1>3, PostBillKeepsInvariant, CancelBillKeepsInvariant, ReadsKeepInvariant,
     CancelSaleKeepsInvariant, CompleteTaskKeepsInvariant, PostVarianceKeepsInvariant
     DEF StartBatches
<1>4. ASSUME NEW p \in Hands, ContinueBatches(p)
      PROVE  BatchInvariant'
  BY <1>4, ExecuteKeepsInvariant, CommitKeepsInvariant, FailBatchesKeepsInvariant,
     PostSaleKeepsInvariant, RecordInspectionKeepsInvariant DEF ContinueBatches
<1>5. CASE Hold
  <2>1. CASE BeginScan
    <3>1. scanned' \in [Lots -> {"none"} \cup Sellable]
      BY <2>1 DEF BeginScan, Scannable
    <3> QED
      BY <2>1, <3>1, OnlyScanKeepsInvariant DEF BeginScan
  <2> QED
    BY <1>5, <2>1, SetBatchStatusKeepsInvariant, CreateInspectionKeepsInvariant DEF Hold
<1>6. ASSUME NEW b \in Lots, ScanBatch(b)
      PROVE  BatchInvariant'
  BY <1>6, ScanBatchKeepsInvariant
<1> QED
  BY <1>1, <1>2, <1>3, <1>4, <1>5, <1>6 DEF BatchNext

-----------------------------------------------------------------------------
(* The first goods *)

\* It holds before any request.
LEMMA BatchInitSatisfiesInvariant ==
  ASSUME BatchInit
  PROVE  BatchInvariant
<1>1. /\ row = [r \in LedgerRows |->
           CASE r[1] = "lot" ->
                  [n |-> Arrived[r[2]], status |-> IF Arrived[r[2]] = 0 THEN "none" ELSE "AVAILABLE"]
             [] r[1] = "level" /\ r[3] = Dock /\ Arrived[r[2]] > 0 ->
                  [n |-> Arrived[r[2]], status |-> "row"]
             [] r[1] = "stock" /\ r[3] = Dock ->
                  [n |-> SumFunctionOnSet(Arrived, Lots), status |-> "row"]
             [] OTHER -> [n |-> 0, status |-> "none"]]
      /\ latest = row /\ owner = [r \in LedgerRows |-> NoHand]
      /\ hand = [p \in Hands |-> HandIdle] /\ paper = [d \in Papers |-> NoDocument]
      /\ scanned = [b \in Lots |-> "none"] /\ forced = {} /\ overruled = {}
  BY DEF BatchInit
<1>2. IsFiniteSet(Lots) /\ IsFiniteSet(Shelves) /\ Arrived \in [Lots -> Nat]
  BY LotsAssumption, ShelvesAssumption, ArrivedAssumption
<1>3. PICK total \in Int : total = SumFunctionOnSet(Arrived, Lots)
  <2>1. \A b \in Lots : Arrived[b] \in Int
    BY <1>2
  <2>2. SumFunctionOnSet(Arrived, Lots) \in Int
    BY <1>2, <2>1, SumIsInt
  <2> QED
    BY <2>2
<1>4. \A b \in Lots : row[InLot(b)] =
        [n |-> Arrived[b], status |-> IF Arrived[b] = 0 THEN "none" ELSE "AVAILABLE"]
  <2> TAKE b \in Lots
  <2>1. InLot(b)[1] = "lot" /\ InLot(b)[2] = b /\ InLot(b) \in LedgerRows
    BY DEF InLot, LedgerRows
  <2> QED
    BY <1>1, <2>1
<1>5. \A b \in Lots, l \in Shelves : row[InLevel(b, l)] =
        IF l = Dock /\ Arrived[b] > 0 THEN [n |-> Arrived[b], status |-> "row"]
                                      ELSE [n |-> 0, status |-> "none"]
  <2> TAKE b \in Lots, l \in Shelves
  <2>1. /\ InLevel(b, l)[1] = "level" /\ InLevel(b, l)[2] = b /\ InLevel(b, l)[3] = l
        /\ InLevel(b, l) \in LedgerRows
    BY DEF InLevel, LedgerRows
  <2> QED
    BY <1>1, <2>1
<1>6. \A l \in Shelves : row[InStockLevel(l)] =
        IF l = Dock THEN [n |-> total, status |-> "row"] ELSE [n |-> 0, status |-> "none"]
  <2> TAKE l \in Shelves
  <2>1. /\ InStockLevel(l)[1] = "stock" /\ InStockLevel(l)[3] = l
        /\ InStockLevel(l) \in LedgerRows
    BY DEF InStockLevel, LedgerRows
  <2> QED
    BY <1>1, <1>3, <2>1
<1>7. row \in [LedgerRows -> [n : Int, status : LotStatuses \cup {"none", "row"}]]
  <2>1. ASSUME NEW r \in LedgerRows
        PROVE  row[r] \in [n : Int, status : LotStatuses \cup {"none", "row"}]
    <3>1. /\ "none" \in LotStatuses \cup {"none", "row"} /\ "row" \in LotStatuses \cup {"none", "row"}
          /\ "AVAILABLE" \in LotStatuses \cup {"none", "row"}
      BY DEF LotStatuses
    <3>2. ASSUME NEW b \in Lots, r = InLot(b)
          PROVE  row[r] \in [n : Int, status : LotStatuses \cup {"none", "row"}]
      <4>1. PICK n \in Int : n = Arrived[b]
        BY <1>2
      <4>2. row[r] = [n |-> n, status |-> IF n = 0 THEN "none" ELSE "AVAILABLE"]
        BY <1>4, <3>2, <4>1, Zenon
      <4> QED
        BY <3>1, <4>2
    <3>3. ASSUME NEW b \in Lots, NEW l \in Shelves, r = InLevel(b, l)
          PROVE  row[r] \in [n : Int, status : LotStatuses \cup {"none", "row"}]
      <4>1. PICK n \in Int : n = Arrived[b]
        BY <1>2
      <4>2. row[r] = IF l = Dock /\ n > 0 THEN [n |-> n, status |-> "row"]
                                          ELSE [n |-> 0, status |-> "none"]
        BY <1>5, <3>3, <4>1, Zenon
      <4> QED
        BY <3>1, <4>2
    <3>4. ASSUME NEW l \in Shelves, r = InStockLevel(l)
          PROVE  row[r] \in [n : Int, status : LotStatuses \cup {"none", "row"}]
      BY <1>3, <1>6, <3>1, <3>4
    <3> QED
      BY <3>2, <3>3, <3>4, RowsAreOfThreeKinds
  <2> QED
    BY <1>1, <2>1
<1>8. BatchTypeOK
  <2>1. hand \in [Hands -> Hand]
    <3>1. HandIdle \in Hand
      BY DEF HandIdle, Hand
    <3> QED
      BY <1>1, <3>1
  <2>2. paper \in [Papers -> Paper]
    <3>1. << >> \in Seq(Allocated)
      OBVIOUS
    <3>2. NoDocument \in Paper
      BY <3>1, DockAssumption DEF NoDocument, Paper
    <3> QED
      BY <1>1, <3>2
  <2> QED
    BY <1>1, <1>7, <2>1, <2>2 DEF BatchTypeOK
<1>9. ScriptsAreSane
  <2> SUFFICES ASSUME NEW q \in Hands
               PROVE  ScriptIsSane(hand[q].op, hand[q].read, forced, hand[q].script)
    BY DEF ScriptsAreSane
  <2>1. hand[q] = HandIdle
    BY <1>1
  <2> QED
    BY <2>1, IdleScript
<1>10. OwnersAreAtWork
  BY <1>1, NoHandAssumption DEF OwnersAreAtWork, HandIdle
<1>11. Agrees(Amounts)
  <2>1. \A b \in Lots : Amounts[InLot(b)] = Arrived[b]
    <3> TAKE b \in Lots
    <3>1. Amounts[InLot(b)] = row[InLot(b)].n
      BY DEF Amounts, LedgerRows
    <3>2. row[InLot(b)] =
            [n |-> Arrived[b], status |-> IF Arrived[b] = 0 THEN "none" ELSE "AVAILABLE"]
      BY <1>4
    <3> QED
      BY <3>1, <3>2
  <2>2. \A b \in Lots, l \in Shelves :
          Amounts[InLevel(b, l)] = IF l = Dock THEN Arrived[b] ELSE 0
    <3> TAKE b \in Lots, l \in Shelves
    <3>1. Amounts[InLevel(b, l)] = row[InLevel(b, l)].n
      BY DEF Amounts, LedgerRows
    <3>2. PICK n \in Nat : n = Arrived[b]
      BY <1>2
    <3>3. row[InLevel(b, l)] = IF l = Dock /\ Arrived[b] > 0
                                THEN [n |-> Arrived[b], status |-> "row"]
                                ELSE [n |-> 0, status |-> "none"]
      BY <1>5
    <3> QED
      BY <3>1, <3>2, <3>3
  <2>3. \A l \in Shelves : Amounts[InStockLevel(l)] = IF l = Dock THEN total ELSE 0
    <3> TAKE l \in Shelves
    <3>1. Amounts[InStockLevel(l)] = row[InStockLevel(l)].n
      BY DEF Amounts, LedgerRows
    <3> QED
      BY <1>6, <3>1
  <2>4. ASSUME NEW b \in Lots
        PROVE  Amounts[InLot(b)] =
                 SumFunctionOnSet([l \in Shelves |-> Amounts[InLevel(b, l)]], Shelves)
    <3>1. PICK ff : ff = [l \in Shelves |-> Amounts[InLevel(b, l)]]
      OBVIOUS
    <3>2. PICK n \in Int : n = Arrived[b]
      BY <1>2
    <3>3. ff[Dock] = n /\ (\A l \in Shelves \ {Dock} : ff[l] = 0) /\ Dock \in Shelves
      BY <2>2, <3>1, <3>2, DockAssumption
    <3>4. IsFiniteSet(Shelves)
      BY <1>2
    <3>5. SumFunctionOnSet(ff, Shelves) = n
      BY ONLY <3>3, <3>4, n \in Int, OneSum
    <3> QED
      BY <2>1, <3>1, <3>2, <3>5
  <2>5. ASSUME NEW l \in Shelves
        PROVE  Amounts[InStockLevel(l)] =
                 SumFunctionOnSet([b \in Lots |-> Amounts[InLevel(b, l)]], Lots)
    <3>1. CASE l = Dock
      <4>1. [b \in Lots |-> Amounts[InLevel(b, l)]] = Arrived
        BY <1>2, <2>2, <3>1
      <4> QED
        BY <1>3, <2>3, <3>1, <4>1
    <3>2. CASE l # Dock
      <4>1. PICK ff : ff = [b \in Lots |-> Amounts[InLevel(b, l)]]
        OBVIOUS
      <4>2. \A b \in Lots : ff[b] = 0
        BY <2>2, <3>2, <4>1
      <4>3. IsFiniteSet(Lots)
        BY <1>2
      <4>4. SumFunctionOnSet(ff, Lots) = 0
        BY ONLY <4>2, <4>3, SumOfZeros
      <4> QED
        BY <2>3, <3>2, <4>1, <4>4
    <3> QED
      BY <3>1, <3>2
  <2> QED
    BY <2>4, <2>5 DEF Agrees, AgreesBut, LotAgrees, StockAgrees
<1>12. \A q \in Hands : Agrees(InAll(q))
  <2> TAKE q \in Hands
  <2>1. Len(Current(hand[q].script)) = 0
    BY <1>1 DEF HandIdle, Current
  <2>2. \A r \in LedgerRows : InAll(q)[r] = 0
    <3> TAKE r \in LedgerRows
    <3>1. Ahead(Current(hand[q].script))[r] = 0
      BY <2>1, NothingAhead
    <3>2. Changed(q)[r] = 0
      BY <1>1, NoHandAssumption DEF Changed
    <3> QED
      BY <3>1, <3>2 DEF InAll
  <2> QED
    BY <2>2, ZeroAgrees DEF Agrees, AgreesBut, LotsAgree
<1>13. LevelsArePositive
  <2> SUFFICES ASSUME NEW b \in Lots, NEW l \in Shelves
               PROVE  row[InLevel(b, l)].n >= 0
    BY <1>1 DEF LevelsArePositive
  <2>1. PICK n \in Nat : n = Arrived[b]
    BY <1>2
  <2>2. row[InLevel(b, l)] = IF l = Dock /\ Arrived[b] > 0
                              THEN [n |-> Arrived[b], status |-> "row"]
                              ELSE [n |-> 0, status |-> "none"]
    BY <1>5
  <2> QED
    BY <2>1, <2>2
<1>14. PapersAreSane /\ HoldsStand
  BY <1>1 DEF PapersAreSane, HoldsStand, NoDocument, HandIdle
<1> QED
  BY <1>8, <1>9, <1>10, <1>11, <1>12, <1>13, <1>14 DEF BatchInvariant, LedgersMove

\* What a batch has, its levels have, and the levels at a place what the stock has there,
\* but where an unchecked document has parted them; and a batch that waits for an inspection is not sold.
LEMMA InvariantAddsUp ==
  ASSUME BatchInvariant
  PROVE  BatchesAddUp
<1>1. BatchTypeOK /\ AgreesBut(Amounts, forced)
  BY DEF BatchInvariant, LedgersMove, Agrees
<1>2. \A r \in LedgerRows : Amounts[r] = row[r].n
  BY DEF Amounts
<1>3. ASSUME NEW b \in Lots \ forced
      PROVE  row[InLot(b)].n = SumFunctionOnSet([l \in Shelves |-> row[InLevel(b, l)].n], Shelves)
  <2>1. [l \in Shelves |-> row[InLevel(b, l)].n] = [l \in Shelves |-> Amounts[InLevel(b, l)]]
    BY <1>2, RowsAreApart
  <2>2. Amounts[InLot(b)] = row[InLot(b)].n
    BY <1>2 DEF LedgerRows
  <2>3. Amounts[InLot(b)] = SumFunctionOnSet([l \in Shelves |-> Amounts[InLevel(b, l)]], Shelves)
    BY <1>1 DEF AgreesBut, LotAgrees
  <2> QED
    BY <2>1, <2>2, <2>3
<1>4. ASSUME NEW l \in Shelves \ forced
      PROVE  row[InStockLevel(l)].n = SumFunctionOnSet([b \in Lots |-> row[InLevel(b, l)].n], Lots)
  <2>1. [b \in Lots |-> row[InLevel(b, l)].n] = [b \in Lots |-> Amounts[InLevel(b, l)]]
    <3>1. \A b \in Lots : InLevel(b, l) \in LedgerRows
      BY DEF LedgerRows
    <3> QED
      BY <1>2, <3>1
  <2>2. Amounts[InStockLevel(l)] = row[InStockLevel(l)].n
    BY <1>2 DEF LedgerRows
  <2>3. Amounts[InStockLevel(l)] = SumFunctionOnSet([b \in Lots |-> Amounts[InLevel(b, l)]], Lots)
    BY <1>1 DEF AgreesBut, StockAgrees
  <2> QED
    BY <2>1, <2>2, <2>3
<1>5. BatchLedgersAgree
  BY <1>3, <1>4 DEF BatchLedgersAgree, BatchInvariant, LevelsArePositive
<1>6. InspectedGoodsAreHeld
  BY DEF InspectedGoodsAreHeld, BatchInvariant, HoldsStand, Held, StatusOf
<1> QED
  BY <1>5, <1>6 DEF BatchesAddUp

-----------------------------------------------------------------------------
\* The batches' rows, requests and documents are well-formed.
THEOREM BatchTypes == BatchSpec => []BatchTypeOK
<1>1. BatchInvariant => BatchTypeOK
  BY DEF BatchInvariant
<1> QED
  BY <1>1, BatchInitSatisfiesInvariant, BatchStepKeepsInvariant, PTL DEF BatchSpec

\* Whatever documents are posted and cancelled together, batches agree with the stock
\* and what is held stays held (batches, quality, locations: BatchesService,
\* QualityService, LocationsService), but for what BatchesAddUp excepts: places and
\* batches that a document has parted which nobody checks against them, such as a
\* putaway task for a batch that is not booked where it says, and overruled holds.
THEOREM BatchesAlwaysAddUp == BatchSpec => []BatchesAddUp
BY BatchInitSatisfiesInvariant, BatchStepKeepsInvariant, InvariantAddsUp, PTL DEF BatchSpec

-----------------------------------------------------------------------------
(* The factory *)

\* All components of the factory keep their types.
THEOREM FactoryTypes == FactorySpec => []FactoryTypeOK
<1>1. ProductionInvariant => ProductionTypeOK
  BY DEF ProductionInvariant, StageInvariant
<1>2. CountInvariant => CountTypeOK
  BY DEF CountInvariant
<1>3. ProductionTypeOK /\ ManufacturingTypeOK /\ CountTypeOK /\ CacheTypeOK /\ BatchTypeOK
        /\ FulfilmentTypeOK
      => FactoryTypeOK
  BY DEF FactoryTypeOK
<1> QED
  BY <1>1, <1>2, <1>3, ProductionIsSound, ManufacturingTypes, CountsAreSound, CacheTypes,
     BatchTypes, FulfilmentTypes, PTL DEF FactorySpec

=============================================================================
