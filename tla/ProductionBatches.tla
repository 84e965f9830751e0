-------------------------- MODULE ProductionBatches --------------------------
(***************************************************************************)
(* ProductionBatchService                                                  *)
(* (src/backend-nest/src/manufacturing/production-batch.service.ts): a     *)
(* batch passes the stages cutting ... finished; finished goods and        *)
(* transfers move units between the production sub-warehouses.             *)
(*                                                                         *)
(* A request first reads and checks, then runs its transaction.  The       *)
(* transaction of a stage is one step: its first statement locks the rows  *)
(* it changes.  A transfer holds its source row from one step to the next. *)
(***************************************************************************)
EXTENDS Integers, FiniteSets, FiniteSetsExt, Functions

CONSTANTS
  Batches,      \* production_orders rows
  Last,         \* the number of the finished stage; the first is 1
  Warehouses,   \* the sub-warehouses; one product in all of them
  Finished,     \* the finished-goods warehouse
  Procs,        \* the requests in progress
  Nobody,       \* the owner of an unlocked row
  Quantities    \* the quantities clients send

ASSUME LastAssumption == Last \in Nat \ {0}
ASSUME FinishedAssumption == Finished \in Warehouses
ASSUME NobodyAssumption == Nobody \notin Procs
ASSUME QuantitiesAssumption == Quantities \subseteq Nat

VARIABLES
  opened,    \* the sub-warehouses that have been set up
  stage,     \* stage[b][s]: a production_stages row
  status,    \* status[b]: the order's status
  counted,   \* counted[b][s]: the sum of the variants' counters of stage s
  cost,      \* cost[b]: the production_cost_records row
  level,     \* level[w]: quantity of the warehouse's row, where there is one
  locked,    \* locked[w]: the transfer that has the row locked
  moves,     \* moves[w]: what the stock_transfers have brought in, less out
  arrived,   \* arrived[b]: the units that transfers of batch b have brought in
  request,   \* request[p]: what p has read and will write
  redone,    \* batches of which a completed stage was returned or reopened
  unplaced   \* batches whose goods found no finished-goods warehouse

productionVars ==
  <<opened, stage, status, counted, cost, level, locked, moves, arrived, request, redone,
    unplaced>>

Stages == 1..Last

Stage ==
  [status : {"PENDING", "IN_PROGRESS", "COMPLETED"}, input : Nat, output : Nat, waste : Nat]

Pending == [status |-> "PENDING", input |-> 0, output |-> 0, waste |-> 0]

CostRecord == [exists : BOOLEAN, good : Nat, isLocked : BOOLEAN]

\* n and m: the quantities to write; seen: the destination row existed, or the
\* order was still PLANNED; raced: the cost was locked while it was computed.
Request ==
  [op : {"none", "start", "complete", "return", "calculate", "transfer"},
   at : Batches \cup Warehouses \cup {Nobody}, s : Nat \cup Warehouses, n : Nat, m : Nat,
   seen : BOOLEAN, raced : BOOLEAN]

NoRequest ==
  [op |-> "none", at |-> Nobody, s |-> 0, n |-> 0, m |-> 0, seen |-> FALSE, raced |-> FALSE]

ProductionInit ==
  /\ opened \in SUBSET Warehouses
  /\ stage = [b \in Batches |-> [s \in Stages |-> Pending]]
  /\ status = [b \in Batches |-> "PLANNED"]
  /\ counted = [b \in Batches |-> [s \in Stages |-> 0]]
  /\ cost = [b \in Batches |-> [exists |-> FALSE, good |-> 0, isLocked |-> FALSE]]
  /\ level = [w \in {} |-> 0]
  /\ locked = [w \in Warehouses |-> Nobody]
  /\ moves = [w \in Warehouses |-> 0]
  /\ arrived = [b \in Batches |-> 0]
  /\ request = [p \in Procs |-> NoRequest]
  /\ redone = {}
  /\ unplaced = {}

Asks(p, r) == request[p] = NoRequest /\ request' = [request EXCEPT ![p] = r]

Ends(p) == request' = [request EXCEPT ![p] = NoRequest]

\* increment, or the row that is created with n units
Plus(w, n) == [x \in DOMAIN level \cup {w} |->
                 (IF x \in DOMAIN level THEN level[x] ELSE 0) + (IF x = w THEN n ELSE 0)]

Writable(w, p) == locked[w] \in {Nobody, p}

-----------------------------------------------------------------------------
(* Sub-warehouses *)

\* createWarehouse, and ensureDefaultWarehouses when the list is asked for
OpenWarehouse(w) ==
  /\ w \notin opened
  /\ opened' = opened \cup {w}
  /\ UNCHANGED <<stage, status, counted, cost, level, locked, moves, arrived, request,
                 redone, unplaced>>

-----------------------------------------------------------------------------
(* Stages *)

\* startStage: the stage is pending and the one before it done...
ReadForStart(p, b, s) ==
  /\ stage[b][s].status = "PENDING"
  /\ s > 1 => stage[b][s - 1].status = "COMPLETED"
  /\ \E n \in Quantities :
       Asks(p, [NoRequest EXCEPT !.op = "start", !.at = b, !.s = s, !.seen = status[b] = "PLANNED",
                !.n = IF n > 0 THEN n ELSE IF s > 1 THEN stage[b][s - 1].output ELSE 0])
  /\ UNCHANGED <<opened, stage, status, counted, cost, level, locked, moves, arrived,
                 redone, unplaced>>

\* ...and is written whatever it is by now.
StartStage(p) ==
  LET r == request[p]
  IN  /\ r.op = "start"
      /\ stage' = [stage EXCEPT ![r.at][r.s].status = "IN_PROGRESS", ![r.at][r.s].input = r.n]
      /\ status' = IF r.seen THEN [status EXCEPT ![r.at] = "IN_PROGRESS"] ELSE status
      /\ redone' = IF stage[r.at][r.s].status = "COMPLETED" THEN redone \cup {r.at} ELSE redone
      /\ Ends(p)
      /\ UNCHANGED <<opened, counted, cost, level, locked, moves, arrived, unplaced>>

\* completeStage: not completed, and no more accounted for than came in...
ReadForComplete(p, b, s) ==
  /\ stage[b][s].status # "COMPLETED"
  /\ \E n, m \in Quantities :
       /\ n + m <= stage[b][s].input
       /\ Asks(p, [NoRequest EXCEPT !.op = "complete", !.at = b, !.s = s, !.n = n, !.m = m])
  /\ UNCHANGED <<opened, stage, status, counted, cost, level, locked, moves, arrived,
                 redone, unplaced>>

\* Mutant of StillOpen: the status is not looked at again under the lock.
StillBalanced(r) == r.n + r.m <= stage[r.at][r.s].input

\* The checks that completeStage repeats on the row it has locked.
StillOpen(r) ==
  /\ stage[r.at][r.s].status # "COMPLETED"
  /\ r.n + r.m <= stage[r.at][r.s].input

\* ...both checked again on the locked row; the variants' counters follow, and
\* the last stage's output goes to the finished-goods warehouse; if there is none,
\* moveToWarehouse returns and the goods are nowhere.
CompleteStage(p) ==
  LET r == request[p]
      toStock == r.s = Last /\ r.n > 0
  IN  /\ r.op = "complete"
      /\ StillOpen(r)
      /\ stage' = [stage EXCEPT ![r.at][r.s] =
           [@ EXCEPT !.status = "COMPLETED", !.output = r.n, !.waste = r.m]]
      /\ counted' = [counted EXCEPT ![r.at][r.s] = @ + r.n]
      /\ IF toStock /\ Finished \in opened
         THEN /\ Writable(Finished, p)
              /\ level' = Plus(Finished, r.n)
              /\ moves' = [moves EXCEPT ![Finished] = @ + r.n]
              /\ arrived' = [arrived EXCEPT ![r.at] = @ + r.n]
         ELSE UNCHANGED <<level, moves, arrived>>
      /\ unplaced' = IF toStock /\ Finished \notin opened
                     THEN unplaced \cup {r.at} ELSE unplaced
      /\ Ends(p)
      /\ UNCHANGED <<opened, status, cost, locked, redone>>

\* returnToStage: the stage has been started...
ReadForReturn(p, b, s) ==
  /\ stage[b][s].status # "PENDING"
  /\ Asks(p, [NoRequest EXCEPT !.op = "return", !.at = b, !.s = s])
  /\ UNCHANGED <<opened, stage, status, counted, cost, level, locked, moves, arrived,
                 redone, unplaced>>

\* ...and it and all later ones start anew.
ReturnToStage(p) ==
  LET r == request[p]
  IN  /\ r.op = "return"
      /\ stage' = [stage EXCEPT ![r.at] = [s \in Stages |-> IF s >= r.s THEN Pending ELSE @[s]]]
      /\ status' = [status EXCEPT ![r.at] = "IN_PROGRESS"]
      /\ redone' = redone \cup {r.at}
      /\ Ends(p)
      /\ UNCHANGED <<opened, counted, cost, level, locked, moves, arrived, unplaced>>

-----------------------------------------------------------------------------
(* Costs *)

\* Mutant of ReadForCost: a locked record may be computed again.
ReadForCostAlways(p, b) ==
  /\ Asks(p, [NoRequest EXCEPT !.op = "calculate", !.at = b, !.n = stage[b][Last].output])
  /\ UNCHANGED <<opened, stage, status, counted, cost, level, locked, moves, arrived,
                 redone, unplaced>>

\* calculateCost: the record is not locked; the good quantity is the output...
ReadForCost(p, b) ==
  /\ ~cost[b].isLocked
  /\ Asks(p, [NoRequest EXCEPT !.op = "calculate", !.at = b, !.n = stage[b][Last].output])
  /\ UNCHANGED <<opened, stage, status, counted, cost, level, locked, moves, arrived,
                 redone, unplaced>>

\* ...and is written with no second look at the lock.
CalculateCost(p) ==
  LET r == request[p]
  IN  /\ r.op = "calculate"
      /\ cost' = [cost EXCEPT ![r.at].exists = TRUE, ![r.at].good = r.n]
      /\ Ends(p)
      /\ UNCHANGED <<opened, stage, status, counted, level, locked, moves, arrived, redone,
                     unplaced>>

\* lockCost and unlockCost
SetCostLock(b) ==
  /\ cost[b].exists
  /\ cost' = [cost EXCEPT ![b].isLocked = ~@]
  /\ request' = [p \in Procs |->
       IF request[p].op = "calculate" /\ request[p].at = b
       THEN [request[p] EXCEPT !.raced = TRUE] ELSE request[p]]
  /\ UNCHANGED <<opened, stage, status, counted, level, locked, moves, arrived, redone,
                 unplaced>>

-----------------------------------------------------------------------------
(* Transfers *)

\* Mutant of BeginTransfer: SELECT without FOR UPDATE.
BeginUnlocked(p, from, to) ==
  /\ from # to /\ to \in opened
  /\ from \in DOMAIN level
  /\ \E n \in Quantities \ {0} :
       /\ level[from] >= n
       /\ Asks(p, [NoRequest EXCEPT !.op = "transfer", !.at = from, !.s = to, !.n = n,
                                    !.seen = to \in DOMAIN level])
  /\ UNCHANGED <<opened, stage, status, counted, cost, level, locked, moves, arrived,
                 redone, unplaced>>

\* createTransfer locks the source's row and finds enough in it...
BeginTransfer(p, from, to) ==
  /\ from # to /\ to \in opened
  /\ from \in DOMAIN level
  /\ locked[from] = Nobody
  /\ \E n \in Quantities \ {0} :
       /\ level[from] >= n
       /\ Asks(p, [NoRequest EXCEPT !.op = "transfer", !.at = from, !.s = to, !.n = n,
                                    !.seen = to \in DOMAIN level])
  /\ locked' = [locked EXCEPT ![from] = p]
  /\ UNCHANGED <<opened, stage, status, counted, cost, level, moves, arrived, redone,
                 unplaced>>

Unlocked(p) == [w \in Warehouses |-> IF locked[w] = p THEN Nobody ELSE locked[w]]

\* ...then adds to the destination's row, or creates it if there was none (the
\* unique index refuses a second one), and commits.
CommitTransfer(p) ==
  LET r == request[p]
  IN  /\ r.op = "transfer"
      /\ Writable(r.s, p)
      /\ r.seen \/ r.s \notin DOMAIN level
      /\ level' = [Plus(r.s, r.n) EXCEPT ![r.at] = @ - r.n]
      /\ moves' = [moves EXCEPT ![r.s] = @ + r.n, ![r.at] = @ - r.n]
      /\ locked' = Unlocked(p)
      /\ Ends(p)
      /\ UNCHANGED <<opened, stage, status, counted, cost, arrived, redone, unplaced>>

\* A check that fails the second time, the unique index, a deadlock, a crash.
FailRequest(p) ==
  /\ request[p] # NoRequest
  /\ locked' = Unlocked(p)
  /\ Ends(p)
  /\ UNCHANGED <<opened, stage, status, counted, cost, level, moves, arrived, redone,
                 unplaced>>

StartProduction(p) ==
  \/ \E b \in Batches, s \in Stages :
       ReadForStart(p, b, s) \/ ReadForComplete(p, b, s) \/ ReadForReturn(p, b, s)
  \/ \E b \in Batches : ReadForCost(p, b)
  \/ \E from, to \in Warehouses : BeginTransfer(p, from, to)

ContinueProduction(p) ==
  \/ StartStage(p) \/ CompleteStage(p) \/ ReturnToStage(p) \/ CalculateCost(p)
  \/ CommitTransfer(p) \/ FailRequest(p)

ProductionNext ==
  \/ \E p \in Procs : StartProduction(p) \/ ContinueProduction(p)
  \/ \E b \in Batches : SetCostLock(b)
  \/ \E w \in Warehouses : OpenWarehouse(w)

ProductionSpec == ProductionInit /\ [][ProductionNext]_productionVars

-----------------------------------------------------------------------------
(* Properties *)

\* Types.
ProductionTypeOK ==
  /\ opened \subseteq Warehouses
  /\ stage \in [Batches -> [Stages -> Stage]]
  /\ status \in [Batches -> {"PLANNED", "IN_PROGRESS"}]
  /\ counted \in [Batches -> [Stages -> Nat]]
  /\ cost \in [Batches -> CostRecord]
  /\ DOMAIN level \subseteq opened
  /\ locked \in [Warehouses -> Procs \cup {Nobody}]
  /\ moves \in [Warehouses -> Int]
  /\ arrived \in [Batches -> Nat]
  /\ request \in [Procs -> Request]
  /\ redone \subseteq Batches
  /\ unplaced \subseteq Batches

\* "A stage cannot produce more than it received ... two concurrent completions
\* cannot both pass it": the completion's second look at the locked row holds
\* it, whatever starts, completions and returns overlap.
StageAccountsForInput ==
  \A b \in Batches, s \in Stages :
    stage[b][s].status = "COMPLETED" => stage[b][s].output + stage[b][s].waste <= stage[b][s].input

\* A stage's output is counted once: in the variants' counters, and for the last
\* stage in the finished-goods warehouse, or nowhere if there was no such warehouse when the
\* stage was completed.  A returned or reopened stage is excepted, whose first output the
\* code does not take back.
OutputIsCountedOnce ==
  \A b \in Batches \ redone :
    /\ \A s \in Stages : counted[b][s] = stage[b][s].output
    /\ arrived[b] = IF b \in unplaced THEN 0 ELSE counted[b][Last]

\* No unit appears between two stages, or is counted twice.
StagesAccountForUnits == StageAccountsForInput /\ OutputIsCountedOnce

\* The balance of a sub-warehouse "is never negative" and is what the recorded
\* transfers say, even when transfers cross or race for the last units.
BalancesMatchTransfers ==
  \A w \in Warehouses :
    LET balance == IF w \in DOMAIN level THEN level[w] ELSE 0
    IN  balance = moves[w] /\ balance >= 0

\* A locked cost record keeps its figures, but for a calculation that was
\* already under way when the lock was set.
LockedCostIsKept ==
  [][\A b \in Batches :
       cost[b].isLocked /\ cost'[b] # cost[b] =>
         ~cost'[b].isLocked \/ \E p \in Procs : request[p].at = b /\ request[p].raced]_cost
=============================================================================
