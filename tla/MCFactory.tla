------------------------------ MODULE MCFactory ------------------------------
(***************************************************************************)
(* The warehouse floor for TLC: six components that share no state, of     *)
(* which a behaviour runs the one that `part' names.  All requests, and    *)
(* the writes and the clock of the cache, are bounded.                     *)
(***************************************************************************)
EXTENDS Factory, TLC

CONSTANTS
  l1, l2, MaxStageRequests, MaxOrderRequests, MaxCountRequests, MaxWrites, MaxTime,
  MaxBatchRequests, MaxFulfilmentRequests

VARIABLES
  part,    \* the component that runs
  left     \* how many of its requests may still begin

\* Material that all locations have together, and one alone has not.
MCOpening == (l1 :> 1) @@ (l2 :> 2)

\* Goods of the batch that expires first have come in.
MCArrived == <<2, 0>>

\* What invalidatePrefix and del invalidate.
MCPrefixes == {Keys} \cup {{k} : k \in Keys}

MaxRequests ==
  [stages |-> MaxStageRequests, orders |-> MaxOrderRequests, counts |-> MaxCountRequests,
   cache |-> MaxWrites, batches |-> MaxBatchRequests, fulfilment |-> MaxFulfilmentRequests]

MCInit ==
  /\ part \in DOMAIN MaxRequests
  /\ left = MaxRequests[part]
  /\ ProductionInit
  /\ IF part = "stages" THEN Warehouses \ opened \subseteq {Finished} ELSE opened = {}
  /\ ManufacturingInit
  /\ part # "orders" => order = [o \in Orders |-> [order[o] EXCEPT !.planned = 1]]
  /\ CountInit
  /\ CacheInit
  /\ part # "cache" => ~redisUp
  /\ BatchInit
  /\ FulfilmentInit

Asking == left > 0 /\ left' = left - 1 /\ UNCHANGED part
Going == UNCHANGED <<part, left>>

StagesNext ==
  \/ \E p \in Procs : StartProduction(p) /\ Asking
  \/ \E b \in Batches : SetCostLock(b) /\ Asking
  \/ \E p \in Procs : ContinueProduction(p) /\ Going
  \/ \E w \in Warehouses : OpenWarehouse(w) /\ Going

OrdersNext ==
  \/ \E p \in Makers : StartManufacturing(p) /\ Asking
  \/ \E p \in Makers : ContinueManufacturing(p) /\ Going

CountsNext ==
  \/ (Ship \/ Lose) /\ Going
  \/ \E c \in Counts : CreateCount(c) /\ Going
  \/ \E p \in Counters : StartCounting(p) /\ Asking
  \/ \E p \in Counters : ContinueCounting(p) /\ Going

CachesNext ==
  \/ \E c \in Calls, k \in Keys : (GetOrSetJson(c, k) \/ FetchForSet(c, k)) /\ Going
  \/ \E c \in Calls : (RedisMisses(c) \/ RedisHits(c) \/ RedisFails(c) \/ StoreInRedis(c)) /\ Going
  \/ \E c \in Calls : (ReadDatabase(c) \/ ProducerDone(c) \/ ProducerThrows(c) \/ SetJson(c)) /\ Going
  \/ \E keys \in Prefixes, k \in Keys : WriteDatabase(k, keys) /\ Asking
  \/ (InvalidateMemory \/ ScanPage \/ ScanFails \/ Restart) /\ Going
  \/ Tick /\ now < MaxTime /\ Going

\* One task, of the lot that expires first or from the dock.
FewTasks ==
  LET tasks == {d \in Papers : paper[d].kind = "task"}
  IN  /\ Cardinality(tasks) <= 1
      /\ \A d \in tasks : paper[d].lot = 1 \/ (paper[d].lot = 0 /\ paper[d].place = Dock)

BatchesNext ==
  \/ \E d \in Papers : (DraftPaper(d) \/ CancelDraft(d)) /\ Going /\ FewTasks'
  \/ \E p \in Hands : StartBatches(p) /\ Asking
  \/ \E p \in Hands : ContinueBatches(p) /\ Going
  \/ Hold /\ Asking
  \/ \E b \in Lots : ScanBatch(b) /\ Going

PickingNext ==
  \/ \E k \in PickLists : CreatePickList(k) /\ Going
  \/ \E s \in Shipments : CreateShipment(s) /\ Going
  \/ \E p \in Pickers : StartFulfilment(p) /\ Asking
  \/ \E p \in Pickers : ContinueFulfilment(p) /\ Going

MCNext ==
  \/ /\ part = "stages"
     /\ StagesNext
     /\ UNCHANGED <<manufacturingVars, countVars, cacheVars, batchVars, fulfilmentVars>>
  \/ /\ part = "orders"
     /\ OrdersNext
     /\ UNCHANGED <<productionVars, countVars, cacheVars, batchVars, fulfilmentVars>>
  \/ /\ part = "counts"
     /\ CountsNext
     /\ UNCHANGED <<productionVars, manufacturingVars, cacheVars, batchVars, fulfilmentVars>>
  \/ /\ part = "cache"
     /\ CachesNext
     /\ UNCHANGED <<productionVars, manufacturingVars, countVars, batchVars, fulfilmentVars>>
  \/ /\ part = "batches"
     /\ BatchesNext
     /\ UNCHANGED <<productionVars, manufacturingVars, countVars, cacheVars, fulfilmentVars>>
  \/ /\ part = "fulfilment"
     /\ PickingNext
     /\ UNCHANGED <<productionVars, manufacturingVars, countVars, cacheVars, batchVars>>

MCSpec ==
  MCInit /\ [][MCNext]_<<productionVars, manufacturingVars, countVars, cacheVars, batchVars,
                         fulfilmentVars, part, left>>

\* The components' processes are the same two, and so are their rows.
Symmetry == Permutations(Procs) \cup Permutations(Orders)
=============================================================================
