------------------------------- MODULE Factory -------------------------------
(***************************************************************************)
(* The factory and its warehouse: production batches, production orders,   *)
(* cycle counts, the cache, the batches of goods, and picking and          *)
(* shipping.  They share no row that a property is about.                  *)
(***************************************************************************)
EXTENDS ProductionBatches, ManufacturingOrders, CycleCounts, ShortCache, Batches, Fulfilment

FactorySpec ==
  /\ ProductionSpec /\ ManufacturingSpec /\ CountSpec
  /\ CacheSpec /\ BatchSpec /\ FulfilmentSpec

-----------------------------------------------------------------------------
\* The types of the six components.
FactoryTypeOK ==
  /\ ProductionTypeOK /\ ManufacturingTypeOK /\ CountTypeOK
  /\ CacheTypeOK /\ BatchTypeOK /\ FulfilmentTypeOK
=============================================================================
