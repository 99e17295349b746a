----------------------------- MODULE MCAggregator -----------------------------
(* Aggregator with the arguments of getSnapshots of MCPersistenceStore.    *)
EXTENDS Aggregator, MCPersistenceStore
=============================================================================
