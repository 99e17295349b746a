------------------------- MODULE MCPersistenceStore -------------------------
(* PersistenceStore with arguments of getSnapshots on both sides of zero.  *)
EXTENDS PersistenceStore

MCLimits == -1..3
=============================================================================
