---------------------------- MODULE MCGraphEngine ----------------------------
(***************************************************************************)
(* Small instances of GraphEngine.                                         *)
(*  - EngineOutage: three services, gw and web call db, nothing calls gw   *)
(*    or web, and the simulator seeds all three.  One sample for each      *)
(*    call, so that what matters is who calls whom while outages come and  *)
(*    go and batches break off.  The name svcPay matches no node:          *)
(*    toggleAnomaly falls back to the node in the middle of the map.       *)
(*  - EngineWindow: one call, several samples that age out of the window.  *)
(***************************************************************************)
EXTENDS GraphEngine, TLC

CONSTANTS gw, web, db, none, svcDb, svcGw, svcPay

E(s, t) == [source |-> s, target |-> t, port |-> 80]

MCNodeIds == {gw, web, db}
MCNoNode == none
MCEdgeIds == {E(gw, db), E(web, db)}
MCOneEdge == {E(gw, db)}
MCSeeds == <<web, gw, db>>
MCServices == {svcDb, svcGw, svcPay}
MCMatches == (svcDb :> {db}) @@ (svcGw :> {gw}) @@ (svcPay :> {})
=============================================================================
