--------------------------- MODULE MCDashboardView ---------------------------
(***************************************************************************)
(* web calls api by two protocols and api calls db: a radius of two hops   *)
(* and two edges for one call.  The graph grows.                           *)
(***************************************************************************)
EXTENDS DashboardView

CONSTANTS web, api, db

E(s, t, p) == [source |-> s, target |-> t, protocol |-> p]

MCNodes == {web, api, db}
MCEdges == {E(web, api, "HTTP"), E(web, api, "gRPC"), E(api, db, "TCP")}
MCSmall == [nodes |-> {api, db}, edges |-> {E(api, db, "TCP")}]
MCFull == [nodes |-> MCNodes, edges |-> MCEdges]
MCGraphs == {MCSmall, MCFull}
MCMayFail == {db, E(api, db, "TCP")}
MCFilters == {[nodes |-> MCNodes, edges |-> MCEdges], [nodes |-> {web, api}, edges |-> MCEdges]}
MCHistory == <<[graph |-> MCSmall, failing |-> {}], [graph |-> MCFull, failing |-> {db}]>>
=============================================================================
