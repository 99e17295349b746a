---------------------------- MODULE MCBlastRadius ----------------------------
(* BlastRadius on every subgraph of a eleven-edge graph of six services:   *)
(* two diamonds, a cycle through the root, a self-call, a parallel edge, a *)
(* chain of length three, and an entry point (gw) that is far away.        *)
EXTENDS BlastRadius

CONSTANTS db, pay, ord, cart, gw, idle, ghost

E(s, t) == [source |-> s, target |-> t, port |-> 80]

MCNodes == {db, pay, ord, cart, gw, idle}
MCEdgeIds ==
  {E(pay, db), E(ord, db), E(ord, pay), E(cart, ord), E(cart, pay),
   E(gw, ord), E(gw, cart), E(db, ord), E(pay, pay), E(cart, gw),
   [source |-> pay, target |-> db, port |-> 443]}
MCRoots == {db, pay, ghost}
MCIngress == {gw}
=============================================================================
