----------------------------- MODULE MCPodCache -----------------------------
(* Two objects that share an address, or one of two ports.                 *)
EXTENDS PodCache

CONSTANTS p, q

MCObjects == {p, q}
MCKeySets == {{"x"}, {"y"}, {"x", "y"}}
=============================================================================
