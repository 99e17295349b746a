----------------------------- MODULE BlastRadius -----------------------------
(***************************************************************************)
(* server/graph_engine.mjs, computeBlastRadius: a breadth-first search     *)
(* against the direction of the edges, from the failing service to its     *)
(* direct and transitive callers, and the severity derived from it.        *)
(*                                                                         *)
(* The search runs to completion on one thread, so that the graph does not *)
(* change under it; its inputs, the edges and the root, are chosen in Init *)
(* and kept.  Edges are records, so that two services may be connected     *)
(* more than once (protocol and port).  The insertion order of the edges   *)
(* is abstracted: the inner loop takes the incoming edges in any order.    *)
(***************************************************************************)
EXTENDS Naturals, Sequences, FiniteSets, Functions

CONSTANTS Nodes,    \* ids in this.nodes
          EdgeIds,  \* edges there may be: records with source, target, port
          Roots,    \* the argument; it may be an id that is not in Nodes
          Ingress   \* nodes of type INGRESS or named frontend or gateway

ASSUME BlastRadiusAssumption ==
  /\ IsFiniteSet(Nodes)
  /\ EdgeIds \subseteq [source : Nodes, target : Nodes, port : Nat]
  /\ Ingress \subseteq Nodes

(* Definitions with a faulty twin above them (MarkLate and MarkCaller, for  *)
(* instance) are the ones that Next uses.                                  *)

VARIABLES edges,     \* this.edges
          root,      \* rootCauseNodeId
          visited,
          queue,     \* of records [id, depth]
          affected,  \* of records [nodeId, depth]
          paths,     \* dependencyPaths: records [edge, depth]
          current,   \* the entry shifted from the queue
          pending,   \* incoming edges of current still to be looked at
          severity,  \* impactSeverity
          pc

vars == <<edges, root, visited, queue, affected, paths, current, pending, severity, pc>>
inputs == <<edges, root>>

Severities == {"NONE", "LOW", "MEDIUM", "HIGH", "CRITICAL"}

Init ==
  /\ edges \in SUBSET EdgeIds
  /\ root \in Roots
  /\ visited = {root}
  /\ queue = <<[id |-> root, depth |-> 0]>>
  /\ affected = << >>
  /\ paths = {}
  /\ current = [id |-> root, depth |-> 0]
  /\ pending = {}
  /\ severity = "NONE"
  /\ pc = "start"

-----------------------------------------------------------------------------
IncomingEdgesStale(n) == {e \in EdgeIds : e.target = n}
OutgoingEdges(n) == {e \in edges : e.source = n}
IncomingEdges(n) == {e \in edges : e.target = n}

(* The early return for an id that is not in the graph.                    *)
UnknownRoot ==
  /\ pc = "start"
  /\ root \notin Nodes
  /\ pc' = "done"
  /\ UNCHANGED <<inputs, visited, queue, affected, paths, current, pending, severity>>

Start ==
  /\ pc = "start"
  /\ root \in Nodes
  /\ pc' = "shift"
  /\ UNCHANGED <<inputs, visited, queue, affected, paths, current, pending, severity>>

(* The head of the outer loop.                                             *)
Peek ==
  /\ pc = "shift"
  /\ queue # << >>
  /\ current' = Head(queue)
  /\ pending' = IncomingEdges(Head(queue).id)
  /\ pc' = "edges"
  /\ UNCHANGED <<inputs, visited, queue, affected, paths, severity>>

Shift ==
  /\ pc = "shift"
  /\ queue # << >>
  /\ current' = Head(queue)
  /\ queue' = Tail(queue)
  /\ pending' = IncomingEdges(Head(queue).id)
  /\ pc' = "edges"
  /\ UNCHANGED <<inputs, visited, affected, paths, severity>>

(* One turn of the inner loop.  A caller seen for the first time is marked *)
(* when it enters the queue, not when it leaves it.                        *)
MarkLate(e) ==
  IF e.source \in visited \/ e.source = root
    THEN UNCHANGED <<visited, affected, queue>>
    ELSE LET d == current.depth + 1
         IN  /\ affected' = Append(affected, [nodeId |-> e.source, depth |-> d])
             /\ queue' = Append(queue, [id |-> e.source, depth |-> d])
             /\ visited' = visited \cup {current.id}

PushFront(e) ==
  IF e.source \in visited
    THEN UNCHANGED <<visited, affected, queue>>
    ELSE LET d == current.depth + 1
         IN  /\ visited' = visited \cup {e.source}
             /\ affected' = Append(affected, [nodeId |-> e.source, depth |-> d])
             /\ queue' = <<[id |-> e.source, depth |-> d]>> \o queue

MarkCaller(e) ==
  IF e.source \in visited
    THEN UNCHANGED <<visited, affected, queue>>
    ELSE LET d == current.depth + 1
         IN  /\ visited' = visited \cup {e.source}
             /\ affected' = Append(affected, [nodeId |-> e.source, depth |-> d])
             /\ queue' = Append(queue, [id |-> e.source, depth |-> d])

FollowEdge ==
  /\ pc = "edges"
  /\ \E e \in pending :
       /\ paths' = paths \cup {[edge |-> e, depth |-> current.depth + 1]}
       /\ pending' = pending \ {e}
       /\ MarkCaller(e)
  /\ UNCHANGED <<inputs, current, severity, pc>>

EdgesDone ==
  /\ pc = "edges"
  /\ pending = {}
  /\ pc' = "shift"
  /\ UNCHANGED <<inputs, visited, queue, affected, paths, current, pending, severity>>

(* hasIngress, and impactRatio compared with 0.4 and 0.2.                  *)
HasIngress == \E i \in DOMAIN affected : affected[i].nodeId \in Ingress
ImpactAbove(fifths) == 5 * Len(affected) > fifths * Cardinality(Nodes)

ImpactSeverity ==
  CASE HasIngress \/ ImpactAbove(2) -> "CRITICAL"
    [] ~(HasIngress \/ ImpactAbove(2)) /\ (ImpactAbove(1) \/ Len(affected) >= 2) -> "HIGH"
    [] ~(HasIngress \/ ImpactAbove(1)) /\ Len(affected) = 1 -> "MEDIUM"
    [] Len(affected) = 0 -> "LOW"

Finish ==
  /\ pc = "shift"
  /\ queue = << >>
  /\ severity' = ImpactSeverity
  /\ pc' = "done"
  /\ UNCHANGED <<inputs, visited, queue, affected, paths, current, pending>>

Next == UnknownRoot \/ Start \/ Shift \/ FollowEdge \/ EdgesDone \/ Finish

Spec == Init /\ [][Next]_vars

(* A single thread that nothing preempts.                                  *)
FairSpec == Spec /\ WF_vars(Next)

-----------------------------------------------------------------------------
(* Reference definitions, which say nothing of a search.                   *)

CallerClosed(S) == \A e \in edges : e.target \in S => e.source \in S

(* The direct and transitive callers of the root, the root included.       *)
Upstream == {n \in Nodes : \A S \in SUBSET Nodes : root \in S /\ CallerClosed(S) => n \in S}

(* Nodes at most k calls away from the root.                               *)
Within[k \in Nat] ==
  IF k = 0 THEN {root}
  ELSE Within[k - 1] \cup {e.source : e \in {f \in edges : f.target \in Within[k - 1]}}

AffectedIds == {affected[i].nodeId : i \in DOMAIN affected}

(* Types.                                                                  *)
TypeOK ==
  /\ edges \subseteq EdgeIds
  /\ root \in Roots
  /\ visited \subseteq Nodes \cup {root}
  /\ queue \in Seq([id : Nodes \cup {root}, depth : Nat])
  /\ affected \in Seq([nodeId : Nodes, depth : Nat])
  /\ paths \subseteq [edge : edges, depth : Nat]
  /\ current \in [id : Nodes \cup {root}, depth : Nat]
  /\ pending \subseteq edges
  /\ severity \in Severities
  /\ pc \in {"start", "shift", "edges", "done"}

(* The blast radius is exactly the set of transitive callers, also in a    *)
(* graph with cycles and parallel edges; the failing service itself is     *)
(* never listed among them, and an unknown id affects nothing.             *)
UpstreamExact ==
  pc = "done" => AffectedIds = IF root \in Nodes THEN Upstream \ {root} ELSE {}

QueueIds == {queue[i].id : i \in DOMAIN queue}

(* Why the search is right, at every turn of its loops: what is visited    *)
(* belongs to every caller-closed set around the root, and every call into *)
(* a visited service is accounted for, because its caller is visited, its  *)
(* target still waits in the queue, or the inner loop has yet to take it.  *)
SearchInvariant ==
  /\ root \in visited
  /\ QueueIds \subseteq visited
  /\ pc \in {"shift", "edges"} => root \in Nodes
  /\ pc = "done" /\ root \notin Nodes => visited = {root}
  /\ pc = "start" => visited = {root} /\ queue = <<[id |-> root, depth |-> 0]>>
  /\ pc = "edges" => /\ current.id \in visited
                     /\ \A e \in pending : e.target = current.id
  /\ \A S \in SUBSET Nodes : root \in S /\ CallerClosed(S) => visited \subseteq S
  /\ pc \in {"start", "shift", "edges"} =>
       \A e \in edges : e.target \in visited =>
         \/ e.source \in visited
         \/ e.target \in QueueIds
         \/ pc = "edges" /\ e \in pending
  /\ pc = "done" /\ root \in Nodes => CallerClosed(visited)

(* While the search runs, it only ever has real callers, each one once, so *)
(* that totalAffectedServices (and the ratio) counts services, not calls.  *)
NoneTwice ==
  /\ \A i, j \in DOMAIN affected : affected[i].nodeId = affected[j].nodeId => i = j
  /\ AffectedIds = visited \ {root}

(* The depth reported for a service ("hops upstream") is the length of the *)
(* shortest chain of calls from it to the failing one.                     *)
DepthShortest ==
  \A i \in DOMAIN affected :
    LET a == affected[i]
    IN  a.nodeId \in Within[a.depth] \ Within[a.depth - 1]

(* dependencyPaths has every call into the affected region, none other,    *)
(* each at one depth, one more than that of the service it calls.          *)
PathsExact ==
  /\ pc = "done" /\ root \in Nodes =>
       {p.edge : p \in paths} = {e \in edges : e.target \in Upstream}
  /\ \A p \in paths :
       p.edge.target \in Within[p.depth - 1]
         /\ (p.depth > 1 => p.edge.target \notin Within[p.depth - 2])

(* The severity is that of the transitive callers, each counted once:      *)
(* CRITICAL if an entry point is among them, through whatever chain, or    *)
(* they are more than two fifths of the graph; HIGH if not, but they are   *)
(* more than one fifth or at least two; LOW if there are none; and so      *)
(* MEDIUM is what is left.                                                 *)
SeverityRight ==
  pc = "done" /\ root \in Nodes =>
    LET callers == Upstream \ {root}
        share == 5 * Cardinality(callers)
    IN  /\ severity = "CRITICAL" <=>
              callers \cap Ingress # {} \/ share > 2 * Cardinality(Nodes)
        /\ severity = "HIGH" <=>
              /\ severity # "CRITICAL"
              /\ share > Cardinality(Nodes) \/ Cardinality(callers) >= 2
        /\ severity = "LOW" <=> callers = {}

(* What a client is told of each service and call, and of the whole, is    *)
(* right in the same answer: the distances, the dependency paths and the   *)
(* severity that computeBlastRadius works out on the way.                  *)
AnswerExact == DepthShortest /\ PathsExact /\ SeverityRight

(* The search ends on every graph, with cycles and self-calls too.         *)
Terminates == <>(pc = "done")
=============================================================================
