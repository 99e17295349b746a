---------------------------- MODULE DashboardView ----------------------------
(***************************************************************************)
(* What the page of public/app.js shows: the graph it holds, the SVG       *)
(* elements drawn of it, the filters, the inspector and the highlighting   *)
(* of a blast radius, whose answer is awaited.  How the data gets to the   *)
(* page is the subject of Dashboard; here any snapshot, tick, status or    *)
(* answer that a server could send may come at any time.                   *)
(*                                                                         *)
(* An element is drawn by render, plain except for the status of a node,   *)
(* and only updateSVGAttributes gives it the classes of highlighting and   *)
(* failure.  Of the metrics of a node or edge it only matters whether they *)
(* are those of a failing one.  Positions, particles, hulls and texts are  *)
(* left out.                                                               *)
(***************************************************************************)
EXTENDS Naturals, Sequences, FiniteSets, BagCount

CONSTANTS
  Nodes,
  Edges,     \* records with a source, a target and a protocol
  Graphs,    \* what a server may hold: records with nodes and edges
  MayFail,   \* the nodes and edges whose metrics change in the model
  Filters,   \* the nodes and edges that the controls let through
  History,   \* historicalSnapshots: a graph and what was failing
  NoNode,
  MaxAsks    \* bound of the model: blast radius requests under way

ASSUME DashboardViewAssumption ==
  /\ IsFiniteSet(Nodes)
  /\ \A e \in Edges : e.source \in Nodes /\ e.target \in Nodes
  /\ \A g \in Graphs :
       /\ g.nodes \subseteq Nodes /\ g.edges \subseteq Edges
       /\ \A e \in g.edges : e.source \in g.nodes /\ e.target \in g.nodes
  /\ \A f \in Filters : f.nodes \subseteq Nodes /\ f.edges \subseteq Edges
  /\ \A i \in DOMAIN History :
       /\ History[i].graph \in Graphs
       /\ History[i].failing \subseteq History[i].graph.nodes \cup History[i].graph.edges
       /\ History[i].failing \subseteq MayFail
  /\ NoNode \notin Nodes
  /\ MaxAsks \in Nat \ {0}

(* Definitions with a faulty twin above them (MarkAndAsk and Ask, for      *)
(* instance) are the ones that Next uses.                                  *)

VARIABLES
  graph,      \* this.nodes and this.edges
  failing,    \* those of them whose metrics are of a failing one
  filter,     \* namespaceFilter, searchTerm and protocolFilter
  live,       \* isLiveMode
  button,     \* anomalyActive
  asks,       \* blast radius requests not answered yet, by their root
  highlight,  \* blastRadiusNodeId, affectedNodeIds and affectedEdgeIds
  panel,      \* whose result the blast panel shows, NoNode while hidden
  selected,   \* selectedNodeId
  card,       \* whose metrics the inspector shows, and which
  listed,     \* the nodes in the inspector's lists of dependencies
  svg,        \* the elements of nodes and edges, and what they show
  stats       \* number of failing nodes in the header

data == <<graph, failing>>
blast == <<asks, highlight, panel>>
inspector == <<selected, card, listed>>
screen == <<svg, stats>>
vars == <<data, filter, live, button, blast, inspector, screen>>

NoGraph == [nodes |-> {}, edges |-> {}]
NoHighlight == [root |-> NoNode, nodes |-> {}, edges |-> {}]
NoCard == [of |-> NoNode, failing |-> FALSE]

Elements(g) == g.nodes \cup g.edges

-----------------------------------------------------------------------------
(* Drawing.                                                                *)

VisibleNodes(f, g) == g.nodes \cap f.nodes
VisibleEdges(f, g) ==
  {e \in g.edges \cap f.edges : {e.source, e.target} \subseteq VisibleNodes(f, g)}

(* render.                                                                 *)
Drawn(f, g, bad) ==
  [nodes |-> [n \in VisibleNodes(f, g) |-> [failing |-> n \in bad, halo |-> FALSE]],
   edges |-> [e \in VisibleEdges(f, g) |-> "normal"]]

Class(e, bad, h) ==
  IF e \in h.edges THEN "blast" ELSE IF e \in bad THEN "failing" ELSE "normal"

(* updateSVGAttributes, on the elements there are.                         *)
Attributed(s, bad, h) ==
  [nodes |-> [n \in DOMAIN s.nodes |-> [failing |-> n \in bad, halo |-> n \in h.nodes]],
   edges |-> [e \in DOMAIN s.edges |-> Class(e, bad, h)]]

(* updateHeaderStats.                                                      *)
HeaderStats == stats' = Cardinality(graph'.nodes \cap failing')

Init ==
  /\ graph = NoGraph /\ failing = {}
  /\ filter = [nodes |-> Nodes, edges |-> Edges]
  /\ live = TRUE /\ button = FALSE
  /\ asks = EmptyBag /\ highlight = NoHighlight /\ panel = NoNode
  /\ selected = NoNode /\ card = NoCard /\ listed = {}
  /\ svg = Drawn(filter, NoGraph, {}) /\ stats = 0

-----------------------------------------------------------------------------
(* The blast radius.                                                       *)

MarkAndAsk(root) ==
  /\ BagSize(asks) < MaxAsks
  /\ asks' = asks (+) SetToBag({root})
  /\ highlight' = [highlight EXCEPT !.root = root]
  /\ UNCHANGED panel

(* runBlastRadiusAnalysis up to its await.                                 *)
Ask(root) ==
  /\ BagSize(asks) < MaxAsks
  /\ asks' = asks (+) SetToBag({root})
  /\ UNCHANGED <<highlight, panel>>

(* What the server finds in its graph (computeBlastRadius, as BlastRadius  *)
(* shows): everything that the root is reached from, which is in every set *)
(* that has the root and all callers of its members.                       *)
CallerClosed(g, S) == \A e \in g.edges : e.target \in S => e.source \in S
Upstream(g, root) ==
  {n \in g.nodes : \A S \in SUBSET g.nodes : root \in S /\ CallerClosed(g, S) => n \in S}

(* The edges on the page between the ends of such a call, whichever their  *)
(* protocol.                                                               *)
Highlighted(g, root) ==
  LET up == Upstream(g, root)
      calls == {<<e.source, e.target>> : e \in {d \in g.edges : d.target \in up}}
  IN  [root  |-> root,
       nodes |-> up \ {root},
       edges |-> {e \in graph.edges : <<e.source, e.target>> \in calls}]

(* Its rest, when the answer has come.  The server's answer about a node   *)
(* it does not have lacks the list of services: the exception skips the    *)
(* redrawing.                                                              *)
Answer ==
  /\ \E root \in BagToSet(asks), g \in Graphs :
       /\ asks' = asks (-) SetToBag({root})
       /\ panel' = root
       /\ IF root \in g.nodes
            THEN /\ highlight' = Highlighted(g, root)
                 /\ svg' = Attributed(svg, failing, highlight')
            ELSE /\ highlight' = [NoHighlight EXCEPT !.root = root]
                 /\ UNCHANGED svg
  /\ UNCHANGED <<data, filter, live, button, inspector, stats>>

AnswerFails ==
  /\ \E root \in BagToSet(asks) : asks' = asks (-) SetToBag({root})
  /\ UNCHANGED <<data, filter, live, button, highlight, panel, inspector, screen>>

(* updateAnomalyState, on elements s: it asks for the blast radius of the  *)
(* node that is out, if there is one, or clears what is highlighted.       *)
UpdateAnomalyState(node, s) ==
  /\ button' = (node # NoNode)
  /\ IF node # NoNode THEN Ask(node) /\ svg' = s
     ELSE /\ highlight' = NoHighlight /\ panel' = NoNode
          /\ svg' = Attributed(s, failing', NoHighlight)
          /\ UNCHANGED asks

-----------------------------------------------------------------------------
(* Data that arrives.  bad is what is failing among the elements it has.   *)

Bad(g) == SUBSET (MayFail \cap Elements(g))

(* syncGraphData; render follows.                                          *)
SyncGraphData(g, bad) == graph' = g /\ failing' = bad /\ HeaderStats

SnapshotArrives ==
  /\ \E g \in Graphs : \E bad \in Bad(g), node \in g.nodes \cup {NoNode} :
       /\ SyncGraphData(g, bad)
       /\ UpdateAnomalyState(node, Drawn(filter, g, bad))
  /\ UNCHANGED <<filter, live, inspector>>

MeasuredOfMessage(g, bad) == (failing \ Elements(g)) \cup bad

(* updateMetrics: of the elements shown, those that the message has.       *)
Measured(g, bad) == (failing \ Elements(g)) \cup (bad \cap Elements(graph))

UpdateInspectorMetrics ==
  card' = IF selected \in graph'.nodes
            THEN [of |-> selected, failing |-> selected \in failing'] ELSE card

TickHeaderOnly ==
  /\ live
  /\ \E g \in Graphs : \E bad \in Bad(g) : failing' = Measured(g, bad)
  /\ UNCHANGED graph
  /\ HeaderStats
  /\ UpdateInspectorMetrics
  /\ UNCHANGED <<filter, live, button, blast, selected, listed, svg>>

Tick ==
  /\ live
  /\ \E g \in Graphs : \E bad \in Bad(g) : failing' = Measured(g, bad)
  /\ UNCHANGED graph
  /\ HeaderStats
  /\ svg' = Attributed(svg, failing', highlight)
  /\ UpdateInspectorMetrics
  /\ UNCHANGED <<filter, live, button, blast, selected, listed>>

(* pollTopology, in live mode: all of the above.                           *)
PollAnswered ==
  /\ live
  /\ \E g \in Graphs : \E bad \in Bad(g), node \in g.nodes \cup {NoNode} :
       LET s == Attributed(Drawn(filter, g, bad), bad, highlight) IN
       /\ SyncGraphData(g, bad)
       /\ IF button = (node # NoNode) THEN svg' = s /\ UNCHANGED <<button, blast>>
          ELSE UpdateAnomalyState(node, s)
  /\ UpdateInspectorMetrics
  /\ UNCHANGED <<filter, live, selected, listed>>

(* ANOMALY_STATUS, or the answer to a click of the outage button.          *)
StatusArrives ==
  /\ UNCHANGED data
  /\ \E node \in (UNION {g.nodes : g \in Graphs}) \cup {NoNode} :
       UpdateAnomalyState(node, svg)
  /\ UNCHANGED <<filter, live, inspector, stats>>

-----------------------------------------------------------------------------
(* The user.                                                               *)

FilterWithoutRender ==
  /\ filter' \in Filters
  /\ UNCHANGED <<data, live, button, blast, inspector, screen>>

(* The three controls, each of which renders again.                        *)
ChangeFilter ==
  /\ filter' \in Filters
  /\ svg' = Drawn(filter', graph, failing)
  /\ UNCHANGED <<data, live, button, blast, inspector, stats>>

(* scrubToHistoryIndex, from the slider or from playHistory.               *)
Scrub ==
  /\ \E i \in DOMAIN History :
       /\ live' = (i = Len(History))
       /\ SyncGraphData(History[i].graph, History[i].failing)
       /\ svg' = Drawn(filter, History[i].graph, History[i].failing)
  /\ UNCHANGED <<filter, button, blast, inspector>>

Neighbours(n) ==
  {e.source : e \in {d \in graph.edges : d.target = n}}
    \cup {e.target : e \in {d \in graph.edges : d.source = n}}

(* A click on a node, on an edge, or on a dependency in the inspector, who *)
(* may have left the graph by now; the inspector then keeps the metrics it *)
(* had.  Its lists are those of the graph when it was opened.              *)
Clickable == DOMAIN svg.nodes \cup {e.source : e \in DOMAIN svg.edges} \cup listed

OpenInspector ==
  /\ \E n \in Clickable :
       /\ selected' = n
       /\ card' = IF n \in graph.nodes THEN [of |-> n, failing |-> n \in failing] ELSE card
       /\ listed' = Neighbours(n)
  /\ panel' = NoNode
  /\ UNCHANGED <<data, filter, live, button, asks, highlight, screen>>

(* Nobody clicks in a closed inspector.                                    *)
CloseInspector ==
  /\ selected' = NoNode
  /\ listed' = {}
  /\ UNCHANGED <<data, filter, live, button, blast, card, screen>>

ComputeBlast ==
  /\ selected # NoNode
  /\ Ask(selected)
  /\ UNCHANGED <<data, filter, live, button, inspector, screen>>

Next ==
  \/ SnapshotArrives \/ Tick \/ PollAnswered \/ StatusArrives
  \/ Answer \/ AnswerFails
  \/ ChangeFilter \/ Scrub
  \/ OpenInspector \/ CloseInspector \/ ComputeBlast

Spec == Init /\ [][Next]_vars

(* The server ticks and, when the stream is down, the page polls (see      *)
(* Dashboard); the user and the server's graph are free.                   *)
FairSpec == Spec /\ WF_vars(Tick \/ PollAnswered)

-----------------------------------------------------------------------------
(* Types.                                                                  *)
TypeOK ==
  /\ graph \in Graphs \cup {NoGraph} /\ failing \subseteq MayFail \cap Elements(graph)
  /\ filter \in Filters \cup {[nodes |-> Nodes, edges |-> Edges]}
  /\ live \in BOOLEAN /\ button \in BOOLEAN
  /\ BagToSet(asks) \subseteq Nodes /\ BagSize(asks) <= MaxAsks
  /\ highlight \in [root : Nodes \cup {NoNode}, nodes : SUBSET Nodes, edges : SUBSET Edges]
  /\ panel \in Nodes \cup {NoNode} /\ selected \in Nodes \cup {NoNode}
  /\ card \in [of : Nodes \cup {NoNode}, failing : BOOLEAN] /\ listed \subseteq Nodes
  /\ DOMAIN svg.nodes \subseteq Nodes /\ DOMAIN svg.edges \subseteq Edges
  /\ stats \in 0..Cardinality(Nodes)

(* The drawing is of the graph that the page holds and what the filters    *)
(* let through, with the statuses it holds, and no edge is drawn without   *)
(* the nodes at its ends, whatever data, filter or replay came last.  The  *)
(* header counts the failing nodes of the same graph.                      *)
DrawingAgrees ==
  /\ DOMAIN svg.nodes = VisibleNodes(filter, graph)
  /\ DOMAIN svg.edges = VisibleEdges(filter, graph)
  /\ \A n \in DOMAIN svg.nodes : svg.nodes[n].failing <=> n \in failing
  /\ stats = Cardinality(graph.nodes \cap failing)

(* Answers to several requests may come in any order, after the outage has *)
(* been cleared, or after the inspector moved on: what is highlighted is   *)
(* one of them all the same.  The edges run among the nodes and the root,  *)
(* and the panel, when it is open, is about that root.                     *)
HighlightOfOneAnswer ==
  /\ highlight.root = NoNode => highlight = NoHighlight
  /\ highlight.root \notin highlight.nodes
  /\ \A e \in highlight.edges :
       {e.source, e.target} \subseteq highlight.nodes \cup {highlight.root}
  /\ panel \in {NoNode, highlight.root}

Current ==
  /\ svg = Attributed(svg, failing, highlight)
  /\ selected \in graph.nodes => card = [of |-> selected, failing |-> selected \in failing]

(* render draws an element plain and the answer to a blast radius request  *)
(* may break off before the redrawing; in live mode the next tick or poll  *)
(* repairs the highlighting, the failing edges and the inspector.          *)
DisplayCatchesUp == []<>(Current \/ ~live)
=============================================================================
