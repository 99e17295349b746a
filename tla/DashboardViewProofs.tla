------------------------- MODULE DashboardViewProofs -------------------------
(***************************************************************************)
(* Theorems about DashboardView, for every graph that a server may hold,   *)
(* all filters and histories and any number of requests under way: its     *)
(* types, that the drawing is of the graph held, and that a highlighting   *)
(* is of one answer.  ViewInv is inductive.                                *)
(***************************************************************************)
EXTENDS DashboardView, DataLemmas

(* TypeOK with what it says of asks in the form that the bag lemmas use.   *)
ViewTypes ==
  /\ graph \in Graphs \cup {NoGraph} /\ failing \subseteq MayFail \cap Elements(graph)
  /\ filter \in Filters \cup {[nodes |-> Nodes, edges |-> Edges]}
  /\ live \in BOOLEAN /\ button \in BOOLEAN
  /\ highlight \in [root : Nodes \cup {NoNode}, nodes : SUBSET Nodes, edges : SUBSET Edges]
  /\ panel \in Nodes \cup {NoNode} /\ selected \in Nodes \cup {NoNode}
  /\ card \in [of : Nodes \cup {NoNode}, failing : BOOLEAN] /\ listed \subseteq Nodes
  /\ DOMAIN svg.nodes \subseteq Nodes /\ DOMAIN svg.edges \subseteq Edges
  /\ stats \in 0..Cardinality(Nodes)
AskedOf(b) == Bag(b, Nodes) /\ BagSize(b) <= MaxAsks

ViewInv == ViewTypes /\ AskedOf(asks) /\ DrawingAgrees /\ HighlightOfOneAnswer

-----------------------------------------------------------------------------
(* The operators.                                                          *)

(* The graphs that the page may hold have the nodes at the ends of their   *)
(* edges.                                                                  *)
LEMMA GraphParts ==
  ASSUME NEW g \in Graphs \cup {NoGraph}
  PROVE  /\ g.nodes \subseteq Nodes /\ g.edges \subseteq Edges
         /\ \A e \in g.edges : e.source \in g.nodes /\ e.target \in g.nodes
  BY DashboardViewAssumption DEF NoGraph, DashboardViewAssumption

(* What is drawn is what the filters let through.                          *)
LEMMA DrawnParts ==
  ASSUME NEW g \in Graphs \cup {NoGraph}, NEW f, NEW bad
  PROVE  /\ DOMAIN Drawn(f, g, bad).nodes = VisibleNodes(f, g)
         /\ DOMAIN Drawn(f, g, bad).edges = VisibleEdges(f, g)
         /\ \A n \in VisibleNodes(f, g) : Drawn(f, g, bad).nodes[n].failing <=> n \in bad
         /\ VisibleNodes(f, g) \subseteq Nodes /\ VisibleEdges(f, g) \subseteq Edges
  BY GraphParts DEF Drawn, VisibleNodes, VisibleEdges

(* Attributes are set on the elements there are.                           *)
LEMMA AttributedParts ==
  ASSUME NEW s, NEW bad, NEW h
  PROVE  /\ DOMAIN Attributed(s, bad, h).nodes = DOMAIN s.nodes
         /\ DOMAIN Attributed(s, bad, h).edges = DOMAIN s.edges
         /\ \A n \in DOMAIN s.nodes : Attributed(s, bad, h).nodes[n].failing <=> n \in bad
  BY DEF Attributed

(* The header counts some of the nodes.                                    *)
LEMMA StatsBound ==
  ASSUME NEW S, S \subseteq Nodes, NEW bad
  PROVE  Cardinality(S \cap bad) \in 0..Cardinality(Nodes)
<1>1. IsFiniteSet(Nodes) /\ S \cap bad \in SUBSET Nodes
  BY DashboardViewAssumption DEF DashboardViewAssumption
<1>2. IsFiniteSet(S \cap bad) /\ Cardinality(S \cap bad) <= Cardinality(Nodes)
  BY <1>1, FS_Subset
<1>3. Cardinality(S \cap bad) \in Nat /\ Cardinality(Nodes) \in Nat
  BY <1>1, <1>2, FS_CardinalityType
<1> QED
  BY <1>2, <1>3

(* The upstream has the callers of its members, however long the chains.   *)
LEMMA UpstreamClosed ==
  ASSUME NEW g \in Graphs, NEW root \in g.nodes
  PROVE  /\ Upstream(g, root) \subseteq g.nodes /\ root \in Upstream(g, root)
         /\ CallerClosed(g, Upstream(g, root))
<1>1. \A e \in g.edges : e.source \in g.nodes
  BY GraphParts
<1> QED
  BY <1>1 DEF Upstream, CallerClosed

(* What is highlighted for an answer lies among its root and its nodes.    *)
LEMMA HighlightedParts ==
  ASSUME NEW g \in Graphs, NEW root \in g.nodes, graph \in Graphs \cup {NoGraph}
  PROVE  LET h == Highlighted(g, root) IN
         /\ h \in [root : Nodes \cup {NoNode}, nodes : SUBSET Nodes, edges : SUBSET Edges]
         /\ h.root = root /\ h.root \notin h.nodes
         /\ \A e \in h.edges : {e.source, e.target} \subseteq h.nodes \cup {h.root}
<1> DEFINE up == Upstream(g, root)
           calls == {<<e.source, e.target>> : e \in {d \in g.edges : d.target \in up}}
           E == {e \in graph.edges : <<e.source, e.target>> \in calls}
<1>1. Highlighted(g, root) = [root |-> root, nodes |-> up \ {root}, edges |-> E]
  BY DEF Highlighted
<1>2. /\ up \subseteq g.nodes /\ root \in up /\ CallerClosed(g, up) /\ g.nodes \subseteq Nodes
  BY UpstreamClosed, GraphParts
<1>3. E \subseteq Edges
  BY GraphParts
<1>4. ASSUME NEW e \in E PROVE e.source \in up /\ e.target \in up
  <2>1. PICK d \in g.edges : d.target \in up /\ <<e.source, e.target>> = <<d.source, d.target>>
    BY <1>4
  <2> QED
    BY <1>2, <2>1 DEF CallerClosed
<1> HIDE DEF up, E
<1> QED
  BY <1>1, <1>2, <1>3, <1>4

-----------------------------------------------------------------------------
(* The three parts of a step.                                              *)

(* A request more, or nothing asked.                                       *)
LEMMA AskOne ==
  ASSUME AskedOf(asks), NEW root \in Nodes, Ask(root)
  PROVE  AskedOf(asks')
<1>1. BagSize(asks) \in Nat /\ MaxAsks \in Nat
  BY BagSizeType, DashboardViewAssumption DEF AskedOf, DashboardViewAssumption
<1>2. Bag(asks', Nodes) /\ BagSize(asks') = BagSize(asks) + 1
  BY BagAdded DEF Ask, AskedOf
<1> QED
  BY <1>1, <1>2 DEF Ask, AskedOf

(* A request fewer.                                                        *)
LEMMA AnswerOne ==
  ASSUME AskedOf(asks), NEW root \in BagToSet(asks), asks' = asks (-) SetToBag({root})
  PROVE  AskedOf(asks') /\ root \in Nodes
<1>1. BagSize(asks) \in Nat /\ MaxAsks \in Nat /\ root \in DOMAIN asks
  BY BagSizeType, DashboardViewAssumption DEF AskedOf, DashboardViewAssumption, BagToSet
<1>2. Bag(asks', Nodes) /\ BagSize(asks') = BagSize(asks) - 1
  BY <1>1, BagRemoved DEF AskedOf
<1>3. BagSize(asks) <= MaxAsks /\ DOMAIN asks \subseteq Nodes
  BY DEF AskedOf, Bag
<1>4. BagSize(asks') <= MaxAsks
  BY <1>1, <1>2, <1>3
<1> QED
  BY <1>1, <1>2, <1>3, <1>4 DEF AskedOf

(* The data is replaced and drawn again.                                   *)
LEMMA Redrawn ==
  ASSUME NEW g \in Graphs, NEW bad, bad \subseteq MayFail \cap Elements(g),
         SyncGraphData(g, bad), UNCHANGED filter,
         DOMAIN svg'.nodes = VisibleNodes(filter, g), DOMAIN svg'.edges = VisibleEdges(filter, g),
         \A n \in VisibleNodes(filter, g) : svg'.nodes[n].failing <=> n \in bad
  PROVE  /\ graph' \in Graphs /\ failing' \subseteq MayFail \cap Elements(graph')
         /\ DOMAIN svg'.nodes \subseteq Nodes /\ DOMAIN svg'.edges \subseteq Edges
         /\ stats' \in 0..Cardinality(Nodes)
         /\ DrawingAgrees'
<1>1. graph' = g /\ failing' = bad /\ stats' = Cardinality(g.nodes \cap bad)
  BY DEF SyncGraphData, HeaderStats
<1>2. g.nodes \subseteq Nodes /\ g.edges \subseteq Edges
  BY GraphParts
<1>3. stats' \in 0..Cardinality(Nodes)
  BY <1>1, <1>2, StatsBound
<1>4. VisibleNodes(filter, g) \subseteq Nodes /\ VisibleEdges(filter, g) \subseteq Edges
  BY <1>2 DEF VisibleNodes, VisibleEdges
<1>5. DrawingAgrees'
  BY <1>1 DEF DrawingAgrees, VisibleNodes, VisibleEdges
<1> QED
  BY <1>1, <1>3, <1>4, <1>5

(* updateAnomalyState leaves the highlighting alone or clears all of it.   *)
LEMMA AnomalyState ==
  ASSUME ViewInv, NEW node \in Nodes \cup {NoNode}, NEW s, UpdateAnomalyState(node, s)
  PROVE  /\ button' \in BOOLEAN /\ AskedOf(asks') /\ HighlightOfOneAnswer'
         /\ highlight' \in [root : Nodes \cup {NoNode}, nodes : SUBSET Nodes, edges : SUBSET Edges]
         /\ panel' \in Nodes \cup {NoNode}
         /\ svg' = s \/ svg' = Attributed(s, failing', NoHighlight)
<1>1. CASE node # NoNode
  <2>1. Ask(node) /\ svg' = s /\ button' = TRUE /\ node \in Nodes
    BY <1>1 DEF UpdateAnomalyState
  <2>2. AskedOf(asks') /\ UNCHANGED <<highlight, panel>>
    BY <2>1, AskOne DEF ViewInv, Ask
  <2> QED
    BY <2>1, <2>2 DEF ViewInv, ViewTypes, HighlightOfOneAnswer
<1>2. CASE node = NoNode
  <2>1. /\ highlight' = NoHighlight /\ panel' = NoNode /\ asks' = asks /\ button' = FALSE
        /\ svg' = Attributed(s, failing', NoHighlight)
    BY <1>2 DEF UpdateAnomalyState
  <2>2. HighlightOfOneAnswer'
    BY <2>1 DEF NoHighlight, HighlightOfOneAnswer
  <2> QED
    BY <2>1, <2>2 DEF ViewInv, NoHighlight
<1> QED
  BY <1>1, <1>2

-----------------------------------------------------------------------------
(* The page before anything has arrived.                                   *)
LEMMA ViewInit == Init => ViewInv
<1> SUFFICES ASSUME Init PROVE ViewInv
  OBVIOUS
<1>1. /\ DOMAIN svg.nodes = {} /\ DOMAIN svg.edges = {}
      /\ VisibleNodes(filter, graph) = {} /\ VisibleEdges(filter, graph) = {}
  BY DEF Init, Drawn, VisibleNodes, VisibleEdges, NoGraph
<1>2. AskedOf(asks)
  <2>1. Bag(asks, Nodes) /\ BagSize(asks) = 0
    BY BagEmpty DEF Init
  <2> QED
    BY <2>1, DashboardViewAssumption DEF AskedOf, DashboardViewAssumption
<1>3. graph.nodes \cap failing = {} /\ stats = 0 /\ Cardinality({}) = 0
  BY FS_EmptySet DEF Init
<1>4. IsFiniteSet(Nodes) /\ Cardinality(Nodes) \in Nat
  BY DashboardViewAssumption, FS_CardinalityType DEF DashboardViewAssumption
<1>5. DrawingAgrees
  BY <1>1, <1>3 DEF DrawingAgrees
<1>6. HighlightOfOneAnswer
  BY DEF Init, HighlightOfOneAnswer, NoHighlight
<1>7. /\ graph = NoGraph /\ failing = {} /\ filter = [nodes |-> Nodes, edges |-> Edges]
      /\ live = TRUE /\ button = FALSE /\ panel = NoNode /\ selected = NoNode /\ listed = {}
      /\ highlight \in [root : Nodes \cup {NoNode}, nodes : SUBSET Nodes, edges : SUBSET Edges]
      /\ card \in [of : Nodes \cup {NoNode}, failing : BOOLEAN]
  BY DEF Init, NoHighlight, NoCard
<1>8. stats \in 0..Cardinality(Nodes) /\ live \in BOOLEAN /\ button \in BOOLEAN
  <2>1. stats \in 0..Cardinality(Nodes)
    BY <1>3, <1>4
  <2> QED
    BY <1>7, <2>1
<1>9. ViewTypes
  BY <1>1, <1>7, <1>8 DEF ViewTypes
<1> QED
  BY <1>2, <1>5, <1>6, <1>9 DEF ViewInv

(* SNAPSHOT: new data, drawn plain, and then the outage.                   *)
LEMMA ViewSnapshot == ViewInv /\ SnapshotArrives => ViewInv'
<1> SUFFICES ASSUME ViewInv, SnapshotArrives PROVE ViewInv'
  OBVIOUS
<1>0. PICK g \in Graphs : \E bad \in Bad(g), node \in g.nodes \cup {NoNode} :
        /\ SyncGraphData(g, bad)
        /\ UpdateAnomalyState(node, Drawn(filter, g, bad))
  BY DEF SnapshotArrives
<1>1. PICK bad \in Bad(g), node \in g.nodes \cup {NoNode} :
        /\ SyncGraphData(g, bad)
        /\ UpdateAnomalyState(node, Drawn(filter, g, bad))
  BY <1>0
<1>2. UNCHANGED <<filter, live, selected, card, listed>>
  BY DEF SnapshotArrives, inspector
<1>3. bad \subseteq MayFail \cap Elements(g) /\ node \in Nodes \cup {NoNode}
  BY GraphParts DEF Bad
<1> DEFINE s == Drawn(filter, g, bad)
<1>4. /\ DOMAIN s.nodes = VisibleNodes(filter, g) /\ DOMAIN s.edges = VisibleEdges(filter, g)
      /\ \A n \in VisibleNodes(filter, g) : s.nodes[n].failing <=> n \in bad
  BY DrawnParts
<1>5. UpdateAnomalyState(node, s)
  BY <1>1
<1> HIDE DEF s
<1>6. /\ button' \in BOOLEAN /\ AskedOf(asks') /\ HighlightOfOneAnswer'
      /\ highlight' \in [root : Nodes \cup {NoNode}, nodes : SUBSET Nodes, edges : SUBSET Edges]
      /\ panel' \in Nodes \cup {NoNode}
      /\ svg' = s \/ svg' = Attributed(s, failing', NoHighlight)
  BY <1>3, <1>5, AnomalyState
<1>7. failing' = bad
  BY <1>1 DEF SyncGraphData
<1>8. /\ DOMAIN svg'.nodes = VisibleNodes(filter, g) /\ DOMAIN svg'.edges = VisibleEdges(filter, g)
      /\ \A n \in VisibleNodes(filter, g) : svg'.nodes[n].failing <=> n \in bad
  BY <1>4, <1>6, <1>7, AttributedParts
<1>9. /\ graph' \in Graphs /\ failing' \subseteq MayFail \cap Elements(graph')
      /\ DOMAIN svg'.nodes \subseteq Nodes /\ DOMAIN svg'.edges \subseteq Edges
      /\ stats' \in 0..Cardinality(Nodes)
      /\ DrawingAgrees'
  BY <1>1, <1>2, <1>3, <1>8, Redrawn
<1>10. ViewTypes'
  BY <1>2, <1>6, <1>9 DEF ViewInv, ViewTypes
<1> QED
  BY <1>6, <1>9, <1>10 DEF ViewInv

(* The inspector shows metrics of the node it is about, or keeps them.     *)
LEMMA CardTyped ==
  ASSUME ViewTypes, UpdateInspectorMetrics
  PROVE  card' \in [of : Nodes \cup {NoNode}, failing : BOOLEAN]
<1>1. card \in [of : Nodes \cup {NoNode}, failing : BOOLEAN] /\ selected \in Nodes \cup {NoNode}
  BY DEF ViewTypes
<1>2. CASE selected \in graph'.nodes
  <2>1. card' = [of |-> selected, failing |-> selected \in failing']
    BY <1>2 DEF UpdateInspectorMetrics
  <2>2. (selected \in failing') \in BOOLEAN
    OBVIOUS
  <2> QED
    BY <1>1, <2>1, <2>2
<1>3. CASE selected \notin graph'.nodes
  BY <1>1, <1>3 DEF UpdateInspectorMetrics
<1> QED
  BY <1>2, <1>3

(* METRICS_TICK: the elements drawn are those there were.                  *)
LEMMA ViewTick == ViewInv /\ Tick => ViewInv'
<1> SUFFICES ASSUME ViewInv, Tick PROVE ViewInv'
  OBVIOUS
<1>0. PICK g \in Graphs : \E bad \in Bad(g) : failing' = Measured(g, bad)
  BY DEF Tick
<1>1. PICK bad \in Bad(g) : failing' = Measured(g, bad)
  BY <1>0
<1>2. /\ UNCHANGED <<graph, filter, live, button, asks, highlight, panel, selected, listed>>
      /\ svg' = Attributed(svg, failing', highlight)
      /\ stats' = Cardinality(graph.nodes \cap failing')
      /\ UpdateInspectorMetrics
  BY DEF Tick, HeaderStats, blast
<1>3. failing' \subseteq MayFail \cap Elements(graph)
  BY <1>1 DEF ViewInv, ViewTypes, Measured, Bad
<1>4. stats' \in 0..Cardinality(Nodes)
  <2>1. graph.nodes \subseteq Nodes
    BY GraphParts DEF ViewInv, ViewTypes
  <2> QED
    BY <1>2, <2>1, StatsBound
<1>5. /\ DOMAIN svg'.nodes = DOMAIN svg.nodes /\ DOMAIN svg'.edges = DOMAIN svg.edges
      /\ \A n \in DOMAIN svg'.nodes : svg'.nodes[n].failing <=> n \in failing'
  BY <1>2, AttributedParts
<1>6. DrawingAgrees'
  BY <1>2, <1>5 DEF ViewInv, DrawingAgrees
<1>7. ViewTypes'
  BY <1>2, <1>3, <1>4, <1>5, CardTyped DEF ViewInv, ViewTypes
<1> QED
  BY <1>2, <1>6, <1>7 DEF ViewInv, HighlightOfOneAnswer

(* A poll's answer: a snapshot and a tick in one.                          *)
LEMMA ViewPoll == ViewInv /\ PollAnswered => ViewInv'
<1> SUFFICES ASSUME ViewInv, PollAnswered PROVE ViewInv'
  OBVIOUS
<1>0. PICK g \in Graphs : \E bad \in Bad(g), node \in g.nodes \cup {NoNode} :
       LET s == Attributed(Drawn(filter, g, bad), bad, highlight) IN
       /\ SyncGraphData(g, bad)
       /\ IF button = (node # NoNode) THEN svg' = s /\ UNCHANGED <<button, blast>>
          ELSE UpdateAnomalyState(node, s)
  BY DEF PollAnswered
<1>1. PICK bad \in Bad(g), node \in g.nodes \cup {NoNode} :
       LET s == Attributed(Drawn(filter, g, bad), bad, highlight) IN
       /\ SyncGraphData(g, bad)
       /\ IF button = (node # NoNode) THEN svg' = s /\ UNCHANGED <<button, blast>>
          ELSE UpdateAnomalyState(node, s)
  BY <1>0
<1> DEFINE s == Attributed(Drawn(filter, g, bad), bad, highlight)
<1>2. /\ UNCHANGED <<filter, live, selected, listed>>
      /\ UpdateInspectorMetrics
  BY DEF PollAnswered
<1>3. bad \subseteq MayFail \cap Elements(g) /\ node \in Nodes \cup {NoNode}
  BY GraphParts DEF Bad
<1>4. /\ DOMAIN s.nodes = VisibleNodes(filter, g) /\ DOMAIN s.edges = VisibleEdges(filter, g)
      /\ \A n \in VisibleNodes(filter, g) : s.nodes[n].failing <=> n \in bad
  BY DrawnParts, AttributedParts
<1>5. /\ SyncGraphData(g, bad)
      /\ \/ svg' = s /\ UNCHANGED <<button, asks, highlight, panel>>
         \/ UpdateAnomalyState(node, s)
  BY <1>1 DEF blast
<1> HIDE DEF s
<1>6. /\ button' \in BOOLEAN /\ AskedOf(asks') /\ HighlightOfOneAnswer'
      /\ highlight' \in [root : Nodes \cup {NoNode}, nodes : SUBSET Nodes, edges : SUBSET Edges]
      /\ panel' \in Nodes \cup {NoNode}
      /\ svg' = s \/ svg' = Attributed(s, failing', NoHighlight)
  <2>1. CASE svg' = s /\ UNCHANGED <<button, asks, highlight, panel>>
    BY <2>1 DEF ViewInv, ViewTypes, HighlightOfOneAnswer
  <2>2. CASE UpdateAnomalyState(node, s)
    BY <1>3, <2>2, AnomalyState
  <2> QED
    BY <1>5, <2>1, <2>2
<1>7. failing' = bad
  BY <1>5 DEF SyncGraphData
<1>8. /\ DOMAIN svg'.nodes = VisibleNodes(filter, g) /\ DOMAIN svg'.edges = VisibleEdges(filter, g)
      /\ \A n \in VisibleNodes(filter, g) : svg'.nodes[n].failing <=> n \in bad
  BY <1>4, <1>6, <1>7, AttributedParts
<1>9. /\ graph' \in Graphs /\ failing' \subseteq MayFail \cap Elements(graph')
      /\ DOMAIN svg'.nodes \subseteq Nodes /\ DOMAIN svg'.edges \subseteq Edges
      /\ stats' \in 0..Cardinality(Nodes)
      /\ DrawingAgrees'
  BY <1>2, <1>3, <1>5, <1>8, Redrawn
<1>10. ViewTypes'
  BY <1>2, <1>6, <1>9, CardTyped DEF ViewInv, ViewTypes
<1> QED
  BY <1>6, <1>9, <1>10 DEF ViewInv

(* ANOMALY_STATUS: the same data, highlighted anew.                        *)
LEMMA ViewStatus == ViewInv /\ StatusArrives => ViewInv'
<1> SUFFICES ASSUME ViewInv, StatusArrives PROVE ViewInv'
  OBVIOUS
<1>1. PICK node \in (UNION {g.nodes : g \in Graphs}) \cup {NoNode} : UpdateAnomalyState(node, svg)
  BY DEF StatusArrives
<1>2. UNCHANGED <<graph, failing, filter, live, selected, card, listed, stats>>
  BY DEF StatusArrives, data, inspector
<1>3. node \in Nodes \cup {NoNode}
  BY GraphParts
<1>4. /\ button' \in BOOLEAN /\ AskedOf(asks') /\ HighlightOfOneAnswer'
      /\ highlight' \in [root : Nodes \cup {NoNode}, nodes : SUBSET Nodes, edges : SUBSET Edges]
      /\ panel' \in Nodes \cup {NoNode}
      /\ svg' = svg \/ svg' = Attributed(svg, failing', NoHighlight)
  BY <1>1, <1>3, AnomalyState
<1>5. /\ DOMAIN svg'.nodes = DOMAIN svg.nodes /\ DOMAIN svg'.edges = DOMAIN svg.edges
      /\ \A n \in DOMAIN svg'.nodes : svg'.nodes[n].failing <=> n \in failing'
  BY <1>2, <1>4, AttributedParts DEF ViewInv, DrawingAgrees
<1>6. DrawingAgrees'
  BY <1>2, <1>5 DEF ViewInv, DrawingAgrees
<1>7. ViewTypes'
  BY <1>2, <1>4, <1>5 DEF ViewInv, ViewTypes
<1> QED
  BY <1>4, <1>6, <1>7 DEF ViewInv

(* An answer replaces the whole highlighting, also one without services.   *)
LEMMA ViewAnswer == ViewInv /\ Answer => ViewInv'
<1> SUFFICES ASSUME ViewInv, Answer PROVE ViewInv'
  OBVIOUS
<1>1. PICK root \in BagToSet(asks), g \in Graphs :
       /\ asks' = asks (-) SetToBag({root})
       /\ panel' = root
       /\ IF root \in g.nodes
            THEN /\ highlight' = Highlighted(g, root)
                 /\ svg' = Attributed(svg, failing, highlight')
            ELSE /\ highlight' = [NoHighlight EXCEPT !.root = root]
                 /\ UNCHANGED svg
  BY DEF Answer
<1>2. UNCHANGED <<graph, failing, filter, live, button, selected, card, listed, stats>>
  BY DEF Answer, data, inspector
<1>3. AskedOf(asks') /\ root \in Nodes /\ root # NoNode
  BY <1>1, AnswerOne, DashboardViewAssumption DEF ViewInv, DashboardViewAssumption
<1>4. /\ highlight' \in [root : Nodes \cup {NoNode}, nodes : SUBSET Nodes, edges : SUBSET Edges]
      /\ highlight'.root = root /\ highlight'.root \notin highlight'.nodes
      /\ \A e \in highlight'.edges :
           {e.source, e.target} \subseteq highlight'.nodes \cup {highlight'.root}
  <2>1. CASE root \in g.nodes
    <3>1. highlight' = Highlighted(g, root)
      BY <1>1, <2>1
    <3> QED
      BY <2>1, <3>1, HighlightedParts DEF ViewInv, ViewTypes
  <2>2. CASE root \notin g.nodes
    <3>1. highlight' = [root |-> root, nodes |-> {}, edges |-> {}]
      BY <1>1, <2>2 DEF NoHighlight
    <3> QED
      BY <1>3, <3>1
  <2> QED
    BY <2>1, <2>2
<1>5. HighlightOfOneAnswer'
  BY <1>1, <1>3, <1>4 DEF HighlightOfOneAnswer
<1>6. /\ DOMAIN svg'.nodes = DOMAIN svg.nodes /\ DOMAIN svg'.edges = DOMAIN svg.edges
      /\ \A n \in DOMAIN svg'.nodes : svg'.nodes[n].failing <=> n \in failing
  <2>1. svg' = svg \/ svg' = Attributed(svg, failing, highlight')
    BY <1>1
  <2> QED
    BY <2>1, AttributedParts DEF ViewInv, DrawingAgrees
<1>7. DrawingAgrees'
  BY <1>2, <1>6 DEF ViewInv, DrawingAgrees
<1>8. ViewTypes'
  BY <1>1, <1>2, <1>3, <1>4, <1>6 DEF ViewInv, ViewTypes
<1> QED
  BY <1>3, <1>5, <1>7, <1>8 DEF ViewInv

(* The user draws other data or other parts of it.                         *)
LEMMA ViewRedraws == ViewInv /\ (ChangeFilter \/ Scrub) => ViewInv'
<1> SUFFICES ASSUME ViewInv, ChangeFilter \/ Scrub PROVE ViewInv'
  OBVIOUS
<1>0. graph \in Graphs \cup {NoGraph}
  BY DEF ViewInv, ViewTypes
<1>1. CASE ChangeFilter
  <2>1. /\ filter' \in Filters /\ svg' = Drawn(filter', graph, failing)
        /\ UNCHANGED <<graph, failing, live, button, asks, highlight, panel, selected, card,
                       listed, stats>>
    BY <1>1 DEF ChangeFilter, data, blast, inspector
  <2>2. /\ DOMAIN svg'.nodes = VisibleNodes(filter', graph)
        /\ DOMAIN svg'.edges = VisibleEdges(filter', graph)
        /\ \A n \in DOMAIN svg'.nodes : svg'.nodes[n].failing <=> n \in failing
        /\ DOMAIN svg'.nodes \subseteq Nodes /\ DOMAIN svg'.edges \subseteq Edges
    BY <1>0, <2>1, DrawnParts
  <2>3. DrawingAgrees'
    BY <2>1, <2>2 DEF ViewInv, DrawingAgrees, VisibleNodes, VisibleEdges
  <2>4. ViewTypes'
    BY <2>1, <2>2 DEF ViewInv, ViewTypes
  <2> QED
    BY <2>1, <2>3, <2>4 DEF ViewInv, HighlightOfOneAnswer
<1>2. CASE Scrub
  <2>1. PICK i \in DOMAIN History :
          /\ live' = (i = Len(History))
          /\ SyncGraphData(History[i].graph, History[i].failing)
          /\ svg' = Drawn(filter, History[i].graph, History[i].failing)
    BY <1>2 DEF Scrub
  <2>2. UNCHANGED <<filter, button, asks, highlight, panel, selected, card, listed>>
    BY <1>2 DEF Scrub, blast, inspector
  <2> DEFINE g == History[i].graph
             bad == History[i].failing
  <2>3. g \in Graphs /\ bad \subseteq MayFail \cap Elements(g)
    BY DashboardViewAssumption DEF DashboardViewAssumption, Elements
  <2>4. SyncGraphData(g, bad) /\ svg' = Drawn(filter, g, bad)
    BY <2>1
  <2> HIDE DEF g, bad
  <2>5. /\ DOMAIN svg'.nodes = VisibleNodes(filter, g) /\ DOMAIN svg'.edges = VisibleEdges(filter, g)
        /\ \A n \in VisibleNodes(filter, g) : svg'.nodes[n].failing <=> n \in bad
    BY <2>3, <2>4, DrawnParts
  <2>6. /\ graph' \in Graphs /\ failing' \subseteq MayFail \cap Elements(graph')
        /\ DOMAIN svg'.nodes \subseteq Nodes /\ DOMAIN svg'.edges \subseteq Edges
        /\ stats' \in 0..Cardinality(Nodes)
        /\ DrawingAgrees'
    BY <2>2, <2>3, <2>4, <2>5, Redrawn
  <2>7. live' \in BOOLEAN
    BY <2>1
  <2>8. ViewTypes'
    BY <2>2, <2>6, <2>7 DEF ViewInv, ViewTypes
  <2> QED
    BY <2>2, <2>6, <2>8 DEF ViewInv, HighlightOfOneAnswer
<1> QED
  BY <1>1, <1>2

(* The user inspects, which draws nothing.                                 *)
LEMMA ViewInspects ==
  ViewInv /\ (OpenInspector \/ CloseInspector \/ ComputeBlast \/ AnswerFails) => ViewInv'
<1> SUFFICES ASSUME ViewInv, OpenInspector \/ CloseInspector \/ ComputeBlast \/ AnswerFails
             PROVE  ViewInv'
  OBVIOUS
<1>1. UNCHANGED <<graph, failing, filter, live, button, highlight, svg, stats>>
  <2>1. CASE OpenInspector
    BY <2>1 DEF OpenInspector, data, screen
  <2>2. CASE CloseInspector
    BY <2>2 DEF CloseInspector, data, blast, screen
  <2>3. CASE ComputeBlast
    BY <2>3 DEF ComputeBlast, Ask, data, screen
  <2>4. CASE AnswerFails
    BY <2>4 DEF AnswerFails, data, screen
  <2> QED
    BY <2>1, <2>2, <2>3, <2>4
<1>2. DrawingAgrees'
  BY <1>1 DEF ViewInv, DrawingAgrees
<1>3. panel' \in {panel, NoNode}
  BY DEF OpenInspector, CloseInspector, ComputeBlast, Ask, AnswerFails, blast
<1>4. HighlightOfOneAnswer'
  BY <1>1, <1>3 DEF ViewInv, HighlightOfOneAnswer
<1>5. AskedOf(asks')
  <2>1. CASE UNCHANGED asks
    BY <2>1 DEF ViewInv
  <2>2. CASE ComputeBlast
    <3>1. Ask(selected) /\ selected \in Nodes
      BY <2>2 DEF ComputeBlast, ViewInv, ViewTypes
    <3> QED
      BY <3>1, AskOne DEF ViewInv
  <2>3. CASE AnswerFails
    BY <2>3, AnswerOne DEF AnswerFails, ViewInv
  <2> QED
    BY <2>1, <2>2, <2>3 DEF OpenInspector, CloseInspector, blast
<1>6. /\ selected' \in Nodes \cup {NoNode} /\ listed' \subseteq Nodes
      /\ card' \in [of : Nodes \cup {NoNode}, failing : BOOLEAN]
  <2>1. CASE UNCHANGED inspector
    BY <2>1 DEF inspector, ViewInv, ViewTypes
  <2>2. CASE CloseInspector
    BY <2>2 DEF CloseInspector, ViewInv, ViewTypes
  <2>3. CASE OpenInspector
    <3>1. PICK n \in Clickable :
            /\ selected' = n
            /\ card' = IF n \in graph.nodes THEN [of |-> n, failing |-> n \in failing] ELSE card
            /\ listed' = Neighbours(n)
      BY <2>3 DEF OpenInspector
    <3>2. \A e \in Edges : e.source \in Nodes /\ e.target \in Nodes
      BY DashboardViewAssumption DEF DashboardViewAssumption
    <3>3. n \in Nodes
      BY <3>2 DEF Clickable, ViewInv, ViewTypes
    <3>4. graph.edges \subseteq Edges
      BY GraphParts DEF ViewInv, ViewTypes
    <3>5. listed' \subseteq Nodes
      BY <3>1, <3>2, <3>4 DEF Neighbours
    <3>6. card' \in [of : Nodes \cup {NoNode}, failing : BOOLEAN]
      <4>1. (n \in failing) \in BOOLEAN
        OBVIOUS
      <4>2. card \in [of : Nodes \cup {NoNode}, failing : BOOLEAN]
        BY DEF ViewInv, ViewTypes
      <4> QED
        BY <3>1, <3>3, <4>1, <4>2
    <3> QED
      BY <3>1, <3>3, <3>5, <3>6
  <2> QED
    BY <2>1, <2>2, <2>3 DEF ComputeBlast, AnswerFails
<1>7. ViewTypes'
  BY <1>1, <1>3, <1>6 DEF ViewInv, ViewTypes
<1> QED
  BY <1>2, <1>4, <1>5, <1>7 DEF ViewInv

(* Nothing happens.                                                        *)
LEMMA ViewStutters == ViewInv /\ UNCHANGED vars => ViewInv'
<1> SUFFICES ASSUME ViewInv, UNCHANGED vars PROVE ViewInv'
  OBVIOUS
<1>1. UNCHANGED <<graph, failing, filter, live, button, asks, highlight, panel, selected, card,
                  listed, svg, stats>>
  BY DEF vars, data, blast, inspector, screen
<1>2. ViewTypes'
  BY <1>1 DEF ViewInv, ViewTypes
<1>3. DrawingAgrees' /\ HighlightOfOneAnswer'
  BY <1>1 DEF ViewInv, DrawingAgrees, HighlightOfOneAnswer
<1> QED
  BY <1>1, <1>2, <1>3 DEF ViewInv

(* ViewInv always holds.                                                   *)
LEMMA ViewInvariant == Spec => []ViewInv
<1>1. ViewInv /\ [Next]_vars => ViewInv'
  BY ViewSnapshot, ViewTick, ViewPoll, ViewStatus, ViewAnswer, ViewRedraws, ViewInspects,
     ViewStutters DEF Next
<1> QED
  BY <1>1, ViewInit, PTL DEF Spec

-----------------------------------------------------------------------------
(* The results.                                                            *)

(* The page's state is well typed, and no more requests are under way than *)
(* the model lets it send.                                                 *)
THEOREM TypeCorrect == Spec => []TypeOK
<1>1. ViewInv => TypeOK
  BY DEF ViewInv, ViewTypes, AskedOf, Bag, BagToSet, TypeOK
<1> QED
  BY <1>1, ViewInvariant, PTL

(* Whatever comes, in whatever order, the drawing is of the graph, the     *)
(* filters and the statuses that the page holds, and so is the header.     *)
THEOREM DrawingCorrect == Spec => []DrawingAgrees
<1>1. ViewInv => DrawingAgrees
  BY DEF ViewInv
<1> QED
  BY <1>1, ViewInvariant, PTL

(* However the answers overtake each other, what is highlighted is one of  *)
(* them, and the panel is about the same service.                          *)
THEOREM HighlightCorrect == Spec => []HighlightOfOneAnswer
<1>1. ViewInv => HighlightOfOneAnswer
  BY DEF ViewInv
<1> QED
  BY <1>1, ViewInvariant, PTL
=============================================================================
