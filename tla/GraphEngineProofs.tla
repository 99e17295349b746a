------------------------- MODULE GraphEngineProofs -------------------------
(***************************************************************************)
(* Theorems about GraphEngine, for any services, calls and simulator: the  *)
(* graph stays a graph, an outage is active exactly when it names one of   *)
(* its nodes and stays with that node, the quantiles of an edge are those  *)
(* of its window and in order, and what a tick makes of a node's health.   *)
(***************************************************************************)
EXTENDS GraphEngine, FiniteSetTheorems, TLAPS

NoneTwice(ids) == \A i, j \in DOMAIN ids : ids[i] = ids[j] => i = j

(* The part of the types that the two invariants need, and the invariants: *)
(* the outage names a node of the graph, so that neither is inductive      *)
(* without the other staying where it is.                                  *)
EngineInv ==
  /\ order \in Seq(NodeIds)
  /\ DOMAIN edges \subseteq EdgeIds
  /\ DOMAIN samples = EdgeIds
  /\ anomalyActive \in BOOLEAN
  /\ anomalies \in Seq(NodeIds)
  /\ batch \in Seq(Event \cup Seed)
  /\ GraphWellFormed
  /\ OutageNamesNode

-----------------------------------------------------------------------------
(* AddNode keeps the ids apart and adds one at most.                       *)
LEMMA AddNodeSound ==
  ASSUME NEW ids \in Seq(NodeIds), NEW n \in NodeIds, NoneTwice(ids)
  PROVE  /\ AddNode(ids, n) \in Seq(NodeIds)
         /\ NoneTwice(AddNode(ids, n))
         /\ Range(AddNode(ids, n)) = Range(ids) \cup {n}
<1>1. CASE n \in Range(ids)
  BY <1>1 DEF AddNode
<1>2. CASE n \notin Range(ids)
  <2> DEFINE longer == Append(ids, n)
  <2>1. AddNode(ids, n) = longer
    BY <1>2 DEF AddNode
  <2>2. longer \in Seq(NodeIds) /\ DOMAIN longer = 1..(Len(ids) + 1) /\ DOMAIN ids = 1..Len(ids)
    OBVIOUS
  <2>3. /\ \A i \in DOMAIN ids : longer[i] = ids[i]
        /\ longer[Len(ids) + 1] = n
    OBVIOUS
  <2>4. \A i \in DOMAIN longer : i \in DOMAIN ids \/ i = Len(ids) + 1
    BY <2>2
  <2>5. \A i \in DOMAIN ids : ids[i] # n
    BY <1>2 DEF Range
  <2> HIDE DEF longer
  <2>6. NoneTwice(longer)
    BY <2>3, <2>4, <2>5 DEF NoneTwice
  <2>7. Range(longer) = Range(ids) \cup {n}
    BY <2>2, <2>3, <2>4 DEF Range
  <2> QED
    BY <2>1, <2>2, <2>6, <2>7
<1> QED
  BY <1>1, <1>2

(* What is at the head of a batch, and what is left of it.                 *)
LEMMA HeadOfBatch ==
  ASSUME batch \in Seq(Event \cup Seed), batch # << >>
  PROVE  /\ Head(batch).kind = "flow" => Head(batch).edge \in EdgeIds
         /\ Head(batch).kind = "seed" => Head(batch).node \in NodeIds
         /\ Tail(batch) \in Seq(Event \cup Seed)
<1>1. Head(batch) \in Event \cup Seed
  OBVIOUS
<1>2. Tail(batch) \in Seq(Event \cup Seed)
  OBVIOUS
<1> QED
  BY <1>1, <1>2 DEF Event, Seed, Flow, Incomplete, Malformed

(* toggleAnomaly finds a node whenever there is one, with a match or       *)
(* without.                                                                *)
LEMMA TargetInGraph ==
  ASSUME order \in Seq(NodeIds), order # << >>, NEW service
  PROVE  TargetNode(service) \in Present
<1>1. CASE \E i \in DOMAIN order : IsFirstMatch(i, service)
  <2> DEFINE i == CHOOSE k \in DOMAIN order : IsFirstMatch(k, service)
  <2>1. i \in DOMAIN order
    BY <1>1
  <2>2. TargetNode(service) = order[i]
    BY <1>1 DEF TargetNode
  <2> QED
    BY <2>1, <2>2 DEF Present, Range
<1>2. CASE ~ \E i \in DOMAIN order : IsFirstMatch(i, service)
  <2> DEFINE middle == Len(order) \div 2 + 1
  <2>1. Len(order) \in Nat \ {0} /\ DOMAIN order = 1..Len(order)
    OBVIOUS
  <2>2. middle \in DOMAIN order
    BY <2>1
  <2>3. TargetNode(service) = order[middle]
    BY <1>2 DEF TargetNode
  <2> QED
    BY <2>2, <2>3 DEF Present, Range
<1> QED
  BY <1>1, <1>2

-----------------------------------------------------------------------------
(* The engine starts with an empty graph.                                  *)
LEMMA EngineInit == Init => EngineInv
<1> SUFFICES ASSUME Init PROVE EngineInv
  OBVIOUS
<1>1. DOMAIN order = {} /\ DOMAIN edges = {} /\ DOMAIN samples = EdgeIds
  BY DEF Init
<1>2. GraphWellFormed
  BY <1>1 DEF Init, GraphWellFormed
<1>3. OutageNamesNode
  BY DEF Init, OutageNamesNode
<1>4. order \in Seq(NodeIds) /\ anomalies \in Seq(NodeIds) /\ batch \in Seq(Event \cup Seed)
  BY DEF Init
<1>5. anomalyActive \in BOOLEAN
  BY DEF Init
<1> QED
  BY <1>1, <1>2, <1>3, <1>4, <1>5 DEF EngineInv

(* Every handler, timer and request keeps EngineInv: one step per action.  *)
LEMMA EngineStep == EngineInv /\ [Next]_vars => EngineInv'
<1> SUFFICES ASSUME EngineInv, [Next]_vars PROVE EngineInv'
  OBVIOUS
<1>1. CASE \E k \in 1..MaxBatch : \E events \in [1..k -> Event] : Post(events)
  <2>0. PICK k \in 1..MaxBatch : \E events \in [1..k -> Event] : Post(events)
    BY <1>1
  <2>1. PICK events \in [1..k -> Event] : Post(events)
    BY <2>0
  <2>2. k \in Nat
    BY GraphEngineAssumption DEF GraphEngineAssumption
  <2>3. events \in Seq(Event \cup Seed)
    <3>1. events \in [1..k -> Event \cup Seed]
      OBVIOUS
    <3> QED
      BY <2>2, <3>1
  <2> QED
    BY <2>1, <2>3 DEF Post, graph, outage, EngineInv, GraphWellFormed, OutageNamesNode, Present
<1>2. CASE StartSimulator
  <2>1. batch' \in Seq(Event \cup Seed)
    <3>1. Seeds \in Seq(NodeIds)
      BY GraphEngineAssumption DEF GraphEngineAssumption
    <3>2. \A i \in DOMAIN Seeds : [kind |-> "seed", node |-> Seeds[i]] \in Event \cup Seed
      BY <3>1 DEF Seed
    <3> QED
      BY <1>2, <3>1, <3>2 DEF StartSimulator
  <2> QED
    BY <1>2, <2>1 DEF StartSimulator, graph, outage, EngineInv, GraphWellFormed, OutageNamesNode,
       Present
<1>3. CASE IngestFlow
  <2> DEFINE e == Head(batch).edge
             half == AddNode(order, e.source)
  <2>1. e \in EdgeIds /\ batch' \in Seq(Event \cup Seed)
    BY <1>3, HeadOfBatch DEF IngestFlow, EngineInv
  <2>2. e.source \in NodeIds /\ e.target \in NodeIds
    BY <2>1, GraphEngineAssumption DEF GraphEngineAssumption
  <2>3. order \in Seq(NodeIds) /\ NoneTwice(order)
    BY DEF EngineInv, GraphWellFormed, NoneTwice
  <2>4. order' = AddNode(half, e.target)
    BY <1>3 DEF IngestFlow, UpsertEdge
  <2>5. DOMAIN edges' = DOMAIN edges \cup {e}
    BY <1>3 DEF IngestFlow, UpsertEdge
  <2>6. /\ DOMAIN samples' = DOMAIN samples
        /\ \A f \in DOMAIN samples : f # e => samples'[f] = samples[f]
    BY <1>3 DEF IngestFlow, UpsertEdge
  <2>7. /\ half \in Seq(NodeIds) /\ NoneTwice(half)
        /\ Range(half) = Range(order) \cup {e.source}
    BY <2>2, <2>3, AddNodeSound
  <2> HIDE DEF half, e
  <2>8. /\ order' \in Seq(NodeIds) /\ NoneTwice(order')
        /\ Present' = Present \cup {e.source, e.target}
    <3> DEFINE whole == AddNode(half, e.target)
    <3>1. /\ whole \in Seq(NodeIds) /\ NoneTwice(whole)
          /\ Range(whole) = Range(half) \cup {e.target}
      BY <2>2, <2>7, AddNodeSound
    <3> HIDE DEF whole
    <3>2. order' = whole
      BY <2>4 DEF whole
    <3>3. Present' = Range(whole) /\ Present = Range(order)
      BY <3>2 DEF Present
    <3> QED
      BY <2>7, <3>1, <3>2, <3>3
  <2>9. GraphWellFormed'
    <3>1. \A f \in DOMAIN edges' : {f.source, f.target} \subseteq Present'
      BY <2>5, <2>8 DEF EngineInv, GraphWellFormed
    <3>2. \A f \in EdgeIds : samples'[f] # {} => f \in DOMAIN edges'
      BY <2>5, <2>6 DEF EngineInv, GraphWellFormed
    <3> QED
      BY <2>8, <3>1, <3>2 DEF GraphWellFormed, NoneTwice
  <2>10. UNCHANGED <<anomalyActive, anomalyNodeId, anomalies>>
    BY <1>3 DEF IngestFlow, outage
  <2>11. OutageNamesNode'
    BY <2>8, <2>10 DEF EngineInv, OutageNamesNode
  <2> QED
    BY <2>1, <2>5, <2>6, <2>8, <2>9, <2>10, <2>11 DEF EngineInv
<1>4. CASE SeedNode
  <2> DEFINE n == Head(batch).node
  <2>1. n \in NodeIds /\ batch' \in Seq(Event \cup Seed)
    BY <1>4, HeadOfBatch DEF SeedNode, EngineInv
  <2>2. order \in Seq(NodeIds) /\ NoneTwice(order)
    BY DEF EngineInv, GraphWellFormed, NoneTwice
  <2>3. order' = AddNode(order, n)
    BY <1>4 DEF SeedNode
  <2> HIDE DEF n
  <2>4. /\ order' \in Seq(NodeIds) /\ NoneTwice(order')
        /\ Present' = Present \cup {n}
    BY <2>1, <2>2, <2>3, AddNodeSound DEF Present
  <2>5. UNCHANGED <<edges, samples, anomalyActive, anomalyNodeId, anomalies>>
    BY <1>4 DEF SeedNode, outage
  <2>6. GraphWellFormed'
    BY <2>4, <2>5 DEF EngineInv, GraphWellFormed, NoneTwice
  <2>7. OutageNamesNode'
    BY <2>4, <2>5 DEF EngineInv, OutageNamesNode
  <2> QED
    BY <2>1, <2>4, <2>5, <2>6, <2>7 DEF EngineInv
<1>5. CASE SkipIncomplete \/ Throw
  <2>1. batch' = Tail(batch) \/ batch' = << >>
    BY <1>5 DEF SkipIncomplete, Throw
  <2>2. batch # << >> /\ batch \in Seq(Event \cup Seed)
    BY <1>5 DEF SkipIncomplete, Throw, EngineInv
  <2> DEFINE T == Event \cup Seed
  <2> HIDE DEF T
  <2>3. batch' \in Seq(T)
    <3>1. batch # << >> /\ batch \in Seq(T)
      BY <2>2 DEF T
    <3>2. Tail(batch) \in Seq(T)
      BY <3>1
    <3>3. << >> \in Seq(T)
      OBVIOUS
    <3> QED
      BY <2>1, <3>2, <3>3
  <2>4. UNCHANGED <<order, edges, samples, anomalyActive, anomalyNodeId, anomalies>>
    BY <1>5 DEF SkipIncomplete, Throw, graph, outage
  <2> QED
    BY <2>3, <2>4 DEF T, EngineInv, GraphWellFormed, OutageNamesNode, Present
<1>6. CASE Elapse
  <2>1. /\ samples' = [e \in EdgeIds |-> {Older(s) : s \in samples[e]}]
        /\ UNCHANGED <<order, edges, outage, batch>>
    BY <1>6 DEF Elapse
  <2>2. \A e \in EdgeIds : samples'[e] # {} => samples[e] # {}
    BY <2>1
  <2> QED
    BY <2>1, <2>2 DEF outage, EngineInv, GraphWellFormed, OutageNamesNode, Present
<1>7. CASE Tick
  <2>1. /\ samples' = [e \in EdgeIds |-> Recent(e)]
        /\ edges' = Refreshed
        /\ UNCHANGED <<order, outage, batch>>
    BY <1>7 DEF Tick
  <2>2. DOMAIN edges' = DOMAIN edges
    BY <2>1 DEF Refreshed
  <2>3. \A e \in EdgeIds : samples'[e] # {} => samples[e] # {}
    BY <2>1 DEF Recent
  <2> QED
    BY <2>1, <2>2, <2>3 DEF outage, EngineInv, GraphWellFormed, OutageNamesNode, Present
<1>8. ASSUME NEW service \in Services, ToggleAnomaly(service)
      PROVE  EngineInv'
  <2>1. CASE InjectAnomaly(service)
    <3> DEFINE n == TargetNode(service)
    <3>1. n \in Present
      BY <2>1, TargetInGraph DEF InjectAnomaly, EngineInv
    <3>2. n \in NodeIds
      BY <3>1 DEF EngineInv, Present, Range
    <3>3. n # NoNode
      BY <3>2, GraphEngineAssumption DEF GraphEngineAssumption
    <3>4. /\ anomalyActive' = TRUE /\ anomalyNodeId' = n
          /\ anomalies' = Append(anomalies, n)
          /\ UNCHANGED <<order, edges, samples, batch>>
      BY <2>1 DEF InjectAnomaly, graph
    <3> HIDE DEF n
    <3>5. anomalies' \in Seq(NodeIds) /\ anomalies'[Len(anomalies')] = n
      BY <3>2, <3>4 DEF EngineInv
    <3> QED
      BY <3>1, <3>3, <3>4, <3>5 DEF EngineInv, GraphWellFormed, OutageNamesNode, Present
  <2>2. CASE ClearAnomaly(service)
    BY <2>2 DEF ClearAnomaly, graph, EngineInv, GraphWellFormed, OutageNamesNode, Present
  <2> QED
    BY <1>8, <2>1, <2>2 DEF ToggleAnomaly
<1>9. CASE UNCHANGED vars
  BY <1>9 DEF vars, EngineInv, GraphWellFormed, OutageNamesNode, Present
<1> QED
  BY <1>1, <1>2, <1>3, <1>4, <1>5, <1>6, <1>7, <1>8, <1>9 DEF Next, Ingest

(* EngineInv holds always.                                                 *)
LEMMA EngineInvariant == Spec => []EngineInv
  BY EngineInit, EngineStep, PTL DEF Spec

(* No batch, however it ends, and no tick ever leaves an edge without its  *)
(* nodes, a node twice, or samples of an edge that is not there.           *)
THEOREM GraphCorrect == Spec => []GraphWellFormed
<1>1. EngineInv => GraphWellFormed
  BY DEF EngineInv
<1> QED
  BY <1>1, EngineInvariant, PTL

(* Whoever toggles, with whatever service, an active outage names a node   *)
(* of the graph, the one that the store was told of last.                  *)
THEOREM OutageCorrect == Spec => []OutageNamesNode
<1>1. EngineInv => OutageNamesNode
  BY DEF EngineInv
<1> QED
  BY <1>1, EngineInvariant, PTL

-----------------------------------------------------------------------------
(* The quantiles.                                                          *)

(* Every nonempty set of naturals has a least element.                     *)
LEMMA LeastNatural ==
  ASSUME NEW S, S \subseteq Nat, S # {}
  PROVE  \E m \in S : \A n \in S : m <= n
<1> DEFINE R == OpToRel(<, Nat)
<1>1. IsWellFoundedOn(R, Nat)
  BY NatLessThanWellFounded
<1>2. \A m, n \in Nat : m < n => <<m, n>> \in R
  BY DEF OpToRel
<1> HIDE DEF R
<1>3. PICK m \in S : \A n \in S : ~(<<n, m>> \in R)
  BY <1>1, WFMin
<1>4. ASSUME NEW n \in S PROVE m <= n
  <2>1. m \in Nat /\ n \in Nat /\ ~(n < m)
    BY <1>2, <1>3
  <2> QED
    BY <2>1
<1> QED
  BY <1>4

(* Every finite one has a greatest element: the one with the fewest above. *)
LEMMA GreatestNatural ==
  ASSUME NEW S, S \subseteq Nat, S # {}, IsFiniteSet(S)
  PROVE  \E m \in S : \A n \in S : n <= m
<1> DEFINE Above(x) == {y \in S : y > x}
           T == {Above(x) : x \in S}
           R == StrictSubsetOrdering(S)
<1>1. FiniteSubsetsOf(S) = SUBSET S
  BY FS_FiniteSubsetsOfFinite
<1>2. IsWellFoundedOn(R, SUBSET S)
  BY <1>1, FS_StrictSubsetOrderingWellFounded
<1>3. T \subseteq SUBSET S /\ T # {}
  OBVIOUS
<1>4. \A A, B \in SUBSET S : A \subseteq B /\ A # B => <<A, B>> \in R
  BY DEF StrictSubsetOrdering
<1> HIDE DEF R
<1>5. PICK A \in T : \A B \in T : ~(<<B, A>> \in R)
  <2> HIDE DEF T
  <2> QED
    BY <1>2, <1>3, WFMin
<1>6. PICK m \in S : A = Above(m)
  OBVIOUS
<1>7. \A n \in S : n <= m
  <2> SUFFICES ASSUME NEW n \in S, ~(n <= m) PROVE FALSE
    OBVIOUS
  <2>1. Above(n) \subseteq Above(m) /\ n \in Above(m) /\ n \notin Above(n)
    <3>1. m \in Nat /\ n \in Nat /\ m < n
      OBVIOUS
    <3>2. \A y \in S : y > n => y > m
      BY <3>1
    <3>3. Above(n) \subseteq Above(m)
      BY <3>2
    <3>4. n \in Above(m) /\ n \notin Above(n)
      BY <3>1
    <3> QED
      BY <3>3, <3>4
  <2>2. Above(n) # Above(m)
    BY <2>1
  <2>3. Above(n) \in SUBSET S /\ Above(m) \in SUBSET S /\ Above(n) \in T
    OBVIOUS
  <2> HIDE DEF Above
  <2>4. <<Above(n), Above(m)>> \in R
    BY <1>4, <2>1, <2>2, <2>3
  <2> QED
    BY <1>5, <1>6, <2>3, <2>4
<1> QED
  BY <1>7

(* Those that tick asks for.                                               *)
Percentages == {50, 95, 99}

(* What tick takes from a window with samples is one of its latencies, the *)
(* least of those that are a quantile: lats[i] is never read past the end. *)
LEMMA QuantileSound ==
  ASSUME NEW f, IsFiniteSet(DOMAIN f), DOMAIN f # {}, \A d \in DOMAIN f : f[d] \in Nat,
         NEW percent \in Percentages
  PROVE  /\ Quantile(f, percent) \in Range(f)
         /\ Quantile(f, percent) \in Nat
         /\ IsQuantile(Quantile(f, percent), f, percent)
         /\ \A y \in Range(f) : IsQuantile(y, f, percent) => Quantile(f, percent) <= y
<1> DEFINE n == Cardinality(DOMAIN f)
           V == Range(f)
           Q == {x \in V : IsQuantile(x, f, percent)}
<1>1. n \in Nat /\ n # 0
  BY FS_CardinalityType, FS_EmptySet
<1>2. V \subseteq Nat /\ V # {} /\ \A d \in DOMAIN f : f[d] \in V
  BY DEF Range
<1>3. IsFiniteSet(V)
  <2> DEFINE g == [d \in DOMAIN f |-> f[d]]
  <2>1. g \in Surjection(DOMAIN f, V)
    BY DEF Surjection, Range
  <2> QED
    BY <2>1, FS_Surjection
<1>4. PICK m \in V : \A y \in V : y <= m
  <2> HIDE DEF V
  <2> QED
    BY <1>2, <1>3, GreatestNatural
<1>5. IsQuantile(m, f, percent)
  <2>1. {d \in DOMAIN f : f[d] <= m} = DOMAIN f
    BY <1>2, <1>4
  <2> HIDE DEF n
  <2>2. n > (n * percent) \div 100
    BY <1>1 DEF Percentages
  <2> QED
    BY <2>1, <2>2 DEF IsQuantile, n
<1>6. Q # {} /\ Q \subseteq Nat
  BY <1>2, <1>4, <1>5
<1>7. \E x \in Q : \A y \in Q : x <= y
  <2> HIDE DEF Q
  <2> QED
    BY <1>6, LeastNatural
<1>8. \E x \in V : IsQuantile(x, f, percent) /\ \A y \in V : IsQuantile(y, f, percent) => x <= y
  BY <1>7
<1>9. LET q == Quantile(f, percent)
      IN  q \in V /\ IsQuantile(q, f, percent) /\ \A y \in V : IsQuantile(y, f, percent) => q <= y
  BY <1>8 DEF Quantile
<1> QED
  BY <1>2, <1>9

(* A value above which few enough samples lie for one percentage is also a *)
(* quantile for a smaller one.                                             *)
LEMMA QuantilesOfWindow ==
  ASSUME NEW f, IsFiniteSet(DOMAIN f), DOMAIN f # {}, \A d \in DOMAIN f : f[d] \in Nat
  PROVE  /\ Quantile(f, 50) <= Quantile(f, 95)
         /\ Quantile(f, 95) <= Quantile(f, 99)
<1>1. ASSUME NEW x PROVE (IsQuantile(x, f, 95) => IsQuantile(x, f, 50))
                         /\ (IsQuantile(x, f, 99) => IsQuantile(x, f, 95))
  <2> DEFINE n == Cardinality(DOMAIN f)
             c == Cardinality({d \in DOMAIN f : f[d] <= x})
  <2>1. n \in Nat /\ c \in Nat
    <3>1. {d \in DOMAIN f : f[d] <= x} \in SUBSET DOMAIN f
      OBVIOUS
    <3>2. IsFiniteSet({d \in DOMAIN f : f[d] <= x})
      BY <3>1, FS_Subset
    <3> QED
      BY <3>2, FS_CardinalityType
  <2>2. \A p : IsQuantile(x, f, p) <=> c > (n * p) \div 100
    BY DEF IsQuantile
  <2> HIDE DEF n, c
  <2>3. (n * 50) \div 100 <= (n * 95) \div 100 /\ (n * 95) \div 100 <= (n * 99) \div 100
    BY <2>1
  <2>4. (n * 50) \div 100 \in Nat /\ (n * 95) \div 100 \in Nat /\ (n * 99) \div 100 \in Nat
    BY <2>1
  <2>5. IsQuantile(x, f, 95) => IsQuantile(x, f, 50)
    BY <2>1, <2>2, <2>3, <2>4
  <2>6. IsQuantile(x, f, 99) => IsQuantile(x, f, 95)
    BY <2>1, <2>2, <2>3, <2>4
  <2> QED
    BY <2>5, <2>6
<1>2. 50 \in Percentages /\ 95 \in Percentages /\ 99 \in Percentages
  BY DEF Percentages
<1>3. /\ Quantile(f, 95) \in Range(f) /\ IsQuantile(Quantile(f, 95), f, 95)
      /\ Quantile(f, 99) \in Range(f) /\ IsQuantile(Quantile(f, 99), f, 99)
  BY <1>2, QuantileSound
<1>4. /\ \A y \in Range(f) : IsQuantile(y, f, 50) => Quantile(f, 50) <= y
      /\ \A y \in Range(f) : IsQuantile(y, f, 95) => Quantile(f, 95) <= y
  BY <1>2, QuantileSound
<1> QED
  BY <1>1, <1>3, <1>4

-----------------------------------------------------------------------------
(* The rest of the types, the order of the quantiles, and that only a      *)
(* finite number of edges and samples is ever there, without which a       *)
(* quantile would not be defined.                                          *)
TrafficInv ==
  /\ status \in [NodeIds -> Statuses]
  /\ IsFiniteSet(DOMAIN edges)
  /\ \A e \in DOMAIN edges : edges[e] \in Edge
  /\ QuantilesOrdered
  /\ samples \in [EdgeIds -> SUBSET Sample]
  /\ \A e \in EdgeIds : IsFiniteSet(samples[e])

Ordered(m) == m.p50 <= m.p95 /\ m.p95 <= m.p99

(* The metrics of a window: a healthy edge, whose p95 is the latency of a  *)
(* call in it.                                                             *)
LEMMA MeasuredWindow ==
  ASSUME NEW e, samples[e] \subseteq Sample, IsFiniteSet(samples[e]), Recent(e) # {}
  PROVE  /\ Measured(e) \in Edge /\ Ordered(Measured(e))
         /\ Measured(e).flowing /\ Measured(e).errorRate = 0
         /\ \E s \in Recent(e) : Measured(e).p95 = s.latency
<1> DEFINE f == [s \in Recent(e) |-> s.latency]
<1>1. IsFiniteSet(Recent(e))
  <2>1. Recent(e) \in SUBSET samples[e]
    BY DEF Recent
  <2> QED
    BY <2>1, FS_Subset
<1>2. \A s \in Recent(e) : s.latency \in Nat
  BY GraphEngineAssumption DEF GraphEngineAssumption, Recent, Sample
<1>3. DOMAIN f = Recent(e) /\ \A s \in DOMAIN f : f[s] = s.latency
  OBVIOUS
<1>4. Measured(e) =
        [flowing |-> TRUE, p50 |-> Quantile(f, 50), p95 |-> Quantile(f, 95),
         p99 |-> Quantile(f, 99), errorRate |-> 0]
  BY DEF Measured
<1> HIDE DEF f
<1>5. IsFiniteSet(DOMAIN f) /\ DOMAIN f # {} /\ \A s \in DOMAIN f : f[s] \in Nat
  BY <1>1, <1>2, <1>3
<1>6. Quantile(f, 50) \in Nat /\ Quantile(f, 95) \in Nat /\ Quantile(f, 99) \in Nat
  BY <1>5, QuantileSound DEF Percentages
<1>7. Quantile(f, 50) <= Quantile(f, 95) /\ Quantile(f, 95) <= Quantile(f, 99)
  BY <1>5, QuantilesOfWindow
<1>8. Quantile(f, 95) \in Range(f)
  BY <1>5, QuantileSound DEF Percentages
<1>9. \E s \in Recent(e) : Quantile(f, 95) = s.latency
  BY <1>3, <1>8 DEF Range
<1>10. Measured(e) \in Edge
  BY <1>4, <1>6 DEF Edge
<1> QED
  BY <1>4, <1>7, <1>9, <1>10 DEF Ordered

(* The floors of an outage keep the quantiles in order, and only raise.    *)
LEMMA SpikedSound ==
  ASSUME NEW e, NEW m \in Edge, Ordered(m)
  PROVE  /\ Spiked(e, m) \in Edge
         /\ Ordered(Spiked(e, m))
         /\ Spiked(e, m).flowing = m.flowing
<1>1. m.p50 \in Nat /\ m.p95 \in Nat /\ m.p99 \in Nat /\ m.errorRate \in Nat
  BY DEF Edge
<1>2. CASE anomalyActive /\ e.target = anomalyNodeId
  <2> DEFINE k == Spiked(e, m)
  <2>1. k = [m EXCEPT !.p50 = NatMax(@, 1854), !.p95 = NatMax(@, 4208),
                      !.p99 = NatMax(@, 9802), !.errorRate = NatMax(@, 245)]
    BY <1>2 DEF Spiked
  <2> HIDE DEF k
  <2>2. /\ k.p50 = NatMax(m.p50, 1854) /\ k.p95 = NatMax(m.p95, 4208)
        /\ k.p99 = NatMax(m.p99, 9802) /\ k.errorRate = NatMax(m.errorRate, 245)
        /\ k.flowing = m.flowing
    BY <2>1 DEF Edge
  <2>3. /\ NatMax(m.p50, 1854) \in Nat /\ NatMax(m.p95, 4208) \in Nat
        /\ NatMax(m.p99, 9802) \in Nat /\ NatMax(m.errorRate, 245) \in Nat
    BY <1>1 DEF NatMax
  <2>4. k \in Edge
    <3> DEFINE a == NatMax(m.p50, 1854)
               b == NatMax(m.p95, 4208)
               c == NatMax(m.p99, 9802)
               d == NatMax(m.errorRate, 245)
    <3>1. a \in Nat /\ b \in Nat /\ c \in Nat /\ d \in Nat
      BY <2>3
    <3> DEFINE k1 == [m EXCEPT !.p50 = a]
               k2 == [k1 EXCEPT !.p95 = b]
               k3 == [k2 EXCEPT !.p99 = c]
               k4 == [k3 EXCEPT !.errorRate = d]
    <3>2. k = k4
      BY <2>1
    <3> HIDE DEF a, b, c, d
    <3>3. k1 \in Edge
      BY <3>1 DEF Edge
    <3> HIDE DEF k1
    <3>4. k2 \in Edge
      BY <3>1, <3>3 DEF Edge
    <3> HIDE DEF k2
    <3>5. k3 \in Edge
      BY <3>1, <3>4 DEF Edge
    <3> HIDE DEF k3
    <3>6. k4 \in Edge
      BY <3>1, <3>5 DEF Edge
    <3> QED
      BY <3>2, <3>6
  <2>5. Ordered(k)
    BY <1>1, <2>2 DEF Ordered, NatMax
  <2> QED
    BY <2>2, <2>4, <2>5 DEF k
<1>3. CASE ~(anomalyActive /\ e.target = anomalyNodeId)
  BY <1>3 DEF Spiked
<1> QED
  BY <1>2, <1>3

(* So do the edges as tick leaves them.                                    *)
LEMMA RefreshedSound ==
  ASSUME TrafficInv, DOMAIN edges \subseteq EdgeIds
  PROVE  /\ DOMAIN Refreshed = DOMAIN edges
         /\ \A e \in DOMAIN edges :
              /\ Refreshed[e] = Spiked(e, Measured(e))
              /\ Measured(e) \in Edge /\ Ordered(Measured(e))
              /\ Refreshed[e] \in Edge /\ Ordered(Refreshed[e])
<1>1. /\ DOMAIN Refreshed = DOMAIN edges
      /\ \A e \in DOMAIN edges : Refreshed[e] = Spiked(e, Measured(e))
  BY DEF Refreshed
<1>2. ASSUME NEW e \in DOMAIN edges
      PROVE  Measured(e) \in Edge /\ Ordered(Measured(e))
  <2>1. CASE Recent(e) = {}
    BY <2>1 DEF Measured, TrafficInv, QuantilesOrdered, Ordered
  <2>2. CASE Recent(e) # {}
    <3>1. samples[e] \subseteq Sample /\ IsFiniteSet(samples[e])
      BY DEF TrafficInv
    <3> QED
      BY <2>2, <3>1, MeasuredWindow
  <2> QED
    BY <2>1, <2>2
<1>3. ASSUME NEW e \in DOMAIN edges
      PROVE  Refreshed[e] \in Edge /\ Ordered(Refreshed[e])
  BY <1>1, <1>2, SpikedSound
<1> QED
  BY <1>1, <1>2, <1>3

-----------------------------------------------------------------------------
(* TrafficInv and, above it, ConfinedInv are inductive.                    *)
LEMMA TrafficInit == Init => TrafficInv
<1> SUFFICES ASSUME Init PROVE TrafficInv
  OBVIOUS
<1>1. status \in [NodeIds -> Statuses]
  BY DEF Init, Statuses
<1>2. DOMAIN edges = {} /\ IsFiniteSet(DOMAIN edges)
  BY FS_EmptySet DEF Init
<1>3. samples \in [EdgeIds -> SUBSET Sample]
  BY DEF Init
<1>4. \A e \in EdgeIds : IsFiniteSet(samples[e])
  BY FS_EmptySet DEF Init
<1> QED
  BY <1>1, <1>2, <1>3, <1>4 DEF TrafficInv, QuantilesOrdered

(* One call, the first of its edge or not.                                 *)
LEMMA TrafficUpsert ==
  ASSUME TrafficInv, NEW e \in EdgeIds, NEW latency \in Latencies,
         UpsertEdge(e, latency), UNCHANGED status
  PROVE  TrafficInv'
<1>1. latency \in Nat
  BY GraphEngineAssumption DEF GraphEngineAssumption
<1>2. NewEdge(latency) \in Edge /\ Ordered(NewEdge(latency))
  <2>1. /\ (5 * latency) \div 2 \in Nat /\ 4 * latency \in Nat
        /\ latency <= (5 * latency) \div 2 /\ (5 * latency) \div 2 <= 4 * latency
    BY <1>1
  <2> QED
    BY <1>1, <2>1 DEF NewEdge, Edge, Ordered
<1>4. /\ IsFiniteSet(DOMAIN edges')
      /\ \A f \in DOMAIN edges' : edges'[f] \in Edge /\ Ordered(edges'[f])
  <2>1. \A f \in DOMAIN edges : edges[f] \in Edge /\ Ordered(edges[f])
    BY DEF TrafficInv, QuantilesOrdered, Ordered
  <2>2. CASE e \in DOMAIN edges
    BY <2>1, <2>2 DEF UpsertEdge, TrafficInv
  <2>3. CASE e \notin DOMAIN edges
    <3>1. edges' = [f \in DOMAIN edges \cup {e} |-> IF f = e THEN NewEdge(latency) ELSE edges[f]]
      BY <2>3 DEF UpsertEdge
    <3>2. DOMAIN edges' = DOMAIN edges \cup {e}
      BY <3>1
    <3>3. IsFiniteSet(DOMAIN edges')
      BY <3>2, FS_AddElement DEF TrafficInv
    <3>4. edges'[e] = NewEdge(latency) /\ \A f \in DOMAIN edges : f # e => edges'[f] = edges[f]
      BY <3>1
    <3> QED
      BY <1>2, <2>1, <3>2, <3>3, <3>4
  <2> QED
    BY <2>2, <2>3
<1>5. PICK slot \in FreeSlots(e) :
        samples' = [samples EXCEPT ![e] = @ \cup {[slot |-> slot, age |-> 0, latency |-> latency]}]
  BY DEF UpsertEdge
<1>6. [slot |-> slot, age |-> 0, latency |-> latency] \in Sample
  <2>1. slot \in 1..MaxSamples
    BY DEF FreeSlots
  <2>2. 0 \in 0..(Window + 1)
    BY GraphEngineAssumption DEF GraphEngineAssumption
  <2> QED
    BY <2>1, <2>2 DEF Sample
<1> DEFINE s == [slot |-> slot, age |-> 0, latency |-> latency]
<1> HIDE DEF s
<1>7. samples' \in [EdgeIds -> SUBSET Sample]
  BY <1>5, <1>6 DEF TrafficInv, s
<1>8. \A f \in EdgeIds : IsFiniteSet(samples'[f])
  <2>1. samples'[e] = samples[e] \cup {s} /\ \A f \in EdgeIds : f # e => samples'[f] = samples[f]
    BY <1>5 DEF TrafficInv, s
  <2>2. IsFiniteSet(samples[e] \cup {s})
    BY FS_AddElement DEF TrafficInv
  <2> QED
    BY <2>1, <2>2 DEF TrafficInv
<1> QED
  BY <1>4, <1>7, <1>8 DEF TrafficInv, QuantilesOrdered, Ordered

(* Measurements enter a window one at a time and leave it by the tick;     *)
(* only the tick computes quantiles from them.                             *)
LEMMA TrafficStep == EngineInv /\ TrafficInv /\ [Next]_vars => TrafficInv'
<1> SUFFICES ASSUME EngineInv, TrafficInv, [Next]_vars PROVE TrafficInv'
  OBVIOUS
<1>1. CASE IngestFlow
  <2> DEFINE h == Head(batch)
  <2>1. h.edge \in EdgeIds /\ h.latency \in Latencies
    <3>1. h \in Event \cup Seed
      BY <1>1 DEF IngestFlow, EngineInv
    <3>2. h.kind = "flow"
      BY <1>1 DEF IngestFlow
    <3> QED
      BY <3>1, <3>2 DEF Event, Seed, Flow, Incomplete, Malformed
  <2>2. UpsertEdge(h.edge, h.latency) /\ UNCHANGED status
    BY <1>1 DEF IngestFlow
  <2> QED
    BY <2>1, <2>2, TrafficUpsert
<1>2. CASE Elapse
  <2>1. /\ samples' = [e \in EdgeIds |-> {Older(s) : s \in samples[e]}]
        /\ UNCHANGED <<edges, status>>
    BY <1>2 DEF Elapse
  <2>2. \A s \in Sample : Older(s) \in Sample
    <3> SUFFICES ASSUME NEW s \in Sample PROVE Older(s) \in Sample
      OBVIOUS
    <3>1. Window \in Nat /\ s.age \in 0..(Window + 1)
      BY GraphEngineAssumption DEF GraphEngineAssumption, Sample
    <3>2. (IF s.age > Window THEN s.age ELSE s.age + 1) \in 0..(Window + 1)
      BY <3>1
    <3> QED
      BY <3>2 DEF Sample, Older
  <2>3. samples' \in [EdgeIds -> SUBSET Sample]
    BY <2>1, <2>2 DEF TrafficInv
  <2>4. ASSUME NEW e \in EdgeIds PROVE IsFiniteSet(samples'[e])
    <3> DEFINE g == [s \in samples[e] |-> Older(s)]
               T == {Older(s) : s \in samples[e]}
    <3>1. g \in Surjection(samples[e], T)
      BY DEF Surjection
    <3>2. IsFiniteSet(samples[e])
      BY DEF TrafficInv
    <3> HIDE DEF g, T
    <3>3. IsFiniteSet(T)
      BY <3>1, <3>2, FS_Surjection
    <3> QED
      BY <2>1, <3>3 DEF T
  <2> QED
    BY <2>1, <2>3, <2>4 DEF TrafficInv, QuantilesOrdered
<1>3. CASE Tick
  <2>1. /\ samples' = [e \in EdgeIds |-> Recent(e)]
        /\ edges' = Refreshed
        /\ status' \in NextStatuses(edges')
    BY <1>3 DEF Tick
  <2>2. status' \in [NodeIds -> Statuses]
    BY <2>1 DEF NextStatuses
  <2>3. /\ DOMAIN edges' = DOMAIN edges
        /\ \A e \in DOMAIN edges' : edges'[e] \in Edge /\ Ordered(edges'[e])
    BY <2>1, RefreshedSound DEF EngineInv
  <2>4. \A e \in EdgeIds : samples'[e] \in SUBSET samples[e]
    BY <2>1 DEF Recent
  <2>5. DOMAIN samples' = EdgeIds /\ samples' = [e \in EdgeIds |-> samples'[e]]
    BY <2>1
  <2>6. samples' \in [EdgeIds -> SUBSET Sample]
    BY <2>4, <2>5 DEF TrafficInv
  <2>7. \A e \in EdgeIds : IsFiniteSet(samples'[e])
    BY <2>4, FS_Subset DEF TrafficInv
  <2> QED
    BY <2>2, <2>3, <2>6, <2>7 DEF TrafficInv, QuantilesOrdered, Ordered
<1>4. CASE UNCHANGED <<edges, samples, status>>
  BY <1>4 DEF TrafficInv, QuantilesOrdered
<1> QED
  BY <1>1, <1>2, <1>3, <1>4 DEF Next, Ingest, Post, StartSimulator, SeedNode, SkipIncomplete,
     Throw, ToggleAnomaly, InjectAnomaly, ClearAnomaly, graph, vars

(* TrafficInv holds always.                                                *)
LEMMA TrafficInvariant == Spec => []TrafficInv
  BY EngineInvariant, TrafficInit, TrafficStep, PTL DEF Spec

-----------------------------------------------------------------------------
(* The p95 of a node is that of one of the calls into it.                  *)
LEMMA NodeQuantile ==
  ASSUME NEW g, IsFiniteSet(DOMAIN g), \A e \in DOMAIN g : g[e] \in Edge,
         NEW n, InEdges(g, n) # {}
  PROVE  \E e \in InEdges(g, n) : Quantile([d \in InEdges(g, n) |-> g[d].p95], 95) = g[e].p95
<1> DEFINE f == [d \in InEdges(g, n) |-> g[d].p95]
<1>1. InEdges(g, n) \in SUBSET DOMAIN g
  BY DEF InEdges
<1>2. IsFiniteSet(InEdges(g, n))
  BY <1>1, FS_Subset
<1>3. DOMAIN f = InEdges(g, n) /\ \A d \in DOMAIN f : f[d] = g[d].p95 /\ f[d] \in Nat
  BY <1>1 DEF Edge
<1> HIDE DEF f
<1>4. Quantile(f, 95) \in Range(f)
  BY <1>2, <1>3, QuantileSound DEF Percentages
<1> QED
  BY <1>3, <1>4 DEF Range, f

(* Without errors, and outside the service of an active outage, latencies  *)
(* of at most 150 ms do not make a service FAILING, those of at most 50 ms *)
(* make it HEALTHY.                                                        *)
LEMMA HealthOfCalls ==
  ASSUME NEW g, IsFiniteSet(DOMAIN g), \A e \in DOMAIN g : g[e] \in Edge,
         NEW n, ~(anomalyActive /\ n = anomalyNodeId)
  PROVE  /\ (\A e \in InEdges(g, n) : g[e].p95 <= 1500) => Health(g, n, 0) # "FAILING"
         /\ (\A e \in InEdges(g, n) : g[e].p95 <= 500) => Health(g, n, 0) = "HEALTHY"
<1>1. CASE \A e \in InEdges(g, n) : ~g[e].flowing
  BY <1>1 DEF Health
<1>2. CASE ~ \A e \in InEdges(g, n) : ~g[e].flowing
  <2> DEFINE q == Quantile([d \in InEdges(g, n) |-> g[d].p95], 95)
  <2>1. PICK e \in InEdges(g, n) : q = g[e].p95
    BY <1>2, NodeQuantile
  <2>2. q \in Nat
    BY <2>1 DEF InEdges, Edge
  <2>3. Health(g, n, 0) =
          IF (anomalyActive /\ n = anomalyNodeId) \/ (0 > 50 \/ q > 1500) THEN "FAILING"
          ELSE IF 0 > 10 \/ q > 500 THEN "DEGRADED" ELSE "HEALTHY"
    BY <1>2 DEF Health
  <2> HIDE DEF q
  <2>4. q <= 1500 => Health(g, n, 0) # "FAILING"
    BY <2>2, <2>3
  <2>5. q <= 500 => Health(g, n, 0) = "HEALTHY"
    BY <2>2, <2>3
  <2> QED
    BY <2>1, <2>4, <2>5
<1> QED
  BY <1>1, <1>2

(* The status that a tick gives a node.                                    *)
LEMMA StatusOfTick ==
  ASSUME Tick, NEW n \in NodeIds
  PROVE  /\ n \notin Present => status'[n] = status[n]
         /\ n \in Present => \E rate \in NodeErrorRates(Refreshed, n) :
                               status'[n] = Health(Refreshed, n, rate)
<1> DEFINE allowed == [k \in NodeIds |->
              IF k \in Present
              THEN {Health(Refreshed, k, rate) : rate \in NodeErrorRates(Refreshed, k)}
              ELSE {status[k]}]
<1>1. status' \in NextStatuses(Refreshed)
  BY DEF Tick
<1>2. \A k \in NodeIds : status'[k] \in allowed[k]
  BY <1>1 DEF NextStatuses
<1>3. status'[n] \in IF n \in Present
                       THEN {Health(Refreshed, n, rate) : rate \in NodeErrorRates(Refreshed, n)}
                       ELSE {status[n]}
  BY <1>2
<1> QED
  BY <1>3

-----------------------------------------------------------------------------
(* An outage is confined to its targets, by p95 and by errors: the store   *)
(* has a row for the service of the active one.                            *)
MildLatencies == \A l \in Latencies : l <= 600
Spared(n) == n \notin Range(anomalies)

ConfinedInv ==
  /\ anomalyActive => ~Spared(anomalyNodeId)
  /\ MildLatencies =>
       /\ \A n \in NodeIds : Spared(n) => status[n] # "FAILING"
       /\ \A e \in DOMAIN edges : Spared(e.target) => edges[e].p95 <= 1500 /\ edges[e].errorRate = 0

(* No outage, no node and no edge that could show one.                     *)
LEMMA ConfinedInit == Init => ConfinedInv
  BY DEF Init, ConfinedInv

(* A tick measures mild latencies, and raises none outside the outage.     *)
LEMMA ConfinedTick ==
  ASSUME EngineInv, TrafficInv, ConfinedInv, MildLatencies, Tick
  PROVE  /\ \A e \in DOMAIN edges : Spared(e.target) =>
              Refreshed[e].p95 <= 1500 /\ Refreshed[e].errorRate = 0
         /\ \A n \in NodeIds : Spared(n) => status'[n] # "FAILING"
<1>1. ASSUME NEW e \in DOMAIN edges, Spared(e.target)
      PROVE  Refreshed[e].p95 <= 1500 /\ Refreshed[e].errorRate = 0
  <2>1. Refreshed[e] = Measured(e)
    BY <1>1 DEF Refreshed, Spiked, ConfinedInv
  <2>2. CASE Recent(e) = {}
    BY <1>1, <2>1, <2>2 DEF Measured, ConfinedInv
  <2>3. CASE Recent(e) # {}
    <3>1. samples[e] \subseteq Sample /\ IsFiniteSet(samples[e])
      BY DEF TrafficInv, EngineInv
    <3>2. PICK s \in Recent(e) : Measured(e).p95 = s.latency
      BY <2>3, <3>1, MeasuredWindow
    <3>3. s.latency \in Latencies
      BY <3>1 DEF Recent, Sample
    <3>4. s.latency <= 600 /\ s.latency \in Nat
      BY <3>3, GraphEngineAssumption DEF MildLatencies, GraphEngineAssumption
    <3>5. Measured(e).errorRate = 0
      BY <2>3, <3>1, MeasuredWindow
    <3>6. Measured(e).p95 <= 1500
      BY <3>2, <3>4
    <3> QED
      BY <2>1, <3>5, <3>6
  <2> QED
    BY <2>2, <2>3
<1>2. /\ DOMAIN Refreshed = DOMAIN edges /\ IsFiniteSet(DOMAIN Refreshed)
      /\ \A e \in DOMAIN Refreshed : Refreshed[e] \in Edge
  BY RefreshedSound DEF EngineInv, TrafficInv
<1>3. ASSUME NEW n \in NodeIds, Spared(n) PROVE status'[n] # "FAILING"
  <2>1. CASE n \notin Present
    BY <1>3, <2>1, StatusOfTick DEF ConfinedInv
  <2>2. CASE n \in Present
    <3>1. \A e \in InEdges(Refreshed, n) : Refreshed[e].p95 <= 1500 /\ Refreshed[e].errorRate = 0
      BY <1>1, <1>2, <1>3 DEF InEdges
    <3>2. NodeErrorRates(Refreshed, n) = {0}
      BY <3>1 DEF NodeErrorRates
    <3>3. ~(anomalyActive /\ n = anomalyNodeId)
      BY <1>3 DEF ConfinedInv
    <3>4. Health(Refreshed, n, 0) # "FAILING"
      BY <1>2, <3>1, <3>3, HealthOfCalls
    <3> QED
      BY <2>2, <3>2, <3>4, StatusOfTick
  <2> QED
    BY <2>1, <2>2
<1> QED
  BY <1>1, <1>3

(* A new edge starts from a guess at its quantiles, which is mild too.     *)
LEMMA ConfinedUpsert ==
  ASSUME ConfinedInv, MildLatencies, NEW e, NEW latency \in Latencies, UpsertEdge(e, latency),
         NEW f \in DOMAIN edges', Spared(f.target)
  PROVE  edges'[f].p95 <= 1500 /\ edges'[f].errorRate = 0
<1>1. CASE f \in DOMAIN edges
  <2>1. edges'[f] = edges[f]
    BY <1>1 DEF UpsertEdge
  <2> QED
    BY <1>1, <2>1 DEF ConfinedInv
<1>2. CASE f \notin DOMAIN edges
  <2>1. edges'[f] = NewEdge(latency)
    BY <1>2 DEF UpsertEdge
  <2>2. latency \in Nat /\ latency <= 600
    BY GraphEngineAssumption DEF GraphEngineAssumption, MildLatencies
  <2>3. (5 * latency) \div 2 <= 1500
    BY <2>2
  <2>4. NewEdge(latency).p95 = (5 * latency) \div 2 /\ NewEdge(latency).errorRate = 0
    BY DEF NewEdge
  <2> QED
    BY <2>1, <2>3, <2>4
<1> QED
  BY <1>1, <1>2

(* A tick reads the outage it confines to its node, and calls that arrive  *)
(* in an outage are of its edges.                                          *)
LEMMA ConfinedStep == EngineInv /\ TrafficInv /\ ConfinedInv /\ [Next]_vars => ConfinedInv'
<1> SUFFICES ASSUME EngineInv, TrafficInv, ConfinedInv, [Next]_vars PROVE ConfinedInv'
  OBVIOUS
<1>1. CASE IngestFlow
  <2> DEFINE h == Head(batch)
  <2>1. h.latency \in Latencies
    <3>1. h \in Event \cup Seed
      BY <1>1 DEF IngestFlow, EngineInv
    <3>2. h.kind = "flow"
      BY <1>1 DEF IngestFlow
    <3> QED
      BY <3>1, <3>2 DEF Event, Seed, Flow, Incomplete, Malformed
  <2>2. /\ UpsertEdge(h.edge, h.latency)
        /\ UNCHANGED <<status, anomalyActive, anomalyNodeId, anomalies>>
    BY <1>1 DEF IngestFlow, outage
  <2>3. ASSUME MildLatencies, NEW f \in DOMAIN edges', Spared(f.target)
        PROVE  edges'[f].p95 <= 1500 /\ edges'[f].errorRate = 0
    BY <2>1, <2>2, <2>3, ConfinedUpsert
  <2> QED
    BY <2>2, <2>3 DEF ConfinedInv, Spared, MildLatencies
<1>2. CASE Tick
  <2>1. edges' = Refreshed /\ UNCHANGED <<anomalyActive, anomalyNodeId, anomalies>>
    BY <1>2 DEF Tick, outage
  <2>2. DOMAIN Refreshed = DOMAIN edges
    BY DEF Refreshed
  <2>3. CASE MildLatencies
    BY <1>2, <2>1, <2>2, <2>3, ConfinedTick DEF ConfinedInv, Spared
  <2>4. CASE ~MildLatencies
    BY <2>1, <2>4 DEF ConfinedInv, Spared, MildLatencies
  <2> QED
    BY <2>3, <2>4
<1>3. ASSUME NEW service \in Services, ToggleAnomaly(service) PROVE ConfinedInv'
  <2>1. CASE InjectAnomaly(service)
    <3> DEFINE n == TargetNode(service)
    <3>1. anomalyNodeId' = n /\ anomalies' = Append(anomalies, n) /\ UNCHANGED <<edges, status>>
      BY <2>1 DEF InjectAnomaly, graph
    <3>2. n \in NodeIds
      BY <2>1, TargetInGraph DEF InjectAnomaly, EngineInv, Present, Range
    <3> HIDE DEF n
    <3>3. Range(anomalies') = Range(anomalies) \cup {n}
      <4>1. anomalies \in Seq(NodeIds)
        BY DEF EngineInv
      <4>2. /\ DOMAIN anomalies' = 1..(Len(anomalies) + 1) /\ DOMAIN anomalies = 1..Len(anomalies)
            /\ Len(anomalies) \in Nat
            /\ \A i \in 1..Len(anomalies) : anomalies'[i] = anomalies[i]
            /\ anomalies'[Len(anomalies) + 1] = n
        BY <3>1, <3>2, <4>1
      <4> QED
        BY <4>2 DEF Range
    <3> QED
      BY <3>1, <3>3 DEF ConfinedInv, Spared, MildLatencies
  <2>2. CASE ClearAnomaly(service)
    BY <2>2 DEF ClearAnomaly, graph, ConfinedInv, Spared, MildLatencies
  <2> QED
    BY <1>3, <2>1, <2>2 DEF ToggleAnomaly
<1>4. CASE UNCHANGED <<edges, status, outage>>
  BY <1>4 DEF outage, ConfinedInv, Spared, MildLatencies
<1> QED
  BY <1>1, <1>2, <1>3, <1>4 DEF Next, Ingest, Post, StartSimulator, SeedNode, SkipIncomplete,
     Throw, Elapse, graph, outage, vars

(* ConfinedInv holds always.                                               *)
LEMMA ConfinedInvariant == Spec => []ConfinedInv
  BY EngineInvariant, TrafficInvariant, ConfinedInit, ConfinedStep, PTL DEF Spec

(* What upsertNode, upsertEdge, tick and toggleAnomaly leave is well       *)
(* typed, whatever batches, exceptions and toggles come, and however the   *)
(* window moves.                                                           *)
THEOREM TypeCorrect == Spec => []TypeOK
<1>1. EngineInv /\ TrafficInv => TypeOK
  <2> SUFFICES ASSUME EngineInv, TrafficInv PROVE TypeOK
    OBVIOUS
  <2>1. anomalyNodeId \in NodeIds \cup {NoNode}
    BY DEF EngineInv, OutageNamesNode, Present, Range
  <2> QED
    BY <2>1 DEF EngineInv, TrafficInv, TypeOK
<1> QED
  BY <1>1, EngineInvariant, TrafficInvariant, PTL

(* p50, p95 and p99 of every edge are in order at all times: tick takes    *)
(* them from one sorted window, a first sample sets them in proportion,    *)
(* and the floors of an outage are in order themselves.                    *)
THEOREM QuantilesCorrect == Spec => []QuantilesOrdered
<1>1. TrafficInv => QuantilesOrdered
  BY DEF TrafficInv
<1> QED
  BY <1>1, TrafficInvariant, PTL

(* With mild traffic, no sequence of toggles, broken batches and ticks     *)
(* makes a service FAILING, or shows errors on a call into it, that has    *)
(* never been the target of toggleAnomaly.                                 *)
THEOREM OutageConfinedCorrect == Spec => []OutageConfined
<1>1. TrafficInv /\ ConfinedInv => OutageConfined
  BY DEF TrafficInv, ConfinedInv, OutageConfined, MildLatencies, Spared, Edge
<1> QED
  BY <1>1, TrafficInvariant, ConfinedInvariant, PTL

(* A tick without an active outage leaves a service HEALTHY when all       *)
(* calls into it have been seen within the window with latencies of at     *)
(* most 50 ms, whatever an outage left in the metrics.                     *)
THEOREM TrafficHealsCorrect == Spec => TrafficHeals
<1> DEFINE A == Tick /\ ~anomalyActive =>
       \A n \in Present :
         (/\ \A e \in CallsInto(n) : Fresh(e)
          /\ \A e \in CallsInto(n) : \A s \in samples[e] : s.age <= Window => s.latency <= 500)
         => status'[n] = "HEALTHY"
<1>1. EngineInv /\ TrafficInv => A
  <2> SUFFICES ASSUME EngineInv, TrafficInv, Tick, ~anomalyActive, NEW n \in Present,
                      \A e \in CallsInto(n) : Fresh(e),
                      \A e \in CallsInto(n) : \A s \in samples[e] :
                        s.age <= Window => s.latency <= 500
               PROVE  status'[n] = "HEALTHY"
    OBVIOUS
  <2>1. /\ DOMAIN Refreshed = DOMAIN edges /\ IsFiniteSet(DOMAIN Refreshed)
        /\ \A e \in DOMAIN Refreshed : Refreshed[e] \in Edge
    BY RefreshedSound DEF EngineInv, TrafficInv
  <2>2. ASSUME NEW e \in InEdges(Refreshed, n)
        PROVE  Refreshed[e].p95 <= 500 /\ Refreshed[e].errorRate = 0
    <3>1. e \in CallsInto(n) /\ e \in DOMAIN edges /\ e \in EdgeIds
      BY <2>1 DEF InEdges, CallsInto, EngineInv
    <3>2. Refreshed[e] = Measured(e)
      BY <3>1 DEF Refreshed, Spiked
    <3>3. Recent(e) # {}
      BY <3>1 DEF Fresh, Recent
    <3>4. samples[e] \subseteq Sample /\ IsFiniteSet(samples[e])
      BY <3>1 DEF TrafficInv
    <3>5. /\ Measured(e).errorRate = 0
          /\ \E s \in Recent(e) : Measured(e).p95 = s.latency
      BY <3>3, <3>4, MeasuredWindow
    <3>6. \A s \in Recent(e) : s.latency <= 500
      BY <3>1 DEF Recent
    <3> QED
      BY <3>2, <3>5, <3>6
  <2>3. NodeErrorRates(Refreshed, n) = {0}
    BY <2>2 DEF NodeErrorRates
  <2>4. Health(Refreshed, n, 0) = "HEALTHY"
    BY <2>1, <2>2, HealthOfCalls
  <2>5. n \in NodeIds
    BY DEF EngineInv, Present, Range
  <2> QED
    BY <2>3, <2>4, <2>5, StatusOfTick
<1> HIDE DEF A
<1>2. Spec => [][A]_vars
  BY <1>1, EngineInvariant, TrafficInvariant, PTL DEF Spec
<1> QED
  BY <1>2 DEF TrafficHeals, A

(* A tick leaves the target of an active outage FAILING when a call into   *)
(* it has been seen within the window, however healthy the samples.        *)
THEOREM OutageShowsCorrect == Spec => OutageShows
<1> DEFINE A == Tick /\ anomalyActive /\ (\E e \in CallsInto(anomalyNodeId) : Fresh(e))
       => status'[anomalyNodeId] = "FAILING"
<1>1. EngineInv /\ TrafficInv => A
  <2> SUFFICES ASSUME EngineInv, TrafficInv, Tick, anomalyActive,
                      NEW e \in CallsInto(anomalyNodeId), Fresh(e)
               PROVE  status'[anomalyNodeId] = "FAILING"
    OBVIOUS
  <2>1. anomalyNodeId \in Present /\ anomalyNodeId \in NodeIds
    BY DEF EngineInv, OutageNamesNode, Present, Range
  <2>2. e \in DOMAIN edges /\ e.target = anomalyNodeId /\ e \in EdgeIds /\ Recent(e) # {}
    BY DEF CallsInto, Fresh, Recent, EngineInv
  <2>3. samples[e] \subseteq Sample /\ IsFiniteSet(samples[e])
    BY <2>2 DEF TrafficInv
  <2>4. Measured(e) \in Edge /\ Ordered(Measured(e)) /\ Measured(e).flowing
    BY <2>2, <2>3, MeasuredWindow
  <2>5. Refreshed[e].flowing
    BY <2>2, <2>4, SpikedSound DEF Refreshed
  <2>6. e \in InEdges(Refreshed, anomalyNodeId)
    BY <2>2 DEF InEdges, Refreshed
  <2>7. \A rate : Health(Refreshed, anomalyNodeId, rate) = "FAILING"
    BY <2>5, <2>6 DEF Health
  <2> QED
    BY <2>1, <2>7, StatusOfTick
<1> HIDE DEF A
<1>2. Spec => [][A]_vars
  BY <1>1, EngineInvariant, TrafficInvariant, PTL DEF Spec
<1> QED
  BY <1>2 DEF OutageShows, A
=============================================================================
