----------------------------- MODULE GraphEngine -----------------------------
(***************************************************************************)
(* server/graph_engine.mjs: the topology graph that the aggregator builds  *)
(* from the agents' events, the one-second tick that derives rates,        *)
(* latency quantiles and health from the last seconds of traffic, and the  *)
(* simulated outage that an operator injects and clears.                   *)
(*                                                                         *)
(* The server is single-threaded: a handler or timer callback that has     *)
(* started runs to its end.  ingestBatch is the one handler taken apart,   *)
(* an event at a time, because an event in the middle of a batch can make  *)
(* it throw; nothing else runs while batch is not empty.  What can throw   *)
(* in an event (a missing field read, a name that is no string) comes      *)
(* before its first upsert, namespaces being strings or missing, and       *)
(* notifySubscribers catches what its callbacks throw: the upserts of one  *)
(* event are one step.                                                     *)
(*                                                                         *)
(* Units: latencies in tenths of a millisecond, error rates in tenths of a *)
(* percent, time in seconds.  Abstractions:                                *)
(*  - requestRate is kept as "flowing": is it above zero?  tick computes   *)
(*    at least 0.2 from a non-empty window, and its decay by 0.7 never     *)
(*    reaches zero, because the smallest positive double times 0.7 rounds  *)
(*    to itself.                                                           *)
(*  - the errorRate of a node, the mean of those of its calls weighted by  *)
(*    their rates, is any value between the smallest and the largest of    *)
(*    them, in the bands that its status tells apart.                      *)
(*  - bytesPerSec, activeConnections and the descriptive fields of a node  *)
(*    are left out: nothing is decided by them.                            *)
(***************************************************************************)
EXTENDS Naturals, Sequences, FiniteSets, Functions

CONSTANTS
  NodeIds,    \* ids namespace/name
  NoNode,     \* null
  EdgeIds,    \* edges there may be: records with source, target, port
  Services,   \* names that toggleAnomaly may be called with
  Matches,    \* for a service, the ids of the nodes whose name includes it
  Latencies,  \* latencies that events report
  Seeds,      \* the nodes that the simulator seeds, in its order
  Window,     \* windowMs (5)
  MaxBatch,   \* bound of the model: events of a batch
  MaxSamples, \* bound of the model: samples of an edge between two ticks
  MaxOutages  \* bound of the model: outages injected

ASSUME GraphEngineAssumption ==
  /\ NoNode \notin NodeIds
  /\ EdgeIds \subseteq [source : NodeIds, target : NodeIds, port : Nat]
  /\ Matches \in [Services -> SUBSET NodeIds]
  /\ Latencies \subseteq Nat \ {0}
  /\ Seeds \in Seq(NodeIds)
  /\ Window \in Nat /\ MaxBatch \in Nat /\ MaxSamples \in Nat /\ MaxOutages \in Nat

(* Definitions with a faulty twin above them (SpikedBackwards and Spiked,  *)
(* for instance) are the ones that Next uses.                              *)

VARIABLES
  order,          \* this.nodes: the ids in the order of insertion
  status,         \* node.status
  edges,          \* this.edges, without the identity that is in EdgeIds
  samples,        \* this.edgeSamples
  anomalyActive,
  anomalyNodeId,
  anomalies,      \* rows written by store.recordAnomaly: the service ids
  batch           \* what is left of the batch being ingested, or seeded

vars == <<order, status, edges, samples, anomalyActive, anomalyNodeId, anomalies, batch>>
graph == <<order, edges, samples>>
outage == <<anomalyActive, anomalyNodeId, anomalies>>

Statuses == {"HEALTHY", "DEGRADED", "FAILING"}

(* An event carries a call, or lacks its source or destination, or has a   *)
(* field of the wrong type on which ingestBatch throws.  A seed is not an  *)
(* event: the simulator adds nodes that nothing has called yet.            *)
Flow == [kind : {"flow"}, edge : EdgeIds, latency : Latencies]
Incomplete == [kind |-> "incomplete"]
Malformed == [kind |-> "malformed"]
Event == Flow \cup {Incomplete, Malformed}
Seed == [kind : {"seed"}, node : NodeIds]

Sample == [slot : 1..MaxSamples, age : 0..(Window + 1), latency : Latencies]
Edge == [flowing : BOOLEAN, p50 : Nat, p95 : Nat, p99 : Nat, errorRate : Nat]

Idle == batch = << >>
Present == Range(order)

Init ==
  /\ order = << >>
  /\ status = [n \in NodeIds |-> "HEALTHY"]
  /\ edges = << >>
  /\ samples = [e \in EdgeIds |-> {}]
  /\ anomalyActive = FALSE
  /\ anomalyNodeId = NoNode
  /\ anomalies = << >>
  /\ batch = << >>

-----------------------------------------------------------------------------
(* ingestBatch and the upserts it makes.                                   *)

FreeSlots(e) == 1..MaxSamples \ {s.slot : s \in samples[e]}

(* The bound on samples, on the side of the sender.                        *)
Fits(events) ==
  \A e \in EdgeIds :
    Cardinality({i \in DOMAIN events : events[i].kind = "flow" /\ events[i].edge = e})
      <= Cardinality(FreeSlots(e))

Post(events) ==
  /\ Idle
  /\ Fits(events)
  /\ batch' = events
  /\ UNCHANGED <<graph, status, outage>>

(* The simulator starts, perhaps for the second time.  The calls that it   *)
(* then generates reach upsertEdge as those of an agent do.                *)
StartSimulator ==
  /\ Idle
  /\ batch' = [i \in DOMAIN Seeds |-> [kind |-> "seed", node |-> Seeds[i]]]
  /\ UNCHANGED <<graph, status, outage>>

AddNode(ids, n) == IF n \in Range(ids) THEN ids ELSE Append(ids, n)

NewEdge(latency) ==
  [flowing |-> FALSE, p50 |-> latency, p95 |-> (5 * latency) \div 2, p99 |-> 4 * latency,
   errorRate |-> 0]

UpsertEdgeWithoutTarget(e, latency) ==
  /\ order' = AddNode(order, e.source)
  /\ edges' = IF e \in DOMAIN edges THEN edges
              ELSE [f \in DOMAIN edges \cup {e} |-> IF f = e THEN NewEdge(latency) ELSE edges[f]]
  /\ \E slot \in FreeSlots(e) :
       /\ \A other \in FreeSlots(e) : slot <= other
       /\ samples' = [samples EXCEPT ![e] = @ \cup {[slot |-> slot, age |-> 0, latency |-> latency]}]

UpsertEdge(e, latency) ==
  /\ order' = AddNode(AddNode(order, e.source), e.target)
  /\ edges' = IF e \in DOMAIN edges THEN edges
              ELSE [f \in DOMAIN edges \cup {e} |-> IF f = e THEN NewEdge(latency) ELSE edges[f]]
  /\ \E slot \in FreeSlots(e) :
       /\ \A other \in FreeSlots(e) : slot <= other
       /\ samples' = [samples EXCEPT ![e] = @ \cup {[slot |-> slot, age |-> 0, latency |-> latency]}]

IngestFlow ==
  /\ batch # << >>
  /\ Head(batch).kind = "flow"
  /\ UpsertEdge(Head(batch).edge, Head(batch).latency)
  /\ batch' = Tail(batch)
  /\ UNCHANGED <<status, outage>>

SeedNode ==
  /\ batch # << >>
  /\ Head(batch).kind = "seed"
  /\ order' = AddNode(order, Head(batch).node)
  /\ batch' = Tail(batch)
  /\ UNCHANGED <<edges, samples, status, outage>>

SkipIncomplete ==
  /\ batch # << >>
  /\ Head(batch).kind = "incomplete"
  /\ batch' = Tail(batch)
  /\ UNCHANGED <<graph, status, outage>>

(* The exception leaves ingestBatch; the handler answers 400.              *)
Throw ==
  /\ batch # << >>
  /\ Head(batch).kind = "malformed"
  /\ batch' = << >>
  /\ UNCHANGED <<graph, status, outage>>

-----------------------------------------------------------------------------
(* Time, as Date.now() and the timers show it.                             *)

Older(s) == [s EXCEPT !.age = IF @ > Window THEN @ ELSE @ + 1]

Elapse ==
  /\ Idle
  /\ \E e \in EdgeIds : \E s \in samples[e] : s.age <= Window
  /\ samples' = [e \in EdgeIds |-> {Older(s) : s \in samples[e]}]
  /\ UNCHANGED <<order, edges, status, outage, batch>>

-----------------------------------------------------------------------------
(* tick.                                                                   *)

NatMax(a, b) == IF a >= b THEN a ELSE b

(* lats[Math.floor(lats.length * q)] after an ascending sort: the least    *)
(* value with more than that many values at or below it.  The values are   *)
(* those of a function, so that equal ones count as often as they occur.   *)
IsQuantile(x, f, percent) ==
  Cardinality({d \in DOMAIN f : f[d] <= x}) > (Cardinality(DOMAIN f) * percent) \div 100

Quantile(f, percent) ==
  CHOOSE x \in Range(f) : /\ IsQuantile(x, f, percent)
                          /\ \A y \in Range(f) : IsQuantile(y, f, percent) => x <= y

RecentOrLast(e) ==
  LET inWindow == {s \in samples[e] : s.age <= Window}
  IN  IF inWindow = {} THEN samples[e] ELSE inWindow

Recent(e) == {s \in samples[e] : s.age <= Window}

(* A window without samples leaves everything but the rate as it was.      *)
MeasuredOnce(e) ==
  IF Recent(e) = {} \/ edges[e].flowing THEN edges[e]
  ELSE LET latency == [s \in Recent(e) |-> s.latency]
       IN  [flowing |-> TRUE, p50 |-> Quantile(latency, 50), p95 |-> Quantile(latency, 95),
            p99 |-> Quantile(latency, 99), errorRate |-> 0]

MeasuredWithoutRate(e) ==
  IF Recent(e) = {} THEN edges[e]
  ELSE LET latency == [s \in Recent(e) |-> s.latency]
       IN  [edges[e] EXCEPT !.p50 = Quantile(latency, 50), !.p95 = Quantile(latency, 95),
                            !.p99 = Quantile(latency, 99), !.errorRate = 0]

Measured(e) ==
  IF Recent(e) = {} THEN edges[e]
  ELSE LET latency == [s \in Recent(e) |-> s.latency]
       IN  [flowing |-> TRUE, p50 |-> Quantile(latency, 50), p95 |-> Quantile(latency, 95),
            p99 |-> Quantile(latency, 99), errorRate |-> 0]

(* The floors under the calls into the service of an active outage.        *)
SpikedBackwards(e, m) ==
  IF anomalyActive /\ e.source = anomalyNodeId
    THEN [m EXCEPT !.p50 = NatMax(@, 1854), !.p95 = NatMax(@, 4208), !.p99 = NatMax(@, 9802),
                   !.errorRate = NatMax(@, 245)]
    ELSE m

SpikedMedianOnly(e, m) ==
  IF anomalyActive /\ e.target = anomalyNodeId
    THEN [m EXCEPT !.p50 = NatMax(@, 1854), !.errorRate = NatMax(@, 245)]
    ELSE m

Spiked(e, m) ==
  IF anomalyActive /\ e.target = anomalyNodeId
    THEN [m EXCEPT !.p50 = NatMax(@, 1854), !.p95 = NatMax(@, 4208), !.p99 = NatMax(@, 9802),
                   !.errorRate = NatMax(@, 245)]
    ELSE m

Refreshed == [e \in DOMAIN edges |-> Spiked(e, Measured(e))]

(* Health of a node, from the refreshed edges g.                           *)
InEdges(g, n) == {e \in DOMAIN g : e.target = n}

NodeErrorRates(g, n) ==
  IF \A e \in InEdges(g, n) : g[e].errorRate = 0 THEN {0} ELSE {0, 30, 245}

Health(g, n, errorRate) ==
  IF \A e \in InEdges(g, n) : ~g[e].flowing THEN "HEALTHY"
  ELSE LET p95 == Quantile([e \in InEdges(g, n) |-> g[e].p95], 95)
           failing == errorRate > 50 \/ p95 > 1500
           degraded == errorRate > 10 \/ p95 > 500
       IN  IF (anomalyActive /\ n = anomalyNodeId) \/ failing THEN "FAILING"
           ELSE IF degraded THEN "DEGRADED"
           ELSE "HEALTHY"

(* The statuses that the error rates allow; an id not in the map has none. *)
NextStatuses(g) ==
  LET allowed == [n \in NodeIds |->
                    IF n \in Present THEN {Health(g, n, rate) : rate \in NodeErrorRates(g, n)}
                    ELSE {status[n]}]
  IN  {new \in [NodeIds -> Statuses] : \A n \in NodeIds : new[n] \in allowed[n]}

Tick ==
  /\ Idle
  /\ samples' = [e \in EdgeIds |-> Recent(e)]
  /\ edges' = Refreshed
  /\ status' \in NextStatuses(edges')
  /\ UNCHANGED <<order, outage, batch>>

-----------------------------------------------------------------------------
(* toggleAnomaly: the first node, in insertion order, whose name includes  *)
(* the service's, or else the one in the middle of the map.  Without nodes *)
(* it returns and changes nothing.                                         *)

IsFirstMatch(i, service) ==
  /\ order[i] \in Matches[service]
  /\ \A j \in 1..(i - 1) : order[j] \notin Matches[service]

MatchedNode(service) ==
  IF \E i \in DOMAIN order : IsFirstMatch(i, service)
    THEN order[CHOOSE i \in DOMAIN order : IsFirstMatch(i, service)]
    ELSE NoNode

TargetNode(service) ==
  IF \E i \in DOMAIN order : IsFirstMatch(i, service)
    THEN order[CHOOSE i \in DOMAIN order : IsFirstMatch(i, service)]
    ELSE order[Len(order) \div 2 + 1]

InjectMatched(service) ==
  /\ Idle
  /\ ~anomalyActive
  /\ Len(anomalies) < MaxOutages
  /\ \E n \in Matches[service] :
       /\ anomalyActive' = TRUE
       /\ anomalyNodeId' = n
       /\ anomalies' = Append(anomalies, n)
  /\ UNCHANGED <<graph, status, batch>>

InjectAnomaly(service) ==
  /\ Idle
  /\ order # << >>
  /\ ~anomalyActive
  /\ Len(anomalies) < MaxOutages
  /\ anomalyActive' = TRUE
  /\ anomalyNodeId' = TargetNode(service)
  /\ anomalies' = Append(anomalies, TargetNode(service))
  /\ UNCHANGED <<graph, status, batch>>

ClearAnomaly(service) ==
  /\ Idle
  /\ order # << >>
  /\ anomalyActive
  /\ anomalyActive' = FALSE
  /\ anomalyNodeId' = NoNode
  /\ UNCHANGED <<graph, status, anomalies, batch>>

ToggleAnomaly(service) == InjectAnomaly(service) \/ ClearAnomaly(service)

-----------------------------------------------------------------------------
Ingest == IngestFlow \/ SeedNode \/ SkipIncomplete \/ Throw

Next ==
  \/ \E k \in 1..MaxBatch : \E events \in [1..k -> Event] : Post(events)
  \/ StartSimulator
  \/ Ingest
  \/ Elapse
  \/ Tick
  \/ \E service \in Services : ToggleAnomaly(service)

Spec == Init /\ [][Next]_vars

(* A handler that has started ends.  Time passes and setInterval calls     *)
(* tick again and again, however many requests arrive: the event loop      *)
(* comes back to its timers between two callbacks, hence strong fairness.  *)
(* Neither the agents nor the operator need do anything.                   *)
FairSpec == Spec /\ WF_vars(Ingest) /\ SF_vars(Elapse) /\ SF_vars(Tick)

-----------------------------------------------------------------------------
(* Types.                                                                  *)
TypeOK ==
  /\ order \in Seq(NodeIds)
  /\ status \in [NodeIds -> Statuses]
  /\ DOMAIN edges \subseteq EdgeIds
  /\ \A e \in DOMAIN edges : edges[e] \in Edge
  /\ samples \in [EdgeIds -> SUBSET Sample]
  /\ anomalyActive \in BOOLEAN
  /\ anomalyNodeId \in NodeIds \cup {NoNode}
  /\ anomalies \in Seq(NodeIds)
  /\ batch \in Seq(Event \cup Seed)

(* The graph stays a graph: a node is there once, both ends of an edge are *)
(* nodes, and samples are only kept for an edge.  An exception in the      *)
(* middle of a batch, with half of it ingested, does not change that.      *)
GraphWellFormed ==
  /\ \A i, j \in DOMAIN order : order[i] = order[j] => i = j
  /\ \A e \in DOMAIN edges : {e.source, e.target} \subseteq Present
  /\ \A e \in EdgeIds : samples[e] # {} => e \in DOMAIN edges

(* An outage is active exactly when it names a node, that node is in the   *)
(* graph, and the store has been told of it last.                          *)
OutageNamesNode ==
  /\ anomalyActive <=> anomalyNodeId # NoNode
  /\ anomalyActive => /\ anomalyNodeId \in Present
                      /\ anomalies[Len(anomalies)] = anomalyNodeId

(* The latency quantiles of an edge are ordered, over any mix of measured  *)
(* windows, first samples and floors of an outage.                         *)
QuantilesOrdered ==
  \A e \in DOMAIN edges : edges[e].p50 <= edges[e].p95 /\ edges[e].p95 <= edges[e].p99

(* A simulated outage does not leak: while events report latencies of at   *)
(* most 60 ms (a first sample sets p95 to two and a half times its         *)
(* latency, and 150 ms is FAILING), only a service that has been a target  *)
(* of an outage is ever FAILING, and only calls into such a service show   *)
(* errors.                                                                 *)
OutageConfined ==
  (\A l \in Latencies : l <= 600) =>
    /\ \A n \in NodeIds : status[n] = "FAILING" => n \in Range(anomalies)
    /\ \A e \in DOMAIN edges : edges[e].errorRate > 0 => e.target \in Range(anomalies)

Fresh(e) == e \in DOMAIN edges /\ \E s \in samples[e] : s.age <= Window
CallsInto(n) == {e \in DOMAIN edges : e.target = n}

(* Traffic heals: once the outage is cleared, a tick at which every call   *)
(* into a service has been seen within the window, with latencies of at    *)
(* most 50 ms, makes the service HEALTHY, whatever it was before.          *)
TrafficHeals ==
  [][Tick /\ ~anomalyActive =>
       \A n \in Present :
         (/\ \A e \in CallsInto(n) : Fresh(e)
          /\ \A e \in CallsInto(n) : \A s \in samples[e] : s.age <= Window => s.latency <= 500)
         => status'[n] = "HEALTHY"]_vars

(* No tick hides an outage that has traffic: a service under an active     *)
(* outage that is being called is FAILING after it, although the samples   *)
(* in the window are healthy.                                              *)
OutageShows ==
  [][Tick /\ anomalyActive /\ (\E e \in CallsInto(anomalyNodeId) : Fresh(e))
       => status'[anomalyNodeId] = "FAILING"]_vars

(* Old traffic is forgotten: samples do not outlive the window, although   *)
(* only tick removes them.                                                 *)
Stale(e) == \E s \in samples[e] : s.age > Window
SamplesExpire == \A e \in EdgeIds : Stale(e) ~> ~Stale(e)

-----------------------------------------------------------------------------
(* What the repository says of the outage, and the code does not do.       *)

(* test_flowcartographer.mjs: "Anomaly should now be reset" after the      *)
(* second toggle.  A cleared outage ends, also without new traffic.        *)
ClearedOutageEnds ==
  \A n \in NodeIds : status[n] = "FAILING" /\ ~anomalyActive ~> status[n] # "FAILING" \/ anomalyActive
=============================================================================
