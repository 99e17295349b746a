-------------------------- MODULE PersistenceStore --------------------------
(***************************************************************************)
(* server/db.mjs: the two backends of the store, SQLite and memory, and    *)
(* captureSnapshot of server/graph_engine.mjs, which writes to it.  A      *)
(* process has one of the two, which openBackend chooses when it starts;   *)
(* that choice is not modelled: here both are written to by the same       *)
(* calls, so that what they answer can be compared.                        *)
(*                                                                         *)
(* SQLite commits each insert by itself and keeps it in a file; the memory *)
(* backend keeps the objects it is given and loses them with the process,  *)
(* which ends when it is told to and may die between any two inserts.  A   *)
(* snapshot row of the memory backend copies the fields of a node, but the *)
(* copy of the field metrics is a reference to the object that tick goes   *)
(* on changing; JSON makes the row in SQLite independent of it.  An edge   *)
(* has no nested objects.                                                  *)
(*                                                                         *)
(* SQLite numbers the rows of each table by themselves, from 1 and with no *)
(* gap, because nothing deletes a row.  The memory backend takes the ids   *)
(* of all three of its arrays from one counter.                            *)
(*                                                                         *)
(* A timestamp is the number of its capture.  Edge metrics are their edge  *)
(* and timestamp: nothing reads them back, their ids neither.              *)
(***************************************************************************)
EXTENDS Integers, Sequences, FiniteSets, SequencesExt

CONSTANTS
  NodeIds,
  EdgeIds,
  Statuses,    \* node.status
  Loads,       \* what node.metrics may hold
  MaxRows,     \* MAX_MEMORY_ROWS (2000)
  PageRows,    \* rows that getActiveAnomalies returns at most (50)
  Limits,      \* arguments of getSnapshots
  MaxCaptures, \* bound of the model: snapshots taken
  MaxOutages,  \* bound of the model: anomalies recorded
  MaxEnds      \* bound of the model: ends of a process, deaths and others

ASSUME PersistenceStoreAssumption ==
  /\ MaxRows \in Nat \ {0} /\ PageRows \in Nat \ {0}
  /\ Limits \subseteq Int
  /\ MaxCaptures \in Nat /\ MaxOutages \in Nat /\ MaxEnds \in Nat

(* Definitions with a faulty twin above them (KeepOldest and Keep, for     *)
(* instance) are the ones that Next uses.                                  *)

VARIABLES
  live,          \* the nodes of the running engine: their status and metrics
  flowing,       \* its edges with requestRate > 0
  captures,      \* number of captures so far
  todo,          \* edges whose metrics the capture under way has yet to record
  crashes,       \* number of deaths of the process so far
  exits,         \* number of its other ends so far
  sqlSnapshots,  \* table snapshots: [id, at, nodes, edges], the edges with a rate
  sqlMetrics,    \* table edge_metrics: [at, edge]
  sqlAnomalies,  \* table anomalies: [id, service_id]
  memSnapshots,  \* this.snapshots: [id, at, status, edges], the metrics being in live
  memMetrics,    \* this.edgeMetrics
  memAnomalies,  \* this.anomalies
  nextId         \* this.nextId

engine == <<live, flowing>>
sql == <<sqlSnapshots, sqlMetrics, sqlAnomalies>>
memory == <<memSnapshots, memMetrics, memAnomalies, nextId>>
processes == <<crashes, exits>>
vars == <<engine, captures, todo, processes, sql, memory>>

Node == [status : Statuses, metrics : Loads]
Anomaly == [id : Nat \ {0}, service_id : NodeIds]
Capturing == todo # {}

(* The engine starts empty; tables are created if they are not there.      *)
Init ==
  /\ live = << >> /\ flowing = {}
  /\ captures = 0 /\ todo = {} /\ crashes = 0 /\ exits = 0
  /\ sqlSnapshots = << >> /\ sqlMetrics = << >> /\ sqlAnomalies = << >>
  /\ memSnapshots = << >> /\ memMetrics = << >> /\ memAnomalies = << >>
  /\ nextId = 1

-----------------------------------------------------------------------------
(* The engine, as far as the store sees it: nodes are never removed, and   *)
(* an edge that has had traffic keeps a rate above zero.                   *)
EngineDecays ==
  /\ ~Capturing
  /\ \E N \in SUBSET NodeIds :
       /\ DOMAIN live \subseteq N
       /\ live' \in [N -> Node]
  /\ flowing' \in SUBSET EdgeIds
  /\ UNCHANGED <<captures, todo, processes, sql, memory>>

EngineChanges ==
  /\ ~Capturing
  /\ \E N \in SUBSET NodeIds :
       /\ DOMAIN live \subseteq N
       /\ live' \in [N -> Node]
  /\ \E F \in SUBSET EdgeIds :
       /\ flowing \subseteq F
       /\ flowing' = F
  /\ UNCHANGED <<captures, todo, processes, sql, memory>>

-----------------------------------------------------------------------------
(* Writing.                                                                *)

LastRows(s, k) == IF Len(s) <= k THEN s ELSE SubSeq(s, Len(s) - k + 1, Len(s))

KeepOldest(s) == IF Len(s) <= MaxRows THEN s ELSE SubSeq(s, 1, MaxRows)
Keep(s) == LastRows(s, MaxRows)

StatusOf(nodes) == [n \in DOMAIN nodes |-> nodes[n].status]

SqlRow ==
  [id |-> Len(sqlSnapshots) + 1, at |-> captures + 1, nodes |-> live, edges |-> flowing]
MemRow ==
  [id |-> nextId, at |-> captures + 1, status |-> StatusOf(live), edges |-> flowing]
MetricsRow(e) == [at |-> captures, edge |-> e]
SqlAnomaly(n) == [id |-> Len(sqlAnomalies) + 1, service_id |-> n]
MemAnomaly(n) == [id |-> nextId, service_id |-> n]

(* Each row pushed to one of the three arrays takes an id.                 *)
TakeId == nextId' = nextId + 1

(* The head of captureSnapshot.  A graph without nodes is not recorded.    *)
SaveSnapshot ==
  /\ ~Capturing
  /\ live # << >>
  /\ captures < MaxCaptures
  /\ captures' = captures + 1
  /\ todo' = flowing
  /\ sqlSnapshots' = Append(sqlSnapshots, SqlRow)
  /\ memSnapshots' = Keep(Append(memSnapshots, MemRow))
  /\ TakeId
  /\ UNCHANGED <<engine, processes, sqlMetrics, sqlAnomalies, memMetrics, memAnomalies>>

(* The edges are taken in the order of the engine's Map, whichever it is.  *)
NextEdge == CHOOSE e \in todo : TRUE

RecordFirstEdgeOnly ==
  /\ Capturing
  /\ todo' = {}
  /\ sqlMetrics' = Append(sqlMetrics, MetricsRow(NextEdge))
  /\ memMetrics' = Keep(Append(memMetrics, MetricsRow(NextEdge)))
  /\ TakeId
  /\ UNCHANGED <<engine, captures, processes, sqlSnapshots, sqlAnomalies, memSnapshots, memAnomalies>>

(* Its loop over the edges.                                                *)
RecordEdgeMetrics ==
  /\ Capturing
  /\ todo' = todo \ {NextEdge}
  /\ sqlMetrics' = Append(sqlMetrics, MetricsRow(NextEdge))
  /\ memMetrics' = Keep(Append(memMetrics, MetricsRow(NextEdge)))
  /\ TakeId
  /\ UNCHANGED <<engine, captures, processes, sqlSnapshots, sqlAnomalies, memSnapshots, memAnomalies>>

(* The insert of toggleAnomaly, for a node of the graph.                   *)
RecordAnomaly(n) ==
  /\ ~Capturing
  /\ Len(sqlAnomalies) < MaxOutages
  /\ sqlAnomalies' = Append(sqlAnomalies, SqlAnomaly(n))
  /\ memAnomalies' = Append(memAnomalies, MemAnomaly(n))
  /\ TakeId
  /\ UNCHANGED <<engine, captures, todo, processes, sqlSnapshots, sqlMetrics, memSnapshots, memMetrics>>

(* What a process takes with it when it ends, however it ends: its graph,  *)
(* a capture under way and the rows of the memory backend.                 *)
EngineLost == live' = << >> /\ flowing' = {} /\ todo' = {}
MemoryLost ==
  /\ memSnapshots' = << >> /\ memMetrics' = << >> /\ memAnomalies' = << >>
  /\ nextId' = 1

(* The process dies, between any two inserts; what it finds when it is     *)
(* started again is the file and an empty memory.                          *)
Crash ==
  /\ crashes + exits < MaxEnds
  /\ crashes' = crashes + 1
  /\ EngineLost /\ MemoryLost
  /\ UNCHANGED <<captures, exits, sql>>

(* process.exit, after close() or without it.  It is called from a         *)
(* callback, so that no capture is under way.                              *)
Exit ==
  /\ ~Capturing
  /\ crashes + exits < MaxEnds
  /\ exits' = exits + 1
  /\ EngineLost /\ MemoryLost
  /\ UNCHANGED <<captures, crashes, sql>>

Next ==
  \/ EngineChanges \/ SaveSnapshot \/ RecordEdgeMetrics
  \/ \E n \in DOMAIN live : RecordAnomaly(n)
  \/ Crash \/ Exit

Spec == Init /\ [][Next]_vars

-----------------------------------------------------------------------------
(* Reading.                                                                *)

(* The first k elements left out.                                          *)
DropRows(s, k) == SubSeq(s, k + 1, Len(s))

(* ORDER BY id DESC LIMIT ?, reversed.  A negative limit is none.          *)
SqlGetSnapshots(limit) ==
  IF limit < 0 THEN sqlSnapshots ELSE LastRows(sqlSnapshots, limit)

(* slice(-limit), where -0 is the start of the array.                      *)
MemGetSnapshots(limit) ==
  IF limit > 0 THEN LastRows(memSnapshots, limit) ELSE DropRows(memSnapshots, -limit)

(* getActiveAnomalies.  Nothing ever sets resolved.                        *)
SqlGetActiveAnomalies == Reverse(LastRows(sqlAnomalies, PageRows))
MemGetActiveAnomalies == Reverse(LastRows(memAnomalies, PageRows))

(* The nodes in an answer, of one backend and of the other.                *)
SqlNodes(row) == row.nodes
MemNodes(row) ==
  [n \in DOMAIN row.status |-> [status |-> row.status[n], metrics |-> live[n].metrics]]

-----------------------------------------------------------------------------
Snapshots(rows) == {rows[i].at : i \in DOMAIN rows}

(* Types, and the bound of the history in memory.                          *)
TypeOK ==
  /\ DOMAIN live \subseteq NodeIds /\ \A n \in DOMAIN live : live[n] \in Node
  /\ flowing \subseteq EdgeIds /\ todo \subseteq flowing
  /\ captures \in 0..MaxCaptures /\ crashes \in 0..MaxEnds /\ exits \in 0..MaxEnds
  /\ Len(memSnapshots) <= MaxRows /\ Len(memMetrics) <= MaxRows
  /\ \A i \in DOMAIN sqlSnapshots : sqlSnapshots[i].at \in 1..captures
  /\ \A i \in DOMAIN memSnapshots : DOMAIN memSnapshots[i].status \subseteq DOMAIN live
  /\ sqlMetrics \in Seq([at : 1..captures, edge : EdgeIds])
  /\ memMetrics \in Seq([at : 1..captures, edge : EdgeIds])
  /\ sqlAnomalies \in Seq(Anomaly) /\ memAnomalies \in Seq(Anomaly)
  /\ nextId \in Nat \ {0}

FirstProcess == crashes + exits = 0

(* What the two backends answer agrees in the timestamps, statuses and     *)
(* edges of snapshots and in the services of anomalies, for every limit    *)
(* that both can serve: the memory backend's rows are the last of SQLite's *)
(* in the same order, though one trims and slices an array and the other   *)
(* sorts a table by id.  The first process misses none; in a later one     *)
(* the rows of those before it are missing.  Ids order the rows alike in   *)
(* both.  Neither the ids themselves nor the metrics of nodes are          *)
(* compared, since both differ: see TakeId and MemoryHistoryFrozen.        *)
Services(rows) == [i \in DOMAIN rows |-> rows[i].service_id]
HistoryAgrees ==
  /\ \A limit \in Limits \cap 1..MaxRows :
       LET s == SqlGetSnapshots(limit)
           m == MemGetSnapshots(limit)
           kept == LastRows(s, Len(m))
       IN  /\ Len(m) <= Len(s)
           /\ FirstProcess => Len(m) = Len(s)
           /\ \A i \in DOMAIN m :
                /\ m[i].at = kept[i].at
                /\ m[i].edges = kept[i].edges
                /\ m[i].status = StatusOf(kept[i].nodes)
                /\ \A j \in DOMAIN m : m[i].id < m[j].id <=> kept[i].id < kept[j].id
  /\ LET s == SqlGetActiveAnomalies
         m == MemGetActiveAnomalies
     IN  /\ IsPrefix(Services(m), Services(s))
         /\ FirstProcess => Services(m) = Services(s)
         /\ \A i, j \in DOMAIN m : m[i].id < m[j].id <=> s[i].id < s[j].id

(* No metrics without the snapshot they were taken with.  In memory the    *)
(* two tables are trimmed apart, each to its newest rows; a snapshot is    *)
(* still never dropped before its metrics, because a graph that has had    *)
(* metrics once has them in every later snapshot: rates do not reach zero. *)
MetricsHaveSnapshot ==
  /\ Snapshots(sqlMetrics) \subseteq Snapshots(sqlSnapshots)
  /\ ~Capturing => Snapshots(memMetrics) \subseteq Snapshots(memSnapshots)

(* A snapshot in the file lacks metrics of one of its edges only if the    *)
(* process died while it was being captured, or is still capturing it.     *)
Torn(row) == \E e \in row.edges : \A j \in DOMAIN sqlMetrics : sqlMetrics[j] # [at |-> row.at, edge |-> e]
TornOnlyByCrash ==
  Cardinality({i \in DOMAIN sqlSnapshots : Torn(sqlSnapshots[i])})
    <= crashes + (IF Capturing THEN 1 ELSE 0)

-----------------------------------------------------------------------------
(* What the repository says of the store, and the code does not do.        *)

(* README.md: "Scrub back in time to inspect earlier architectural         *)
(* states".  What a snapshot in memory shows does not change afterwards.   *)
MemoryHistoryFrozen ==
  [][\A i \in DOMAIN memSnapshots : \A j \in DOMAIN memSnapshots' :
       memSnapshots[i].at = memSnapshots'[j].at
         => MemNodes(memSnapshots[i]) = MemNodes(memSnapshots[j])']_vars
=============================================================================
