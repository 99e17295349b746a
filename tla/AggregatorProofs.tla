-------------------------- MODULE AggregatorProofs --------------------------
(***************************************************************************)
(* Theorems about PersistenceStore, for any graph and any limit of rows:   *)
(* its types with the bound of the memory backend, that only a death of    *)
(* the process leaves a snapshot in the file without metrics of an edge,   *)
(* that in both backends no metrics outlive their snapshot, and in what    *)
(* the answers of the two backends agree, as far as memory goes.           *)
(*                                                                         *)
(* Then about Aggregator, for any number of connections, services and      *)
(* edges: the store in it is PersistenceStore, its own types, and that an  *)
(* outage which is on is always on record.                                 *)
(***************************************************************************)
EXTENDS Aggregator, SequenceTheorems, FiniteSetTheorems, TLAPS

Graphs == UNION {[N -> Node] : N \in SUBSET NodeIds}
Healths == UNION {[N -> Statuses] : N \in SUBSET NodeIds}
SqlRows == [id : Nat \ {0}, at : Nat, nodes : Graphs, edges : SUBSET EdgeIds]
MemRows == [id : Nat \ {0}, at : Nat, status : Healths, edges : SUBSET EdgeIds]
Metrics(k) == [at : 1..k, edge : EdgeIds]

(* TypeOK, and the rows of the two tables of snapshots.                    *)
StoreTypes ==
  /\ TypeOK
  /\ live \in Graphs
  /\ sqlSnapshots \in Seq(SqlRows)
  /\ memSnapshots \in Seq(MemRows)
  /\ Capturing => captures # 0

(* The last k rows of a table are rows of it.                              *)
LEMMA LastRowsProperties ==
  ASSUME NEW S, NEW s \in Seq(S), NEW k \in Nat
  PROVE  /\ LastRows(s, k) \in Seq(S)
         /\ Len(LastRows(s, k)) <= k
         /\ \A i \in DOMAIN LastRows(s, k) : \E j \in DOMAIN s : LastRows(s, k)[i] = s[j]
<1>1. CASE Len(s) <= k
  BY <1>1 DEF LastRows
<1>2. CASE ~(Len(s) <= k)
  <2> DEFINE m == Len(s) - k + 1
             n == Len(s)
             r == SubSeq(s, m, n)
  <2>1. /\ LastRows(s, k) = r /\ n \in Nat /\ m \in Nat /\ m <= n + 1 /\ m > 0 /\ n - m + 1 = k
        /\ \A i \in m..n : i \in DOMAIN s /\ s[i] \in S
    BY <1>2 DEF LastRows
  <2> HIDE DEF m, n
  <2>2. /\ r \in Seq(S) /\ Len(r) = (IF m <= n THEN n - m + 1 ELSE 0)
        /\ \A i \in 1..(n - m + 1) : r[i] = s[m + i - 1]
    BY <2>1, SubSeqProperties
  <2> HIDE DEF r
  <2>3. Len(r) = k /\ DOMAIN r = 1..k
    BY <2>1, <2>2
  <2>4. \A i \in DOMAIN r : m + i - 1 \in m..n /\ r[i] = s[m + i - 1]
    BY <2>1, <2>2, <2>3
  <2> QED
    BY <2>1, <2>2, <2>3, <2>4
<1> QED
  BY <1>1, <1>2

(* Trimming a table to which a row has been added.                         *)
LEMMA KeepProperties ==
  ASSUME NEW S, NEW s \in Seq(S), NEW x \in S
  PROVE  /\ Keep(Append(s, x)) \in Seq(S)
         /\ Len(Keep(Append(s, x))) <= MaxRows
         /\ \A i \in DOMAIN Keep(Append(s, x)) :
              Keep(Append(s, x))[i] = x
                \/ \E j \in DOMAIN s : Keep(Append(s, x))[i] = s[j]
<1> DEFINE a == Append(s, x)
<1>1. a \in Seq(S) /\ \A j \in DOMAIN a : a[j] = x \/ \E i \in DOMAIN s : a[j] = s[i]
  OBVIOUS
<1>2. MaxRows \in Nat
  BY PersistenceStoreAssumption DEF PersistenceStoreAssumption
<1> HIDE DEF a
<1>3. /\ LastRows(a, MaxRows) \in Seq(S) /\ Len(LastRows(a, MaxRows)) <= MaxRows
      /\ \A i \in DOMAIN LastRows(a, MaxRows) : \E j \in DOMAIN a : LastRows(a, MaxRows)[i] = a[j]
  BY <1>1, <1>2, LastRowsProperties
<1> QED
  BY <1>1, <1>3 DEF Keep, a

(* The types hold initially.                                               *)
LEMMA StoreTypesInit == Init => StoreTypes
<1> SUFFICES ASSUME Init PROVE StoreTypes
  OBVIOUS
<1> USE DEF Init
<1>1. live \in Graphs
  <2>1. << >> \in [{} -> Node]
    OBVIOUS
  <2> QED
    BY <2>1 DEF Graphs
<1>2. sqlSnapshots \in Seq(SqlRows) /\ memSnapshots \in Seq(MemRows)
  OBVIOUS
<1>3. /\ sqlMetrics \in Seq([at : 1..captures, edge : EdgeIds])
      /\ memMetrics \in Seq([at : 1..captures, edge : EdgeIds])
      /\ sqlAnomalies \in Seq(Anomaly) /\ memAnomalies \in Seq(Anomaly)
      /\ nextId \in Nat \ {0}
  OBVIOUS
<1>4. DOMAIN live \subseteq NodeIds /\ \A n \in DOMAIN live : live[n] \in Node
  OBVIOUS
<1>5. captures \in 0..MaxCaptures /\ crashes \in 0..MaxEnds /\ exits \in 0..MaxEnds
      /\ Len(memSnapshots) <= MaxRows /\ Len(memMetrics) <= MaxRows
  BY PersistenceStoreAssumption DEF PersistenceStoreAssumption
<1> QED
  BY <1>1, <1>2, <1>3, <1>4, <1>5 DEF StoreTypes, Capturing, TypeOK

(* What a snapshot keeps of the nodes.                                     *)
LEMMA StatusOfGraph ==
  ASSUME NEW g \in Graphs
  PROVE  StatusOf(g) \in Healths /\ DOMAIN StatusOf(g) = DOMAIN g
<1>1. PICK N \in SUBSET NodeIds : g \in [N -> Node]
  BY DEF Graphs
<1>2. StatusOf(g) \in [N -> Statuses]
  BY <1>1 DEF StatusOf, Node
<1> QED
  BY <1>1, <1>2 DEF Healths, StatusOf

(* The nodes of a graph.                                                   *)
LEMMA GraphDomain ==
  ASSUME NEW g \in Graphs
  PROVE  DOMAIN g \subseteq NodeIds /\ \A n \in DOMAIN g : g[n] \in Node
BY DEF Graphs

(* What is recorded of an outage.                                          *)
LEMMA AnomalyTypes ==
  ASSUME StoreTypes, NEW n \in DOMAIN live
  PROVE  /\ SqlAnomaly(n) \in Anomaly /\ MemAnomaly(n) \in Anomaly
         /\ SqlAnomaly(n).service_id = n /\ MemAnomaly(n).service_id = n
         /\ SqlAnomaly(n).id = Len(sqlAnomalies) + 1 /\ MemAnomaly(n).id = nextId
<1>1. /\ n \in NodeIds /\ Len(sqlAnomalies) + 1 \in Nat \ {0}
      /\ nextId \in Nat \ {0}
  BY DEF StoreTypes, TypeOK
<1> QED
  BY <1>1 DEF SqlAnomaly, MemAnomaly, Anomaly

(* The types are kept by every step.                                       *)
LEMMA StoreTypesStep == StoreTypes /\ [Next]_vars => StoreTypes'
<1> SUFFICES ASSUME StoreTypes, [Next]_vars PROVE StoreTypes'
  OBVIOUS
<1>0. /\ captures \in 0..MaxCaptures /\ captures \in Nat
      /\ crashes \in 0..MaxEnds /\ exits \in 0..MaxEnds
      /\ MaxEnds \in Nat /\ MaxRows \in Nat /\ MaxCaptures \in Nat
      /\ flowing \subseteq EdgeIds /\ todo \subseteq flowing
      /\ Len(memSnapshots) <= MaxRows /\ Len(memMetrics) <= MaxRows
      /\ live \in Graphs
      /\ nextId \in Nat \ {0}
  BY PersistenceStoreAssumption DEF StoreTypes, Capturing, TypeOK, PersistenceStoreAssumption
<1>1. CASE EngineChanges
  <2>1. PICK N \in SUBSET NodeIds : DOMAIN live \subseteq N /\ live' \in [N -> Node]
    BY <1>1 DEF EngineChanges
  <2>2. live' \in Graphs /\ DOMAIN live \subseteq DOMAIN live'
    BY <2>1 DEF Graphs
  <2>3. flowing' \subseteq EdgeIds /\ flowing \subseteq flowing'
    BY <1>1 DEF EngineChanges
  <2>4. UNCHANGED <<captures, todo, crashes, exits, sql, memory>>
    BY <1>1 DEF EngineChanges, processes
  <2>5. DOMAIN live' \subseteq NodeIds /\ \A n \in DOMAIN live' : live'[n] \in Node
    BY <2>2, GraphDomain
  <2> QED
    BY <2>2, <2>3, <2>4, <2>5 DEF StoreTypes, Capturing, TypeOK, sql, memory
<1>2. CASE SaveSnapshot
  <2>1. /\ captures' = captures + 1 /\ todo' = flowing
        /\ sqlSnapshots' = Append(sqlSnapshots, SqlRow)
        /\ memSnapshots' = Keep(Append(memSnapshots, MemRow))
        /\ UNCHANGED <<live, flowing, crashes, exits, sqlMetrics, sqlAnomalies, memMetrics, memAnomalies>>
        /\ nextId' = nextId + 1
    BY <1>2 DEF SaveSnapshot, engine, processes, TakeId
  <2>2. captures' \in 0..MaxCaptures /\ captures' \in Nat /\ 1..captures \subseteq 1..captures'
    <3>1. captures < MaxCaptures
      BY <1>2 DEF SaveSnapshot
    <3> QED
      BY <1>0, <2>1, <3>1
  <2>3. /\ SqlRow \in SqlRows /\ SqlRow.at = captures'
        /\ MemRow \in MemRows /\ DOMAIN MemRow.status = DOMAIN live
    <3>1. StatusOf(live) \in Healths /\ DOMAIN StatusOf(live) = DOMAIN live
      BY <1>0, StatusOfGraph
    <3>2. flowing \in SUBSET EdgeIds /\ captures + 1 = captures' /\ captures + 1 \in Nat
      BY <1>0, <2>1
    <3>3. SqlRow \in SqlRows /\ SqlRow.at = captures'
      <4>1. Len(sqlSnapshots) + 1 \in Nat \ {0}
        BY DEF StoreTypes
      <4> QED
        BY <1>0, <3>2, <4>1 DEF SqlRow, SqlRows
    <3>4. MemRow \in MemRows /\ MemRow.status = StatusOf(live)
      BY <1>0, <3>1, <3>2 DEF MemRow, MemRows
    <3> QED
      BY <3>1, <3>3, <3>4
  <2>4. /\ sqlSnapshots \in Seq(SqlRows) /\ memSnapshots \in Seq(MemRows)
        /\ \A i \in DOMAIN sqlSnapshots : sqlSnapshots[i].at \in 1..captures
        /\ \A i \in DOMAIN memSnapshots : DOMAIN memSnapshots[i].status \subseteq DOMAIN live
    BY DEF StoreTypes, Capturing, TypeOK
  <2>5. sqlSnapshots' \in Seq(SqlRows) /\ \A i \in DOMAIN sqlSnapshots' : sqlSnapshots'[i].at \in 1..captures'
    <3>1. captures' \in 1..captures'
      BY <1>0, <2>1
    <3>2. \A i \in DOMAIN sqlSnapshots' :
            (i \in DOMAIN sqlSnapshots /\ sqlSnapshots'[i] = sqlSnapshots[i])
              \/ sqlSnapshots'[i] = SqlRow
      BY <2>1, <2>3, <2>4
    <3>3. sqlSnapshots' \in Seq(SqlRows)
      BY <2>1, <2>3, <2>4
    <3> QED
      BY <2>2, <2>3, <2>4, <3>1, <3>2, <3>3
  <2>6. /\ memSnapshots' \in Seq(MemRows) /\ Len(memSnapshots') <= MaxRows
        /\ \A i \in DOMAIN memSnapshots' : DOMAIN memSnapshots'[i].status \subseteq DOMAIN live
    <3>1. /\ memSnapshots' \in Seq(MemRows) /\ Len(memSnapshots') <= MaxRows
          /\ \A i \in DOMAIN memSnapshots' :
               memSnapshots'[i] = MemRow \/ \E j \in DOMAIN memSnapshots : memSnapshots'[i] = memSnapshots[j]
      BY <2>1, <2>3, <2>4, KeepProperties
    <3> QED
      BY <2>3, <2>4, <3>1
  <2>7. sqlMetrics' \in Seq(Metrics(captures')) /\ memMetrics' \in Seq(Metrics(captures'))
    <3>1. Metrics(captures) \subseteq Metrics(captures')
      BY <2>2 DEF Metrics
    <3>2. sqlMetrics \in Seq(Metrics(captures)) /\ memMetrics \in Seq(Metrics(captures))
      BY DEF StoreTypes, Capturing, TypeOK, Metrics
    <3>3. ASSUME NEW s \in Seq(Metrics(captures)) PROVE s \in Seq(Metrics(captures'))
      <4>1. \A i \in 1..Len(s) : s[i] \in Metrics(captures')
        BY <3>1
      <4> HIDE DEF Metrics
      <4> QED
        BY <4>1, SeqMonotonic
    <3> QED
      BY <2>1, <3>2, <3>3
  <2>8. nextId' \in Nat \ {0}
    BY <1>0, <2>1
  <2> QED
    BY <1>0, <2>1, <2>2, <2>5, <2>6, <2>7, <2>8 DEF StoreTypes, Capturing, TypeOK, Metrics
<1>3. CASE RecordEdgeMetrics
  <2>1. /\ todo # {} /\ todo' = todo \ {NextEdge}
        /\ sqlMetrics' = Append(sqlMetrics, MetricsRow(NextEdge))
        /\ memMetrics' = Keep(Append(memMetrics, MetricsRow(NextEdge)))
        /\ UNCHANGED <<live, flowing, captures, crashes, exits, sqlSnapshots, sqlAnomalies,
                       memSnapshots, memAnomalies>>
        /\ nextId' = nextId + 1
    BY <1>3 DEF RecordEdgeMetrics, Capturing, engine, processes, TakeId
  <2>2. NextEdge \in todo /\ NextEdge \in EdgeIds
    BY <1>0, <2>1 DEF NextEdge
  <2>3. captures \in 1..captures
    <3>1. captures # 0
      BY <1>3 DEF RecordEdgeMetrics, StoreTypes
    <3> QED
      BY <1>0, <3>1
  <2>4. MetricsRow(NextEdge) \in Metrics(captures)
    BY <2>2, <2>3 DEF MetricsRow, Metrics
  <2>5. sqlMetrics \in Seq(Metrics(captures)) /\ memMetrics \in Seq(Metrics(captures))
    BY DEF StoreTypes, Capturing, TypeOK, Metrics
  <2>6. sqlMetrics' \in Seq(Metrics(captures))
    BY <2>1, <2>4, <2>5
  <2>7. memMetrics' \in Seq(Metrics(captures)) /\ Len(memMetrics') <= MaxRows
    BY <2>1, <2>4, <2>5, KeepProperties
  <2>8. nextId' \in Nat \ {0}
    BY <1>0, <2>1
  <2> QED
    BY <2>1, <2>6, <2>7, <2>8 DEF StoreTypes, Capturing, TypeOK, Metrics
<1>4. ASSUME NEW n \in DOMAIN live, RecordAnomaly(n) PROVE StoreTypes'
  <2>1. /\ sqlAnomalies \in Seq(Anomaly) /\ memAnomalies \in Seq(Anomaly)
        /\ SqlAnomaly(n) \in Anomaly /\ MemAnomaly(n) \in Anomaly
    BY AnomalyTypes DEF StoreTypes, Capturing, TypeOK
  <2>2. /\ sqlAnomalies' = Append(sqlAnomalies, SqlAnomaly(n))
        /\ memAnomalies' = Append(memAnomalies, MemAnomaly(n))
        /\ UNCHANGED <<live, flowing, captures, todo, crashes, exits, sqlSnapshots, sqlMetrics,
                       memSnapshots, memMetrics>>
        /\ nextId' = nextId + 1
    BY <1>4 DEF RecordAnomaly, engine, processes, TakeId
  <2>3. sqlAnomalies' \in Seq(Anomaly) /\ memAnomalies' \in Seq(Anomaly)
        /\ nextId' \in Nat \ {0}
    BY <1>0, <2>1, <2>2
  <2> QED
    BY <2>2, <2>3 DEF StoreTypes, Capturing, TypeOK
<1>5. CASE Crash \/ Exit
  <2>1. /\ live' = << >> /\ flowing' = {} /\ todo' = {}
        /\ memSnapshots' = << >> /\ memMetrics' = << >> /\ memAnomalies' = << >>
        /\ nextId' = 1
        /\ UNCHANGED <<captures, sqlSnapshots, sqlMetrics, sqlAnomalies>>
    BY <1>5 DEF Crash, Exit, EngineLost, MemoryLost, sql
  <2>2. crashes' \in 0..MaxEnds /\ exits' \in 0..MaxEnds
    BY <1>0, <1>5 DEF Crash, Exit
  <2>3. live' \in Graphs
    <3>1. << >> \in [{} -> Node]
      OBVIOUS
    <3> QED
      BY <2>1, <3>1 DEF Graphs
  <2>4. /\ memSnapshots' \in Seq(MemRows) /\ memMetrics' \in Seq(Metrics(captures))
        /\ memAnomalies' \in Seq(Anomaly) /\ nextId' \in Nat \ {0}
    BY <2>1
  <2>5. Len(memSnapshots') <= MaxRows /\ Len(memMetrics') <= MaxRows
    BY <1>0, <2>1
  <2>6. DOMAIN live' = {} /\ DOMAIN memSnapshots' = {}
    BY <2>1
  <2> QED
    BY <2>1, <2>2, <2>3, <2>4, <2>5, <2>6 DEF StoreTypes, Capturing, TypeOK, Metrics
<1>6. CASE UNCHANGED vars
  BY <1>6 DEF vars, engine, processes, sql, memory, StoreTypes, Capturing, TypeOK
<1> QED
  BY <1>1, <1>2, <1>3, <1>4, <1>5, <1>6 DEF Next

(* Hence they always hold.                                                 *)
LEMMA StoreTypesCorrect == Spec => []StoreTypes
  BY StoreTypesInit, StoreTypesStep, PTL DEF Spec

(* Every reachable state is well typed, and neither table in memory has    *)
(* more than MaxRows rows.                                                 *)
THEOREM TypeCorrect == Spec => []TypeOK
<1>1. StoreTypes => TypeOK
  BY DEF StoreTypes
<1> QED
  BY <1>1, StoreTypesCorrect, PTL
-----------------------------------------------------------------------------
(* Torn snapshots.  The snapshot that is being captured is the last row;   *)
(* of the others at most one is torn for each death of the process.        *)

LastRow == Len(sqlSnapshots)
TornRows == {i \in DOMAIN sqlSnapshots : Torn(sqlSnapshots[i])}
Settled == IF Capturing THEN TornRows \ {LastRow} ELSE TornRows

TornInv ==
  /\ Cardinality(Settled) <= crashes
  /\ Capturing =>
       /\ LastRow \in DOMAIN sqlSnapshots
       /\ sqlSnapshots[LastRow].at = captures
       /\ \A e \in sqlSnapshots[LastRow].edges \ todo :
            \E j \in DOMAIN sqlMetrics : sqlMetrics[j] = [at |-> captures, edge |-> e]

(* The torn rows are finitely many, the settled ones at most one fewer.    *)
LEMMA TornRowsFinite ==
  ASSUME StoreTypes
  PROVE  /\ IsFiniteSet(TornRows) /\ IsFiniteSet(Settled)
         /\ Cardinality(Settled) \in Nat
         /\ Cardinality(TornRows) <= Cardinality(Settled) + (IF Capturing THEN 1 ELSE 0)
         /\ Cardinality(TornRows) \in Nat
<1>1. DOMAIN sqlSnapshots = 1..LastRow /\ LastRow \in Nat
  BY DEF StoreTypes, LastRow
<1>2. IsFiniteSet(1..LastRow)
  BY <1>1, FS_Interval
<1>3. IsFiniteSet(TornRows)
  <2>1. TornRows \in SUBSET (1..LastRow)
    BY <1>1 DEF TornRows
  <2> QED
    BY <1>2, <2>1, FS_Subset
<1>4. IsFiniteSet(TornRows \ {LastRow})
      /\ Cardinality(TornRows \ {LastRow})
           = IF LastRow \in TornRows THEN Cardinality(TornRows) - 1 ELSE Cardinality(TornRows)
  BY <1>3, FS_RemoveElement
<1>5. Cardinality(TornRows) \in Nat /\ Cardinality(TornRows \ {LastRow}) \in Nat
  BY <1>3, <1>4, FS_CardinalityType
<1> QED
  BY <1>3, <1>4, <1>5 DEF Settled

(* Few rows settle in a step that adds none to them.                       *)
LEMMA FewerSettled ==
  ASSUME StoreTypes, TornInv, crashes' = crashes, Settled' \subseteq Settled, crashes \in Nat
  PROVE  Cardinality(Settled') <= crashes'
<1>1. IsFiniteSet(Settled) /\ Cardinality(Settled) \in Nat
  BY TornRowsFinite
<1>2. Settled' \in SUBSET Settled
  OBVIOUS
<1>3. IsFiniteSet(Settled') /\ Cardinality(Settled') <= Cardinality(Settled)
  BY <1>1, <1>2, FS_Subset
<1>4. Cardinality(Settled') \in Nat
  BY <1>3, FS_CardinalityType
<1> QED
  BY <1>1, <1>3, <1>4 DEF TornInv

(* TornInv is kept by every step.                                          *)
LEMMA TornStep == StoreTypes /\ StoreTypes' /\ TornInv /\ [Next]_vars => TornInv'
<1> SUFFICES ASSUME StoreTypes, StoreTypes', TornInv, [Next]_vars PROVE TornInv'
  OBVIOUS
<1>0. /\ crashes \in Nat /\ captures \in Nat
      /\ sqlSnapshots \in Seq(SqlRows) /\ sqlMetrics \in Seq(Metrics(captures))
  BY DEF StoreTypes, TypeOK, Metrics
<1>1. ASSUME UNCHANGED <<todo, captures, crashes, sqlSnapshots, sqlMetrics>>
      PROVE  TornInv'
  BY <1>1 DEF TornInv, Settled, TornRows, Torn, LastRow, Capturing
<1>2. CASE SaveSnapshot
  <2>1. /\ todo = {} /\ captures' = captures + 1 /\ todo' = flowing
        /\ sqlSnapshots' = Append(sqlSnapshots, SqlRow)
        /\ UNCHANGED <<crashes, sqlMetrics>>
    BY <1>2 DEF SaveSnapshot, Capturing, processes
  <2>2. SqlRow \in SqlRows /\ SqlRow.at = captures' /\ SqlRow.edges = todo'
    <3>1. live \in Graphs /\ flowing \in SUBSET EdgeIds /\ captures + 1 \in Nat
      BY <1>0 DEF StoreTypes, TypeOK
    <3>2. Len(sqlSnapshots) + 1 \in Nat \ {0}
      BY <1>0
    <3> QED
      BY <2>1, <3>1, <3>2 DEF SqlRow, SqlRows
  <2>3. /\ LastRow \in Nat /\ LastRow' = LastRow + 1
        /\ DOMAIN sqlSnapshots = 1..LastRow /\ DOMAIN sqlSnapshots' = 1..(LastRow + 1)
        /\ \A i \in 1..LastRow : sqlSnapshots'[i] = sqlSnapshots[i]
        /\ sqlSnapshots'[LastRow + 1] = SqlRow
    BY <1>0, <2>1, <2>2 DEF LastRow
  <2>4. TornRows' \subseteq TornRows \cup {LastRow'}
    BY <2>1, <2>3 DEF TornRows, Torn
  <2>5. todo' = {} => LastRow' \notin TornRows'
    BY <2>2, <2>3 DEF TornRows, Torn
  <2>6. Settled' \subseteq Settled
    BY <2>1, <2>4, <2>5 DEF Settled, Capturing
  <2>7. Cardinality(Settled') <= crashes'
    BY <1>0, <2>1, <2>6, FewerSettled
  <2> QED
    BY <2>2, <2>3, <2>7 DEF TornInv
<1>3. CASE RecordEdgeMetrics
  <2> DEFINE row == sqlSnapshots[LastRow]
             m == [at |-> captures, edge |-> NextEdge]
  <2>1. /\ todo # {} /\ todo' = todo \ {NextEdge}
        /\ sqlMetrics' = Append(sqlMetrics, m)
        /\ UNCHANGED <<captures, crashes, sqlSnapshots>>
    BY <1>3 DEF RecordEdgeMetrics, Capturing, processes, MetricsRow
  <2>2. m \in Metrics(captures)
    <3>1. NextEdge \in EdgeIds
      BY <2>1 DEF NextEdge, StoreTypes, TypeOK
    <3>2. captures \in 1..captures
      BY <1>0, <2>1 DEF StoreTypes, Capturing
    <3> QED
      BY <3>1, <3>2 DEF Metrics
  <2> HIDE DEF m
  <2>3. /\ \A j \in DOMAIN sqlMetrics : j \in DOMAIN sqlMetrics' /\ sqlMetrics'[j] = sqlMetrics[j]
        /\ \E j \in DOMAIN sqlMetrics' : sqlMetrics'[j] = m
    <3>1. /\ Len(sqlMetrics) \in Nat /\ DOMAIN sqlMetrics = 1..Len(sqlMetrics)
          /\ DOMAIN sqlMetrics' = 1..(Len(sqlMetrics) + 1)
          /\ \A j \in 1..Len(sqlMetrics) : sqlMetrics'[j] = sqlMetrics[j]
          /\ sqlMetrics'[Len(sqlMetrics) + 1] = m
      BY <1>0, <2>1, <2>2
    <3> QED
      BY <3>1
  <2>4. TornRows' \subseteq TornRows
    <3> SUFFICES ASSUME NEW i \in TornRows' PROVE i \in TornRows
      OBVIOUS
    <3>1. i \in DOMAIN sqlSnapshots
      BY <2>1 DEF TornRows
    <3>2. PICK e \in sqlSnapshots[i].edges :
            \A j \in DOMAIN sqlMetrics' : sqlMetrics'[j] # [at |-> sqlSnapshots[i].at, edge |-> e]
      BY <2>1 DEF TornRows, Torn
    <3>3. \A j \in DOMAIN sqlMetrics : sqlMetrics[j] # [at |-> sqlSnapshots[i].at, edge |-> e]
      BY <2>3, <3>2
    <3> QED
      BY <3>1, <3>3 DEF TornRows, Torn
  <2>5. \A e \in row.edges \ todo' : \E j \in DOMAIN sqlMetrics' :
           sqlMetrics'[j] = [at |-> captures, edge |-> e]
    BY <2>1, <2>3 DEF TornInv, Capturing, m
  <2>6. todo' = {} => LastRow \notin TornRows'
    <3> SUFFICES ASSUME todo' = {}, LastRow \in TornRows' PROVE FALSE
      OBVIOUS
    <3>1. PICK e \in row.edges :
            \A j \in DOMAIN sqlMetrics' : sqlMetrics'[j] # [at |-> row.at, edge |-> e]
      BY <2>1 DEF TornRows, Torn
    <3>2. row.at = captures
      BY <2>1 DEF TornInv, Capturing
    <3> QED
      BY <2>5, <3>1, <3>2
  <2>7. Settled' \subseteq Settled
    BY <2>1, <2>4, <2>6 DEF Settled, Capturing, LastRow
  <2>8. Cardinality(Settled') <= crashes'
    BY <1>0, <2>1, <2>7, FewerSettled
  <2> QED
    BY <2>1, <2>5, <2>8 DEF TornInv, Capturing, LastRow
<1>4. CASE Crash
  <2>1. /\ todo' = {} /\ crashes' = crashes + 1
        /\ UNCHANGED <<sqlSnapshots, sqlMetrics>>
    BY <1>4 DEF Crash, EngineLost, sql
  <2>2. Settled' = TornRows
    BY <2>1 DEF Settled, Capturing, TornRows, Torn
  <2>3. Cardinality(TornRows) <= Cardinality(Settled) + 1 /\ Cardinality(Settled) \in Nat
        /\ Cardinality(TornRows) \in Nat
    BY TornRowsFinite
  <2> QED
    BY <1>0, <2>1, <2>2, <2>3 DEF TornInv, Capturing
<1>5. CASE Exit
  <2>1. UNCHANGED <<todo, captures, crashes, sqlSnapshots, sqlMetrics>>
    BY <1>5 DEF Exit, EngineLost, sql, Capturing
  <2> QED
    BY <1>1, <2>1
<1>6. CASE EngineChanges \/ (\E n \in DOMAIN live : RecordAnomaly(n)) \/ UNCHANGED vars
  <2>1. UNCHANGED <<todo, captures, crashes, sqlSnapshots, sqlMetrics>>
    <3>1. CASE EngineChanges
      BY <3>1 DEF EngineChanges, processes, sql
    <3>2. ASSUME NEW n, RecordAnomaly(n)
          PROVE  UNCHANGED <<todo, captures, crashes, sqlSnapshots, sqlMetrics>>
      BY <3>2 DEF RecordAnomaly, processes
    <3>3. CASE UNCHANGED vars
      BY <3>3 DEF vars, processes, sql
    <3> QED
      BY <1>6, <3>1, <3>2, <3>3
  <2> QED
    BY <1>1, <2>1
<1> QED
  BY <1>2, <1>3, <1>4, <1>5, <1>6 DEF Next

(* Hence it always holds.                                                  *)
LEMMA TornInvariant == Spec => []TornInv
<1>1. Init => TornInv
  <2> SUFFICES ASSUME Init PROVE TornInv
    OBVIOUS
  <2>1. Settled = {} /\ ~Capturing /\ crashes = 0
    BY DEF Init, Settled, TornRows, Capturing
  <2> QED
    BY <2>1, FS_EmptySet DEF TornInv
<1> QED
  BY <1>1, StoreTypesCorrect, TornStep, PTL DEF Spec

(* A snapshot in the file lacks metrics of its edges only if the process   *)
(* died between its inserts, or has not come to them yet.                  *)
THEOREM TornCorrect == Spec => []TornOnlyByCrash
<1>1. StoreTypes /\ TornInv => TornOnlyByCrash
  <2> SUFFICES ASSUME StoreTypes, TornInv PROVE TornOnlyByCrash
    OBVIOUS
  <2>1. /\ Cardinality(TornRows) <= Cardinality(Settled) + (IF Capturing THEN 1 ELSE 0)
        /\ Cardinality(TornRows) \in Nat /\ Cardinality(Settled) \in Nat
    BY TornRowsFinite
  <2>2. Cardinality(Settled) <= crashes /\ crashes \in Nat
    BY DEF TornInv, StoreTypes, TypeOK
  <2> QED
    BY <2>1, <2>2 DEF TornOnlyByCrash, TornRows
<1> QED
  BY <1>1, StoreTypesCorrect, TornInvariant, PTL
-----------------------------------------------------------------------------
(* Metrics and snapshots in memory, which are trimmed apart.               *)
(* Keep shifts a table by the rows it drops.                               *)
LEMMA KeepShifts ==
  ASSUME NEW S, NEW s \in Seq(S), NEW x \in S
  PROVE  /\ Keep(Append(s, x)) \in Seq(S)
         /\ Len(Keep(Append(s, x))) = IF Len(s) < MaxRows THEN Len(s) + 1 ELSE MaxRows
         /\ \A i \in 1..Len(Keep(Append(s, x))) :
              Keep(Append(s, x))[i] = Append(s, x)[i + (Len(s) + 1 - Len(Keep(Append(s, x))))]
<1> DEFINE a == Append(s, x)
<1>1. MaxRows \in Nat \ {0}
  BY PersistenceStoreAssumption DEF PersistenceStoreAssumption
<1>2. a \in Seq(S) /\ Len(a) = Len(s) + 1 /\ Len(s) \in Nat
  OBVIOUS
<1> HIDE DEF a
<1>3. CASE Len(s) < MaxRows
  <2>1. Keep(a) = a
    BY <1>1, <1>2, <1>3 DEF Keep, LastRows
  <2> QED
    BY <1>2, <1>3, <2>1 DEF a
<1>4. CASE ~(Len(s) < MaxRows)
  <2> DEFINE m == Len(a) - MaxRows + 1
             n == Len(a)
             r == SubSeq(a, m, n)
  <2>1. /\ Keep(a) = r /\ n \in Nat /\ m \in Nat /\ m <= n /\ m > 0 /\ n - m + 1 = MaxRows
        /\ \A i \in m..n : i \in DOMAIN a /\ a[i] \in S
        /\ m - 1 = Len(s) + 1 - MaxRows
    BY <1>1, <1>2, <1>4 DEF Keep, LastRows
  <2> HIDE DEF m, n
  <2>2. /\ r \in Seq(S) /\ Len(r) = (IF m <= n THEN n - m + 1 ELSE 0)
        /\ \A i \in 1..(n - m + 1) : r[i] = a[m + i - 1]
    BY <2>1, SubSeqProperties
  <2> HIDE DEF r
  <2>3. \A i \in 1..MaxRows : r[i] = a[i + (Len(s) + 1 - MaxRows)]
    <3> TAKE i \in 1..MaxRows
    <3>1. r[i] = a[m + i - 1]
      BY <2>1, <2>2
    <3>2. m + i - 1 = i + (Len(s) + 1 - MaxRows)
      BY <1>1, <1>2, <2>1
    <3> QED
      BY <3>1, <3>2
  <2>4. Len(r) = MaxRows
    BY <2>1, <2>2
  <2> QED
    BY <1>4, <2>1, <2>2, <2>3, <2>4 DEF a
<1> QED
  BY <1>3, <1>4

(* The snapshots in memory are the newest without a gap.  Their metrics    *)
(* are dense: from one row to the next the snapshot changes by one at      *)
(* most, since a graph that has had metrics once has them in every later   *)
(* snapshot.                                                               *)
Newest == memMetrics[Len(memMetrics)].at
MemInv ==
  /\ \A i \in DOMAIN memSnapshots : memSnapshots[i].at = captures - Len(memSnapshots) + i
  /\ Capturing => memSnapshots # << >>
  /\ memMetrics # << >> =>
       /\ flowing # {}
       /\ Newest = captures \/ (Capturing /\ Newest = captures - 1)
  /\ \A i \in DOMAIN memMetrics :
       /\ memMetrics[i].at + (Len(memMetrics) - i) >= Newest
       /\ Len(memSnapshots) < MaxRows => memMetrics[i].at > captures - Len(memSnapshots)

(* What the types say of the tables.                                       *)
LEMMA StoreFacts ==
  ASSUME StoreTypes
  PROVE  /\ captures \in Nat /\ MaxRows \in Nat \ {0}
         /\ Len(memSnapshots) <= MaxRows /\ Len(memMetrics) <= MaxRows
         /\ memSnapshots \in Seq(MemRows) /\ memMetrics \in Seq(Metrics(captures))
         /\ sqlSnapshots \in Seq(SqlRows) /\ sqlMetrics \in Seq(Metrics(captures))
         /\ Len(memSnapshots) \in Nat /\ Len(memMetrics) \in Nat
         /\ DOMAIN memSnapshots = 1..Len(memSnapshots) /\ DOMAIN memMetrics = 1..Len(memMetrics)
         /\ \A i \in DOMAIN memMetrics : memMetrics[i].at \in 1..captures
<1>1. /\ captures \in Nat /\ MaxRows \in Nat \ {0}
      /\ Len(memSnapshots) <= MaxRows /\ Len(memMetrics) <= MaxRows
  BY PersistenceStoreAssumption DEF StoreTypes, TypeOK, PersistenceStoreAssumption
<1>2. /\ sqlMetrics \in Seq([at : 1..captures, edge : EdgeIds])
      /\ memMetrics \in Seq([at : 1..captures, edge : EdgeIds])
      /\ memSnapshots \in Seq(MemRows) /\ sqlSnapshots \in Seq(SqlRows)
  BY DEF StoreTypes, TypeOK
<1>3. memMetrics \in Seq(Metrics(captures)) /\ sqlMetrics \in Seq(Metrics(captures))
  BY <1>2 DEF Metrics
<1>4. \A i \in DOMAIN memMetrics : memMetrics[i].at \in 1..captures
  <2> SUFFICES ASSUME NEW i \in DOMAIN memMetrics PROVE memMetrics[i].at \in 1..captures
    OBVIOUS
  <2> DEFINE R == [at : 1..captures, edge : EdgeIds]
  <2>1. memMetrics \in Seq(R)
    BY <1>2
  <2> HIDE DEF R
  <2>2. memMetrics[i] \in R
    BY <2>1
  <2> QED
    BY <2>2 DEF R
<1>5. /\ Len(memSnapshots) \in Nat /\ Len(memMetrics) \in Nat
      /\ DOMAIN memSnapshots = 1..Len(memSnapshots) /\ DOMAIN memMetrics = 1..Len(memMetrics)
  BY <1>2
<1> QED
  BY <1>1, <1>2, <1>3, <1>4, <1>5

(* MemInv is kept by every step.                                           *)
LEMMA MemStep == StoreTypes /\ StoreTypes' /\ MemInv /\ [Next]_vars => MemInv'
<1> SUFFICES ASSUME StoreTypes, StoreTypes', MemInv, [Next]_vars PROVE MemInv'
  OBVIOUS
<1>0. /\ captures \in Nat /\ MaxRows \in Nat \ {0}
      /\ memSnapshots \in Seq(MemRows) /\ memMetrics \in Seq(Metrics(captures))
      /\ Len(memSnapshots) \in Nat /\ Len(memMetrics) \in Nat
      /\ DOMAIN memSnapshots = 1..Len(memSnapshots) /\ DOMAIN memMetrics = 1..Len(memMetrics)
      /\ \A i \in DOMAIN memMetrics : memMetrics[i].at \in 1..captures
  BY StoreFacts
<1>1. ASSUME UNCHANGED <<todo, captures, memSnapshots, memMetrics>>, flowing # {} => flowing' # {}
      PROVE  MemInv'
  BY <1>1 DEF MemInv, Newest, Capturing
<1>2. CASE SaveSnapshot
  <2>1. /\ todo = {} /\ captures' = captures + 1 /\ todo' = flowing
        /\ memSnapshots' = Keep(Append(memSnapshots, MemRow))
        /\ UNCHANGED <<flowing, memMetrics>>
    BY <1>2 DEF SaveSnapshot, Capturing, engine
  <2>2. MemRow \in MemRows /\ MemRow.at = captures'
    <3>1. StatusOf(live) \in Healths /\ flowing \in SUBSET EdgeIds /\ captures + 1 \in Nat
      <4>1. live \in Graphs
        BY DEF StoreTypes
      <4>2. flowing \in SUBSET EdgeIds
        BY DEF StoreTypes, TypeOK
      <4>3. captures + 1 \in Nat
        BY <1>0
      <4> QED
        BY <4>1, <4>2, <4>3, StatusOfGraph
    <3>2. nextId \in Nat \ {0}
      BY DEF StoreTypes, TypeOK
    <3> QED
      BY <2>1, <3>1, <3>2 DEF MemRow, MemRows
  <2> DEFINE L == Len(memSnapshots)
             M == Len(memSnapshots')
             a == Append(memSnapshots, MemRow)
  <2>3. /\ memSnapshots' \in Seq(MemRows)
        /\ M = IF L < MaxRows THEN L + 1 ELSE MaxRows
        /\ \A i \in 1..M : memSnapshots'[i] = a[i + (L + 1 - M)]
    BY <1>0, <2>1, <2>2, KeepShifts
  <2>4. \A j \in 1..(L + 1) : a[j].at = captures - L + j
    <3>1. \A j \in 1..L : a[j] = memSnapshots[j]
      BY <1>0, <2>2
    <3>2. a[L + 1] = MemRow
      BY <1>0, <2>2
    <3>3. \A j \in 1..L : memSnapshots[j].at = captures - L + j
      BY <1>0 DEF MemInv
    <3> QED
      BY <1>0, <2>1, <2>2, <3>1, <3>2, <3>3
  <2>5. M \in Nat /\ M > 0 /\ M <= L + 1 /\ DOMAIN memSnapshots' = 1..M /\ L \in Nat
    BY <1>0, <2>3
  <2> HIDE DEF L, M, a
  <2>6. \A i \in 1..M : memSnapshots'[i].at = captures' - M + i
    <3> TAKE i \in 1..M
    <3>1. i + (L + 1 - M) \in 1..(L + 1)
      BY <2>5
    <3>2. memSnapshots'[i].at = captures - L + (i + (L + 1 - M))
      BY <2>3, <2>4, <3>1
    <3> QED
      BY <1>0, <2>1, <2>5, <3>2
  <2>7. memMetrics' # << >> =>
          /\ flowing' # {} /\ Newest' = captures' - 1 /\ Capturing'
    BY <1>0, <2>1 DEF MemInv, Newest, Capturing
  <2>8. M < MaxRows => M = L + 1
    BY <1>0, <2>3, <2>5
  <2>9. \A i \in DOMAIN memMetrics' :
          /\ memMetrics'[i].at + (Len(memMetrics') - i) >= Newest'
          /\ M < MaxRows => memMetrics'[i].at > captures' - M
    <3> TAKE i \in DOMAIN memMetrics'
    <3>1. memMetrics[i].at + (Len(memMetrics) - i) >= Newest
      BY <2>1 DEF MemInv
    <3>2. ASSUME M < MaxRows PROVE memMetrics[i].at > captures' - M
      <4>1. L < MaxRows
        BY <1>0, <2>5, <2>8, <3>2
      <4>2. memMetrics[i].at > captures - L
        BY <2>1, <4>1 DEF MemInv, L
      <4> QED
        BY <1>0, <2>1, <2>5, <2>8, <3>2, <4>2
    <3> QED
      BY <2>1, <3>1, <3>2 DEF Newest
  <2>10. memSnapshots' # << >>
    BY <2>5
  <2> QED
    BY <2>5, <2>6, <2>7, <2>9, <2>10 DEF MemInv, M
<1>3. CASE RecordEdgeMetrics
  <2>1. /\ todo # {} /\ todo' \subseteq todo
        /\ memMetrics' = Keep(Append(memMetrics, MetricsRow(NextEdge)))
        /\ UNCHANGED <<flowing, captures, memSnapshots>>
    BY <1>3 DEF RecordEdgeMetrics, Capturing, engine
  <2>2. flowing # {} /\ memSnapshots # << >> /\ Len(memSnapshots) > 0
    <3>1. flowing # {} /\ memSnapshots # << >>
      BY <2>1 DEF MemInv, Capturing, StoreTypes, TypeOK
    <3> QED
      BY <1>0, <3>1
  <2>3. MetricsRow(NextEdge) \in Metrics(captures) /\ MetricsRow(NextEdge).at = captures
    <3>1. NextEdge \in EdgeIds
      BY <2>1 DEF NextEdge, StoreTypes, TypeOK
    <3>2. captures \in 1..captures
      BY <1>0, <2>1 DEF StoreTypes, Capturing
    <3> QED
      BY <3>1, <3>2 DEF Metrics, MetricsRow
  <2> DEFINE L == Len(memMetrics)
             M == Len(memMetrics')
             x == MetricsRow(NextEdge)
             a == Append(memMetrics, x)
  <2>4. /\ memMetrics' \in Seq(Metrics(captures))
        /\ M = IF L < MaxRows THEN L + 1 ELSE MaxRows
        /\ \A i \in 1..M : memMetrics'[i] = a[i + (L + 1 - M)]
    <3> DEFINE S == Metrics(captures)
    <3>1. memMetrics \in Seq(S) /\ x \in S /\ memMetrics' = Keep(Append(memMetrics, x))
      BY <1>0, <2>1, <2>3
    <3> HIDE DEF S, x
    <3> QED
      BY <3>1, KeepShifts DEF S
  <2>5. M \in Nat /\ M > 0 /\ M <= L + 1 /\ DOMAIN memMetrics' = 1..M /\ L \in Nat
    BY <1>0, <2>4
  <2>6. /\ \A j \in 1..L : a[j] = memMetrics[j]
        /\ a[L + 1] = x
    BY <1>0, <2>3
  <2>7. \A j \in 1..(L + 1) :
          /\ a[j].at \in Int
          /\ a[j].at + (L + 1 - j) >= captures
          /\ Len(memSnapshots) < MaxRows => a[j].at > captures - Len(memSnapshots)
    <3> TAKE j \in 1..(L + 1)
    <3>1. CASE j = L + 1
      BY <1>0, <2>2, <2>3, <2>5, <2>6, <3>1
    <3>2. CASE j \in 1..L
      <4>1. a[j] = memMetrics[j] /\ memMetrics[j].at \in 1..captures /\ j \in DOMAIN memMetrics
        BY <1>0, <2>6, <3>2
      <4>2. memMetrics[j].at + (L - j) >= Newest /\ Newest >= captures - 1 /\ Newest \in Int
        <5>1. memMetrics # << >>
          BY <4>1
        <5>2. Newest = captures \/ Newest = captures - 1
          BY <5>1 DEF MemInv
        <5> QED
          BY <1>0, <4>1, <5>2 DEF MemInv
      <4>3. Len(memSnapshots) < MaxRows => memMetrics[j].at > captures - Len(memSnapshots)
        BY <4>1 DEF MemInv
      <4> HIDE DEF a, L
      <4>4. a[j].at + (L + 1 - j) >= captures
        BY <1>0, <2>5, <4>1, <4>2
      <4> QED
        BY <4>1, <4>3, <4>4
    <3> QED
      BY <2>5, <3>1, <3>2
  <2> HIDE DEF L, M, x, a
  <2>8. Newest' = captures
    <3>1. M + (L + 1 - M) = L + 1 /\ M \in 1..M
      BY <2>5
    <3>2. memMetrics'[M] = a[L + 1]
      BY <2>4, <3>1
    <3> QED
      BY <2>3, <2>6, <3>2 DEF Newest, M, x
  <2>9. \A i \in 1..M :
          /\ memMetrics'[i].at + (M - i) >= captures
          /\ Len(memSnapshots) < MaxRows => memMetrics'[i].at > captures - Len(memSnapshots)
    <3> TAKE i \in 1..M
    <3> DEFINE j == i + (L + 1 - M)
    <3>1. j \in 1..(L + 1) /\ L + 1 - j = M - i
      BY <2>5
    <3>2. memMetrics'[i] = a[j]
      BY <2>4
    <3> HIDE DEF j
    <3> QED
      BY <2>7, <3>1, <3>2
  <2>10. memMetrics' # << >> => Newest' = captures'
    BY <2>1, <2>8
  <2>11. \A i \in DOMAIN memMetrics' :
           /\ memMetrics'[i].at + (Len(memMetrics') - i) >= Newest'
           /\ Len(memSnapshots') < MaxRows => memMetrics'[i].at > captures' - Len(memSnapshots')
    BY <2>1, <2>5, <2>8, <2>9 DEF M
  <2> QED
    BY <2>1, <2>2, <2>10, <2>11 DEF MemInv
<1>4. CASE Crash \/ Exit
  <2>1. todo' = {} /\ memSnapshots' = << >> /\ memMetrics' = << >>
    BY <1>4 DEF Crash, Exit, EngineLost, MemoryLost
  <2> QED
    BY <2>1 DEF MemInv, Capturing
<1>5. CASE EngineChanges \/ (\E n \in DOMAIN live : RecordAnomaly(n)) \/ UNCHANGED vars
  <2>1. UNCHANGED <<todo, captures, memSnapshots, memMetrics>> /\ flowing \subseteq flowing'
    <3>1. CASE EngineChanges
      BY <3>1 DEF EngineChanges, memory
    <3>2. ASSUME NEW n, RecordAnomaly(n)
          PROVE  UNCHANGED <<todo, captures, memSnapshots, memMetrics>> /\ flowing \subseteq flowing'
      BY <3>2 DEF RecordAnomaly, engine
    <3>3. CASE UNCHANGED vars
      BY <3>3 DEF vars, engine, memory
    <3> QED
      BY <1>5, <3>1, <3>2, <3>3
  <2> QED
    BY <1>1, <2>1
<1> QED
  BY <1>2, <1>3, <1>4, <1>5 DEF Next

(* Hence it always holds.                                                  *)
LEMMA MemCorrect == Spec => []MemInv
<1>1. Init => MemInv
  BY DEF Init, MemInv, Capturing
<1> QED
  BY <1>1, StoreTypesCorrect, MemStep, PTL DEF Spec

(* The snapshots that a table has rows of, when a row is added to it.      *)
LEMMA SnapshotsAppend ==
  ASSUME NEW S, NEW s \in Seq(S), NEW r
  PROVE  Snapshots(Append(s, r)) = Snapshots(s) \cup {r.at}
<1> DEFINE a == Append(s, r)
           n == Len(s) + 1
<1>1. /\ DOMAIN a = DOMAIN s \cup {n} /\ a[n] = r
      /\ \A i \in DOMAIN s : a[i] = s[i]
  <2>1. Len(s) \in Nat /\ DOMAIN s = 1..Len(s)
    OBVIOUS
  <2>2. DOMAIN a = 1..n /\ a[n] = r /\ \A i \in 1..Len(s) : a[i] = s[i]
    BY <2>1
  <2> QED
    BY <2>1, <2>2
<1> HIDE DEF a, n
<1>2. Snapshots(a) = Snapshots(s) \cup {r.at}
  BY <1>1 DEF Snapshots
<1> QED
  BY <1>2 DEF a

(* In both backends metrics belong to a snapshot that is still there,      *)
(* however many rows are kept and however often the process ends.          *)
THEOREM MetricsCorrect == Spec => []MetricsHaveSnapshot
<1> DEFINE SqlInv == Snapshots(sqlMetrics) \subseteq Snapshots(sqlSnapshots)
<1>1. Init => SqlInv
  BY DEF Init, Snapshots
<1>2. StoreTypes /\ TornInv /\ SqlInv /\ [Next]_vars => SqlInv'
  <2> SUFFICES ASSUME StoreTypes, TornInv, SqlInv, [Next]_vars PROVE SqlInv'
    OBVIOUS
  <2>0. sqlSnapshots \in Seq(SqlRows) /\ sqlMetrics \in Seq(Metrics(captures)) /\ captures \in Nat
    BY StoreFacts
  <2>1. CASE SaveSnapshot
    <3>1. sqlSnapshots' = Append(sqlSnapshots, SqlRow) /\ sqlMetrics' = sqlMetrics
      BY <2>1 DEF SaveSnapshot
    <3>2. Snapshots(sqlSnapshots) \subseteq Snapshots(sqlSnapshots')
      BY <2>0, <3>1, SnapshotsAppend
    <3>3. Snapshots(sqlMetrics') = Snapshots(sqlMetrics)
      BY <3>1
    <3> QED
      BY <3>2, <3>3
  <2>2. CASE RecordEdgeMetrics
    <3>1. /\ todo # {} /\ sqlSnapshots' = sqlSnapshots
          /\ sqlMetrics' = Append(sqlMetrics, MetricsRow(NextEdge))
      BY <2>2 DEF RecordEdgeMetrics, Capturing
    <3>2. Snapshots(sqlMetrics') = Snapshots(sqlMetrics) \cup {captures}
      BY <2>0, <3>1, SnapshotsAppend DEF MetricsRow
    <3>3. captures \in Snapshots(sqlSnapshots)
      BY <3>1 DEF TornInv, Capturing, Snapshots
    <3>4. Snapshots(sqlSnapshots') = Snapshots(sqlSnapshots)
      BY <3>1
    <3> QED
      BY <3>2, <3>3, <3>4
  <2>3. CASE EngineChanges \/ (\E n \in DOMAIN live : RecordAnomaly(n)) \/ Crash \/ Exit \/ UNCHANGED vars
    <3>1. UNCHANGED <<sqlSnapshots, sqlMetrics>>
      BY <2>3 DEF EngineChanges, RecordAnomaly, Crash, Exit, vars, sql
    <3> QED
      BY <3>1 DEF Snapshots
  <2> QED
    BY <2>1, <2>2, <2>3 DEF Next
<1>3. StoreTypes /\ MemInv /\ ~Capturing => Snapshots(memMetrics) \subseteq Snapshots(memSnapshots)
  <2> SUFFICES ASSUME StoreTypes, MemInv, ~Capturing, NEW i \in DOMAIN memMetrics
               PROVE  \E j \in DOMAIN memSnapshots : memSnapshots[j].at = memMetrics[i].at
    BY DEF Snapshots
  <2> DEFINE L == Len(memSnapshots)
             t == memMetrics[i].at
  <2>1. /\ captures \in Nat /\ MaxRows \in Nat \ {0} /\ L \in Nat /\ L <= MaxRows
        /\ DOMAIN memSnapshots = 1..L
        /\ Len(memMetrics) \in Nat /\ Len(memMetrics) <= MaxRows /\ i \in 1..Len(memMetrics)
        /\ t \in 1..captures
    BY StoreFacts
  <2>2. t + (Len(memMetrics) - i) >= captures
    <3>1. memMetrics # << >>
      OBVIOUS
    <3> QED
      BY <3>1 DEF MemInv
  <2>3. L < MaxRows => t > captures - L
    BY DEF MemInv
  <2>4. \A j \in 1..L : memSnapshots[j].at = captures - L + j
    BY <2>1 DEF MemInv
  <2> HIDE DEF L, t
  <2>5. t - captures + L \in 1..L /\ captures - L + (t - captures + L) = t
    BY <2>1, <2>2, <2>3
  <2> QED
    BY <2>1, <2>4, <2>5 DEF t
<1>4. StoreTypes /\ MemInv /\ SqlInv => MetricsHaveSnapshot
  BY <1>3 DEF MetricsHaveSnapshot
<1>5. Spec => []TornInv
  BY TornInvariant
<1> HIDE DEF SqlInv
<1> QED
  BY <1>1, <1>2, <1>4, <1>5, StoreTypesCorrect, MemCorrect, PTL DEF Spec

-----------------------------------------------------------------------------
(* What the two backends answer.                                          *)

(* Which rows of s LastRows(s, k) has, by their places.                    *)
LEMMA LastRowsPlaces ==
  ASSUME NEW S, NEW s \in Seq(S), NEW k \in Nat
  PROVE  /\ LastRows(s, k) \in Seq(S)
         /\ Len(LastRows(s, k)) = IF Len(s) <= k THEN Len(s) ELSE k
         /\ \A i \in 1..Len(LastRows(s, k)) :
              LastRows(s, k)[i] = s[Len(s) - Len(LastRows(s, k)) + i]
<1> DEFINE n == Len(s)
           r == LastRows(s, k)
<1>1. n \in Nat /\ \A i \in 1..n : s[i] \in S
  OBVIOUS
<1>2. CASE n <= k
  <2>1. r = s
    BY <1>2 DEF LastRows
  <2>2. \A i \in 1..n : n - n + i = i
    BY <1>1
  <2> QED
    BY <1>1, <1>2, <2>1, <2>2
<1>3. CASE ~(n <= k)
  <2> DEFINE m == n - k + 1
  <2>1. m \in Nat /\ 1 <= m /\ n - m + 1 = k /\ (m <= n <=> k # 0) /\ n - k = m - 1
    BY <1>1, <1>3
  <2>2. r = SubSeq(s, m, n)
    BY <1>3 DEF LastRows
  <2> HIDE DEF m, n, r
  <2>3. \A i \in m..n : s[i] \in S
    BY <1>1, <2>1
  <2>4. /\ r \in Seq(S) /\ Len(r) = (IF m <= n THEN n - m + 1 ELSE 0)
        /\ \A i \in 1..(n - m + 1) : r[i] = s[m + i - 1]
    <3>1. m \in Int /\ n \in Int
      BY <1>1, <2>1
    <3>2. /\ SubSeq(s, m, n) \in Seq(S)
          /\ Len(SubSeq(s, m, n)) = IF m <= n THEN n - m + 1 ELSE 0
          /\ \A i \in 1..(n - m + 1) : SubSeq(s, m, n)[i] = s[m + i - 1]
      BY <2>3, <3>1, SubSeqProperties
    <3> QED
      BY <2>2, <3>2, Zenon
  <2>5. Len(r) = k
    BY <1>1, <2>1, <2>4
  <2>6. \A i \in 1..k : r[i] = s[n - k + i]
    <3> TAKE i \in 1..k
    <3>1. n - k + i = m + i - 1
      BY <1>1, <2>1
    <3> QED
      BY <2>1, <2>4, <3>1
  <2> QED
    BY <1>3, <2>4, <2>5, <2>6 DEF n, r
<1> QED
  BY <1>2, <1>3

(* A row of the memory backend and the row of SQLite for the same capture. *)
Copies(m, s) == m.at = s.at /\ m.edges = s.edges /\ m.status = StatusOf(s.nodes)

(* The tables in memory are the ends of those in the file, and in the      *)
(* first process as much of them as fits.                                  *)
SnapshotsAgree ==
  /\ Len(memSnapshots) <= Len(sqlSnapshots)
  /\ FirstProcess => Len(memSnapshots) = Len(sqlSnapshots) \/ Len(memSnapshots) = MaxRows
  /\ \A i \in 1..Len(memSnapshots) :
       Copies(memSnapshots[i], sqlSnapshots[Len(sqlSnapshots) - Len(memSnapshots) + i])
AnomaliesAgree ==
  /\ Len(memAnomalies) <= Len(sqlAnomalies)
  /\ FirstProcess => Len(memAnomalies) = Len(sqlAnomalies)
  /\ \A i \in 1..Len(memAnomalies) :
       memAnomalies[i].service_id
         = sqlAnomalies[Len(sqlAnomalies) - Len(memAnomalies) + i].service_id

(* SQLite numbers each table from 1; the ids in an array of the memory     *)
(* backend grow with gaps, up to the next one.                             *)
Numbered(s) == \A i \in 1..Len(s) : s[i].id = i
Growing(s, next) ==
  \A i \in 1..Len(s) :
    /\ s[i].id < next
    /\ \A j \in 1..Len(s) : i < j => s[i].id < s[j].id
IdsOrdered ==
  /\ Numbered(sqlSnapshots) /\ Numbered(sqlAnomalies)
  /\ Growing(memSnapshots, nextId) /\ Growing(memAnomalies, nextId)

HistoryInv == SnapshotsAgree /\ AnomaliesAgree /\ IdsOrdered

(* A table stays numbered when the next row is added to it.                *)
LEMMA NumberedAppend ==
  ASSUME NEW S, NEW s \in Seq(S), NEW x \in S, Numbered(s), x.id = Len(s) + 1
  PROVE  Numbered(Append(s, x))
<1> DEFINE n == Len(s)
           a == Append(s, x)
<1>1. /\ n \in Nat /\ Len(a) = n + 1 /\ a[n + 1] = x
      /\ \A i \in 1..n : a[i] = s[i]
  OBVIOUS
<1>2. \A i \in 1..n : s[i].id = i
  BY DEF Numbered
<1> HIDE DEF n, a
<1>3. \A i \in 1..(n + 1) : a[i].id = i
  <2> TAKE i \in 1..(n + 1)
  <2>1. CASE i = n + 1
    BY <1>1, <2>1 DEF n
  <2>2. CASE i \in 1..n
    BY <1>1, <1>2, <2>2
  <2> QED
    BY <1>1, <2>1, <2>2
<1> QED
  BY <1>1, <1>3 DEF Numbered, a

(* Ids grow on when a row with the next id is added, and when the counter  *)
(* moves without a row.                                                    *)
LEMMA GrowingAppend ==
  ASSUME NEW S, NEW s \in Seq(S), NEW x \in S, NEW next \in Nat, Growing(s, next),
         x.id = next, \A y \in S : y.id \in Nat
  PROVE  Growing(Append(s, x), next + 1)
<1> DEFINE n == Len(s)
           a == Append(s, x)
<1>1. /\ n \in Nat /\ Len(a) = n + 1 /\ a[n + 1] = x
      /\ \A i \in 1..n : a[i] = s[i] /\ s[i].id \in Nat
  OBVIOUS
<1>2. \A i \in 1..n : s[i].id < next /\ \A j \in 1..n : i < j => s[i].id < s[j].id
  BY DEF Growing
<1> HIDE DEF n, a
<1>3. \A i \in 1..(n + 1) : a[i].id < next + 1
  <2> TAKE i \in 1..(n + 1)
  <2>1. CASE i = n + 1
    BY <1>1, <2>1
  <2>2. CASE i \in 1..n
    BY <1>1, <1>2, <2>2
  <2> QED
    BY <1>1, <2>1, <2>2
<1>4. \A i, j \in 1..(n + 1) : i < j => a[i].id < a[j].id
  <2> SUFFICES ASSUME NEW i \in 1..(n + 1), NEW j \in 1..(n + 1), i < j
               PROVE  a[i].id < a[j].id
    OBVIOUS
  <2>1. i \in 1..n
    BY <1>1
  <2>2. CASE j = n + 1
    BY <1>1, <1>2, <2>1, <2>2
  <2>3. CASE j \in 1..n
    BY <1>1, <1>2, <2>1, <2>3
  <2> QED
    BY <1>1, <2>2, <2>3
<1> QED
  BY <1>1, <1>3, <1>4 DEF Growing, a

(* And they do when the oldest rows are dropped.                           *)
LEMMA GrowingEnd ==
  ASSUME NEW s, NEW t, NEW next, Growing(s, next), Len(s) \in Nat, Len(t) \in Nat,
         NEW d \in Nat, Len(t) + d = Len(s),
         \A i \in 1..Len(t) : t[i] = s[i + d]
  PROVE  Growing(t, next)
<1>1. \A i \in 1..Len(t) : i + d \in 1..Len(s)
  OBVIOUS
<1>2. \A i, j \in 1..Len(t) : i < j => i + d < j + d
  OBVIOUS
<1> QED
  BY <1>1, <1>2 DEF Growing

(* A capture adds the same row to both, at the end.                        *)
LEMMA SnapshotsSaved == StoreTypes /\ SnapshotsAgree /\ SaveSnapshot => SnapshotsAgree'
<1> SUFFICES ASSUME StoreTypes, SnapshotsAgree, SaveSnapshot PROVE SnapshotsAgree'
  OBVIOUS
<1> DEFINE m == Len(memSnapshots)
           n == Len(sqlSnapshots)
           k == Len(memSnapshots')
<1>1. /\ sqlSnapshots' = Append(sqlSnapshots, SqlRow)
      /\ memSnapshots' = Keep(Append(memSnapshots, MemRow))
      /\ FirstProcess' <=> FirstProcess
  BY DEF SaveSnapshot, FirstProcess, processes
<1>2. /\ sqlSnapshots \in Seq(SqlRows) /\ memSnapshots \in Seq(MemRows)
      /\ MaxRows \in Nat \ {0} /\ m <= MaxRows /\ m \in Nat /\ n \in Nat
  BY StoreFacts
<1>3. /\ Copies(MemRow, SqlRow)
      /\ MemRow \in MemRows
  <2>1. Copies(MemRow, SqlRow)
    BY DEF Copies, MemRow, SqlRow
  <2>2. /\ live \in Graphs /\ flowing \subseteq EdgeIds /\ captures + 1 \in Nat
        /\ nextId \in Nat \ {0}
    BY StoreFacts DEF StoreTypes, TypeOK
  <2>3. StatusOf(live) \in Healths
    BY <2>2, StatusOfGraph
  <2> QED
    BY <2>1, <2>2, <2>3 DEF MemRow, MemRows
<1> DEFINE a == Append(memSnapshots, MemRow)
<1>4. /\ k = IF m < MaxRows THEN m + 1 ELSE MaxRows
      /\ \A i \in 1..k : memSnapshots'[i] = a[i + (m + 1 - k)]
  BY <1>1, <1>2, <1>3, KeepShifts
<1>5. /\ \A i \in 1..m : a[i] = memSnapshots[i]
      /\ a[m + 1] = MemRow
  BY <1>2
<1>6. /\ Len(sqlSnapshots') = n + 1
      /\ \A i \in 1..n : sqlSnapshots'[i] = sqlSnapshots[i]
      /\ sqlSnapshots'[n + 1] = SqlRow
  BY <1>1, <1>2
<1>7. /\ m <= n
      /\ FirstProcess => m = n \/ m = MaxRows
      /\ \A i \in 1..m : Copies(memSnapshots[i], sqlSnapshots[n - m + i])
  BY DEF SnapshotsAgree
<1> HIDE DEF m, n, k, a
<1>8. k \in Nat /\ k <= m + 1 /\ k <= n + 1
  BY <1>2, <1>4, <1>7
<1>9. FirstProcess' => k = n + 1 \/ k = MaxRows
  BY <1>1, <1>2, <1>4, <1>7
<1>10. ASSUME NEW i \in 1..k
       PROVE  Copies(memSnapshots'[i], sqlSnapshots'[n + 1 - k + i])
  <2> DEFINE j == i + (m + 1 - k)
  <2>1. /\ j \in 1..(m + 1) /\ n + 1 - k + i = n - m + j
        /\ j = m + 1 => n - m + j = n + 1
        /\ j \in 1..m => n - m + j \in 1..n
    BY <1>2, <1>7, <1>8
  <2>2. memSnapshots'[i] = a[j]
    BY <1>4
  <2> HIDE DEF j
  <2>3. CASE j = m + 1
    BY <1>3, <1>5, <1>6, <2>1, <2>2, <2>3
  <2>4. CASE j \in 1..m
    BY <1>5, <1>6, <1>7, <2>1, <2>2, <2>4
  <2> QED
    BY <1>2, <2>1, <2>3, <2>4
<1>11. k = Len(memSnapshots')
  BY DEF k
<1>12. \A i \in 1..Len(memSnapshots') :
         Copies(memSnapshots'[i], sqlSnapshots'[Len(sqlSnapshots') - Len(memSnapshots') + i])
  <2> TAKE i \in 1..Len(memSnapshots')
  <2>1. i \in 1..k
    BY <1>11
  <2>2. Len(sqlSnapshots') - Len(memSnapshots') + i = n + 1 - k + i
    <3>1. i \in Int /\ k \in Int /\ n \in Int
      BY <1>2, <1>8
    <3>2. Len(sqlSnapshots') = n + 1 /\ Len(memSnapshots') = k
      BY <1>6, <1>11
    <3> QED
      BY <3>1, <3>2
  <2>3. Copies(memSnapshots'[i], sqlSnapshots'[n + 1 - k + i])
    BY <1>10, <2>1
  <2> QED
    BY <2>2, <2>3
<1>13. Len(memSnapshots') <= Len(sqlSnapshots')
  BY <1>6, <1>8, <1>11
<1>14. FirstProcess' => Len(memSnapshots') = Len(sqlSnapshots') \/ Len(memSnapshots') = MaxRows
  BY <1>6, <1>9, <1>11
<1>15. SnapshotsAgree' <=>
         /\ Len(memSnapshots') <= Len(sqlSnapshots')
         /\ FirstProcess' => Len(memSnapshots') = Len(sqlSnapshots') \/ Len(memSnapshots') = MaxRows
         /\ \A i \in 1..Len(memSnapshots') :
              Copies(memSnapshots'[i], sqlSnapshots'[Len(sqlSnapshots') - Len(memSnapshots') + i])
  BY DEF SnapshotsAgree
<1> QED
  BY <1>12, <1>13, <1>14, <1>15

(* So does an outage that begins.                                          *)
LEMMA AnomaliesRecorded ==
  ASSUME StoreTypes, AnomaliesAgree, NEW node \in DOMAIN live, RecordAnomaly(node)
  PROVE  AnomaliesAgree'
<1> DEFINE m == Len(memAnomalies)
           n == Len(sqlAnomalies)
<1> DEFINE x == SqlAnomaly(node)
           y == MemAnomaly(node)
<1>1. /\ sqlAnomalies \in Seq(Anomaly) /\ memAnomalies \in Seq(Anomaly) /\ m \in Nat /\ n \in Nat
      /\ x \in Anomaly /\ y \in Anomaly /\ x.service_id = node /\ y.service_id = node
  BY AnomalyTypes DEF StoreTypes, TypeOK
<1>2. /\ sqlAnomalies' = Append(sqlAnomalies, x)
      /\ memAnomalies' = Append(memAnomalies, y)
      /\ FirstProcess' <=> FirstProcess
  BY DEF RecordAnomaly, FirstProcess, processes
<1>3. /\ Len(memAnomalies') = m + 1 /\ Len(sqlAnomalies') = n + 1
      /\ \A i \in 1..m : memAnomalies'[i] = memAnomalies[i]
      /\ \A i \in 1..n : sqlAnomalies'[i] = sqlAnomalies[i]
      /\ memAnomalies'[m + 1] = y /\ sqlAnomalies'[n + 1] = x
  BY <1>1, <1>2
<1>4. /\ m <= n
      /\ FirstProcess => m = n
      /\ \A i \in 1..m : memAnomalies[i].service_id = sqlAnomalies[n - m + i].service_id
  BY DEF AnomaliesAgree
<1> HIDE DEF m, n, x, y
<1>5. ASSUME NEW i \in 1..(m + 1)
      PROVE  memAnomalies'[i].service_id = sqlAnomalies'[(n + 1) - (m + 1) + i].service_id
  <2>1. (n + 1) - (m + 1) + i = n - m + i /\ (i = m + 1 => n - m + i = n + 1)
        /\ (i \in 1..m => n - m + i \in 1..n)
    BY <1>1, <1>4
  <2>2. CASE i = m + 1
    BY <1>1, <1>3, <2>1, <2>2
  <2>3. CASE i \in 1..m
    BY <1>3, <1>4, <2>1, <2>3
  <2> QED
    BY <1>1, <2>2, <2>3
<1>6. m + 1 <= n + 1 /\ (FirstProcess' => m + 1 = n + 1)
  BY <1>1, <1>2, <1>4
<1> QED
  BY <1>3, <1>5, <1>6 DEF AnomaliesAgree

(* Each row takes the next id of its table, and in memory the next of all. *)
LEMMA IdsStep == StoreTypes /\ IdsOrdered /\ [Next]_vars => IdsOrdered'
<1> SUFFICES ASSUME StoreTypes, IdsOrdered, [Next]_vars PROVE IdsOrdered'
  OBVIOUS
<1>1. /\ sqlSnapshots \in Seq(SqlRows) /\ memSnapshots \in Seq(MemRows)
      /\ sqlAnomalies \in Seq(Anomaly) /\ memAnomalies \in Seq(Anomaly)
      /\ nextId \in Nat
  BY DEF StoreTypes, TypeOK
<1>2. /\ Numbered(sqlSnapshots) /\ Numbered(sqlAnomalies)
      /\ Growing(memSnapshots, nextId) /\ Growing(memAnomalies, nextId)
  BY DEF IdsOrdered
<1>3. (\A y \in MemRows : y.id \in Nat) /\ (\A y \in Anomaly : y.id \in Nat)
  BY DEF MemRows, Anomaly
<1>4. /\ nextId' = nextId + 1 /\ memSnapshots' = memSnapshots => Growing(memSnapshots', nextId')
      /\ nextId' = nextId + 1 /\ memAnomalies' = memAnomalies => Growing(memAnomalies', nextId')
  <2>1. \A i \in 1..Len(memSnapshots) : memSnapshots[i].id \in Nat
    BY <1>1, <1>3
  <2>2. \A i \in 1..Len(memAnomalies) : memAnomalies[i].id \in Nat
    BY <1>1, <1>3
  <2> QED
    BY <1>1, <1>2, <2>1, <2>2 DEF Growing
<1>5. CASE SaveSnapshot
  <2>1. /\ sqlSnapshots' = Append(sqlSnapshots, SqlRow)
        /\ memSnapshots' = Keep(Append(memSnapshots, MemRow))
        /\ nextId' = nextId + 1 /\ UNCHANGED <<sqlAnomalies, memAnomalies>>
    BY <1>5 DEF SaveSnapshot, TakeId
  <2>2. SqlRow \in SqlRows /\ MemRow \in MemRows
    <3>1. /\ live \in Graphs /\ flowing \subseteq EdgeIds /\ captures + 1 \in Nat
          /\ nextId \in Nat \ {0} /\ Len(sqlSnapshots) + 1 \in Nat \ {0}
      BY <1>1, StoreFacts DEF StoreTypes, TypeOK
    <3>2. StatusOf(live) \in Healths
      BY <3>1, StatusOfGraph
    <3> QED
      BY <3>1, <3>2 DEF SqlRow, SqlRows, MemRow, MemRows
  <2>3. Numbered(sqlSnapshots')
    <3>1. SqlRow.id = Len(sqlSnapshots) + 1
      BY DEF SqlRow
    <3> QED
      BY <1>1, <1>2, <2>1, <2>2, <3>1, NumberedAppend
  <2> DEFINE a == Append(memSnapshots, MemRow)
             k == Keep(a)
             n == Len(memSnapshots)
  <2>4. Growing(a, nextId + 1)
    <3>1. MemRow.id = nextId
      BY DEF MemRow
    <3> QED
      BY <1>1, <1>2, <1>3, <2>2, <3>1, GrowingAppend
  <2>5. /\ Len(k) = IF n < MaxRows THEN n + 1 ELSE MaxRows
        /\ \A i \in 1..Len(k) : k[i] = a[i + (n + 1 - Len(k))]
    BY <1>1, <2>2, KeepShifts
  <2>6. n \in Nat /\ MaxRows \in Nat \ {0} /\ n <= MaxRows /\ Len(a) = n + 1
    BY <1>1, <2>2, StoreFacts
  <2> HIDE DEF a, k, n
  <2> DEFINE d == n + 1 - Len(k)
  <2>7. d \in Nat /\ Len(k) \in Nat /\ Len(a) \in Nat /\ Len(k) + d = Len(a)
    BY <2>5, <2>6
  <2>8. \A i \in 1..Len(k) : k[i] = a[i + d]
    BY <2>5
  <2> HIDE DEF d
  <2>9. Growing(k, nextId + 1)
    BY <2>4, <2>7, <2>8, GrowingEnd
  <2> QED
    BY <1>2, <1>4, <2>1, <2>3, <2>9 DEF IdsOrdered, a, k
<1>6. ASSUME NEW n \in DOMAIN live, RecordAnomaly(n) PROVE IdsOrdered'
  <2>1. /\ sqlAnomalies' = Append(sqlAnomalies, SqlAnomaly(n))
        /\ memAnomalies' = Append(memAnomalies, MemAnomaly(n))
        /\ nextId' = nextId + 1 /\ UNCHANGED <<sqlSnapshots, memSnapshots>>
    BY <1>6 DEF RecordAnomaly, TakeId
  <2>2. /\ SqlAnomaly(n) \in Anomaly /\ MemAnomaly(n) \in Anomaly
        /\ SqlAnomaly(n).id = Len(sqlAnomalies) + 1 /\ MemAnomaly(n).id = nextId
    BY AnomalyTypes
  <2>3. Numbered(sqlAnomalies')
    BY <1>1, <1>2, <2>1, <2>2, NumberedAppend
  <2>4. Growing(memAnomalies', nextId')
    BY <1>1, <1>2, <1>3, <2>1, <2>2, GrowingAppend
  <2> QED
    BY <1>2, <1>4, <2>1, <2>3, <2>4 DEF IdsOrdered
<1>7. CASE RecordEdgeMetrics
  <2>1. /\ nextId' = nextId + 1
        /\ UNCHANGED <<sqlSnapshots, sqlAnomalies, memSnapshots, memAnomalies>>
    BY <1>7 DEF RecordEdgeMetrics, TakeId
  <2> QED
    BY <1>2, <1>4, <2>1 DEF IdsOrdered
<1>8. CASE EngineChanges \/ UNCHANGED vars
  <2>1. UNCHANGED <<sqlSnapshots, sqlAnomalies, memSnapshots, memAnomalies, nextId>>
    BY <1>8 DEF EngineChanges, vars, sql, memory
  <2> QED
    BY <1>2, <2>1 DEF IdsOrdered
<1>9. CASE Crash \/ Exit
  <2>1. /\ memSnapshots' = << >> /\ memAnomalies' = << >>
        /\ UNCHANGED <<sqlSnapshots, sqlAnomalies>>
    BY <1>9 DEF Crash, Exit, MemoryLost, sql
  <2>2. Growing(memSnapshots', nextId') /\ Growing(memAnomalies', nextId')
    BY <2>1 DEF Growing
  <2> QED
    BY <1>2, <2>1, <2>2 DEF IdsOrdered
<1> QED
  BY <1>5, <1>6, <1>7, <1>8, <1>9 DEF Next

(* HistoryInv is kept by every step.                                       *)
LEMMA HistoryStep == StoreTypes /\ HistoryInv /\ [Next]_vars => HistoryInv'
<1> SUFFICES ASSUME StoreTypes, HistoryInv, [Next]_vars PROVE HistoryInv'
  OBVIOUS
<1>0. IdsOrdered'
  BY IdsStep DEF HistoryInv
<1>1. CASE SaveSnapshot
  <2>1. AnomaliesAgree'
    BY <1>1 DEF SaveSnapshot, processes, HistoryInv, AnomaliesAgree, FirstProcess
  <2> QED
    BY <1>0, <1>1, <2>1, SnapshotsSaved DEF HistoryInv
<1>2. ASSUME NEW n \in DOMAIN live, RecordAnomaly(n) PROVE HistoryInv'
  <2>1. SnapshotsAgree'
    BY <1>2 DEF RecordAnomaly, processes, HistoryInv, SnapshotsAgree, FirstProcess
  <2> QED
    BY <1>0, <1>2, <2>1, AnomaliesRecorded DEF HistoryInv
<1>3. CASE EngineChanges \/ RecordEdgeMetrics \/ UNCHANGED vars
  <2>1. UNCHANGED <<crashes, exits, sqlSnapshots, sqlAnomalies, memSnapshots, memAnomalies>>
    BY <1>3 DEF EngineChanges, RecordEdgeMetrics, vars, processes, sql, memory
  <2> QED
    BY <1>0, <2>1 DEF HistoryInv, SnapshotsAgree, AnomaliesAgree, FirstProcess
<1>4. CASE Crash \/ Exit
  <2>1. ~FirstProcess'
    <3>1. crashes \in Nat /\ exits \in Nat
      BY PersistenceStoreAssumption DEF StoreTypes, TypeOK, PersistenceStoreAssumption
    <3>2. crashes' + exits' = crashes + exits + 1
      BY <1>4, <3>1 DEF Crash, Exit
    <3> QED
      BY <3>1, <3>2 DEF FirstProcess
  <2>2. /\ memSnapshots' = << >> /\ memAnomalies' = << >>
        /\ UNCHANGED <<sqlSnapshots, sqlAnomalies>>
    BY <1>4 DEF Crash, Exit, MemoryLost, sql
  <2>3. Len(sqlSnapshots) \in Nat /\ Len(sqlAnomalies) \in Nat
    BY DEF StoreTypes, TypeOK
  <2>4. Len(memSnapshots') = 0 /\ Len(memAnomalies') = 0
    BY <2>2
  <2> QED
    BY <1>0, <2>1, <2>2, <2>3, <2>4 DEF HistoryInv, SnapshotsAgree, AnomaliesAgree
<1> QED
  BY <1>1, <1>2, <1>3, <1>4 DEF Next

(* Hence it always holds.                                                  *)
LEMMA HistoryInvariant == Spec => []HistoryInv
<1>1. Init => HistoryInv
  BY DEF Init, HistoryInv, SnapshotsAgree, AnomaliesAgree, IdsOrdered, Numbered, Growing
<1> QED
  BY <1>1, StoreTypesCorrect, HistoryStep, PTL DEF Spec

(* Growing ids tell the places of two rows.                                *)
LEMMA GrowingIds ==
  ASSUME NEW S, NEW s \in Seq(S), \A y \in S : y.id \in Nat, NEW next, Growing(s, next),
         NEW i \in 1..Len(s), NEW j \in 1..Len(s)
  PROVE  s[i].id < s[j].id <=> i < j
<1>1. /\ i < j => s[i].id < s[j].id
      /\ j < i => s[j].id < s[i].id
  BY DEF Growing
<1>2. s[i].id \in Nat /\ s[j].id \in Nat /\ i \in Int /\ j \in Int
  OBVIOUS
<1>3. i = j => ~(s[i].id < s[j].id)
  BY <1>2
<1> QED
  BY <1>1, <1>2, <1>3

(* The same page of both tables of snapshots.                              *)
LEMMA PagesAgree ==
  ASSUME StoreTypes, SnapshotsAgree, IdsOrdered, NEW limit \in 1..MaxRows
  PROVE  LET s == SqlGetSnapshots(limit)
             m == MemGetSnapshots(limit)
             kept == LastRows(s, Len(m))
         IN  /\ Len(m) <= Len(s)
             /\ FirstProcess => Len(m) = Len(s)
             /\ \A i \in DOMAIN m :
                  /\ Copies(m[i], kept[i])
                  /\ \A j \in DOMAIN m : m[i].id < m[j].id <=> kept[i].id < kept[j].id
<1> DEFINE s == SqlGetSnapshots(limit)
           m == MemGetSnapshots(limit)
           kept == LastRows(s, Len(m))
           M == Len(memSnapshots)
           N == Len(sqlSnapshots)
<1>1. /\ sqlSnapshots \in Seq(SqlRows) /\ memSnapshots \in Seq(MemRows)
      /\ MaxRows \in Nat \ {0} /\ M <= MaxRows /\ M \in Nat /\ N \in Nat
      /\ limit \in Nat /\ limit > 0 /\ limit <= MaxRows
  BY StoreFacts
<1>2. s = LastRows(sqlSnapshots, limit) /\ m = LastRows(memSnapshots, limit)
  BY <1>1 DEF SqlGetSnapshots, MemGetSnapshots
<1>3. /\ M <= N
      /\ FirstProcess => M = N \/ M = MaxRows
      /\ \A i \in 1..M : Copies(memSnapshots[i], sqlSnapshots[N - M + i])
  BY DEF SnapshotsAgree
<1> HIDE DEF s, m, kept
<1>4. /\ s \in Seq(SqlRows) /\ Len(s) = IF N <= limit THEN N ELSE limit
      /\ \A i \in 1..Len(s) : s[i] = sqlSnapshots[N - Len(s) + i]
  <2>1. sqlSnapshots \in Seq(SqlRows) /\ limit \in Nat
    BY <1>1
  <2> QED
    BY <1>2, <2>1, LastRowsPlaces
<1>5. /\ m \in Seq(MemRows) /\ Len(m) = IF M <= limit THEN M ELSE limit
      /\ \A i \in 1..Len(m) : m[i] = memSnapshots[M - Len(m) + i]
  <2>1. memSnapshots \in Seq(MemRows) /\ limit \in Nat
    BY <1>1
  <2> QED
    BY <1>2, <2>1, LastRowsPlaces
<1>6. Len(m) \in Nat /\ Len(s) \in Nat /\ DOMAIN m = 1..Len(m)
  BY <1>4, <1>5
<1> HIDE DEF M, N
<1>7. Len(m) <= Len(s) /\ (FirstProcess => Len(m) = Len(s))
  BY <1>1, <1>3, <1>4, <1>5
<1>8. /\ Len(kept) = Len(m)
      /\ \A i \in 1..Len(m) : kept[i] = s[Len(s) - Len(m) + i]
  <2>1. /\ Len(kept) = IF Len(s) <= Len(m) THEN Len(s) ELSE Len(m)
        /\ \A i \in 1..Len(kept) : kept[i] = s[Len(s) - Len(kept) + i]
    BY <1>4, <1>6, LastRowsPlaces DEF kept
  <2>2. Len(kept) = Len(m)
    BY <1>6, <1>7, <2>1
  <2> QED
    BY <2>1, <2>2
<1>9. ASSUME NEW i \in 1..Len(m)
      PROVE  /\ N - Len(m) + i \in 1..N /\ kept[i] = sqlSnapshots[N - Len(m) + i]
             /\ M - Len(m) + i \in 1..M /\ m[i] = memSnapshots[M - Len(m) + i]
  <2>1. Len(s) - Len(m) + i \in 1..Len(s)
    BY <1>6, <1>7
  <2>2. kept[i] = sqlSnapshots[N - Len(s) + (Len(s) - Len(m) + i)]
    BY <1>4, <1>8, <2>1
  <2>3. /\ M - Len(m) + i \in 1..M /\ N - Len(m) + i \in 1..N
        /\ N - Len(m) + i = N - Len(s) + (Len(s) - Len(m) + i)
    BY <1>1, <1>3, <1>5, <1>6
  <2> QED
    BY <1>5, <2>2, <2>3
<1>10. ASSUME NEW i \in 1..Len(m) PROVE Copies(m[i], kept[i])
  <2>1. N - M + (M - Len(m) + i) = N - Len(m) + i
    BY <1>1, <1>6
  <2> QED
    BY <1>3, <1>9, <2>1
<1>11. ASSUME NEW i \in 1..Len(m), NEW j \in 1..Len(m)
       PROVE  m[i].id < m[j].id <=> kept[i].id < kept[j].id
  <2> DEFINE u == M - Len(m) + i
             v == M - Len(m) + j
  <2>1. /\ u \in 1..M /\ v \in 1..M /\ (u < v <=> i < j)
        /\ m[i] = memSnapshots[u] /\ m[j] = memSnapshots[v]
    BY <1>1, <1>6, <1>9
  <2> HIDE DEF u, v
  <2>2. memSnapshots[u].id < memSnapshots[v].id <=> u < v
    <3>1. \A y \in MemRows : y.id \in Nat
      BY DEF MemRows
    <3>2. Growing(memSnapshots, nextId) /\ memSnapshots \in Seq(MemRows)
      BY <1>1 DEF IdsOrdered
    <3>3. u \in 1..Len(memSnapshots) /\ v \in 1..Len(memSnapshots)
      BY <2>1 DEF M
    <3> QED
      BY <3>1, <3>2, <3>3, GrowingIds
  <2>3. kept[i].id = N - Len(m) + i /\ kept[j].id = N - Len(m) + j
    BY <1>9 DEF IdsOrdered, Numbered, N
  <2>4. kept[i].id < kept[j].id <=> i < j
    BY <1>1, <1>6, <2>3
  <2> QED
    BY <2>1, <2>2, <2>4
<1> QED
  BY <1>6, <1>7, <1>10, <1>11 DEF s, m, kept

(* Reversed, a table begins with its last row.                             *)
LEMMA ReversePlaces ==
  ASSUME NEW S, NEW s \in Seq(S)
  PROVE  /\ Reverse(s) \in Seq(S) /\ Len(Reverse(s)) = Len(s)
         /\ \A i \in 1..Len(s) : Reverse(s)[i] = s[Len(s) - i + 1]
<1> DEFINE n == Len(s)
<1>1. n \in Nat /\ \A i \in 1..n : s[i] \in S
  OBVIOUS
<1> HIDE DEF n
<1>2. \A i \in 1..n : n - i + 1 \in 1..n
  BY <1>1
<1>3. Reverse(s) = [i \in 1..n |-> s[n - i + 1]]
  BY DEF Reverse, n
<1>4. Reverse(s) \in [1..n -> S]
  BY <1>1, <1>2, <1>3
<1>5. Reverse(s) \in Seq(S)
  BY <1>1, <1>4, SeqDef
<1>6. Len(Reverse(s)) = n
  BY <1>1, <1>4, <1>5
<1> QED
  BY <1>3, <1>5, <1>6 DEF n

(* The services of a list of outages.                                      *)
LEMMA ServicesOf ==
  ASSUME NEW r \in Seq(Anomaly)
  PROVE  /\ Services(r) \in Seq(NodeIds) /\ Len(Services(r)) = Len(r)
         /\ \A i \in 1..Len(r) : Services(r)[i] = r[i].service_id
<1> DEFINE n == Len(r)
<1>1. n \in Nat /\ DOMAIN r = 1..n /\ \A i \in 1..n : r[i] \in Anomaly
  OBVIOUS
<1>2. Services(r) = [i \in 1..n |-> r[i].service_id]
  BY <1>1 DEF Services
<1> HIDE DEF n
<1>3. \A i \in 1..n : r[i].service_id \in NodeIds
  BY <1>1 DEF Anomaly
<1>4. Services(r) \in [1..n -> NodeIds]
  BY <1>2, <1>3
<1>5. Services(r) \in Seq(NodeIds)
  BY <1>1, <1>4, SeqDef
<1>6. Len(Services(r)) = n
  BY <1>1, <1>4, <1>5
<1> QED
  BY <1>2, <1>5, <1>6 DEF n

(* The newest outages in memory are the newest in the file.                *)
LEMMA ActiveAnomaliesAgree ==
  ASSUME StoreTypes, AnomaliesAgree, IdsOrdered
  PROVE  LET s == SqlGetActiveAnomalies
             m == MemGetActiveAnomalies
         IN  /\ IsPrefix(Services(m), Services(s))
             /\ FirstProcess => Services(m) = Services(s)
             /\ \A i, j \in DOMAIN m : m[i].id < m[j].id <=> s[i].id < s[j].id
<1> DEFINE M == Len(memAnomalies)
           N == Len(sqlAnomalies)
           m == LastRows(memAnomalies, PageRows)
           s == LastRows(sqlAnomalies, PageRows)
           p == Len(m)
           q == Len(s)
           rm == Reverse(m)
           rs == Reverse(s)
<1>1. /\ sqlAnomalies \in Seq(Anomaly) /\ memAnomalies \in Seq(Anomaly) /\ M \in Nat /\ N \in Nat
      /\ PageRows \in Nat
  BY PersistenceStoreAssumption DEF StoreTypes, TypeOK, PersistenceStoreAssumption
<1>2. /\ M <= N
      /\ FirstProcess => M = N
      /\ \A i \in 1..M : memAnomalies[i].service_id = sqlAnomalies[N - M + i].service_id
  BY DEF AnomaliesAgree
<1>3. /\ m \in Seq(Anomaly) /\ p = IF M <= PageRows THEN M ELSE PageRows
      /\ \A i \in 1..p : m[i] = memAnomalies[M - p + i]
  BY <1>1, LastRowsPlaces
<1>4. /\ s \in Seq(Anomaly) /\ q = IF N <= PageRows THEN N ELSE PageRows
      /\ \A i \in 1..q : s[i] = sqlAnomalies[N - q + i]
  BY <1>1, LastRowsPlaces
<1> HIDE DEF m, s, M, N
<1>5. rm \in Seq(Anomaly) /\ Len(rm) = p /\ \A i \in 1..p : rm[i] = m[p - i + 1]
  BY <1>3, ReversePlaces
<1>6. rs \in Seq(Anomaly) /\ Len(rs) = q /\ \A i \in 1..q : rs[i] = s[q - i + 1]
  BY <1>4, ReversePlaces
<1>7. p \in Nat /\ q \in Nat /\ p <= q /\ p <= M /\ (FirstProcess => p = q)
  BY <1>1, <1>2, <1>3, <1>4
<1> HIDE DEF p, q, rm, rs
<1>8. ASSUME NEW i \in 1..p
      PROVE  /\ M - i + 1 \in 1..M /\ rm[i] = memAnomalies[M - i + 1]
             /\ N - i + 1 \in 1..N /\ rs[i] = sqlAnomalies[N - i + 1]
             /\ rm[i].service_id = rs[i].service_id
  <2>1. /\ p - i + 1 \in 1..p /\ q - i + 1 \in 1..q /\ i \in 1..q
        /\ M - p + (p - i + 1) = M - i + 1 /\ M - i + 1 \in 1..M /\ N - i + 1 \in 1..N
        /\ N - q + (q - i + 1) = N - i + 1 /\ N - M + (M - i + 1) = N - i + 1
    BY <1>1, <1>2, <1>7
  <2>2. rm[i] = memAnomalies[M - i + 1]
    BY <1>3, <1>5, <2>1
  <2>3. rs[i] = sqlAnomalies[N - i + 1]
    BY <1>4, <1>6, <2>1
  <2>4. memAnomalies[M - i + 1].service_id = sqlAnomalies[N - i + 1].service_id
    BY <1>2, <2>1
  <2> QED
    BY <2>1, <2>2, <2>3, <2>4
<1> DEFINE fm == Services(rm)
           fs == Services(rs)
<1>9. /\ fm \in Seq(NodeIds) /\ Len(fm) = p /\ \A i \in 1..p : fm[i] = rm[i].service_id
      /\ fs \in Seq(NodeIds) /\ Len(fs) = q /\ \A i \in 1..q : fs[i] = rs[i].service_id
  BY <1>5, <1>6, ServicesOf
<1> HIDE DEF fm, fs
<1>10. ASSUME NEW i \in 1..p PROVE fm[i] = fs[i]
  <2>1. i \in 1..q
    BY <1>7
  <2>2. fm[i] = rm[i].service_id /\ fs[i] = rs[i].service_id
    BY <1>9, <2>1
  <2>3. rm[i].service_id = rs[i].service_id
    BY <1>8
  <2> QED
    BY <2>2, <2>3
<1>11. IsPrefix(fm, fs)
  <2> DEFINE t == SubSeq(fs, 1, p)
  <2>1. \A i \in 1..p : fs[i] \in NodeIds
    BY <1>7, <1>9
  <2>2. /\ t \in Seq(NodeIds) /\ Len(t) = (IF 1 <= p THEN p - 1 + 1 ELSE 0)
        /\ \A i \in 1..(p - 1 + 1) : t[i] = fs[1 + i - 1]
    BY <1>7, <2>1, SubSeqProperties
  <2> HIDE DEF t
  <2>3. Len(t) = p /\ \A i \in 1..p : t[i] = fs[i]
    <3>1. Len(t) = p
      BY <1>7, <2>2
    <3>2. ASSUME NEW i \in 1..p PROVE t[i] = fs[i]
      <4>1. i \in 1..(p - 1 + 1) /\ 1 + i - 1 = i
        BY <1>7
      <4> QED
        BY <2>2, <4>1
    <3> QED
      BY <3>1, <3>2
  <2>4. fm = t
    BY <1>9, <1>10, <2>2, <2>3, SeqEqual
  <2>5. SubSeq(fm, 1, p) = fm
    BY <1>9, SubSeqFull
  <2> QED
    BY <1>7, <1>9, <2>4, <2>5 DEF IsPrefix, t
<1>12. FirstProcess => fm = fs
  <2> SUFFICES ASSUME FirstProcess PROVE fm = fs
    OBVIOUS
  <2>1. Len(fm) = Len(fs)
    BY <1>7, <1>9
  <2> QED
    BY <1>9, <1>10, <2>1, SeqEqual
<1>13. ASSUME NEW i \in 1..p, NEW j \in 1..p
       PROVE  rm[i].id < rm[j].id <=> rs[i].id < rs[j].id
  <2> DEFINE u == M - i + 1
             v == M - j + 1
  <2>1. /\ u \in 1..M /\ v \in 1..M /\ (u < v <=> j < i)
        /\ rm[i] = memAnomalies[u] /\ rm[j] = memAnomalies[v]
    BY <1>1, <1>7, <1>8
  <2> HIDE DEF u, v
  <2>2. memAnomalies[u].id < memAnomalies[v].id <=> u < v
    <3>1. \A y \in Anomaly : y.id \in Nat
      BY DEF Anomaly
    <3>2. Growing(memAnomalies, nextId) /\ memAnomalies \in Seq(Anomaly)
      BY <1>1 DEF IdsOrdered
    <3>3. u \in 1..Len(memAnomalies) /\ v \in 1..Len(memAnomalies)
      BY <2>1 DEF M
    <3> QED
      BY <3>1, <3>2, <3>3, GrowingIds
  <2>3. rs[i].id = N - i + 1 /\ rs[j].id = N - j + 1
    BY <1>8 DEF IdsOrdered, Numbered, N
  <2>4. rs[i].id < rs[j].id <=> j < i
    BY <1>1, <1>7, <2>3
  <2> QED
    BY <2>1, <2>2, <2>4
<1>14. DOMAIN rm = 1..p
  BY <1>5
<1> QED
  BY <1>11, <1>12, <1>13, <1>14
     DEF fm, fs, rm, rs, m, s, MemGetActiveAnomalies, SqlGetActiveAnomalies

(* For any number of rows kept and every limit that both backends can      *)
(* serve, their answers agree, as far back as memory goes, in the order of *)
(* the rows (ids order them alike), in timestamps, statuses and edges of   *)
(* snapshots and in the services of anomalies.  Not in the ids themselves  *)
(* and not in the metrics of nodes, which do differ.                       *)
THEOREM HistoryCorrect == Spec => []HistoryAgrees
<1>1. StoreTypes /\ HistoryInv => HistoryAgrees
  <2> SUFFICES ASSUME StoreTypes, HistoryInv PROVE HistoryAgrees
    OBVIOUS
  <2>1. SnapshotsAgree /\ AnomaliesAgree /\ IdsOrdered
    BY DEF HistoryInv
  <2> QED
    BY <2>1, PagesAgree, ActiveAnomaliesAgree DEF HistoryAgrees, Copies
<1> QED
  BY <1>1, StoreTypesCorrect, HistoryInvariant, PTL

-----------------------------------------------------------------------------
(* The aggregator's process.                                               *)

(* What the refinement needs: between two processes no capture is under    *)
(* way, and a simulator has one interval while it runs.                    *)
ProcessInv ==
  /\ StoreTypes
  /\ AggregatorTypeOK
  /\ proc = "down" => ~Capturing

-----------------------------------------------------------------------------
(* Seeding is a change of the engine that leaves the flows alone.          *)
LEMMA SeedChangesEngine ==
  ASSUME StoreTypes, ~Capturing, Seed
  PROVE  EngineChanges /\ DOMAIN live \subseteq DOMAIN live'
<1>1. live' \in [DOMAIN live \cup Simulated -> Node]
      /\ UNCHANGED <<flowing, captures, todo, processes, sql, memory>>
  BY DEF Seed
<1>2. DOMAIN live \cup Simulated \in SUBSET NodeIds
  BY AggregatorAssumption DEF AggregatorAssumption, StoreTypes, TypeOK
<1>3. flowing \in SUBSET EdgeIds /\ flowing' = flowing
  BY <1>1 DEF StoreTypes, TypeOK
<1> QED
  BY <1>1, <1>2, <1>3 DEF EngineChanges

(* What each action of the process is to the store.                        *)
LEMMA ActionRefines == ProcessInv /\ [AggregatorNext]_aggregatorVars => [Next]_vars
<1> SUFFICES ASSUME ProcessInv, [AggregatorNext]_aggregatorVars PROVE [Next]_vars
  OBVIOUS
<1>0. StoreTypes /\ (proc = "down" => ~Capturing)
  BY DEF ProcessInv
<1>1. CASE Start
  BY <1>0, <1>1, SeedChangesEngine DEF Start, Next
<1>2. CASE Timers \/ Capture \/ CaptureEdge
  BY <1>2 DEF Timers, Capture, CaptureEdge, Next
<1>3. ASSUME NEW c \in Conns, NEW request, Ask(c, request) PROVE UNCHANGED vars
  BY <1>3 DEF Ask
<1>4. ASSUME NEW c \in Conns, HangUp(c) PROVE UNCHANGED vars
  BY <1>4 DEF HangUp
<1>5. ASSUME NEW c \in Conns, Ingest(c) PROVE [Next]_vars
  BY <1>5 DEF Ingest, Next
<1>6. ASSUME NEW c \in Conns, NEW n \in DOMAIN live, NEW after, Toggle(c, n, after)
      PROVE  [Next]_vars
  BY <1>6 DEF Toggle, Inject, Clear, Next
<1>7. ASSUME NEW c \in Conns, NEW n, InjectThrows(c, n) PROVE [Next]_vars
  BY <1>7 DEF InjectThrows, Next
<1>8. ASSUME NEW c \in Conns, ToggleSimulator(c) PROVE [Next]_vars
  BY <1>0, <1>8, SeedChangesEngine DEF ToggleSimulator, Waiting, Next
<1>9. CASE Die
  BY <1>9 DEF Die, Next
<1>10. CASE Signal
  BY <1>10 DEF Signal
<1>11. CASE Drained \/ Deadline
  BY <1>11 DEF Drained, Deadline, Next
<1>12. CASE UNCHANGED aggregatorVars
  BY <1>12 DEF aggregatorVars
<1> QED
  BY <1>1, <1>2, <1>3, <1>4, <1>5, <1>6, <1>7, <1>8, <1>9, <1>10, <1>11, <1>12
     DEF AggregatorNext
-----------------------------------------------------------------------------
(* The process's own state.                                                *)

(* The nodes of a graph stay until the process ends.                       *)
LEMMA ChangesGrow == EngineChanges => DOMAIN live \subseteq DOMAIN live'
  BY DEF EngineChanges

(* When a process is gone, so are its connections and the capture it had   *)
(* begun.                                                                  *)
LEMMA GoneIsTyped ==
  ASSUME ProcessGone, EngineLost, TypeOK'
  PROVE  AggregatorTypeOK' /\ ~Capturing'
BY DEF ProcessGone, EngineLost, AllClosed, ConnStates, AggregatorTypeOK, Capturing

(* Every step of process, clients and signals keeps the types of the       *)
(* process, and leaves no capture under way between two processes.         *)
LEMMA ProcessStep ==
  ProcessInv /\ StoreTypes' /\ [AggregatorNext]_aggregatorVars => ProcessInv'
<1> SUFFICES ASSUME ProcessInv, StoreTypes', [AggregatorNext]_aggregatorVars
             PROVE  AggregatorTypeOK' /\ (proc' = "down" => ~Capturing')
  BY DEF ProcessInv
<1> USE DEF ProcessInv
<1>0. TypeOK' /\ AggregatorTypeOK
  BY DEF StoreTypes
<1>1. CASE Start
  <2>1. EngineChanges /\ DOMAIN live \subseteq DOMAIN live'
    BY <1>1, SeedChangesEngine DEF Start
  <2> QED
    BY <1>0, <1>1, <2>1 DEF Start, StartSimulator, AggregatorTypeOK
<1>2. CASE Timers
  <2>1. proc # "down" /\ UNCHANGED server /\ DOMAIN live \subseteq DOMAIN live'
    BY <1>2, ChangesGrow DEF Timers, Waiting
  <2> QED
    BY <1>0, <2>1 DEF server, AggregatorTypeOK
<1>3. CASE Capture \/ CaptureEdge
  <2>1. UNCHANGED server /\ UNCHANGED live /\ proc # "down"
    BY <1>3 DEF Capture, CaptureEdge, Waiting, SaveSnapshot, RecordEdgeMetrics, engine
  <2> QED
    BY <1>0, <2>1 DEF server, AggregatorTypeOK
<1>4. ASSUME NEW c \in Conns,
             (\E request \in {"events", "anomaly", "stream"} : Ask(c, request)) \/ HangUp(c)
      PROVE  AggregatorTypeOK' /\ (proc' = "down" => ~Capturing')
  <2>1. /\ proc # "down" /\ UNCHANGED <<vars, proc, running, intervals, outage>>
        /\ \E s \in ConnStates : conns' = [conns EXCEPT ![c] = s]
    BY <1>4 DEF Ask, HangUp, Waiting, ConnStates
  <2> QED
    BY <1>0, <2>1 DEF vars, engine, AggregatorTypeOK
<1>5. ASSUME NEW c \in Conns, Ingest(c)
      PROVE  AggregatorTypeOK' /\ (proc' = "down" => ~Capturing')
  <2>1. /\ proc # "down" /\ UNCHANGED <<proc, running, intervals, outage>>
        /\ \E s \in ConnStates : conns' = [conns EXCEPT ![c] = s]
        /\ DOMAIN live \subseteq DOMAIN live'
    BY <1>5, ChangesGrow DEF Ingest, Waiting, ConnStates, vars, engine
  <2> QED
    BY <1>0, <2>1 DEF AggregatorTypeOK
<1>6. ASSUME NEW c \in Conns, NEW n \in DOMAIN live, NEW after \in {"idle", "closed"},
             Toggle(c, n, after)
      PROVE  AggregatorTypeOK' /\ (proc' = "down" => ~Capturing')
  <2>1. /\ proc # "down" /\ UNCHANGED <<proc, running, intervals, live>>
        /\ outage' \in {n, NoNode} /\ conns' = [conns EXCEPT ![c] = after]
        /\ after \in ConnStates
    BY <1>6 DEF Toggle, Inject, Clear, Waiting, RecordAnomaly, vars, engine, ConnStates
  <2> QED
    BY <1>0, <2>1 DEF AggregatorTypeOK
<1>7. ASSUME NEW c \in Conns, ToggleSimulator(c)
      PROVE  AggregatorTypeOK' /\ (proc' = "down" => ~Capturing')
  <2>1. /\ proc # "down" /\ UNCHANGED <<proc, outage>>
        /\ conns' = [conns EXCEPT ![c] = "idle"] /\ "idle" \in ConnStates
    BY <1>7 DEF ToggleSimulator, Waiting, ConnStates
  <2>2. DOMAIN live \subseteq DOMAIN live'
    BY <1>7, SeedChangesEngine DEF ToggleSimulator, Waiting, vars, engine
  <2>3. running' \in BOOLEAN /\ intervals' = IF running' THEN 1 ELSE 0
    <3>1. running \in BOOLEAN /\ intervals = IF running THEN 1 ELSE 0
      BY <1>0 DEF AggregatorTypeOK
    <3>2. CASE running /\ StopSimulator
      <4>1. intervals = 1
        BY <3>1, <3>2
      <4>2. intervals' = intervals - 1
        BY <3>2 DEF StopSimulator
      <4>3. intervals' = 0
        BY <4>1, <4>2
      <4>4. running' = FALSE
        BY <3>2 DEF StopSimulator
      <4> QED
        BY <4>3, <4>4, Zenon
    <3>3. CASE StartSimulator
      BY <3>1, <3>3 DEF StartSimulator
    <3> QED
      BY <1>7, <3>2, <3>3 DEF ToggleSimulator
  <2> QED
    BY <1>0, <2>1, <2>2, <2>3 DEF AggregatorTypeOK
<1>8. CASE Die \/ (\E c \in Conns : \E n \in DOMAIN live : InjectThrows(c, n)) \/ Drained \/ Deadline
  <2>1. ProcessGone /\ EngineLost
    BY <1>8 DEF Die, InjectThrows, Drained, Deadline, Crash, Exit
  <2> QED
    BY <1>0, <2>1, GoneIsTyped
<1>9. CASE Signal
  <2>1. /\ proc' = "closing" /\ running' = FALSE /\ UNCHANGED <<vars, outage>>
        /\ intervals' = IF running THEN intervals - 1 ELSE intervals
        /\ conns' = [c \in Conns |-> IF conns[c] = "idle" THEN "closed" ELSE conns[c]]
    BY <1>9 DEF Signal, StopSimulator
  <2>2. intervals' = IF running' THEN 1 ELSE 0
    BY <1>0, <2>1 DEF AggregatorTypeOK
  <2>3. conns' \in [Conns -> ConnStates]
    BY <1>0, <2>1 DEF AggregatorTypeOK, ConnStates
  <2>4. live' = live /\ outage' = outage
    BY <2>1 DEF vars, engine
  <2> QED
    BY <1>0, <2>1, <2>2, <2>3, <2>4 DEF AggregatorTypeOK
<1>10. CASE UNCHANGED aggregatorVars
  BY <1>0, <1>10 DEF aggregatorVars, server, vars, engine, Capturing, AggregatorTypeOK
<1> QED
  BY <1>1, <1>2, <1>3, <1>4, <1>5, <1>6, <1>7, <1>8, <1>9, <1>10 DEF AggregatorNext

(* The types of the process hold in every state.                           *)
LEMMA ProcessInvariant == AggregatorSpec => []ProcessInv
<1>1. AggregatorInit => ProcessInv
  <2> SUFFICES ASSUME AggregatorInit PROVE ProcessInv
    OBVIOUS
  <2>1. StoreTypes /\ TypeOK /\ ~Capturing /\ live = << >>
    BY StoreTypesInit DEF AggregatorInit, StoreTypes, Init, Capturing
  <2> QED
    BY <2>1 DEF AggregatorInit, ProcessInv, AggregatorTypeOK, AllClosed, ConnStates
<1>2. ProcessInv /\ [AggregatorNext]_aggregatorVars => ProcessInv'
  BY ActionRefines, StoreTypesStep, ProcessStep DEF ProcessInv
<1> QED
  BY <1>1, <1>2, PTL DEF AggregatorSpec

(* The state of a process is well typed: whatever toggles, signals and     *)
(* deaths come, a simulator that runs has one interval, and one that does  *)
(* not has none.                                                           *)
THEOREM AggregatorTypeCorrect == AggregatorSpec => []AggregatorTypeOK
<1>1. ProcessInv => AggregatorTypeOK
  BY DEF ProcessInv
<1> QED
  BY <1>1, ProcessInvariant, PTL

(* The process uses the store as PersistenceStore says.                    *)
THEOREM StoreRefines == AggregatorSpec => Spec
<1>1. AggregatorInit => Init
  BY DEF AggregatorInit
<1> QED
  BY <1>1, ActionRefines, ProcessInvariant, PTL DEF AggregatorSpec, Spec

(* So a snapshot in the aggregator's file is torn only by a death of the   *)
(* process.                                                                *)
THEOREM AggregatorTornCorrect == AggregatorSpec => []TornOnlyByCrash
  BY StoreRefines, TornCorrect, PTL

(* And metrics belong to a snapshot that is still there, in either backend *)
(* and whatever the aggregator's clients, signals and restarts do.         *)
THEOREM AggregatorMetricsCorrect == AggregatorSpec => []MetricsHaveSnapshot
  BY StoreRefines, MetricsCorrect, PTL

(* And the backends' answers agree in what HistoryAgrees compares of them  *)
(* (rows, their order, timestamps, statuses, edges and services, not ids   *)
(* and metrics), whatever clients, signals and restarts do in between.     *)
THEOREM AggregatorHistoryCorrect == AggregatorSpec => []HistoryAgrees
  BY StoreRefines, HistoryCorrect, PTL
-----------------------------------------------------------------------------
(* Outages.                                                                *)

(* The outage that has just been recorded is the last one on record.       *)
LEMMA LastOfAppend ==
  ASSUME NEW s \in Seq(Anomaly), NEW x \in Anomaly
  PROVE  Append(s, x) # << >> /\ Last(Append(s, x)) = x
BY DEF Last

(* No interleaving of toggles, captures, signals and deaths leaves an      *)
(* outage on that the store does not have as its last one.                 *)
THEOREM OutageCorrect == AggregatorSpec => []OutageOnRecord
<1>1. AggregatorInit => OutageOnRecord
  BY DEF AggregatorInit, OutageOnRecord
<1>2. ProcessInv /\ OutageOnRecord /\ [AggregatorNext]_aggregatorVars => OutageOnRecord'
  <2> SUFFICES ASSUME ProcessInv, OutageOnRecord, [AggregatorNext]_aggregatorVars
               PROVE  OutageOnRecord'
    OBVIOUS
  <2>1. CASE UNCHANGED <<outage, sqlAnomalies, memAnomalies>>
    BY <2>1 DEF OutageOnRecord
  <2>2. CASE outage' = NoNode
    BY <2>2 DEF OutageOnRecord
  <2>3. ASSUME NEW n \in DOMAIN live, Inject(n) PROVE OutageOnRecord'
    <3>1. /\ sqlAnomalies' = Append(sqlAnomalies, SqlAnomaly(n))
          /\ memAnomalies' = Append(memAnomalies, MemAnomaly(n))
          /\ outage' = n
      BY <2>3 DEF Inject, RecordAnomaly
    <3>2. /\ sqlAnomalies \in Seq(Anomaly) /\ memAnomalies \in Seq(Anomaly)
          /\ SqlAnomaly(n) \in Anomaly /\ MemAnomaly(n) \in Anomaly
          /\ SqlAnomaly(n).service_id = n /\ MemAnomaly(n).service_id = n
      BY AnomalyTypes DEF ProcessInv, StoreTypes, TypeOK
    <3> QED
      BY <3>1, <3>2, LastOfAppend DEF OutageOnRecord
  <2>4. CASE Start \/ Timers \/ Capture \/ CaptureEdge \/ Signal
    <3>1. UNCHANGED <<outage, sqlAnomalies, memAnomalies>>
      BY <2>4 DEF Start, Seed, Timers, EngineChanges, Capture, SaveSnapshot, CaptureEdge,
                  RecordEdgeMetrics, Signal, server, vars, sql, memory
    <3> QED
      BY <2>1, <3>1
  <2>5. ASSUME NEW c \in Conns,
               (\E request \in {"events", "anomaly", "stream"} : Ask(c, request))
                 \/ HangUp(c) \/ Ingest(c) \/ ToggleSimulator(c)
        PROVE  OutageOnRecord'
    <3>1. UNCHANGED <<outage, sqlAnomalies, memAnomalies>>
      BY <2>5 DEF Ask, HangUp, Ingest, EngineChanges, ToggleSimulator, Seed, vars, sql, memory
    <3> QED
      BY <2>1, <3>1
  <2>6. ASSUME NEW c \in Conns, NEW n \in DOMAIN live, NEW after, Toggle(c, n, after)
        PROVE  OutageOnRecord'
    BY <2>2, <2>3, <2>6 DEF Toggle, Clear
  <2>7. CASE Die \/ (\E c \in Conns : \E n \in DOMAIN live : InjectThrows(c, n)) \/ Drained \/ Deadline
    BY <2>2, <2>7 DEF Die, InjectThrows, Drained, Deadline, ProcessGone
  <2>8. CASE UNCHANGED aggregatorVars
    BY <2>1, <2>8 DEF aggregatorVars, server, vars, sql, memory
  <2> QED
    BY <2>4, <2>5, <2>6, <2>7, <2>8 DEF AggregatorNext
<1> QED
  BY <1>1, <1>2, ProcessInvariant, PTL DEF AggregatorSpec
=============================================================================
