------------------------------ MODULE Aggregator ------------------------------
(***************************************************************************)
(* The aggregator's process: server/index.mjs (listening and shutdown),    *)
(* server/app.mjs (createApp and the handler of requests), the start and   *)
(* stop of server/simulator.mjs, and toggleAnomaly of graph_engine.mjs,    *)
(* over the engine and the store of PersistenceStore.                      *)
(*                                                                         *)
(* One thread runs everything: a handler is one step from the end of the   *)
(* body it reads to its answer, and nothing happens inside a capture but   *)
(* the inserts of the capture and the death of the process.  An insert     *)
(* that fails is such a death: captureSnapshot throws out of a timer, the  *)
(* toggle's handler rejects a promise nobody handles, and Node ends the    *)
(* process for either.                                                     *)
(*                                                                         *)
(* A connection is idle, has sent the head of a request whose body is      *)
(* still to come, or carries an open event stream.  Requests that only     *)
(* read change nothing and are left out.                                   *)
(***************************************************************************)
EXTENDS PersistenceStore

CONSTANTS
  Conns,         \* connections that may be open at a time
  Simulated,     \* the nodes of the simulator's services
  DefaultTarget, \* the node of 'payment-service'
  NoNode

ASSUME AggregatorAssumption ==
  /\ Simulated \subseteq NodeIds
  /\ DefaultTarget \in Simulated
  /\ NoNode \notin NodeIds

VARIABLES
  proc,       \* "up", "closing" once server.close has been called, "down"
  running,    \* simulator.running
  intervals,  \* intervals of the simulator that are set
  outage,     \* anomalyNodeId while anomalyActive, NoNode otherwise
  conns       \* what each connection is doing

server == <<proc, running, intervals, outage, conns>>
aggregatorVars == <<vars, server>>

ConnStates == {"closed", "idle", "events", "anomaly", "stream"}
AllClosed == [c \in Conns |-> "closed"]

(* The process waits for the next event: no synchronous code is under way. *)
Waiting == proc # "down" /\ ~Capturing

AggregatorInit ==
  /\ Init
  /\ proc = "down"
  /\ running = FALSE /\ intervals = 0
  /\ outage = NoNode
  /\ conns = AllClosed

-----------------------------------------------------------------------------
(* The simulator.                                                          *)

StartSimulator ==
  /\ ~running
  /\ running' = TRUE
  /\ intervals' = intervals + 1

StopSimulatorKeepingInterval ==
  /\ running' = FALSE
  /\ UNCHANGED intervals

StopSimulator ==
  /\ running' = FALSE
  /\ intervals' = IF running THEN intervals - 1 ELSE intervals

(* A service that is seeded again keeps what its node has.                 *)
Seeded(n) ==
  IF n \in DOMAIN live THEN {live[n]} ELSE {[status |-> "HEALTHY", metrics |-> m] : m \in Loads}

Seed ==
  /\ live' \in [DOMAIN live \cup Simulated -> Node]
  /\ \A n \in DOMAIN live' : live'[n] \in Seeded(n)
  /\ UNCHANGED <<flowing, captures, todo, processes, sql, memory>>

-----------------------------------------------------------------------------
(* createApp and listen.  The first edges have no rate before a tick.      *)
Start ==
  /\ proc = "down"
  /\ proc' = "up"
  /\ StartSimulator
  /\ Seed
  /\ UNCHANGED <<outage, conns>>

(* The engine's tick and the simulator's interval.                         *)
Timers ==
  /\ Waiting
  /\ EngineChanges
  /\ UNCHANGED server

(* The snapshot timer: its first insert, and then those of the metrics.    *)
Capture ==
  /\ Waiting
  /\ SaveSnapshot
  /\ UNCHANGED server

CaptureEdge == RecordEdgeMetrics /\ UNCHANGED server

-----------------------------------------------------------------------------
(* Connections.  Once server.close has been called there are no new ones,  *)
(* but one that was busy then may carry another request before it is idle  *)
(* for too long.                                                           *)

CanAsk(c) == conns[c] = "idle" \/ (conns[c] = "closed" /\ proc = "up")

(* The head of a POST whose body is to be read, or a GET of the stream.    *)
Ask(c, request) ==
  /\ Waiting
  /\ CanAsk(c)
  /\ conns' = [conns EXCEPT ![c] = request]
  /\ UNCHANGED <<vars, proc, running, intervals, outage>>

(* The client, or the keep-alive timeout, closes it.                       *)
HangUp(c) ==
  /\ Waiting
  /\ conns[c] \in {"idle", "stream"}
  /\ conns' = [conns EXCEPT ![c] = "closed"]
  /\ UNCHANGED <<vars, proc, running, intervals, outage>>

(* POST events: the body has been read.  One that does not parse leaves    *)
(* the engine alone, one that breaks off or grows beyond the limit as well *)
(* and takes the connection with it.                                       *)
Ingest(c) ==
  /\ Waiting
  /\ conns[c] = "events"
  /\ \/ EngineChanges /\ conns' = [conns EXCEPT ![c] = "idle"]
     \/ UNCHANGED vars /\ conns' \in {[conns EXCEPT ![c] = s] : s \in {"idle", "closed"}}
  /\ UNCHANGED <<proc, running, intervals, outage>>

-----------------------------------------------------------------------------
(* toggleAnomaly.  The flag is flipped before the insert.                  *)

Inject(n) ==
  /\ outage = NoNode
  /\ outage' = n
  /\ RecordAnomaly(n)
  /\ UNCHANGED <<proc, running, intervals>>

Clear(n) ==
  /\ outage # NoNode
  /\ outage' = NoNode
  /\ UNCHANGED <<vars, proc, running, intervals>>

(* A body that names no known service, does not parse, breaks off or is    *)
(* too long leaves the default target: the outage is toggled all the same. *)
Toggle(c, n, after) ==
  /\ Waiting
  /\ conns[c] = "anomaly"
  /\ after = "closed" => n = DefaultTarget
  /\ Inject(n) \/ Clear(n)
  /\ conns' = [conns EXCEPT ![c] = after]

(* POST simulate/toggle has no body to wait for.                           *)
ToggleSimulator(c) ==
  /\ Waiting
  /\ CanAsk(c)
  /\ \/ running /\ StopSimulator /\ UNCHANGED vars
     \/ StartSimulator /\ Seed
  /\ conns' = [conns EXCEPT ![c] = "idle"]
  /\ UNCHANGED <<proc, outage>>

-----------------------------------------------------------------------------
(* The end.                                                                *)

ProcessGone ==
  /\ proc' = "down"
  /\ running' = FALSE /\ intervals' = 0
  /\ outage' = NoNode
  /\ conns' = AllClosed

(* A failed insert of a capture, kill -9, a lost machine.                  *)
Die ==
  /\ proc # "down"
  /\ Crash
  /\ ProcessGone

InjectThrowsCaught(c, n) ==
  /\ Waiting
  /\ conns[c] = "anomaly"
  /\ outage = NoNode
  /\ outage' = n
  /\ conns' = [conns EXCEPT ![c] = "idle"]
  /\ UNCHANGED <<vars, proc, running, intervals>>

(* The insert of a toggle throws: nothing between it and the process.      *)
InjectThrows(c, n) ==
  /\ Waiting
  /\ conns[c] = "anomaly"
  /\ outage = NoNode
  /\ Crash
  /\ ProcessGone

(* SIGTERM or SIGINT, also a second one.  server.close closes the idle     *)
(* connections and waits for the others.                                   *)
Signal ==
  /\ Waiting
  /\ crashes + exits < MaxEnds
  /\ proc' = "closing"
  /\ StopSimulator
  /\ conns' = [c \in Conns |-> IF conns[c] = "idle" THEN "closed" ELSE conns[c]]
  /\ UNCHANGED <<vars, outage>>

(* The callback of server.close.                                           *)
Drained ==
  /\ proc = "closing"
  /\ conns = AllClosed
  /\ Exit
  /\ ProcessGone

(* The timer of three seconds.                                             *)
Deadline ==
  /\ proc = "closing"
  /\ Exit
  /\ ProcessGone

AggregatorNext ==
  \/ Start \/ Timers \/ Capture \/ CaptureEdge
  \/ \E c \in Conns :
       \/ \E request \in {"events", "anomaly", "stream"} : Ask(c, request)
       \/ HangUp(c)
       \/ Ingest(c)
       \/ \E n \in DOMAIN live, after \in {"idle", "closed"} : Toggle(c, n, after)
       \/ \E n \in DOMAIN live : InjectThrows(c, n)
       \/ ToggleSimulator(c)
  \/ Die \/ Signal \/ Drained \/ Deadline

AggregatorSpec == AggregatorInit /\ [][AggregatorNext]_aggregatorVars

(***************************************************************************)
(* Fairness.  A timer that has run out is served when the synchronous code *)
(* under way is done, however often such code runs in between; and that    *)
(* code ends.  Nothing is assumed of clients, signals and inserts.         *)
(***************************************************************************)
Fairness == SF_aggregatorVars(Deadline) /\ WF_aggregatorVars(CaptureEdge)

AggregatorFairSpec == AggregatorSpec /\ Fairness

-----------------------------------------------------------------------------
(* Types; a simulator that runs has one interval and one that does not has *)
(* none, however often it is toggled and whatever stops it.                *)
AggregatorTypeOK ==
  /\ TypeOK
  /\ proc \in {"up", "closing", "down"}
  /\ running \in BOOLEAN
  /\ intervals = IF running THEN 1 ELSE 0
  /\ outage \in DOMAIN live \cup {NoNode}
  /\ conns \in [Conns -> ConnStates]
  /\ proc = "down" => live = << >> /\ conns = AllClosed /\ ~running

(* An outage that is on is the one recorded last, in both backends.  The   *)
(* flag is flipped before the insert; that no toggle leaves it flipped     *)
(* without a row is because a throw of the insert ends the process.        *)
OutageOnRecord ==
  outage # NoNode =>
    /\ sqlAnomalies # << >> /\ Last(sqlAnomalies).service_id = outage
    /\ memAnomalies # << >> /\ Last(memAnomalies).service_id = outage

(* index.mjs: "Do not hang forever on lingering SSE connections."  A       *)
(* signal ends the process, whatever clients, requests and captures do.    *)
ShutdownEnds == proc = "closing" ~> proc = "down"
=============================================================================
