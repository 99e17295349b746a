# FlowCartographer: models, checks and proofs

TLA+ models of FlowCartographer, the TLC configurations that check them on
small instances, and theorems about them that TLAPS checks for every value of
the constants. Source lines are given relative to the repository's `src/`.
`PROJECT.json` maps every definition to the lines it models.

    tlc -config AgentPipeline.cfg AgentPipeline      # one run
    tlapm AgentPipelineProofs.tla                    # the proofs of a module

## 1. The system

An **agent** on each node of a cluster turns socket events into enriched flow
events and posts them in batches to one **aggregator** (Node.js), which keeps
the service graph in memory, derives metrics and health once a second, writes
snapshots to a store, and pushes changes to **dashboards** (browser).

    probes -> loader -> enricher -> batcher -> exporter ==POST==> engine -> store
                           ^                                        |
    informers -> pod cache +                      SSE / polling / clicks
                                                                    v
                                                               dashboard

| Component | State | Operations | Hard behaviour | What makes it correct |
|---|---|---|---|---|
| eBPF probes (`bpf/`) | ring buffer, map of active connections | one program per hook | full buffer, map never cleaned | no event invented or misattributed |
| loader, generator (`agent/bpf_loader.go`) | a ticker | Start, generator; `runKernelReader` only waits | goes on after cancellation for a moment | every event is submitted once |
| pod cache (`agent/pod_cache.go`) | `byIP`, `byNetNS`, `services` under one lock | informer callbacks, lookups | addresses reused, lost deletes, resyncs in any order | an address leads to its owner; what is left over is accounted for |
| enricher (`agent/enricher.go`) | none | EnrichConnection, EnrichDNS | three lookups under three locks | an event names who had the address |
| batcher (`agent/batcher.go`) | `inChan`, `buffer`, `batches` | Submit, Run, flush | full channels drop; select picks at random; cancellation | order, bounds, nothing twice, nothing stuck |
| exporter (`agent/exporter.go`) | batch in flight | Run, sendBatch | lost and late requests, timeout, no retry | at most once; a failed send is logged |
| agent main (`agent/main.go`) | wait group, context | start, signal, wait | two goroutines see one cancellation | both end, nothing is left behind |
| engine: ingestion (`server/graph_engine.mjs`) | nodes, edges, samples | upsertNode, upsertEdge, ingestBatch | a batch that throws in its middle | the graph stays a graph |
| engine: tick | metrics, status | tick | window, floors of an outage and decay write the same fields | ordered quantiles, health that follows traffic |
| engine: outage | one flag, one node id | toggleAnomaly | every client toggles the same flag | an outage is confined, shows, and ends |
| engine: blast radius | local queue and sets | computeBlastRadius | cycles, diamonds, self-calls | exactly the callers, each once, at its distance |
| store (`server/db.mjs`) | three tables, or three arrays | save, record, get | two backends; trimming; crash between inserts | both hold the same rows in the same order; history does not change |
| simulator (`server/simulator.mjs`) | running, interval | seed, step, start, stop | seeds nodes that nothing calls; toggled while the process closes | one interval exactly while it runs |
| HTTP API, GraphQL (`server/app.mjs`, `graphql_handler.mjs`) | connections | routes | body limit, bodies that break off, half-ingested batches, handlers that throw | an outage that is on is on record |
| event stream (`server/app.mjs:233`) | subscribers | subscribe, notify | nothing between snapshot and subscription | no message is missed while it lasts |
| server lifecycle (`server/index.mjs`) | timers, sockets | listen, shutdown | streams never close, requests go on arriving | a signal ends the process |
| dashboard transport (`public/app.js`) | nodes, button, history, poll timer | onmessage, onerror, onopen, poll, click, scrub | stream, polls and clicks answer in any order | the screen follows the server, a replay is not disturbed |
| dashboard page (`public/app.js`) | SVG elements, filters, inspector, highlighting | render, updateSVGAttributes, filters, inspector, blast radius | awaited answers, data that replaces the drawing | drawing, highlighting and inspector agree with the data held |
| dashboard drawing | positions, particles | draw loops | floating point | not modelled |
| deployment (`deploy/`, `vercel.json`) | - | - | - | not modelled |

The aggregator and the browser each run one callback at a time, so that a model
step is a callback, except where one can stop in its middle (a batch that
throws, a process that dies between two inserts) or awaits. The agent has real
concurrency: a model step there is what one goroutine does between two channel
operations.

## 2. Modules

| Module | Models | Lines |
|---|---|---|
| `EventBatcher` | the batcher with both channels | `agent/batcher.go` |
| `Exporter` | the exporter; network and aggregator are external | `agent/exporter.go` |
| `AgentPipeline` | both under one context: cancellation and the end of `main` | `agent/main.go:25-88` |
| `LossyFifo` | abstract: a FIFO queue that may lose elements | what the pipeline promises |
| `AgentPipelineProofs` | theorems of the three, and the refinement | |
| `PodCache`, `MCPodCache` | one map of the cache, its handlers, its informer | `agent/pod_cache.go` |
| `PodCacheProofs` | theorems | |
| `GraphEngine`, `MCGraphEngine` | ingestion, tick, outage, seeding | `server/graph_engine.mjs` |
| `GraphEngineProofs` | theorems | |
| `BlastRadius`, `MCBlastRadius` | the search | `server/graph_engine.mjs:282-363` |
| `BlastRadiusProofs` | theorems | |
| `PersistenceStore`, `MCPersistenceStore` | both backends and captureSnapshot | `server/db.mjs` |
| `Aggregator`, `MCAggregator` | the process around engine and store: connections, toggles, simulator, signals, deaths, restarts | `server/index.mjs`, `server/app.mjs`, `server/simulator.mjs` |
| `AggregatorProofs` | theorems of store and process | |
| `Dashboard` | stream, polling, button, replay | `public/app.js`, `server/app.mjs:233-270` |
| `DashboardProofs` | theorems | |
| `DashboardView`, `MCDashboardView` | what the page draws and highlights | `public/app.js` |
| `DashboardViewProofs` | theorems | |
| `BagCount` | how many elements a bag has | |
| `DataLemmas` | lemmas about natural numbers and bags | |

Definitions have the names of the functions they model where they can. Next to
some stands a faulty twin (`SyncPod` and `SyncPodIfAbsent`, `Apply` and
`ApplyUnchecked`): a bug that the code could plausibly have. No `Next` uses
one; put in the place of its neighbour it makes a property fail, which shows
that the property says something. The pairs are under `mutants`.

**EventBatcher, Exporter, AgentPipeline.** An event is the number of its
`Submit`, so that order and identity are visible. `bpc` and `epc` are the
program counters of the two goroutines. `flush` is three steps, because the
buffer is copied under the lock and sent outside of it. A request that has left
the client is in `wire` and may be ingested later, after the client's timeout
too, or never. `submitted`, `dropped`, `warned` and `ingested` are there for the
properties; the code itself logs a failed send (`warned`), but neither counts
nor logs what a full channel drops (`batcher.go:31-32,76-77`). `AgentPipeline` extends the batcher and instantiates the exporter,
with `batches` and `cancelled` shared, and implements `LossyFifo` with the
refinement mapping `queue <- batches, out, buffer and inChan in a row`,
`held <- inflight`. The consumer that `EventBatcher` leaves open is the exporter
there.

**PodCache.** Pods with `byIP` (one key) and services with `services` (a key
per port) have handlers of one shape; the module models that shape once, with
sets of keys. `byNetNS` is empty in every run of the program, because
`resolveContainerPID` returns 0. The informer (client-go) is external: a copy of
the cluster's objects, a queue of handler calls in order, a watch that breaks,
a list that finds out what was missed, a periodic resync. A pod without an
address changes nothing in the cache and is not modelled. Entries of an object
that has gone count as accounted for while the informer's store still has it.

**GraphEngine.** Latencies are in tenths of a millisecond, rates in tenths of a
percent. A rate is kept as "is it above zero?"; the error rate of a node, a
weighted mean, is any value between the extremes of its calls (the weights are
not modelled). A batch is a sequence worked off one event at a time, so that it
can stop in its middle; nothing else runs meanwhile. It stops between events, not
within one: what can throw in an event (a missing field read, a name that is no
string) comes before its first upsert, and `notifySubscribers` catches
(`graph_engine.mjs:455-463`).

**BlastRadius.** One step per dequeued node and per incoming edge, in any order
of the edges; root, edges and ingress nodes are arbitrary and fixed at the start.

**PersistenceStore.** A process has one backend; the model writes the same calls
to both, so that their answers can be compared. Which one `openBackend` chooses
when a process starts, and when it falls back to memory, is therefore not
modelled. SQLite numbers the rows of each table by themselves; memory takes the
ids of all its arrays from one `nextId` (`db.mjs:181,231,251`), which starts
again with each process. Node metrics in a memory row
are a reference to the live ones, as in `{...n}`. A process ends by `Crash`,
between any two inserts (external: no line of the code does it), or by `Exit`,
from a callback. Edge metrics are written and never read, so that their row is
their edge and timestamp.

**Aggregator.** Extends `PersistenceStore` with the process: `proc`, the
simulator with its intervals, the flag of the outage, and the connections. A
handler is one step from the end of its body to its answer; nothing happens
inside a capture but its inserts and a death. An insert that throws is a death:
in a timer it is an uncaught exception, in `toggleAnomaly` the handler's promise
is rejected and nobody handles it. After `server.close` idle connections are
gone, but a busy one may carry another request (keep-alive), so that the
simulator can be started again meanwhile. The engine inside is `EngineChanges`,
any change of nodes and rates: what exactly changes is `GraphEngine`'s subject.

**Dashboard.** Metrics are the number of the tick that computed them. What is
pending between two callbacks is state: messages on the wire in order, requests
and answers of polls and clicks as bags, since each has a connection of its own.

**DashboardView.** The other half of `public/app.js`: how the data gets to the
page is `Dashboard`'s subject, so that here any snapshot, tick, status or answer
that a server could send may come at any time. `Drawn` is what `render` makes,
`Attributed` what `updateSVGAttributes` does to it. `Ask` and `Answer` are the
two halves of `runBlastRadiusAnalysis` around its `await`; the answer is
computed on any graph of the server, since it may have one that the page does
not know, or have restarted. Of metrics only "failing or not" matters to a
class of an element. A failed answer changes nothing (`AnswerFails`): an error
with a body that parses would set the root before it throws (`app.js:951-955`),
but the server sends none on this route.

## 3. Runs

| Run | Bounds | Shows |
|---|---|---|
| `agent_pipeline` | 4 events, both channels of 2, batches of 2 | sizes and order of batches, at most once, order until a failure, every event accounted for, refinement of `LossyFifo`, every event leaves, cancellation ends both goroutines |
| `agent_shutdown` | same | **violated**: a last batch is left in the channel (finding 1) |
| `blast_radius` | every subgraph of an 11-edge graph on six nodes, three roots | the search against definitions that know no search: least closed set, nobody twice, and an answer exact in distances, paths and severity; it ends |
| `engine_outage` | three nodes, two calls, batches of 2, two outages | graph well-formed after broken batches; outages named, confined, visible; traffic heals |
| `engine_window` | one call, 3 samples, window of 2, one outage | ordered quantiles, samples expire |
| `outage_ends` | two calls, window of 1 | **violated**: a silent service stays FAILING (finding 2) |
| `aggregator` | two nodes, two edges, one connection at a time, 3 captures, 2 rows kept, 2 outages, 1 end of a process | the backends hold the same rows in the same order, metrics have a snapshot, torn only by a crash, one interval per running simulator, an outage is on record, a signal ends the process |
| `store_frozen` | 2 rows, no end of a process | **violated**: history in memory changes (finding 3) |
| `pod_cache` | two objects, two keys, 5 changes, queue of 3 | leftovers accounted for, attribution heals |
| `dashboard` | one node, 2 ticks, 2 snapshots, wire of 2, one poll and one click each way | one poll timer exactly while down, replay undisturbed, metrics, and whatever else the server shows get through |
| `dashboard_new_service` | same, no clicks | **violated**: a new service is not shown (finding 4) |
| `dashboard_view` | 3 nodes, 3 edges, a graph that grows, 2 filters, 2 snapshots, 2 requests under way | drawing of the graph held, highlighting of one answer, display catches up |

**Why the bounds are enough.** Each is the least at which the case happens, and
one more where that is affordable. With four events an `inChan` of two overflows
while the batcher is in a flush; the ticker makes batches of one, so that one
batch is at the exporter, two wait in the channel and the fourth is dropped, and
what has timed out arrives after later batches. The 11-edge graph has two
diamonds, a cycle through the root, a self-call, a parallel edge, a chain of
three and a distant entry point, and every subgraph is an initial state. Three
captures with two rows kept trim, and with two edges a process can die inside a
capture with one insert done; two outages are one more than an answer holds, of
either of two nodes. All nodes have one status there, so that captures differ in
their nodes and edges; `HistoryCorrect` has any statuses. One end of a process
is a signal with everything that may happen before it is over, a death, or both,
and the restart after it. One connection at a time is enough for the properties
of `aggregator`: its handlers do not overlap, and that others keep
`server.close` waiting is there with one. Five changes let a pod complete, give
its address away, and go after the new owner has it, while the watch is down or
not. Two ticks are what a stale answer needs; the freshness property is stated
for all but the last tick. Two snapshots are the least that make a replay, since
the last index means live. Of polls the model has one request and one answer at
a time: an answer may be arbitrarily late, but two answers do not overtake each
other. With two, the run passes as well but takes more than three minutes. In
`dashboard_view` two answers may be outstanding, in either order; the three
nodes make a radius of two hops, one of whose calls has two edges, and one
filter hides its root.

**Fairness.** `AgentPipeline`: each goroutine takes a step if it can (the Go
scheduler), and a select case that is ready again and again is taken (Go picks
uniformly at random): strong fairness per case. A request ends because the
client has a timeout (`exporter.go:31`). Nothing is assumed of the signal, the
source or the network. `GraphEngine`: a handler that has started ends; time
passes and the interval fires however many requests come. `BlastRadius`: a
function that nothing preempts. `PodCache`: the informer delivers, relists and
resyncs (client-go); strong, because the bound of the queue can hold these up.
`Dashboard`: intervals fire, pending messages arrive, the first attempt at the
stream ends somehow, and not every poll fails. It is not assumed that the stream
ever connects. `Aggregator`: a timer that has run out is served when
the synchronous code under way is done (strong, since other code runs in
between), and that code ends; nothing is assumed of clients, signals and
inserts. `DashboardView`: ticks or, when the stream is down, polls go on in
live mode (what `Dashboard` is about).

## 4. Proofs

Every type invariant, every safety invariant and every action property that a
run checks is a theorem, and so is the refinement of `LossyFifo`: for every
value of the constants, under the named assumptions of the modules. Those say
no more than what the code has: sizes and limits are positive numbers, the
services of a blast radius or of a page and the objects of a cluster are finitely
many, an edge of a graph that the server sends or has stored has its nodes in
it. How many events, ticks, captures, deaths or requests there are is a constant
that may have any value in a proof; only the runs give it one.

**Agent** (`AgentPipelineProofs`).

* `TypeCorrect`, `BoundsCorrect`, `FifoCorrect`: the batcher alone.
  `BatchBounds` is stated with the program counter (how full the buffer is at
  each point of `Run` and `flush`), which makes it inductive together with
  `ChannelBounds` and the types. `FifoOrder` says more than that the queue is in
  order: each of its four parts is increasing and before the next, and nothing
  exceeds the last number given out. That is what `Submit` needs to append and
  `flush` to move a part as a whole. Lemmas `EmptyOrder`, `AppendOrder` and
  `TailOrder` say what the sequence operators do to an order.
* `PipelineRefines`: every step of the pipeline is a step of the batcher or
  leaves it alone, so that `BatchBounds` and `FifoOrder` hold of the pipeline
  without a second proof.
* `AtMostOnceCorrect`, `OrderCorrect` and `LossCorrect` need `PathInv`, which has
  four parts: the exporter holds events exactly while it posts (`HandFull`); what
  has been sent is older than what is in hand, and that older than what is queued
  (`Passed`); what is on the wire and what is ingested are pairwise disjoint,
  whatever has timed out (`OneByOne`); and, until a failure is logged, only the
  batch in hand is on the wire (`InOrder`).
* `FifoRefined`: batcher and exporter implement `LossyFifo`. One lemma for each
  kind of step: `SubmitOffers`; `ReceiveKeeps` and `CopyKeeps`, which move events
  between parts of the queue and so are stutters; `SendLoses`, where a full
  channel makes a run of consecutive events disappear; `TakeHandsOver`. The
  invariants it needs are `BatchBounds` (a batch has between one and `BatchSize`
  events, and the buffer is empty when `out` is full) and `HandFull`. The mapping
  flattens the channel of batches with `FlattenSeq`, which the library defines by
  a recursive function inside a CHOOSE: `FlattenBy` proves the equations of that
  function, from which the lemmas about appending a batch (`FlattenAppend`) and
  taking one (`FlattenTail`) follow.

**Pod cache** (`PodCacheProofs`). `TypeCorrect`, `EntriesCorrect`. Entries alone
are not inductive, since the next entry comes from an update in the queue:
`EntryInv` says of updates in the queue what `EntriesAccounted` says of entries,
with deletes that come *later* in the queue, and that the informer's copy is
exact while its watch works. `Grown` is what the six steps of cluster and
informer have in common (calls put behind the queue, with a delete or a leftover
for all that is no longer current), so that one lemma (`GrownKeeps`) serves them
all.

**Engine** (`GraphEngineProofs`).

* `GraphCorrect`, `OutageCorrect`. `EngineInv` is both invariants with the part of
  the types they need: the order of the nodes and the batch are sequences of what
  they should be, samples are kept for the possible edges. That an outage names a
  node of the graph lasts because ingestion only adds nodes (`AddNodeSound`, used
  once for a seed and twice for a call: between its two uses an edge is still
  missing a node). `TargetInGraph` says that `toggleAnomaly` finds a node in every
  nonempty graph, also through its fallback to the middle of the map.
* `TypeCorrect`, `QuantilesCorrect`. `TrafficInv` adds to the types that edges and
  samples are finitely many: without that a window need not have a quantile. A
  quantile is the sample at a position of the sorted window; that there is such a
  sample in every window, and that a greater share has a latency no smaller, are
  lemmas about counting (`QuantileSound`, `QuantilesOfWindow`).
* `OutageConfinedCorrect` needs p95 along with the errors and the status, since a
  node's health is computed from them at the *next* tick: `ConfinedInv` says that
  calls into a spared service have a p95 of at most 150 ms and no errors.
* `TrafficHealsCorrect`, `OutageShowsCorrect`: what a tick does, from the
  invariants above, for any number of callers and samples.

**Blast radius** (`BlastRadiusProofs`).

* `SearchCorrect`, `NoneTwiceCorrect`, `UpstreamCorrect`. That what is found is
  exactly the upstream of the root is not inductive: `SearchInvariant` adds that
  what is visited is inside every closed set with the root (soundness) and that
  every call into a visited node comes from a visited one, or has its target in
  the queue, or is among the edges still to be followed (completeness). When the
  queue is empty the visited set is closed, hence the least closed set.
  `NoneTwiceCorrect` needs that the ids recorded are the visited ones without the
  root.
* `AnswerCorrect`: distances, paths, severity. `LevelInv` is the classical
  argument for breadth-first search as an invariant: depths in the queue are in
  order and differ by one at most, each entry has its depth as its distance, and
  when the head has depth `d`, everything within `d` is visited. `PathsInv` says
  that a call into a visited node is recorded, or still to come. `SeverityInv`
  keeps the severity as a function of what is affected; that nobody is in it twice
  makes its length the number of callers (`AffectedCounted`), so that the severity
  is exactly the one their share and the entry points among them call for.

**Store and process** (`AggregatorProofs`).

* `TornCorrect`, `MetricsCorrect`. That there are no more torn snapshots than
  deaths is not inductive while one is being captured: `TornInv` sets the last row
  apart then, and says which of its edges are still to come. That no metrics in
  memory outlive their snapshot, though the tables are trimmed apart, follows from
  `MemInv`: the snapshots kept are the newest without a gap, and from one row of
  metrics to the next the snapshot changes by one at most, because a graph that
  has had metrics once has them in every later snapshot. So `MaxRows` rows of
  metrics reach back over at most `MaxRows` snapshots.
* `HistoryCorrect`. That answers agree is not inductive, as it says nothing of the
  rows beyond the limit: `HistoryInv` says that memory is the end of the table,
  row by row, and all of it while memory has been neither trimmed nor lost, and
  that ids increase along each table (`Growing`, and `Numbered` for SQLite, whose
  rows have their position as id), so that they order the rows alike. The
  rest is about the operators: the answer to a limit is the end of a table, and
  the end of an end is the end of the whole. What is proved is agreement in rows,
  order, timestamps, statuses, edges and the services of anomalies; the ids
  themselves and the metrics of nodes differ (section 5).
* `StoreRefines`: each action of the process is an action of the store or leaves
  it alone; this needs that no capture is under way between two processes, and
  that seeding is a change of the engine. So what holds of the store holds of the
  process (`AggregatorTornCorrect`, `AggregatorMetricsCorrect`,
  `AggregatorHistoryCorrect`). `AggregatorTypeCorrect` has the pairing of
  intervals with the running simulator. `OutageCorrect` rests on the flag and the
  row being of one step, or of the death of the process.

**Dashboard** (`DashboardProofs`, `DashboardViewProofs`).

* `PollingCorrect`, `ReplayCorrect` are inductive as they stand, for any graph and
  any number of polls, messages and clicks under way, of which the run has one or
  two. `TypeCorrect` needs `Types`, which takes `TypeOK` apart and bounds what is
  in each bag: a click that has been asked is waiting or answered, never both.
* `TypeCorrect`, `DrawingCorrect`, `HighlightCorrect` of the page. `ViewInv` is the
  three together with the number of requests under way; each step needs them all:
  what `updateSVGAttributes` makes of a drawing is of the graph held only if the
  drawing was before.

`DataLemmas` has what several of these need: induction over the natural numbers
for a *set* of numbers, from the library's theorem that their order is
well-founded, since its induction theorems take an operator, which the provers
cannot instantiate; and the lemmas about bags, of which there are none in the
library. `BagCount` defines the size of a bag as the cardinality of the set of its
occurrences. It equals `BagCardinality` of the standard module, a recursion over sets about
which nothing can be proved; the models use it in its place.

Only model-checked are the liveness properties, which rest on fairness and are
out of the prover's reach: `EveryEventLeaves`, `CancelStopsBoth`, `Terminates`,
`SamplesExpire`, `ShutdownEnds`, `RunningFound`, `FreshMetrics`,
`FallbackShowsServer`, `DisplayCatchesUp`; and the four properties that the code
violates.

## 5. Where the code differs from what the repository says

1. `agent/batcher.go:47` against `agent/main.go:32,88`: after a signal the
   batcher flushes a last time, but the exporter may have left its loop by then
   and would post with a cancelled context: "terminated cleanly" with a batch in
   the channel (`agent_shutdown`).
2. `server/graph_engine.mjs:197` against `test/test_flowcartographer.mjs:118`:
   an empty window leaves the floors of a cleared outage in place, so that a
   service without traffic stays FAILING (`outage_ends`).
3. `server/db.mjs:185` against `README.md:18`: snapshots in memory share the
   metrics of the live nodes (`store_frozen`).
4. `public/app.js:240` against `README.md:196`: NODE_ADDED and EDGE_ADDED are
   ignored, and a tick updates only what is shown (`dashboard_new_service`).

Met while modelling, without a run of their own:

* `graph_engine.mjs:247`: health is computed from incoming calls only, and a
  service under an outage that nobody calls does not become FAILING
  (`test/test_flowcartographer.mjs:115` expects it to, with callers present).
* `graph_engine.mjs:381`: the toggle flips one global flag, so that a request
  to inject into one service clears the outage of another (`README.md:194`).
* `db.mjs:181`: one counter numbers the rows of all three arrays in memory, and
  SQLite numbers each table, so that history and outages have other ids
  (`db.mjs:9` says the API is identical for both).
* `db.mjs:196`: `slice(-0)` returns every row and a negative limit skips rows,
  where SQL returns none and all (`db.mjs:9` promises the same behaviour).
* `db.mjs:250`: anomalies in memory are not trimmed (`db.mjs:166`); nothing ever
  deletes rows from SQLite.
* `app.js:231`: the SNAPSHOT of a stream that reopens replaces a replay; only
  this exception is in `ReplayUndisturbed`.
* `app.js:146,285`: a late answer to a click or a poll can leave the button
  wrong for as long as the stream works; only the polling fallback repairs it.
* `app.mjs:170-179`: an anomaly request whose body breaks off, is too long or
  does not parse toggles the outage of the default target all the same.
* `index.mjs:33`: while `server.close` waits, a request on a busy connection can
  start the simulator again; after the timer the store is not closed.
* `app.js:951`: an answer to a blast radius request that comes after the outage
  has been cleared highlights it again, with the panel open.
* `app.js:973`: the answer about a node that the server does not have lacks
  `affectedServices`; the exception skips the redrawing.
* `app.js:612`: `render` draws plain elements; in a replay, where no tick is
  applied, none brings highlighting and failing edges back.
* `app.js:870`: the inspector of a node that has left the graph keeps the
  metrics of the node inspected before.
* `app.js:1038`: Play pressed twice runs two replays in turn.
* `app.js:158`: the traffic button does not learn of another page's toggle.
* `db.mjs:153`: nothing sets `resolved`; a cleared outage stays active there.
* `pod_cache.go:106`: a delete that arrives as DeletedFinalStateUnknown is
  ignored; `pod_cache.go:166`: a completed pod whose address was reused takes it
  over at a resync, depending on the order of the updates.

## 6. Not modelled

Listed with reasons under `components`:

* the eBPF programs and the reader: nothing consumes the ring buffer yet;
* the enricher: three independent lookups whose results are copied into a
  record. Nothing in the code or its docs relates the three answers,
  `PodByNetNS` always misses, `EnrichDNS` has no caller. What an address leads
  to is `PodCache`;
* configuration parsing, GraphQL and the listings, which read and format;
* `getSnapshotByTimestamp` of the store, which has no caller, and the choice of
  a backend in `openBackend`;
* of the page, layout, particles, hulls, zoom and panning: floating point; the
  traffic button: a copy of one answer;
* serverless entry points, which export the handler, and deployment files.

## 7. Plan

The agent's pipeline, the pod cache, the engine with its blast radius, the store
with its process, and both halves of the dashboard are modelled, and their safety
properties proved. What is left:

1. The safety part of liveness properties, as theorems: that a key whose updates
   have all been handled leads to the running object that alone has it, which is
   what `RunningFound` rests on.
2. A refinement between `GraphEngine` and the `EngineChanges` that `Aggregator`
   has in its place.
3. The eBPF map and ring buffer, once the agent reads them.
