---------------------------- MODULE AgentPipeline ----------------------------
(***************************************************************************)
(* The agent's export path: agent/main.go starts the batcher and the       *)
(* exporter as two goroutines that share the channel of batches and the    *)
(* context, and waits for both.  This module interleaves EventBatcher,     *)
(* Exporter, the event source that calls Submit, the signal handler that   *)
(* cancels the context, and the network.                                   *)
(***************************************************************************)
EXTENDS EventBatcher, SequencesExt

VARIABLES epc, inflight, wire, ingested, warned

Exp == INSTANCE Exporter

batcherOnly == <<submitted, inChan, buffer, out, bpc, dropped>>
exporterOnly == <<epc, inflight, wire, ingested, warned>>
pipelineVars == <<batcherOnly, batches, cancelled, exporterOnly>>

PipelineInit == Init /\ Exp!ExporterInit

(* main.go: the signal handler calls cancel().                             *)
SignalCancels == Cancel /\ UNCHANGED exporterOnly

(* The event source; it may go on for a while after the cancellation.      *)
SourceSubmits == Submit /\ UNCHANGED exporterOnly

BatcherStep == Run /\ UNCHANGED exporterOnly
ExporterStep == Exp!Run /\ UNCHANGED batcherOnly
NetworkStep == Exp!Network /\ UNCHANGED batcherOnly

PipelineNext ==
  SignalCancels \/ SourceSubmits \/ BatcherStep \/ ExporterStep \/ NetworkStep

PipelineSpec == PipelineInit /\ [][PipelineNext]_pipelineVars

(***************************************************************************)
(* Fairness.  A goroutine that can run does (weak fairness of both).  A    *)
(* select with several ready cases picks one at random, so that no case    *)
(* that is ready again and again is passed over for ever (strong fairness  *)
(* of each case); the ticker is periodic.  A request ends: the client has  *)
(* a timeout.  Nothing is assumed of the signal, the source, the network.  *)
(***************************************************************************)
Fairness ==
  /\ WF_pipelineVars(BatcherStep)
  /\ WF_pipelineVars(ExporterStep)
  /\ SF_pipelineVars(Receive /\ UNCHANGED exporterOnly)
  /\ SF_pipelineVars(TickerFires /\ UNCHANGED exporterOnly)
  /\ SF_pipelineVars(Done /\ UNCHANGED exporterOnly)
  /\ SF_pipelineVars(Exp!Take /\ UNCHANGED batcherOnly)
  /\ SF_pipelineVars(Exp!Done /\ UNCHANGED batcherOnly)

PipelineFairSpec == PipelineSpec /\ Fairness

-----------------------------------------------------------------------------
Stopped == bpc = "stopped" /\ epc = "stopped"

(* The queue that the channel of batches, a flush, the buffer and inChan   *)
(* form together, oldest event first.                                      *)
Queued == FlattenSeq(batches) \o out \o buffer \o inChan

(* Types.                                                                  *)
PipelineTypeOK ==
  /\ TypeOK
  /\ epc \in Exp!EpcValues
  /\ inflight \in Seq(1..MaxEvents)
  /\ wire \subseteq Seq(1..MaxEvents)
  /\ ingested \in Seq(Seq(1..MaxEvents))
  /\ warned \in BOOLEAN

(* The aggregator never counts an event twice, although a POST that timed  *)
(* out may still be processed: sendBatch does not retry, and an event is   *)
(* in one place only until it has been posted.                             *)
AtMostOnce ==
  /\ \A i, j \in DOMAIN ingested :
       i # j => Range(ingested[i]) \cap Range(ingested[j]) = {}
  /\ \A i \in DOMAIN ingested, b \in wire : Range(ingested[i]) \cap Range(b) = {}

(* While no send has failed, the aggregator sees the batches in the order  *)
(* in which they were formed.                                              *)
OrderedUntilWarned ==
  ~warned =>
    /\ \A i, j \in DOMAIN ingested : i < j => Before(ingested[i], ingested[j])
    /\ \A i \in DOMAIN ingested, b \in wire : Before(ingested[i], b)

(* No event vanishes between the stages of the agent: each one submitted   *)
(* has been turned away by a full channel, is still in the agent or has    *)
(* been ingested, unless a failed send has been logged.  The agent itself  *)
(* neither counts nor logs what a full channel turns away: `dropped` is a  *)
(* record of the model's.                                                  *)
EventsAccounted ==
  ~warned =>
    1..submitted \subseteq
      dropped \cup Range(inChan) \cup Range(buffer) \cup Range(out) \cup Range(inflight)
        \cup UNION {Range(b) : b \in Range(batches) \cup Range(ingested)}

(* The export path is a lossy FIFO queue.                                  *)
Fifo == INSTANCE LossyFifo
          WITH last <- submitted, queue <- Queued, held <- inflight
ImplementsLossyFifo == Fifo!Spec

(* An accepted event does not stay in the batcher for ever: the ticker     *)
(* flushes a buffer that does not fill up, and a slow aggregator delays    *)
(* the exporter by a bounded time only.  Cancellation excuses it.          *)
EveryEventLeaves ==
  \A e \in 1..MaxEvents :
    e \in Range(Queued) ~> e \notin Range(Queued) \/ cancelled

(* A signal ends both goroutines, so that wg.Wait returns, whatever the    *)
(* network does.                                                           *)
CancelStopsBoth == cancelled ~> Stopped

(* main.go logs "terminating gracefully" and then "terminated cleanly",    *)
(* and the batcher flushes a last time for it: when both goroutines have   *)
(* ended, what was flushed has been taken by the exporter.                 *)
CleanTermination == Stopped => batches = << >>
=============================================================================
