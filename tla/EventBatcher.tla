---------------------------- MODULE EventBatcher ----------------------------
(***************************************************************************)
(* agent/batcher.go: the bounded queue between the event source and the    *)
(* exporter.  Submit puts an event on inChan without ever blocking.  The   *)
(* goroutine Run moves events to a buffer and flushes the buffer to the    *)
(* channel batches when it is full, when the ticker fires and once more    *)
(* when the context is cancelled.  An event is represented by the number   *)
(* of the Submit call that brought it; nothing else of it matters here.    *)
(*                                                                         *)
(* A flush is two steps, because the mutex is released between them: the   *)
(* copy of the buffer and the non-blocking send.  The exporter can empty   *)
(* batches, and producers can fill inChan, in between.                     *)
(***************************************************************************)
EXTENDS Naturals, Sequences, Functions

CONSTANTS BatchSize,   \* config.BatchSize; config.go accepts positive values only
          InCap,       \* capacity of inChan (50000)
          BatchesCap,  \* capacity of batches (1000)
          MaxEvents    \* bound of the model: number of Submit calls

ASSUME EventBatcherAssumption ==
  /\ BatchSize \in Nat \ {0}
  /\ InCap \in Nat \ {0}
  /\ BatchesCap \in Nat \ {0}
  /\ MaxEvents \in Nat

VARIABLES submitted,  \* number of Submit calls so far
          inChan,     \* events waiting in b.inChan
          buffer,     \* b.buffer
          out,        \* the copy a flush has taken and not yet sent
          batches,    \* batches waiting in b.batches
          bpc,        \* where Run is
          cancelled,  \* ctx is done
          dropped     \* history: events discarded by a full channel

vars == <<submitted, inChan, buffer, out, batches, bpc, cancelled, dropped>>

BpcValues == {"select", "flush", "send", "finalFlush", "finalSend", "stopped"}

Init ==
  /\ submitted = 0
  /\ inChan = << >>
  /\ buffer = << >>
  /\ out = << >>
  /\ batches = << >>
  /\ bpc = "select"
  /\ cancelled = FALSE
  /\ dropped = {}

(* Next to some definitions stand variants of them with a fault that this  *)
(* code could have (FlushSendAtFront, NeedFlushLate).  Next uses none of   *)
(* them: substituted for the definition, they show that the properties     *)
(* below tell the difference.                                              *)

-----------------------------------------------------------------------------
(* Submit, called by the event source.  Neither branch waits.              *)

Submit ==
  /\ submitted < MaxEvents
  /\ submitted' = submitted + 1
  /\ \/ /\ Len(inChan) < InCap
        /\ inChan' = Append(inChan, submitted + 1)
        /\ UNCHANGED dropped
     \/ /\ Len(inChan) = InCap
        /\ dropped' = dropped \cup {submitted + 1}
        /\ UNCHANGED inChan
  /\ UNCHANGED <<buffer, out, batches, bpc, cancelled>>

-----------------------------------------------------------------------------
(* The goroutine Run.  At "select" any ready case may be chosen.           *)

NeedFlushLate(buf) == Len(buf) > BatchSize
NeedFlush(buf) == Len(buf) >= BatchSize

ReceiveFromClosed ==
  /\ bpc = "select"
  /\ inChan # << >> \/ cancelled
  /\ buffer' = Append(buffer, IF inChan = << >> THEN 0 ELSE Head(inChan))
  /\ inChan' = IF inChan = << >> THEN inChan ELSE Tail(inChan)
  /\ bpc' = IF NeedFlush(buffer') THEN "flush" ELSE "select"
  /\ UNCHANGED <<submitted, out, batches, cancelled, dropped>>

Receive ==
  /\ bpc = "select"
  /\ inChan # << >>
  /\ buffer' = Append(buffer, Head(inChan))
  /\ inChan' = Tail(inChan)
  /\ bpc' = IF NeedFlush(buffer') THEN "flush" ELSE "select"
  /\ UNCHANGED <<submitted, out, batches, cancelled, dropped>>

TickerFlushesFullOnly ==
  /\ bpc = "select"
  /\ NeedFlush(buffer)
  /\ bpc' = "flush"
  /\ UNCHANGED <<submitted, inChan, buffer, out, batches, cancelled, dropped>>

TickerFires ==
  /\ bpc = "select"
  /\ bpc' = "flush"
  /\ UNCHANGED <<submitted, inChan, buffer, out, batches, cancelled, dropped>>

Done ==
  /\ bpc = "select"
  /\ cancelled
  /\ bpc' = "finalFlush"
  /\ UNCHANGED <<submitted, inChan, buffer, out, batches, cancelled, dropped>>

(* The two halves of flush().  from is where the call was made, sent the   *)
(* control point after the copy, ret the one after the return.             *)

FlushEmpty(from, ret) ==
  /\ bpc = from
  /\ buffer = << >>
  /\ bpc' = ret
  /\ UNCHANGED <<submitted, inChan, buffer, out, batches, cancelled, dropped>>

FlushCopyKeepingBuffer(from, sent) ==
  /\ bpc = from
  /\ buffer # << >>
  /\ out' = buffer
  /\ bpc' = sent
  /\ UNCHANGED <<submitted, inChan, buffer, batches, cancelled, dropped>>

FlushCopy(from, sent) ==
  /\ bpc = from
  /\ buffer # << >>
  /\ out' = buffer
  /\ buffer' = << >>
  /\ bpc' = sent
  /\ UNCHANGED <<submitted, inChan, batches, cancelled, dropped>>

FlushSendAtFront(sent, ret) ==
  /\ bpc = sent
  /\ \/ /\ Len(batches) < BatchesCap
        /\ batches' = <<out>> \o batches
        /\ UNCHANGED dropped
     \/ /\ Len(batches) = BatchesCap
        /\ dropped' = dropped \cup Range(out)
        /\ UNCHANGED batches
  /\ out' = << >>
  /\ bpc' = ret
  /\ UNCHANGED <<submitted, inChan, buffer, cancelled>>

FlushSendBlocking(sent, ret) ==
  /\ bpc = sent
  /\ Len(batches) < BatchesCap
  /\ batches' = Append(batches, out)
  /\ out' = << >>
  /\ bpc' = ret
  /\ UNCHANGED <<submitted, inChan, buffer, cancelled, dropped>>

FlushSend(sent, ret) ==
  /\ bpc = sent
  /\ \/ /\ Len(batches) < BatchesCap
        /\ batches' = Append(batches, out)
        /\ UNCHANGED dropped
     \/ /\ Len(batches) = BatchesCap
        /\ dropped' = dropped \cup Range(out)
        /\ UNCHANGED batches
  /\ out' = << >>
  /\ bpc' = ret
  /\ UNCHANGED <<submitted, inChan, buffer, cancelled>>

Flush ==
  \/ FlushEmpty("flush", "select")
  \/ FlushCopy("flush", "send")
  \/ FlushSend("send", "select")

FinalFlush ==
  \/ FlushEmpty("finalFlush", "stopped")
  \/ FlushCopy("finalFlush", "finalSend")
  \/ FlushSend("finalSend", "stopped")

Run == Receive \/ TickerFires \/ Done \/ Flush \/ FinalFlush

-----------------------------------------------------------------------------
(* The batcher's surroundings when it is looked at alone: a consumer of    *)
(* Batches() that receives whenever it likes, and the context.             *)

Consume ==
  /\ batches # << >>
  /\ batches' = Tail(batches)
  /\ UNCHANGED <<submitted, inChan, buffer, out, bpc, cancelled, dropped>>

Cancel ==
  /\ ~cancelled
  /\ cancelled' = TRUE
  /\ UNCHANGED <<submitted, inChan, buffer, out, batches, bpc, dropped>>

Next == Submit \/ Run \/ Consume \/ Cancel

Spec == Init /\ [][Next]_vars

-----------------------------------------------------------------------------
(* Types: the queues hold numbers of Submit calls.                         *)
TypeOK ==
  /\ submitted \in 0..MaxEvents
  /\ inChan \in Seq(1..MaxEvents)
  /\ buffer \in Seq(1..MaxEvents)
  /\ out \in Seq(1..MaxEvents)
  /\ batches \in Seq(Seq(1..MaxEvents))
  /\ bpc \in BpcValues
  /\ cancelled \in BOOLEAN
  /\ dropped \subseteq 1..MaxEvents

(* batcher.go promises batches of at most batchSize events and never an    *)
(* empty one (the early return of flush).  The buffer that Run appends to  *)
(* is always below batchSize when another case of the select is taken.     *)
BatchBounds ==
  /\ \A i \in DOMAIN batches : Len(batches[i]) \in 1..BatchSize
  /\ bpc \in {"send", "finalSend"} => Len(out) \in 1..BatchSize
  /\ bpc = "flush" => Len(buffer) <= BatchSize
  /\ bpc \in {"select", "finalFlush"} => Len(buffer) < BatchSize
  /\ bpc \in {"send", "finalSend", "stopped"} => buffer = << >>
  /\ bpc \notin {"send", "finalSend"} => out = << >>

(* The channels never hold more than they were made for.                   *)
ChannelBounds ==
  /\ Len(inChan) <= InCap
  /\ Len(batches) <= BatchesCap

StrictlyIncreasing(s) == \A i, j \in DOMAIN s : i < j => s[i] < s[j]
Before(s, t) == \A i \in DOMAIN s, j \in DOMAIN t : s[i] < t[j]
UpTo(s, n) == \A i \in DOMAIN s : s[i] <= n

(* Whatever is dropped on the way, the events still in the batcher are in  *)
(* the order of their submission: each batch, the batches among themselves,*)
(* the copy being flushed, the buffer and the input channel.  No event is  *)
(* in two places.  A flush that forgot to reset the buffer, or an append   *)
(* in the wrong order, would break it.                                     *)
FifoOrder ==
  /\ \A i \in DOMAIN batches :
       /\ StrictlyIncreasing(batches[i])
       /\ UpTo(batches[i], submitted)
       /\ Before(batches[i], out)
       /\ Before(batches[i], buffer)
       /\ Before(batches[i], inChan)
       /\ \A j \in DOMAIN batches : i < j => Before(batches[i], batches[j])
  /\ StrictlyIncreasing(out)
  /\ StrictlyIncreasing(buffer)
  /\ StrictlyIncreasing(inChan)
  /\ Before(out, buffer)
  /\ Before(out, inChan)
  /\ Before(buffer, inChan)
  /\ UpTo(out, submitted)
  /\ UpTo(buffer, submitted)
  /\ UpTo(inChan, submitted)
=============================================================================
