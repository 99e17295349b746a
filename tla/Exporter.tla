------------------------------ MODULE Exporter ------------------------------
(***************************************************************************)
(* agent/exporter.go: one goroutine takes batches from the batcher's       *)
(* channel and POSTs each of them to the aggregator with a client whose    *)
(* timeout is five seconds.  A failed POST is logged and the batch is      *)
(* forgotten; there is no retry.  The request carries the agent's context, *)
(* so that cancelling it ends the request too.                             *)
(*                                                                         *)
(* The network and the aggregator are external.  A request that has left   *)
(* the client may be ingested at any later time, also after the client has *)
(* given it up, or never.                                                  *)
(***************************************************************************)
EXTENDS Naturals, Sequences

VARIABLES batches,    \* the channel returned by Batches(); each batch a sequence of events
          cancelled,  \* ctx is done
          epc,        \* where Run is
          inflight,   \* the batch of the current sendBatch, << >> outside of it
          wire,       \* requests that have left and have not been ingested
          ingested,   \* batches the aggregator has processed, in that order
          warned      \* Run has logged "Failed to send event batch"

EpcValues == {"select", "post", "await", "stopped"}

ExporterInit ==
  /\ epc = "select"
  /\ inflight = << >>
  /\ wire = {}
  /\ ingested = << >>
  /\ warned = FALSE

-----------------------------------------------------------------------------
(* The goroutine Run.                                                      *)

Take ==
  /\ epc = "select"
  /\ batches # << >>
  /\ inflight' = Head(batches)
  /\ batches' = Tail(batches)
  /\ epc' = "post"
  /\ UNCHANGED <<cancelled, wire, ingested, warned>>

Done ==
  /\ epc = "select"
  /\ cancelled
  /\ epc' = "stopped"
  /\ UNCHANGED <<batches, cancelled, inflight, wire, ingested, warned>>

(* client.Do writes the request; with a cancelled context it does not.     *)
Post ==
  /\ epc = "post"
  /\ ~cancelled
  /\ wire' = wire \cup {inflight}
  /\ epc' = "await"
  /\ UNCHANGED <<batches, cancelled, inflight, ingested, warned>>

(* A 2xx answer: the aggregator has processed the batch.                   *)
ReplyOk ==
  /\ epc = "await"
  /\ \E i \in DOMAIN ingested : ingested[i] = inflight
  /\ epc' = "select"
  /\ inflight' = << >>
  /\ UNCHANGED <<batches, cancelled, wire, ingested, warned>>

(* The error paths of sendBatch: the connection cannot be made, it breaks, *)
(* five seconds pass, ctx is cancelled, or the status is not 2xx.  Run     *)
(* logs and goes on with the next batch; the request may still be on its   *)
(* way.                                                                    *)
FailAndRetry ==
  /\ epc \in {"post", "await"}
  /\ epc' = "post"
  /\ warned' = TRUE
  /\ UNCHANGED <<batches, cancelled, inflight, wire, ingested>>

FailSilently ==
  /\ epc \in {"post", "await"}
  /\ epc' = "select"
  /\ inflight' = << >>
  /\ UNCHANGED <<batches, cancelled, wire, ingested, warned>>

Fail ==
  /\ epc \in {"post", "await"}
  /\ epc' = "select"
  /\ inflight' = << >>
  /\ warned' = TRUE
  /\ UNCHANGED <<batches, cancelled, wire, ingested>>

Run == Take \/ Done \/ Post \/ ReplyOk \/ Fail

-----------------------------------------------------------------------------
(* External: the network and the aggregator's POST handler.                *)

ServerIngests ==
  \E b \in wire :
    /\ ingested' = Append(ingested, b)
    /\ wire' = wire \ {b}
    /\ UNCHANGED <<batches, cancelled, epc, inflight, warned>>

RequestLost ==
  \E b \in wire :
    /\ wire' = wire \ {b}
    /\ UNCHANGED <<batches, cancelled, epc, inflight, ingested, warned>>

Network == ServerIngests \/ RequestLost
=============================================================================
