----------------------------- MODULE Dashboard -----------------------------
(***************************************************************************)
(* The transport of the web dashboard: the event stream that               *)
(* server/app.mjs serves, the EventSource in public/app.js that reads it,  *)
(* the polling that replaces it while it is down, the replay of history    *)
(* and the outage button.                                                  *)
(*                                                                         *)
(* The browser runs one callback at a time.  What is pending between two   *)
(* callbacks is in the state: messages on the stream, requests and replies *)
(* of polls and of clicks.  Polls and clicks use connections of their own, *)
(* so that their replies arrive in any order among themselves and with     *)
(* respect to the stream.                                                  *)
(*                                                                         *)
(* The metrics of the graph are represented by the number of the tick that *)
(* computed them.  The blast radius panel, which updateAnomalyState also   *)
(* refreshes, the layout, the filters and the edges, which are replaced    *)
(* together with the nodes, are left out, and so is the text of the        *)
(* stream's status, which nothing reads.                                   *)
(***************************************************************************)
EXTENDS Integers, Sequences, Functions, BagCount

CONSTANTS
  Nodes,
  MaxTicks,     \* bound of the model: ticks
  MaxSnapshots, \* bound of the model: snapshots in the store
  MaxWire,      \* bound of the model: messages on the stream
  MaxPolls,     \* bound of the model: polls not answered, and answers not seen
  MaxClicks     \* bound of the model: clicks of the outage button under way

ASSUME DashboardAssumption ==
  /\ MaxTicks \in Nat /\ MaxSnapshots \in Nat
  /\ MaxWire \in Nat \ {0} /\ MaxPolls \in Nat \ {0} /\ MaxClicks \in Nat

(* Definitions with a faulty twin above them (StartPollingAgain and        *)
(* StartPolling, for instance) are the ones that Next uses.                *)

VARIABLES
  nodes,     \* server: nodes of the graph
  ticks,     \* server: ticks so far
  outage,    \* server: anomalyActive
  stored,    \* server: snapshots in the store
  link,      \* the stream: "down", "up", or "dead" when EventSource has given up
  wire,      \* messages of the stream on their way
  phase,     \* browser: which of onopen and onerror came last
  timers,    \* browser: intervals that pollTopology has been set on
  requests,  \* polls that the server has not answered
  replies,   \* answers to polls that the browser has not seen
  clicking,  \* requests of clicks that the server has not seen
  clicked,   \* answers to clicks that the browser has not seen
  shown,     \* browser: this.nodes, each with the tick of its metrics
  button,    \* browser: anomalyActive
  history,   \* browser: historicalSnapshots
  live       \* browser: isLiveMode

server == <<nodes, ticks, outage, stored>>
stream == <<link, wire, phase>>
polling == <<timers, requests, replies>>
pressing == <<clicking, clicked>>
view == <<shown, button, history, live>>
vars == <<server, stream, polling, pressing, view>>

Topology == [n \in nodes |-> ticks]
Answer == [nodes |-> Topology, outage |-> outage]

Open == [type |-> "open"]
Snapshot == [type |-> "snapshot", nodes |-> Topology, outage |-> outage]
Other == [type |-> "other"]

Init ==
  /\ nodes = {} /\ ticks = 0 /\ outage = FALSE /\ stored = << >>
  /\ link = "down" /\ wire = << >> /\ phase = "connecting"
  /\ timers = 0 /\ requests = 0 /\ replies = EmptyBag
  /\ clicking = 0 /\ clicked = EmptyBag
  /\ shown = << >> /\ button = FALSE /\ history = << >> /\ live = TRUE

-----------------------------------------------------------------------------
(* The server.                                                             *)

(* notifySubscribers: what is written while the stream is up.              *)
Fits == link = "up" => Len(wire) < MaxWire
Send(message) == wire' = IF link = "up" THEN Append(wire, message) ELSE wire

(* A new node: NODE_ADDED, a type that onmessage has no branch for.        *)
AddNode ==
  /\ Fits
  /\ \E n \in Nodes \ nodes : nodes' = nodes \cup {n}
  /\ Send(Other)
  /\ UNCHANGED <<ticks, outage, stored, link, phase, polling, pressing, view>>

Tick ==
  /\ Fits
  /\ ticks < MaxTicks
  /\ ticks' = ticks + 1
  /\ Send([type |-> "tick", nodes |-> [n \in nodes |-> ticks']])
  /\ UNCHANGED <<nodes, outage, stored, link, phase, polling, pressing, view>>

(* The page asks for the history once, so that snapshots taken after that  *)
(* are not modelled.                                                       *)
CaptureSnapshot ==
  /\ nodes # {} /\ history = << >>
  /\ Len(stored) < MaxSnapshots
  /\ Topology \notin Range(stored)
  /\ stored' = Append(stored, Topology)
  /\ UNCHANGED <<nodes, ticks, outage, stream, polling, pressing, view>>

(* toggleAnomaly returns early on a graph without nodes.                   *)
ToggleOutage ==
  IF nodes = {} THEN UNCHANGED <<outage, wire>>
  ELSE /\ outage' = ~outage
       /\ Send([type |-> "status", outage |-> outage'])

ServeClick ==
  /\ clicking > 0
  /\ Fits
  /\ ToggleOutage
  /\ clicking' = clicking - 1
  /\ clicked' = clicked (+) SetToBag({outage'})
  /\ UNCHANGED <<nodes, ticks, stored, link, phase, polling, view>>

(* Another dashboard, or a client of the API.                              *)
OthersToggle ==
  /\ Fits
  /\ ToggleOutage
  /\ UNCHANGED <<nodes, ticks, stored, link, phase, polling, pressing, view>>

ServePoll ==
  /\ requests > 0
  /\ BagSize(replies) < MaxPolls
  /\ requests' = requests - 1
  /\ replies' = replies (+) SetToBag({Answer})
  /\ UNCHANGED <<server, stream, timers, pressing, view>>

(* GET /api/v1/stream: the snapshot and the subscription are one step, so  *)
(* that no message falls between them.                                     *)
Connect ==
  /\ link = "down"
  /\ link' = "up"
  /\ wire' = <<Open, Snapshot>>
  /\ UNCHANGED <<server, phase, polling, pressing, view>>

-----------------------------------------------------------------------------
(* The browser: stream and polling.                                        *)

StartPollingAgain ==
  /\ timers' = timers + 1
  /\ requests' = requests + 1

StartPollingAtFirst ==
  IF timers > 0 \/ phase = "open" THEN UNCHANGED <<timers, requests>>
  ELSE timers' = 1 /\ requests' = requests + 1

StartPolling ==
  IF timers > 0 THEN UNCHANGED <<timers, requests>>
  ELSE timers' = 1 /\ requests' = requests + 1

(* The bound on the polls that the server has not answered.                *)
MayPoll == requests < MaxPolls
MayStartPolling == timers > 0 \/ MayPoll

(* onerror.                                                                *)
Error ==
  /\ phase' = "error"
  /\ StartPolling
  /\ UNCHANGED <<server, replies, pressing, view>>

(* The stream breaks, with what was on it; a serverless function's does so *)
(* every time it reaches its limit.  EventSource will try again.           *)
Break ==
  /\ MayStartPolling
  /\ link = "up"
  /\ link' = "down" /\ wire' = << >>
  /\ Error

RetryFails ==
  /\ MayStartPolling
  /\ link = "down"
  /\ UNCHANGED <<link, wire>>
  /\ Error

(* An answer that is not a stream: EventSource does not try again.         *)
GiveUp ==
  /\ MayStartPolling
  /\ link = "down"
  /\ link' = "dead"
  /\ UNCHANGED wire
  /\ Error

(* syncGraphData shows exactly the nodes it is given; updateMetrics only   *)
(* touches nodes that are shown already.                                   *)
SyncGraphData(topology) == shown' = topology
UpdateMetrics(topology) ==
  shown' = [n \in DOMAIN shown |-> IF n \in DOMAIN topology THEN topology[n] ELSE shown[n]]

Receive(message) ==
  CASE message.type = "open" ->
         /\ phase' = "open" /\ timers' = 0
         /\ UNCHANGED <<shown, button>>
    [] message.type = "snapshot" ->
         /\ SyncGraphData(message.nodes) /\ button' = message.outage
         /\ UNCHANGED <<phase, timers>>
    [] message.type = "tick" ->
         /\ IF live THEN UpdateMetrics(message.nodes) ELSE UNCHANGED shown
         /\ UNCHANGED <<phase, timers, button>>
    [] message.type = "status" ->
         /\ button' = message.outage
         /\ UNCHANGED <<phase, timers, shown>>
    [] OTHER -> UNCHANGED <<phase, timers, shown, button>>

ReceiveMessage ==
  /\ wire # << >>
  /\ Receive(Head(wire))
  /\ wire' = Tail(wire)
  /\ UNCHANGED <<server, link, requests, replies, pressing, history, live>>

PollFires ==
  /\ timers > 0
  /\ MayPoll
  /\ requests' = requests + 1
  /\ UNCHANGED <<server, stream, timers, replies, pressing, view>>

PollFails ==
  /\ requests > 0
  /\ requests' = requests - 1
  /\ UNCHANGED <<server, stream, timers, replies, pressing, view>>

(* The rest of pollTopology, after its awaits: live is read now.           *)
ApplyUnchecked(answer) == SyncGraphData(answer.nodes) /\ button' = answer.outage

ApplyMetricsOnly(answer) ==
  IF live THEN UpdateMetrics(answer.nodes) /\ button' = answer.outage
  ELSE UNCHANGED <<shown, button>>

Apply(answer) ==
  IF live THEN SyncGraphData(answer.nodes) /\ button' = answer.outage
  ELSE UNCHANGED <<shown, button>>

ReceivePoll ==
  /\ \E answer \in BagToSet(replies) :
       /\ Apply(answer)
       /\ replies' = replies (-) SetToBag({answer})
  /\ UNCHANGED <<server, stream, timers, requests, pressing, history, live>>

-----------------------------------------------------------------------------
(* The browser: the outage button and the replay of history.               *)

(* The bound on the clicks under way.                                      *)
MayClick == clicking + BagSize(clicked) < MaxClicks

ClickTwice ==
  /\ MayClick
  /\ clicking' = clicking + 2
  /\ UNCHANGED <<server, stream, polling, clicked, view>>

Click ==
  /\ MayClick
  /\ clicking' = clicking + 1
  /\ UNCHANGED <<server, stream, polling, clicked, view>>

ReceiveClick ==
  /\ \E answer \in BagToSet(clicked) :
       /\ button' = answer
       /\ clicked' = clicked (-) SetToBag({answer})
  /\ UNCHANGED <<server, stream, polling, clicking, shown, history, live>>

(* fetchHistory, once when the page is loaded; an empty answer changes     *)
(* nothing.                                                                *)
FetchHistory ==
  /\ history = << >>
  /\ history' = stored
  /\ UNCHANGED <<server, stream, polling, pressing, shown, button, live>>

(* scrubToHistoryIndex, from the slider or from playHistory.  The last     *)
(* index means live.                                                       *)
Scrub ==
  /\ \E i \in DOMAIN history :
       /\ live' = (i = Len(history))
       /\ SyncGraphData(history[i])
  /\ UNCHANGED <<server, stream, polling, pressing, button, history>>

-----------------------------------------------------------------------------
Serve == ServePoll \/ ServeClick

Next ==
  \/ AddNode \/ Tick \/ CaptureSnapshot \/ OthersToggle \/ Serve
  \/ Connect \/ Break \/ RetryFails \/ GiveUp
  \/ ReceiveMessage \/ PollFires \/ PollFails \/ ReceivePoll
  \/ Click \/ ReceiveClick \/ FetchHistory \/ Scrub

Spec == Init /\ [][Next]_vars

(* The server's timer ticks (strong fairness, since the bound on the wire   *)
(* can hold a tick up), the browser's timer polls, and the first           *)
(* attempt at the stream ends one way or another; later attempts may fail  *)
(* for ever.  What is pending is delivered.  A poll may fail, but not      *)
(* every one: strong fairness for the answer.  Nothing obliges the user,   *)
(* the agents or the other clients.                                        *)
FirstAttempt == phase = "connecting" /\ (Connect \/ RetryFails \/ GiveUp)

FairSpec ==
  /\ Spec
  /\ SF_vars(Tick)
  /\ WF_vars(FirstAttempt)
  /\ WF_vars(ReceiveMessage)
  /\ WF_vars(PollFires) /\ SF_vars(ServePoll) /\ WF_vars(ReceivePoll)
-----------------------------------------------------------------------------
Graphs == UNION {[S -> 0..MaxTicks] : S \in SUBSET Nodes}

Messages ==
  {Open, Other}
    \cup [type : {"snapshot"}, nodes : Graphs, outage : BOOLEAN]
    \cup [type : {"tick"}, nodes : Graphs]
    \cup [type : {"status"}, outage : BOOLEAN]

(* Types; a click asks the server once and is answered once.               *)
TypeOK ==
  /\ nodes \subseteq Nodes /\ ticks \in 0..MaxTicks /\ outage \in BOOLEAN
  /\ Range(stored) \subseteq Graphs /\ Len(stored) <= MaxSnapshots
  /\ link \in {"down", "up", "dead"} /\ phase \in {"connecting", "open", "error"}
  /\ Range(wire) \subseteq Messages /\ Len(wire) <= MaxWire + 1
  /\ timers \in Nat /\ requests \in Nat
  /\ BagToSet(replies) \subseteq [nodes : Graphs, outage : BOOLEAN]
  /\ requests <= MaxPolls /\ BagSize(replies) <= MaxPolls
  /\ BagToSet(clicked) \subseteq BOOLEAN
  /\ clicking \in Nat /\ clicking + BagSize(clicked) <= MaxClicks
  /\ shown \in Graphs /\ button \in BOOLEAN
  /\ history \in {<< >>, stored} /\ live \in BOOLEAN

(* However often and in whatever order onopen and onerror come, the        *)
(* browser polls while the stream is down and only then, on one interval:  *)
(* pollTimer never leaks and is never left running beside a stream that    *)
(* works (startPollingFallback, stopPollingFallback).                      *)
PollingWhileDown == timers = IF phase = "error" THEN 1 ELSE 0

(* During a replay nothing but the replay itself and the snapshot of a     *)
(* stream that opens again changes what is shown: neither a tick nor the   *)
(* answer to a poll that was asked for before the replay began.            *)
ReplayUndisturbed ==
  [][~live /\ ~live' /\ shown' # shown =>
       \/ shown' \in Range(history)
       \/ wire # << >> /\ Head(wire).type = "snapshot" /\ wire' = Tail(wire)]_vars

(* Metrics reach the screen: whatever stream and polling do, the metrics   *)
(* of each tick, or later ones, are shown at some time unless history is   *)
(* replayed.  (Not the last tick of the model, after which none follows to *)
(* repair what a late answer or the slider put back.)                      *)
FreshMetrics ==
  \A t \in 1..(MaxTicks - 1) :
    ticks = t ~> (\A n \in DOMAIN shown : shown[n] >= t) \/ ~live

(* While the stream stays down, polling shows every service (README.md,    *)
(* "automatically falls back to polling") and makes the button agree with  *)
(* the server, also after clicks whose answers came in the wrong order.    *)
FallbackShowsServer ==
  /\ \A n \in Nodes :
       n \in nodes ~> n \in DOMAIN shown \/ phase # "error" \/ ~live
  /\ \A b \in BOOLEAN :
       outage = b ~> button = b \/ outage # b \/ phase # "error" \/ ~live

(* README.md: a "real-time streaming endpoint for live UI updates".  A     *)
(* service that is discovered is shown at some time.  It is not: onmessage *)
(* ignores NODE_ADDED, and a tick only updates what is shown already.      *)
NewServiceAppears ==
  \A n \in Nodes : n \in nodes ~> n \in DOMAIN shown \/ ~live
=============================================================================
