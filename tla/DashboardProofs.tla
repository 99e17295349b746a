--------------------------- MODULE DashboardProofs ---------------------------
(***************************************************************************)
(* Theorems about Dashboard, for any graph, any number of messages on the  *)
(* stream and any number of polls and clicks under way: the fallback polls *)
(* on one interval while the stream is down and on none otherwise, and a   *)
(* replay of history is not disturbed by late answers.                     *)
(***************************************************************************)
EXTENDS Dashboard, DataLemmas, TLAPS

(* onerror keeps one interval, whatever came before it.                    *)
LEMMA ErrorPolls == PollingWhileDown /\ Error => PollingWhileDown'
<1> SUFFICES ASSUME PollingWhileDown, Error PROVE PollingWhileDown'
  OBVIOUS
<1>1. phase' = "error" /\ (timers = 0 \/ timers = 1)
  BY DEF PollingWhileDown, Error
<1>2. timers' = 1
  BY <1>1 DEF Error, StartPolling
<1> QED
  BY <1>1, <1>2 DEF PollingWhileDown

(* A message changes the interval only by opening the stream.              *)
LEMMA ReceivePolls == PollingWhileDown /\ ReceiveMessage => PollingWhileDown'
<1> SUFFICES ASSUME PollingWhileDown, ReceiveMessage PROVE PollingWhileDown'
  OBVIOUS
<1>1. \/ phase' = "open" /\ timers' = 0
      \/ UNCHANGED <<phase, timers>>
  BY DEF ReceiveMessage, Receive
<1> QED
  BY <1>1 DEF PollingWhileDown

(* The browser polls while the stream is down and only then, and on one    *)
(* interval, however often it is told that the stream failed.              *)
THEOREM PollingCorrect == Spec => []PollingWhileDown
<1>1. Init => PollingWhileDown
  BY DEF Init, PollingWhileDown
<1>2. PollingWhileDown /\ [Next]_vars => PollingWhileDown'
  <2> SUFFICES ASSUME PollingWhileDown, [Next]_vars PROVE PollingWhileDown'
    OBVIOUS
  <2>1. CASE Break \/ RetryFails \/ GiveUp
    BY <2>1, ErrorPolls DEF Break, RetryFails, GiveUp
  <2>2. CASE ReceiveMessage
    BY <2>2, ReceivePolls
  <2>3. CASE AddNode \/ Tick \/ CaptureSnapshot \/ OthersToggle \/ Serve
    <3>1. UNCHANGED <<phase, timers>>
      BY <2>3 DEF AddNode, Tick, CaptureSnapshot, OthersToggle, Serve, ServePoll, ServeClick,
                  stream, polling
    <3> QED
      BY <3>1 DEF PollingWhileDown
  <2>4. CASE Connect \/ PollFires \/ PollFails \/ ReceivePoll
    <3>1. UNCHANGED <<phase, timers>>
      BY <2>4 DEF Connect, PollFires, PollFails, ReceivePoll, stream, polling
    <3> QED
      BY <3>1 DEF PollingWhileDown
  <2>5. CASE Click \/ ReceiveClick \/ FetchHistory \/ Scrub \/ UNCHANGED vars
    <3>1. UNCHANGED <<phase, timers>>
      BY <2>5 DEF Click, ReceiveClick, FetchHistory, Scrub, vars, stream, polling
    <3> QED
      BY <3>1 DEF PollingWhileDown
  <2> QED
    BY <2>1, <2>2, <2>3, <2>4, <2>5 DEF Next
<1> QED
  BY <1>1, <1>2, PTL DEF Spec

(* What changes the picture in a replay.                                   *)
Undisturbed ==
  ~live /\ ~live' /\ shown' # shown =>
    \/ shown' \in Range(history)
    \/ wire # << >> /\ Head(wire).type = "snapshot" /\ wire' = Tail(wire)

(* During a replay neither a tick nor the answer to a poll asked for       *)
(* before it began changes what is shown.                                  *)
THEOREM ReplayCorrect == Spec => ReplayUndisturbed
<1>1. [Next]_vars => [Undisturbed]_vars
  <2> SUFFICES ASSUME [Next]_vars, ~live, ~live', shown' # shown
               PROVE  \/ shown' \in Range(history)
                      \/ wire # << >> /\ Head(wire).type = "snapshot" /\ wire' = Tail(wire)
    BY DEF Undisturbed
  <2>1. CASE ReceiveMessage
    BY <2>1 DEF ReceiveMessage, Receive
  <2>2. CASE Scrub
    BY <2>2 DEF Scrub, SyncGraphData, Range
  <2>3. CASE ReceivePoll
    BY <2>3 DEF ReceivePoll, Apply
  <2>4. CASE AddNode \/ Tick \/ CaptureSnapshot \/ OthersToggle \/ Serve
    BY <2>4 DEF AddNode, Tick, CaptureSnapshot, OthersToggle, Serve, ServePoll, ServeClick, view
  <2>5. CASE Connect \/ Break \/ RetryFails \/ GiveUp \/ PollFires \/ PollFails
    BY <2>5 DEF Connect, Break, RetryFails, GiveUp, Error, PollFires, PollFails, view
  <2>6. CASE Click \/ ReceiveClick \/ FetchHistory \/ UNCHANGED vars
    BY <2>6 DEF Click, ReceiveClick, FetchHistory, view, vars
  <2> QED
    BY <2>1, <2>2, <2>3, <2>4, <2>5, <2>6 DEF Next
<1> QED
  BY <1>1, PTL DEF Spec, ReplayUndisturbed, Undisturbed

-----------------------------------------------------------------------------
(* The types, part by part; what is under way is a bag of bounded size.    *)

Answers == [nodes : Graphs, outage : BOOLEAN]

ServerTypes ==
  /\ nodes \subseteq Nodes /\ ticks \in 0..MaxTicks /\ outage \in BOOLEAN
  /\ stored \in Seq(Graphs) /\ Len(stored) <= MaxSnapshots

StreamTypes ==
  /\ link \in {"down", "up", "dead"} /\ phase \in {"connecting", "open", "error"}
  /\ wire \in Seq(Messages) /\ Len(wire) <= MaxWire + 1

PollingTypes ==
  /\ timers \in Nat /\ requests \in 0..MaxPolls
  /\ Bag(replies, Answers) /\ BagSize(replies) <= MaxPolls

PressingTypes ==
  /\ clicking \in Nat
  /\ Bag(clicked, BOOLEAN) /\ clicking + BagSize(clicked) <= MaxClicks

ViewTypes ==
  /\ shown \in Graphs /\ button \in BOOLEAN
  /\ history \in {<< >>, stored} /\ live \in BOOLEAN

Types == ServerTypes /\ StreamTypes /\ PollingTypes /\ PressingTypes /\ ViewTypes

(* The parts say what TypeOK says.                                         *)
LEMMA TypesSuffice == Types => TypeOK
<1> SUFFICES ASSUME Types PROVE TypeOK
  OBVIOUS
<1>1. \A S : \A s \in Seq(S) : Range(s) \subseteq S
  BY DEF Range
<1>2. Range(stored) \subseteq Graphs /\ Range(wire) \subseteq Messages
  BY <1>1 DEF Types, ServerTypes, StreamTypes
<1>3. BagToSet(replies) \subseteq [nodes : Graphs, outage : BOOLEAN] /\ BagToSet(clicked) \subseteq BOOLEAN
  BY DEF Types, PollingTypes, PressingTypes, Bag, BagToSet, Answers
<1>4. requests \in Nat /\ requests <= MaxPolls
  BY DashboardAssumption DEF Types, PollingTypes, DashboardAssumption
<1> QED
  BY <1>2, <1>3, <1>4
  DEF TypeOK, Types, ServerTypes, StreamTypes, PollingTypes, PressingTypes, ViewTypes

(* A graph is what its nodes map to, and a poll answers with one.          *)
LEMMA TopologyTyped ==
  ServerTypes => Topology \in Graphs /\ Answer \in Answers /\ Snapshot \in Messages
<1> SUFFICES ASSUME ServerTypes
             PROVE  Topology \in Graphs /\ Answer \in Answers /\ Snapshot \in Messages
  OBVIOUS
<1>1. Topology \in [nodes -> 0..MaxTicks] /\ nodes \in SUBSET Nodes
  BY DEF ServerTypes, Topology
<1>2. Topology \in Graphs
  BY <1>1 DEF Graphs
<1>3. outage \in BOOLEAN
  BY DEF ServerTypes
<1> QED
  BY <1>2, <1>3 DEF Answer, Answers, Snapshot, Messages

(* updateMetrics keeps a graph a graph.                                    *)
LEMMA MetricsTyped ==
  ASSUME shown \in Graphs, NEW g \in Graphs, UpdateMetrics(g)
  PROVE  shown' \in Graphs
<1>1. PICK S \in SUBSET Nodes : shown \in [S -> 0..MaxTicks]
  BY DEF Graphs
<1>2. PICK T \in SUBSET Nodes : g \in [T -> 0..MaxTicks]
  BY DEF Graphs
<1>3. shown' \in [S -> 0..MaxTicks]
  BY <1>1, <1>2 DEF UpdateMetrics
<1> QED
  BY <1>3 DEF Graphs

(* Nothing has been sent or stored.                                        *)
LEMMA NothingYet == \A S : << >> \in Seq(S) /\ Len(<< >>) = 0
  OBVIOUS

(* The initial state.                                                      *)
LEMMA TypesInit == Init => Types
<1> SUFFICES ASSUME Init PROVE Types
  OBVIOUS
<1>1. ServerTypes /\ StreamTypes
  <2>1. stored \in Seq(Graphs) /\ Len(stored) = 0 /\ wire \in Seq(Messages) /\ Len(wire) = 0
    BY NothingYet DEF Init
  <2>2. nodes \subseteq Nodes /\ ticks \in 0..MaxTicks /\ Len(stored) <= MaxSnapshots
        /\ Len(wire) <= MaxWire + 1
    BY <2>1, DashboardAssumption DEF Init, DashboardAssumption
  <2> QED
    BY <2>1, <2>2 DEF Init, ServerTypes, StreamTypes
<1>2. PollingTypes
  <2>1. Bag(replies, Answers) /\ BagSize(replies) = 0
    BY BagEmpty DEF Init
  <2> QED
    BY <2>1, DashboardAssumption DEF Init, PollingTypes, DashboardAssumption
<1>3. PressingTypes
  <2>1. Bag(clicked, BOOLEAN) /\ BagSize(clicked) = 0
    BY BagEmpty DEF Init
  <2> QED
    BY <2>1, DashboardAssumption DEF Init, PressingTypes, DashboardAssumption
<1>4. ViewTypes
  <2>1. << >> \in [{} -> 0..MaxTicks] /\ {} \in SUBSET Nodes
    OBVIOUS
  <2>2. << >> \in Graphs
    BY <2>1 DEF Graphs
  <2> QED
    BY <2>2 DEF Init, ViewTypes
<1> QED
  BY <1>1, <1>2, <1>3, <1>4 DEF Types

(* What is written to the stream.                                          *)
LEMMA SendTyped ==
  ASSUME StreamTypes, Fits, NEW m \in Messages, Send(m), UNCHANGED <<link, phase>>
  PROVE  StreamTypes'
<1>1. wire' \in Seq(Messages)
  BY DEF StreamTypes, Send
<1>2. Len(wire') <= MaxWire + 1
  BY DashboardAssumption DEF StreamTypes, Send, Fits, DashboardAssumption
<1> QED
  BY <1>1, <1>2 DEF StreamTypes

(* Clicks of the others and the own, on the server.                        *)
LEMMA ToggleTyped ==
  ASSUME ServerTypes, StreamTypes, Fits, ToggleOutage,
         UNCHANGED <<nodes, ticks, stored, link, phase>>
  PROVE  ServerTypes' /\ StreamTypes' /\ outage' \in BOOLEAN
<1>1. outage' \in BOOLEAN
  BY DEF ToggleOutage, ServerTypes
<1>2. ServerTypes'
  BY <1>1 DEF ServerTypes
<1>3. CASE UNCHANGED wire
  BY <1>1, <1>2, <1>3 DEF StreamTypes
<1>4. CASE Send([type |-> "status", outage |-> outage'])
  <2>1. [type |-> "status", outage |-> outage'] \in Messages
    BY <1>1 DEF Messages
  <2> QED
    BY <2>1, <1>1, <1>2, <1>4, SendTyped
<1> QED
  BY <1>3, <1>4 DEF ToggleOutage

(* Steps of the server that no request asked for.                          *)
LEMMA ServerStep ==
  Types /\ (AddNode \/ Tick \/ CaptureSnapshot \/ OthersToggle) => Types'
<1> SUFFICES ASSUME Types, AddNode \/ Tick \/ CaptureSnapshot \/ OthersToggle PROVE Types'
  OBVIOUS
<1> USE DEF Types
<1>1. PollingTypes' /\ PressingTypes'
  <2>1. UNCHANGED <<timers, requests, replies, clicking, clicked>>
    BY DEF AddNode, Tick, CaptureSnapshot, OthersToggle, polling, pressing
  <2> QED
    BY <2>1 DEF PollingTypes, PressingTypes
<1>2. ViewTypes'
  <2>1. UNCHANGED <<shown, button, history, live>> /\ (stored' = stored \/ history = << >>)
    BY DEF AddNode, Tick, CaptureSnapshot, OthersToggle, view
  <2> QED
    BY <2>1 DEF ViewTypes
<1>3. CASE AddNode
  <2>1. ServerTypes'
    BY <1>3 DEF AddNode, ServerTypes
  <2>2. StreamTypes'
    <3>1. Other \in Messages
      BY DEF Messages
    <3> QED
      BY <3>1, <1>3, SendTyped DEF AddNode
  <2> QED
    BY <1>1, <1>2, <2>1, <2>2
<1>4. CASE Tick
  <2>1. ticks' \in 0..MaxTicks
    BY <1>4, DashboardAssumption DEF Tick, ServerTypes, DashboardAssumption
  <2>2. ServerTypes'
    BY <1>4, <2>1 DEF Tick, ServerTypes
  <2>3. [n \in nodes |-> ticks'] \in [nodes -> 0..MaxTicks] /\ nodes \in SUBSET Nodes
    BY <2>1 DEF ServerTypes
  <2>4. [n \in nodes |-> ticks'] \in Graphs
    BY <2>3 DEF Graphs
  <2>5. [type |-> "tick", nodes |-> [n \in nodes |-> ticks']] \in Messages
    BY <2>4 DEF Messages
  <2>6. StreamTypes'
    BY <1>4, <2>5, SendTyped DEF Tick
  <2> QED
    BY <1>1, <1>2, <2>2, <2>6
<1>5. CASE CaptureSnapshot
  <2>1. Topology \in Graphs
    BY TopologyTyped
  <2>2. stored' \in Seq(Graphs) /\ Len(stored') <= MaxSnapshots
    BY <1>5, <2>1, DashboardAssumption DEF CaptureSnapshot, ServerTypes, DashboardAssumption
  <2>3. ServerTypes' /\ StreamTypes'
    BY <1>5, <2>2 DEF CaptureSnapshot, ServerTypes, StreamTypes, stream
  <2> QED
    BY <1>1, <1>2, <2>3
<1>6. CASE OthersToggle
  BY <1>1, <1>2, <1>6, ToggleTyped DEF OthersToggle
<1> QED
  BY <1>3, <1>4, <1>5, <1>6

(* A request of a poll is answered.                                        *)
LEMMA ServePollStep == Types /\ ServePoll => Types'
<1> SUFFICES ASSUME Types, ServePoll PROVE Types'
  OBVIOUS
<1> USE DEF Types
<1>1. BagSize(replies) \in Nat /\ MaxPolls \in Nat
  BY BagSizeType, DashboardAssumption DEF PollingTypes, DashboardAssumption
<1>2. Answer \in Answers
  BY TopologyTyped
<1>3. Bag(replies', Answers) /\ BagSize(replies') = BagSize(replies) + 1
  BY <1>2, BagAdded DEF ServePoll, PollingTypes
<1>4. PollingTypes'
  BY <1>1, <1>3 DEF ServePoll, PollingTypes
<1> QED
  BY <1>4 DEF ServePoll, ServerTypes, StreamTypes, PressingTypes, ViewTypes,
              server, stream, pressing, view

(* A click is answered, once.                                              *)
LEMMA ServeClickStep == Types /\ ServeClick => Types'
<1> SUFFICES ASSUME Types, ServeClick PROVE Types'
  OBVIOUS
<1> USE DEF Types
<1>1. ServerTypes' /\ StreamTypes' /\ outage' \in BOOLEAN
  BY ToggleTyped DEF ServeClick
<1>2. BagSize(clicked) \in Nat /\ MaxClicks \in Nat
  BY BagSizeType, DashboardAssumption DEF PressingTypes, DashboardAssumption
<1>3. Bag(clicked', BOOLEAN) /\ BagSize(clicked') = BagSize(clicked) + 1
  BY <1>1, BagAdded DEF ServeClick, PressingTypes
<1>4. PressingTypes'
  BY <1>2, <1>3 DEF ServeClick, PressingTypes
<1> QED
  BY <1>1, <1>4 DEF ServeClick, PollingTypes, ViewTypes, polling, view

(* Steps of the stream.                                                    *)
LEMMA StreamStep == Types /\ (Connect \/ Break \/ RetryFails \/ GiveUp) => Types'
<1> SUFFICES ASSUME Types, Connect \/ Break \/ RetryFails \/ GiveUp PROVE Types'
  OBVIOUS
<1> USE DEF Types
<1>1. ServerTypes' /\ PressingTypes' /\ ViewTypes' /\ UNCHANGED replies
  BY DEF Connect, Break, RetryFails, GiveUp, Error, ServerTypes, PressingTypes, ViewTypes,
         server, polling, pressing, view
<1>2. CASE Connect
  <2>1. Open \in Messages /\ Snapshot \in Messages
    BY TopologyTyped DEF Messages
  <2>2. StreamTypes'
    BY <1>2, <2>1, DashboardAssumption DEF Connect, StreamTypes, DashboardAssumption
  <2> QED
    BY <1>1, <1>2, <2>2 DEF Connect, PollingTypes, polling
<1>3. CASE Break \/ RetryFails \/ GiveUp
  <2>1. Error /\ MayStartPolling
    BY <1>3 DEF Break, RetryFails, GiveUp
  <2>2. timers' \in Nat /\ requests' \in 0..MaxPolls
    BY <2>1, DashboardAssumption
    DEF Error, StartPolling, MayStartPolling, MayPoll, PollingTypes, DashboardAssumption
  <2>3. wire' \in {wire, << >>} /\ link' \in {"down", "dead"} /\ phase' = "error"
    BY <1>3, <2>1 DEF Break, RetryFails, GiveUp, Error
  <2>4. wire' \in Seq(Messages) /\ Len(wire') <= MaxWire + 1
    <3>1. CASE wire' = wire
      BY <3>1 DEF StreamTypes
    <3>2. CASE wire' = << >>
      <4>1. wire' \in Seq(Messages) /\ Len(wire') = 0
        BY <3>2, NothingYet
      <4> QED
        BY <4>1, DashboardAssumption DEF DashboardAssumption
    <3> QED
      BY <2>3, <3>1, <3>2
  <2>5. StreamTypes'
    BY <2>3, <2>4 DEF StreamTypes
  <2> QED
    BY <1>1, <2>2, <2>5 DEF PollingTypes
<1> QED
  BY <1>2, <1>3

(* A message of the stream is read.                                        *)
LEMMA ReceiveStep == Types /\ ReceiveMessage => Types'
<1> SUFFICES ASSUME Types, ReceiveMessage PROVE Types'
  OBVIOUS
<1> USE DEF Types
<1> DEFINE m == Head(wire)
<1>1. m \in Messages /\ Receive(m)
  BY DEF ReceiveMessage, StreamTypes
<1>2. wire' \in Seq(Messages) /\ Len(wire') <= MaxWire + 1
  BY DashboardAssumption DEF ReceiveMessage, StreamTypes, DashboardAssumption
<1>3. /\ m.type = "snapshot" => m.nodes \in Graphs /\ m.outage \in BOOLEAN
      /\ m.type = "tick" => m.nodes \in Graphs
      /\ m.type = "status" => m.outage \in BOOLEAN
  BY <1>1 DEF Messages, Open, Other
<1> HIDE DEF m
<1>4. phase' \in {phase, "open"} /\ timers' \in {timers, 0}
  BY <1>1 DEF Receive
<1>5. button' \in BOOLEAN
  BY <1>1, <1>3 DEF Receive, ViewTypes
<1>6. shown' \in Graphs
  <2>1. shown' = shown \/ (m.type = "snapshot" /\ shown' = m.nodes)
        \/ (m.type = "tick" /\ UpdateMetrics(m.nodes))
    BY <1>1 DEF Receive, SyncGraphData
  <2> QED
    BY <2>1, <1>3, MetricsTyped DEF ViewTypes
<1>7. UNCHANGED <<nodes, ticks, outage, stored, link, requests, replies, clicking, clicked,
                  history, live>>
  BY DEF ReceiveMessage, server, pressing
<1>8. StreamTypes'
  BY <1>2, <1>4, <1>7 DEF StreamTypes
<1>9. PollingTypes'
  BY <1>4, <1>7 DEF PollingTypes
<1>10. ViewTypes'
  BY <1>5, <1>6, <1>7 DEF ViewTypes
<1> QED
  BY <1>7, <1>8, <1>9, <1>10 DEF ServerTypes, PressingTypes

(* Polls set out, fail or are applied.                                     *)
LEMMA PollStep == Types /\ (PollFires \/ PollFails \/ ReceivePoll) => Types'
<1> SUFFICES ASSUME Types, PollFires \/ PollFails \/ ReceivePoll PROVE Types'
  OBVIOUS
<1> USE DEF Types
<1>1. ServerTypes' /\ StreamTypes' /\ PressingTypes' /\ UNCHANGED timers
  BY DEF PollFires, PollFails, ReceivePoll, ServerTypes, StreamTypes, PressingTypes,
         server, stream, pressing
<1>2. CASE PollFires \/ PollFails
  <2>1. requests' \in 0..MaxPolls
    BY <1>2, DashboardAssumption
    DEF PollFires, PollFails, MayPoll, PollingTypes, DashboardAssumption
  <2> QED
    BY <1>1, <1>2, <2>1 DEF PollFires, PollFails, PollingTypes, ViewTypes, server, view
<1>3. CASE ReceivePoll
  <2>1. PICK answer \in BagToSet(replies) :
          Apply(answer) /\ replies' = replies (-) SetToBag({answer})
    BY <1>3 DEF ReceivePoll
  <2>2. answer \in DOMAIN replies /\ answer \in Answers
    BY <2>1 DEF PollingTypes, Bag, BagToSet
  <2>3. Bag(replies', Answers) /\ BagSize(replies') = BagSize(replies) - 1
    BY <2>1, <2>2, BagRemoved DEF PollingTypes
  <2>4. BagSize(replies) \in Nat /\ MaxPolls \in Nat
    BY BagSizeType, DashboardAssumption DEF PollingTypes, DashboardAssumption
  <2>5. PollingTypes'
    BY <1>1, <1>3, <2>3, <2>4 DEF ReceivePoll, PollingTypes
  <2>6. answer.nodes \in Graphs /\ answer.outage \in BOOLEAN
    BY <2>2 DEF Answers
  <2>7. ViewTypes'
    BY <1>3, <2>1, <2>6 DEF ReceivePoll, Apply, SyncGraphData, ViewTypes, server
  <2> QED
    BY <1>1, <2>5, <2>7
<1> QED
  BY <1>2, <1>3

(* The user clicks, and the answers come.                                  *)
LEMMA ClickStep == Types /\ (Click \/ ReceiveClick) => Types'
<1> SUFFICES ASSUME Types, Click \/ ReceiveClick PROVE Types'
  OBVIOUS
<1> USE DEF Types
<1>1. ServerTypes' /\ StreamTypes' /\ PollingTypes'
  BY DEF Click, ReceiveClick, ServerTypes, StreamTypes, PollingTypes, server, stream, polling
<1>2. BagSize(clicked) \in Nat /\ MaxClicks \in Nat
  BY BagSizeType, DashboardAssumption DEF PressingTypes, DashboardAssumption
<1>3. CASE Click
  <2>1. PressingTypes'
    BY <1>2, <1>3 DEF Click, MayClick, PressingTypes
  <2> QED
    BY <1>1, <1>3, <2>1 DEF Click, ViewTypes, server, view
<1>4. CASE ReceiveClick
  <2>1. PICK answer \in BagToSet(clicked) :
          button' = answer /\ clicked' = clicked (-) SetToBag({answer})
    BY <1>4 DEF ReceiveClick
  <2>2. answer \in DOMAIN clicked /\ answer \in BOOLEAN
    BY <2>1 DEF PressingTypes, Bag, BagToSet
  <2>3. Bag(clicked', BOOLEAN) /\ BagSize(clicked') = BagSize(clicked) - 1
    BY <2>1, <2>2, BagRemoved DEF PressingTypes
  <2>4. PressingTypes'
    BY <1>2, <1>4, <2>3 DEF ReceiveClick, PressingTypes
  <2>5. ViewTypes'
    BY <1>4, <2>1, <2>2 DEF ReceiveClick, ViewTypes, server
  <2> QED
    BY <1>1, <2>4, <2>5
<1> QED
  BY <1>3, <1>4

(* The user replays history.                                               *)
LEMMA ReplayStep == Types /\ (FetchHistory \/ Scrub) => Types'
<1> SUFFICES ASSUME Types, FetchHistory \/ Scrub PROVE Types'
  OBVIOUS
<1> USE DEF Types
<1>1. ServerTypes' /\ StreamTypes' /\ PollingTypes' /\ PressingTypes'
  BY DEF FetchHistory, Scrub, ServerTypes, StreamTypes, PollingTypes, PressingTypes,
         server, stream, polling, pressing
<1>2. history' \in {<< >>, stored'} /\ live' \in BOOLEAN /\ UNCHANGED button
  BY DEF FetchHistory, Scrub, ViewTypes, server
<1>3. shown' \in Graphs
  <2>1. \A i \in DOMAIN history : history[i] \in Graphs
    BY DEF ServerTypes, ViewTypes
  <2> QED
    BY <2>1 DEF FetchHistory, Scrub, SyncGraphData, ViewTypes
<1> QED
  BY <1>1, <1>2, <1>3 DEF ViewTypes

(* What the browser and the server hold is always well-formed, and the     *)
(* bounds are kept: a graph is one of the model's, messages are of the     *)
(* known kinds, and every click is asked of the server once and answered   *)
(* once.                                                                   *)
THEOREM TypeCorrect == Spec => []TypeOK
<1>1. Types /\ [Next]_vars => Types'
  <2>1. Types /\ UNCHANGED vars => Types'
    BY DEF Types, ServerTypes, StreamTypes, PollingTypes, PressingTypes, ViewTypes,
           vars, server, stream, polling, pressing, view
  <2> QED
    BY <2>1, ServerStep, ServePollStep, ServeClickStep, StreamStep, ReceiveStep, PollStep,
       ClickStep, ReplayStep DEF Next, Serve
<1> QED
  BY <1>1, TypesInit, TypesSuffice, PTL DEF Spec
=============================================================================
