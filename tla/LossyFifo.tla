------------------------------ MODULE LossyFifo ------------------------------
(***************************************************************************)
(* What the agent's export path promises, and all that it promises: a      *)
(* queue of numbered events that hands over non-empty batches of bounded   *)
(* size from its front, and that may lose events, but never reorders and   *)
(* never duplicates what it keeps.                                         *)
(***************************************************************************)
EXTENDS Naturals, Sequences

CONSTANT BatchSize

VARIABLES last,   \* number of the last event offered
          queue,  \* events accepted and not handed over
          held    \* the batch being handed over, << >> if none

vars == <<last, queue, held>>

Init ==
  /\ last = 0
  /\ queue = << >>
  /\ held = << >>

(* The next event is accepted, or refused.                                 *)
Offer ==
  /\ last' = last + 1
  /\ queue' \in {queue, Append(queue, last + 1)}
  /\ UNCHANGED held

(* A whole run of consecutive events disappears from the queue.            *)
Lose ==
  /\ \E i, j \in DOMAIN queue :
       /\ i <= j
       /\ queue' = SubSeq(queue, 1, i - 1) \o SubSeq(queue, j + 1, Len(queue))
  /\ UNCHANGED <<last, held>>

HandOver ==
  /\ held = << >>
  /\ \E n \in 1..BatchSize :
       /\ n <= Len(queue)
       /\ held' = SubSeq(queue, 1, n)
       /\ queue' = SubSeq(queue, n + 1, Len(queue))
  /\ UNCHANGED last

Release ==
  /\ held # << >>
  /\ held' = << >>
  /\ UNCHANGED <<last, queue>>

Next == Offer \/ Lose \/ HandOver \/ Release

Spec == Init /\ [][Next]_vars
=============================================================================
