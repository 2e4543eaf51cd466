---------------------------- MODULE BoundedFIFO ----------------------------
(***************************************************************************)
(* What the callers of SQQueue and QBufferManagerEx expect of a queue: it  *)
(* keeps up to Capacity packets, refuses one more, and gives them out in   *)
(* the order in which they were accepted.                                  *)
(***************************************************************************)
EXTENDS Integers, Sequences

CONSTANTS
  Capacity,  \* packets the queue takes
  Packets,   \* what is queued
  Fitting,   \* the packets that fit into a unit of the queue's memory
  Nothing    \* what GetNext gives when there is no packet

VARIABLES
  queue,     \* the accepted packets, oldest first
  result     \* what the last call returned

fifoVars == <<queue, result>>

Init ==
  /\ queue = <<>>
  /\ result = Nothing

Accepts(p) == Len(queue) < Capacity /\ p \in Fitting

Add(p) ==
  /\ queue' = IF Accepts(p) THEN Append(queue, p) ELSE queue
  /\ result' = Accepts(p)

GetNext ==
  \/ /\ queue # <<>>
     /\ result' = Head(queue)
     /\ queue' = Tail(queue)
  \/ /\ queue = <<>>
     /\ result' = Nothing
     /\ UNCHANGED queue

Reset ==
  /\ queue' = <<>>
  /\ UNCHANGED result

Next ==
  \/ \E p \in Packets : Add(p)
  \/ GetNext
  \/ Reset

Spec == Init /\ [][Next]_fifoVars
=============================================================================
