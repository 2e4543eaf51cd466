------------------------------ MODULE SQQueue ------------------------------
(***************************************************************************)
(* SQQueue (Source/SQQueue.cpp) over the ring of QBufferManagerEx (SQRing) *)
(* with two temporary buffers that GetNext fills in turn.                  *)
(*                                                                         *)
(* Every queue of the system is one: Server::m_pMsgQueue and m_pQBuffer,   *)
(* ServerManager::m_pVideoQueue, StreamingCtrl::m_pVideoQueue and, without *)
(* the temporary buffers, Client::m_pQBuffer.  Here one thread calls it;   *)
(* a call is one step.                                                     *)
(***************************************************************************)
EXTENDS SQRing, Sequences

CONSTANTS
  Packets,  \* what is queued
  Fitting   \* the packets of at most m_iUnitSize bytes

\* Nothing is also a temporary buffer without a packet, and a length of 0.
ASSUME QueueAssumption ==
  /\ Fitting \subseteq Packets
  /\ Nothing \notin Packets

VARIABLES
  tmp,         \* m_pTempBuffer: what each of the two buffers holds
  bufIndex,    \* m_iBufIndex: the buffer GetNext fills next
  result,      \* what the last call returned
  handed       \* history: the packets the last two GetNext returned

vars == <<ringVars, tmp, bufIndex, result, handed>>

Init ==
  /\ RingInit
  /\ tmp = [b \in {0, 1} |-> Nothing]
  /\ bufIndex = 0
  /\ result = Nothing
  /\ handed = <<Nothing, Nothing>>

\* Insert copies the packet and fails if it is larger than a unit.
Add(p) ==
  \/ /\ ~IsFull /\ p \in Fitting
     /\ items' = [items EXCEPT ![writeIndex] = p]
     /\ writeIndex' = Following(writeIndex)
     /\ frameCount' = frameCount + 1
     /\ result' = TRUE
     /\ UNCHANGED <<readIndex, tmp, bufIndex, handed>>
  \/ /\ IsFull \/ p \notin Fitting
     /\ result' = FALSE
     /\ UNCHANGED <<ringVars, tmp, bufIndex, handed>>

\* Fault variant: one temporary buffer instead of two.
OtherBuffer_Same(b) == b

OtherBuffer(b) == (b + 1) % 2

\* The temporary buffers change places whether there was a packet or not.
GetNext ==
  /\ bufIndex' = OtherBuffer(bufIndex)
  /\ \/ /\ ~IsEmpty
        /\ tmp' = [tmp EXCEPT ![bufIndex] = items[readIndex]]
        /\ result' = items[readIndex]
        /\ readIndex' = Following(readIndex)
        /\ frameCount' = frameCount - 1
     \/ /\ IsEmpty
        /\ result' = Nothing
        /\ UNCHANGED <<tmp, readIndex, frameCount>>
  /\ handed' = <<tmp'[bufIndex], handed[1]>>
  /\ UNCHANGED <<items, writeIndex>>

\* Reset forgets the packets; the units keep their bytes.
Reset ==
  /\ readIndex' = 0
  /\ writeIndex' = 0
  /\ frameCount' = 0
  /\ UNCHANGED <<items, tmp, bufIndex, result, handed>>

Next ==
  \/ \E p \in Packets : Add(p)
  \/ GetNext
  \/ Reset

Spec == Init /\ [][Next]_vars
-----------------------------------------------------------------------------
TypeOK ==
  /\ items \in [Slots -> Packets \union {Nothing}]
  /\ readIndex \in Slots
  /\ writeIndex \in Slots
  /\ frameCount \in 0 .. Units
  /\ tmp \in [{0, 1} -> Packets \union {Nothing}]
  /\ bufIndex \in {0, 1}
  /\ result \in Packets \union {Nothing} \union BOOLEAN
  /\ handed \in (Packets \union {Nothing}) \X (Packets \union {Nothing})

\* Where packet i of the queue lies, counted from 0, if the oldest lies at r.
Slot(r, i) == (r + i) % Units

\* The n packets from r on, oldest first.
Held(its, r, n) == [i \in 1 .. n |-> its[Slot(r, i - 1)]]

Content == Held(items, readIndex, frameCount)

FIFO == INSTANCE BoundedFIFO WITH Capacity <- Units, queue <- Content

\* The ring with its three counters, of which the code keeps no two in step by
\* construction, is a bounded first-in first-out queue.
ImplementsFIFO == FIFO!Spec

\* A packet GetNext handed out by pointer lives through one more GetNext, but
\* not through a second one: SendVideoLoop relies on this when it puts
\* pointers into m_pTempBuffer into the clients' message queues.
HandedLivesOnce ==
  /\ handed[1] = tmp[1 - bufIndex]
  /\ handed[2] = tmp[bufIndex]
=============================================================================
