--------------------------- MODULE SQQueueThreads ---------------------------
(***************************************************************************)
(* A queue of the system as its threads really use it.  QBufferManagerEx   *)
(* declares a critical section and never enters it, Lock() and Unlock()    *)
(* only pin memory, and the callers lock around GetNext but not around     *)
(* Add.  Server::m_pMsgQueue has three producers (TCThread, RecvThread and *)
(* the window thread) and one consumer (SendMsgThread).                    *)
(*                                                                         *)
(* Each access to a shared field is a step; m_iWriteIndex = (.. + 1) % ..  *)
(* and m_lFrameCount++ are a load and a store.  Copying a packet is one    *)
(* step.                                                                   *)
(***************************************************************************)
EXTENDS SQRing, FiniteSets, SequencesExt

CONSTANTS
  Producers,  \* the threads that call Add
  MaxPackets  \* bound: number of calls of Add

ASSUME ThreadsAssumption ==
  /\ IsFiniteSet(Producers)
  /\ MaxPackets \in Nat
  /\ Nothing \notin Nat

VARIABLES
  pc, reg,     \* per producer: where it is in Add, the value it loaded
  packet,      \* per producer: the packet it adds
  takePc,      \* where the consumer is in GetNext
  takeReg,     \* the value it loaded
  calls,       \* number of calls of Add so far; packets are numbered by it
  added,       \* history: the packets copied into the ring
  taken,       \* history: the packets copied out of it
  clean        \* history: no two Adds and no two updates of the count overlapped

addVars == <<pc, reg, packet>>
takeVars == <<takePc, takeReg>>
history == <<calls, added, taken, clean>>
threadsVars == <<ringVars, addVars, takeVars, history>>

ThreadsInit ==
  /\ RingInit
  /\ pc = [p \in Producers |-> "idle"]
  /\ reg = [p \in Producers |-> 0]
  /\ packet = [p \in Producers |-> 0]
  /\ takePc = "idle"
  /\ takeReg = 0
  /\ calls = 0
  /\ added = <<>>
  /\ taken = <<>>
  /\ clean = TRUE

Goto(p, label) == pc' = [pc EXCEPT ![p] = label]
-----------------------------------------------------------------------------
(* Add *)

AddCheck(p) ==
  /\ pc[p] = "idle"
  /\ calls < MaxPackets
  /\ calls' = calls + 1
  /\ packet' = [packet EXCEPT ![p] = calls']
  /\ Goto(p, IF IsFull THEN "idle" ELSE "insert")
  /\ clean' = (clean /\ \A q \in Producers : pc[q] = "idle")
  /\ UNCHANGED <<ringVars, reg, takeVars, added, taken>>

AddInsert(p) ==
  /\ pc[p] = "insert"
  /\ items' = [items EXCEPT ![writeIndex] = packet[p]]
  /\ added' = Append(added, packet[p])
  /\ Goto(p, "load_index")
  /\ UNCHANGED <<readIndex, writeIndex, frameCount, reg, packet, takeVars,
                 calls, taken, clean>>

AddLoadIndex(p) ==
  /\ pc[p] = "load_index"
  /\ reg' = [reg EXCEPT ![p] = writeIndex]
  /\ Goto(p, "store_index")
  /\ UNCHANGED <<ringVars, packet, takeVars, history>>

AddStoreIndex(p) ==
  /\ pc[p] = "store_index"
  /\ writeIndex' = Following(reg[p])
  /\ Goto(p, "load_count")
  /\ UNCHANGED <<items, readIndex, frameCount, reg, packet, takeVars, history>>

AddLoadCount(p) ==
  /\ pc[p] = "load_count"
  /\ reg' = [reg EXCEPT ![p] = frameCount]
  /\ Goto(p, "store_count")
  /\ UNCHANGED <<ringVars, packet, takeVars, history>>

AddStoreCount(p) ==
  /\ pc[p] = "store_count"
  /\ frameCount' = reg[p] + 1
  /\ clean' = (clean /\ frameCount = reg[p])
  /\ Goto(p, "idle")
  /\ UNCHANGED <<items, readIndex, writeIndex, reg, packet, takeVars,
                 calls, added, taken>>
-----------------------------------------------------------------------------
(* GetNext *)

\* Fault variant: the consumer does not look whether there is a packet.
TakeCheck_Unchecked ==
  /\ takePc = "idle"
  /\ takePc' = "copy"
  /\ UNCHANGED <<ringVars, addVars, takeReg, history>>

TakeCheck ==
  /\ takePc = "idle"
  /\ frameCount > 0
  /\ takePc' = "copy"
  /\ UNCHANGED <<ringVars, addVars, takeReg, history>>

\* iSize of a unit that was never written is uninitialised: a negative value
\* makes GetNext count the packet down and stay where it is.
TakeCopy ==
  /\ takePc = "copy"
  /\ \/ /\ taken' = Append(taken, items[readIndex])
        /\ takePc' = "advance"
     \/ /\ items[readIndex] = Nothing
        /\ takePc' = "load_count"
        /\ UNCHANGED taken
  /\ UNCHANGED <<ringVars, addVars, takeReg, calls, added, clean>>

\* Only the consumer changes m_iReadIndex.
TakeAdvance ==
  /\ takePc = "advance"
  /\ readIndex' = Following(readIndex)
  /\ takePc' = "load_count"
  /\ UNCHANGED <<items, writeIndex, frameCount, addVars, takeReg, history>>

TakeLoadCount ==
  /\ takePc = "load_count"
  /\ takeReg' = frameCount
  /\ takePc' = "store_count"
  /\ UNCHANGED <<ringVars, addVars, history>>

TakeStoreCount ==
  /\ takePc = "store_count"
  /\ frameCount' = takeReg - 1
  /\ clean' = (clean /\ frameCount = takeReg)
  /\ takePc' = "idle"
  /\ UNCHANGED <<items, readIndex, writeIndex, addVars, takeReg,
                 calls, added, taken>>
-----------------------------------------------------------------------------
Producer(p) ==
  \/ AddCheck(p) \/ AddInsert(p)
  \/ AddLoadIndex(p) \/ AddStoreIndex(p)
  \/ AddLoadCount(p) \/ AddStoreCount(p)

Consumer ==
  \/ TakeCheck \/ TakeCopy \/ TakeAdvance
  \/ TakeLoadCount \/ TakeStoreCount

ThreadsNext == Consumer \/ \E p \in Producers : Producer(p)

ThreadsSpec == ThreadsInit /\ [][ThreadsNext]_threadsVars
-----------------------------------------------------------------------------
AddLabels == {"idle", "insert", "load_index", "store_index", "load_count", "store_count"}
TakeLabels == {"idle", "copy", "advance", "load_count", "store_count"}

\* However the threads interleave, the indices stay inside the ring.
ThreadsTypeOK ==
  /\ items \in [Slots -> Nat \union {Nothing}]
  /\ readIndex \in Slots
  /\ writeIndex \in Slots
  /\ frameCount \in Int
  /\ pc \in [Producers -> AddLabels]
  /\ reg \in [Producers -> Int]
  /\ packet \in [Producers -> Nat]
  /\ takePc \in TakeLabels
  /\ takeReg \in Int
  /\ calls \in 0 .. MaxPackets
  /\ added \in Seq(Nat)
  /\ taken \in Seq(Nat \union {Nothing})
  /\ clean \in BOOLEAN

\* Updates of the count get lost, but it never goes negative, where IsEmpty,
\* which asks for 0 only, would take the ring for filled.
CountNeverNegative == frameCount >= 0

\* What the queue's order rests on.  As long as no Add met another Add, and no
\* update of the count another one, the ring is a queue in spite of the missing
\* lock: packets come out whole, once each and in order, although a packet is
\* copied in while another one is copied out, and none is overwritten; and its
\* count is right whenever no call is under way.
CleanIsFIFO ==
  clean => /\ IsPrefix(taken, added)
           /\ Len(added) - Len(taken) <= Units
           /\ frameCount <= Units
           /\ takePc = "idle" /\ (\A p \in Producers : pc[p] = "idle")
                => frameCount = Len(added) - Len(taken)
=============================================================================
