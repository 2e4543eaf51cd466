------------------------------- MODULE SQRing -------------------------------
(***************************************************************************)
(* The ring of QBufferManagerEx (Source/QBufferManagerEx.cpp): m_iMax      *)
(* units of memory, a read and a write index, and a count that is kept     *)
(* beside them.  SQQueue has its operations as calls of one thread,        *)
(* SQQueueThreads as the loads and stores of several.                      *)
(***************************************************************************)
EXTENDS Integers

CONSTANTS
  Units,   \* m_iMax
  Nothing  \* what a unit holds before its first packet

ASSUME RingAssumption == Units \in Nat \ {0}

VARIABLES
  items,       \* m_RBMItems
  readIndex,   \* m_iReadIndex
  writeIndex,  \* m_iWriteIndex
  frameCount   \* m_lFrameCount

ringVars == <<items, readIndex, writeIndex, frameCount>>

Slots == 0 .. Units - 1

RingInit ==
  /\ items = [i \in Slots |-> Nothing]
  /\ readIndex = 0
  /\ writeIndex = 0
  /\ frameCount = 0

\* Fault variant: one packet too many is let in.
IsFull_OffByOne == frameCount > Units

IsFull  == frameCount >= Units
IsEmpty == frameCount = 0

\* Fault variant: the index stays where it is.
Following_Stuck(i) == IF i + 1 = Units THEN i ELSE i + 1

\* Fault variant: the index runs past the ring before it is reset.
Following_Late(i) == IF i = Units THEN 0 ELSE i + 1

Following(i) == (i + 1) % Units
=============================================================================
