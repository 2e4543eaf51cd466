---------------------------- MODULE VSFSplitter ----------------------------
(***************************************************************************)
(* Splitter (VSFServer/Splitter.cpp): cuts an encoded frame of ulDataLen   *)
(* bytes into units of m_iUnit bytes and numbers them.  The one instance,  *)
(* owned by ServerManager and called by TCThread only, lives as long as    *)
(* the manager, so m_usPacketCount runs on from frame to frame.            *)
(*                                                                         *)
(* Each round of DoSplit's loop is a step, so that an invariant of the     *)
(* module is a loop invariant of the code.                                 *)
(***************************************************************************)
EXTENDS Integers, SequencesExt

CONSTANTS
  Unit,   \* m_iUnit, set once by ServerManager::Init (130000 in NetCommon.h)
  SNMod,  \* number of values of the unsigned short m_usPacketCount (65536)
  Lens    \* the encoded lengths DoSplit is called with

ASSUME SplitterAssumption ==
  /\ Unit \in Nat \ {0}
  /\ SNMod \in Nat \ {0}
  /\ Lens \subseteq Nat

VARIABLES
  dataList,     \* m_pDataList: the UnitPositionInfo records of the last call
  packetCount,  \* m_usPacketCount
  curPos,       \* ulCurPos
  dataLen,      \* the argument ulDataLen
  doing,        \* bDo: the loop is running
  prevSN        \* history: number of the newest unit of any call, -1 for none

vars == <<dataList, packetCount, curPos, dataLen, doing, prevSN>>

UnitPositionInfo ==
  [start : Nat, end : Nat, sn : 0 .. SNMod - 1, ended : BOOLEAN]

Init ==
  /\ dataList = <<>>
  /\ packetCount = 0
  /\ curPos = 0
  /\ dataLen = 0
  /\ doing = FALSE
  /\ prevSN = -1

\* m_usPacketCount++ on an unsigned short.
NextSN(sn) == (sn + 1) % SNMod

\* The call: RemoveAll() empties the list, the position restarts, the number
\* of the next unit does not.
DoSplit(n) ==
  /\ ~doing
  /\ dataList' = <<>>
  /\ curPos' = 0
  /\ dataLen' = n
  /\ doing' = TRUE
  /\ UNCHANGED <<packetCount, prevSN>>

AddUnit(end, ended) ==
  /\ dataList' = Append(dataList,
       [start |-> curPos, end |-> end, sn |-> packetCount, ended |-> ended])
  /\ packetCount' = NextSN(packetCount)
  /\ prevSN' = packetCount

\* Fault variant: the comparison lets a full last unit through as a middle one.
FitsBeforeEnd_OffByOne(pos) == pos + Unit <= dataLen + 1

\* The loop's condition: a whole unit ends strictly before the data does.
FitsBeforeEnd(pos) == pos + Unit < dataLen

\* The branch for every unit but the last.
SplitMiddle ==
  /\ doing
  /\ FitsBeforeEnd(curPos)
  /\ AddUnit(curPos + Unit, FALSE)
  /\ curPos' = curPos + Unit
  /\ UNCHANGED <<dataLen, doing>>

\* The branch for the last unit, which may be short and is marked.
SplitLast ==
  /\ doing
  /\ ~FitsBeforeEnd(curPos)
  /\ AddUnit(dataLen, TRUE)
  /\ doing' = FALSE
  /\ UNCHANGED <<curPos, dataLen>>

Next ==
  \/ \E n \in Lens : DoSplit(n)
  \/ SplitMiddle
  \/ SplitLast

Spec == Init /\ [][Next]_vars
-----------------------------------------------------------------------------
TypeOK ==
  /\ dataList \in Seq(UnitPositionInfo)
  /\ packetCount \in 0 .. SNMod - 1
  /\ curPos \in Nat
  /\ dataLen \in Nat
  /\ doing \in BOOLEAN
  /\ prevSN \in -1 .. SNMod - 1

\* The units follow one another from byte 0: whoever copies them in order, as
\* the client and libJpeg::Test do, skips and repeats nothing.
Contiguous ==
  /\ dataList # <<>> => dataList[1].start = 0
  /\ \A i \in 1 .. Len(dataList) - 1 : dataList[i + 1].start = dataList[i].end

\* When DoSplit returns, its units cover the frame to its last byte, all are
\* full except the last, which has at least one byte if the frame has any, and
\* the last one alone carries the end mark the client decodes on.
SplitIsPartition ==
  /\ Contiguous
  /\ \A i \in 1 .. Len(dataList) : dataList[i].ended => i = Len(dataList) /\ ~doing
  /\ \A i \in 1 .. Len(dataList) :
        ~dataList[i].ended => dataList[i].end = dataList[i].start + Unit
  /\ ~doing /\ dataList # <<>> =>
       /\ Last(dataList).ended
       /\ Last(dataList).end = dataLen
       /\ Last(dataList).end <= Last(dataList).start + Unit
       /\ dataLen > 0 => Last(dataList).start < dataLen

\* Consecutive units carry consecutive sequence numbers modulo 2^16, inside a
\* frame and from one frame to the next: the client's loss test relies on it.
SNConsecutive ==
  /\ \A i \in 1 .. Len(dataList) - 1 :
        dataList[i + 1].sn = (dataList[i].sn + 1) % SNMod
  /\ prevSN # -1 => packetCount = (prevSN + 1) % SNMod
  /\ dataList # <<>> => Last(dataList).sn = prevSN
=============================================================================
