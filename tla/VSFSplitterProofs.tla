------------------------- MODULE VSFSplitterProofs -------------------------
(***************************************************************************)
(* For every unit size, every width of the sequence number and every frame *)
(* length: the units DoSplit leaves partition the frame and are numbered   *)
(* without a gap.  The loop that distributes them is a refinement of the   *)
(* splitter; it reads every unit by its number from the list's cursor, and *)
(* the client's test of the numbers tells losses from none.                *)
(***************************************************************************)
EXTENDS VSFDistribution, TLAPS

(***************************************************************************)
(* The loop invariant.  While the loop runs the position is where the list *)
(* ends, it is inside the frame unless nothing was cut yet, and no unit is *)
(* marked; afterwards the last unit is marked and reaches the frame's end. *)
(***************************************************************************)
LoopPosition ==
  /\ doing /\ dataList = <<>> => curPos = 0
  /\ doing /\ dataList # <<>> =>
       /\ curPos = dataList[Len(dataList)].end
       /\ curPos < dataLen
       /\ ~dataList[Len(dataList)].ended

NumbersFollow ==
  /\ prevSN = -1 => dataList = <<>>
  /\ prevSN # -1 => packetCount = (prevSN + 1) % SNMod
  /\ dataList # <<>> => dataList[Len(dataList)].sn = prevSN
  /\ \A i \in 1 .. Len(dataList) - 1 :
        dataList[i + 1].sn = (dataList[i].sn + 1) % SNMod

IInv == TypeOK /\ SplitIsPartition /\ LoopPosition /\ NumbersFollow

\* Splitter keeps its state well typed: in particular positions never run
\* backwards below zero and the sequence number stays an unsigned short.
THEOREM TypeCorrect == Spec => []TypeOK
<1>1. ASSUME Init PROVE TypeOK
  <2>1. dataList \in Seq(UnitPositionInfo)
    BY <1>1 DEF Init
  <2>2. packetCount \in 0 .. SNMod - 1 /\ prevSN \in -1 .. SNMod - 1
    BY <1>1, SplitterAssumption DEF Init
  <2>3. curPos \in Nat /\ dataLen \in Nat /\ doing \in BOOLEAN
    BY <1>1 DEF Init
  <2> QED
    BY <2>1, <2>2, <2>3 DEF TypeOK
<1>2. TypeOK /\ [Next]_vars => TypeOK'
  <2> SUFFICES ASSUME TypeOK, [Next]_vars PROVE TypeOK'
    OBVIOUS
  <2> USE SplitterAssumption DEF TypeOK
  <2>1. ASSUME NEW n \in Lens, DoSplit(n) PROVE TypeOK'
    BY <2>1 DEF DoSplit
  <2>2. ASSUME NEW e \in Nat, NEW b \in BOOLEAN, AddUnit(e, b)
        PROVE  /\ dataList' \in Seq(UnitPositionInfo)
               /\ packetCount' \in 0 .. SNMod - 1
               /\ prevSN' \in -1 .. SNMod - 1
    BY <2>2 DEF AddUnit, NextSN, UnitPositionInfo
  <2>3. CASE SplitMiddle
    <3>0. curPos + Unit \in Nat
      OBVIOUS
    <3>1. AddUnit(curPos + Unit, FALSE)
      BY <2>3, Zenon DEF SplitMiddle
    <3>2. curPos' = curPos + Unit /\ dataLen' = dataLen /\ doing' = doing
      BY <2>3 DEF SplitMiddle
    <3> QED
      BY <2>2, <3>0, <3>1, <3>2
  <2>4. CASE SplitLast
    <3>1. AddUnit(dataLen, TRUE)
      BY <2>4 DEF SplitLast
    <3>2. curPos' = curPos /\ dataLen' = dataLen /\ doing' = FALSE
      BY <2>4 DEF SplitLast
    <3> QED
      BY <2>2, <3>1, <3>2
  <2>5. CASE UNCHANGED vars
    BY <2>5 DEF vars
  <2> QED
    BY <2>1, <2>3, <2>4, <2>5 DEF Next
<1> QED
  BY <1>1, <1>2, PTL DEF Spec

\* What appending one unit does to the list, named once for both branches.
LEMMA AddUnitAppends ==
  ASSUME TypeOK, NEW e \in Nat, NEW b \in BOOLEAN, AddUnit(e, b)
  PROVE  /\ Len(dataList') = Len(dataList) + 1
         /\ \A i \in 1 .. Len(dataList) : dataList'[i] = dataList[i]
         /\ dataList'[Len(dataList) + 1] =
              [start |-> curPos, end |-> e, sn |-> packetCount, ended |-> b]
         /\ dataList' # <<>>
<1> DEFINE u == [start |-> curPos, end |-> e, sn |-> packetCount, ended |-> b]
<1>1. u \in UnitPositionInfo
  BY DEF UnitPositionInfo, TypeOK
<1> QED
  BY <1>1 DEF AddUnit, TypeOK

\* The numbering part of the invariant is kept by appending a unit.
LEMMA AddUnitNumbers ==
  ASSUME TypeOK, NumbersFollow, NEW e \in Nat, NEW b \in BOOLEAN, AddUnit(e, b)
  PROVE  NumbersFollow'
<1> DEFINE k == Len(dataList)
<1>0. /\ Len(dataList') = k + 1
      /\ \A i \in 1 .. k : dataList'[i] = dataList[i]
      /\ dataList'[k + 1].sn = packetCount
      /\ dataList' # <<>>
  <2>1. /\ Len(dataList') = k + 1
        /\ \A i \in 1 .. k : dataList'[i] = dataList[i]
        /\ dataList'[k + 1] =
             [start |-> curPos, end |-> e, sn |-> packetCount, ended |-> b]
        /\ dataList' # <<>>
    BY AddUnitAppends, Zenon
  <2> QED
    BY <2>1
<1>1. k \in Nat
  BY DEF TypeOK
<1>2. packetCount' = (prevSN' + 1) % SNMod /\ prevSN' = packetCount
  BY DEF AddUnit, NextSN
<1>3. prevSN' # -1
  BY <1>2, SplitterAssumption DEF TypeOK
<1>4. dataList'[Len(dataList')].sn = prevSN'
  BY <1>0, <1>1, <1>2
<1>5. ASSUME NEW i \in 1 .. Len(dataList') - 1
      PROVE  dataList'[i + 1].sn = (dataList'[i].sn + 1) % SNMod
  <2>1. CASE i < k
    <3>1. i \in 1 .. k - 1 /\ i \in 1 .. k /\ i + 1 \in 1 .. k
      BY <1>1, <2>1
    <3>2. dataList'[i] = dataList[i] /\ dataList'[i + 1] = dataList[i + 1]
      BY <3>1, <1>0
    <3> QED
      BY <3>1, <3>2 DEF NumbersFollow
  <2>2. CASE i = k
    <3>1. dataList # <<>> /\ i \in 1 .. k
      BY <1>1, <1>5, <2>2, <1>0
    <3>2. dataList'[i].sn = prevSN /\ prevSN # -1
      BY <2>2, <3>1, <1>0 DEF NumbersFollow
    <3>3. dataList'[i + 1].sn = packetCount
      BY <2>2, <1>0
    <3> QED
      BY <3>2, <3>3 DEF NumbersFollow
  <2> QED
    BY <1>1, <1>5, <2>1, <2>2, <1>0
<1> QED
  BY <1>2, <1>3, <1>4, <1>5 DEF NumbersFollow

LEMMA IInvInductive == IInv /\ [Next]_vars /\ TypeOK' => IInv'
<1> SUFFICES ASSUME IInv, [Next]_vars, TypeOK' PROVE IInv'
  OBVIOUS
<1> USE SplitterAssumption
<1>t. TypeOK /\ Len(dataList) \in Nat /\ curPos \in Nat /\ dataLen \in Nat
      /\ Unit \in Nat \ {0}
  BY DEF IInv, TypeOK
<1>1. ASSUME NEW n \in Lens, DoSplit(n) PROVE IInv'
  BY <1>1 DEF IInv, DoSplit, SplitIsPartition, Contiguous, LoopPosition,
              NumbersFollow, TypeOK
<1>2. ASSUME SplitMiddle PROVE IInv'
  <2> DEFINE e == curPos + Unit
             k == Len(dataList)
  <2>1. e \in Nat /\ AddUnit(e, FALSE) /\ doing /\ e < dataLen
    <3>1. AddUnit(e, FALSE)
      BY <1>2, Zenon DEF SplitMiddle
    <3>2. doing /\ e < dataLen
      BY <1>2, Zenon DEF SplitMiddle, FitsBeforeEnd
    <3>3. e \in Nat
      BY <1>t
    <3> QED
      BY <3>1, <3>2, <3>3
  <2>2. curPos' = e /\ dataLen' = dataLen /\ doing' = doing
    BY <1>2 DEF SplitMiddle
  <2>3. /\ Len(dataList') = k + 1
        /\ \A i \in 1 .. k : dataList'[i] = dataList[i]
        /\ dataList'[k + 1] = [start |-> curPos, end |-> e,
                               sn |-> packetCount, ended |-> FALSE]
        /\ dataList' # <<>>
    BY <1>t, <2>1, AddUnitAppends
  <2> HIDE DEF e
  <2>4. NumbersFollow'
    BY <1>t, <2>1, AddUnitNumbers DEF IInv
  <2>5. LoopPosition'
    BY <1>t, <2>1, <2>2, <2>3 DEF LoopPosition
  <2>6. Contiguous'
    BY <1>t, <2>1, <2>3 DEF IInv, SplitIsPartition, Contiguous, LoopPosition
  <2>7. SplitIsPartition'
    <3>1. \A i \in 1 .. k + 1 : ~dataList'[i].ended
      <4>1. \A i \in 1 .. k : ~dataList[i].ended
        BY <1>t, <2>1 DEF IInv, SplitIsPartition, TypeOK, UnitPositionInfo
      <4> QED
        BY <1>t, <2>3, <4>1
    <3>2. \A i \in 1 .. k + 1 : dataList'[i].end = dataList'[i].start + Unit
      <4>1. \A i \in 1 .. k : dataList[i].end = dataList[i].start + Unit
        BY <1>t, <2>1 DEF IInv, SplitIsPartition, TypeOK, UnitPositionInfo
      <4> QED
        BY <1>t, <2>3, <4>1 DEF e
    <3> QED
      BY <2>1, <2>2, <2>3, <2>6, <3>1, <3>2 DEF SplitIsPartition
  <2> QED
    BY <2>4, <2>5, <2>7 DEF IInv
<1>3. ASSUME SplitLast PROVE IInv'
  <2> DEFINE k == Len(dataList)
  <2>1. AddUnit(dataLen, TRUE) /\ doing /\ ~(curPos + Unit < dataLen)
        /\ curPos' = curPos /\ dataLen' = dataLen /\ ~doing'
    BY <1>3 DEF SplitLast, FitsBeforeEnd
  <2>2. /\ Len(dataList') = k + 1
        /\ \A i \in 1 .. k : dataList'[i] = dataList[i]
        /\ dataList'[k + 1] = [start |-> curPos, end |-> dataLen,
                               sn |-> packetCount, ended |-> TRUE]
        /\ dataList' # <<>>
    BY <1>t, <2>1, AddUnitAppends
  <2>3. NumbersFollow'
    BY <1>t, <2>1, AddUnitNumbers DEF IInv
  <2>4. LoopPosition'
    BY <2>1 DEF LoopPosition
  <2>5. Contiguous'
    BY <1>t, <2>1, <2>2 DEF IInv, SplitIsPartition, Contiguous, LoopPosition
  <2>6. \A i \in 1 .. k : ~dataList[i].ended
                          /\ dataList[i].end = dataList[i].start + Unit
    BY <1>t, <2>1 DEF IInv, SplitIsPartition, TypeOK, UnitPositionInfo
  <2>7. curPos < dataLen \/ (curPos = 0)
    BY <1>t, <2>1 DEF IInv, LoopPosition
  <2>8. SplitIsPartition'
    <3>1. \A i \in 1 .. Len(dataList') :
            dataList'[i].ended => i = Len(dataList') /\ ~doing'
      BY <1>t, <2>1, <2>2, <2>6
    <3>2. \A i \in 1 .. Len(dataList') :
            ~dataList'[i].ended => dataList'[i].end = dataList'[i].start + Unit
      BY <1>t, <2>2, <2>6
    <3>3. /\ Last(dataList').ended
          /\ Last(dataList').end = dataLen
          /\ Last(dataList').end <= Last(dataList').start + Unit
          /\ dataLen > 0 => Last(dataList').start < dataLen
      BY <1>t, <2>1, <2>2, <2>7 DEF Last
    <3> QED
      BY <2>1, <2>5, <3>1, <3>2, <3>3 DEF SplitIsPartition
  <2> QED
    BY <2>3, <2>4, <2>8 DEF IInv
<1>4. CASE UNCHANGED vars
  BY <1>4 DEF vars, IInv, SplitIsPartition, Contiguous, LoopPosition,
              NumbersFollow, TypeOK
<1> QED
  BY <1>1, <1>2, <1>3, <1>4 DEF Next

LEMMA IInvHolds == Spec => []IInv
<1>1. Init /\ TypeOK => IInv
  BY DEF Init, IInv, SplitIsPartition, Contiguous, LoopPosition, NumbersFollow
<1> QED
  BY <1>1, IInvInductive, TypeCorrect, PTL DEF Spec

\* The units of a finished call partition the frame (Splitter::DoSplit).
THEOREM PartitionHolds == Spec => []SplitIsPartition
<1>1. IInv => SplitIsPartition
  BY DEF IInv
<1> QED
  BY <1>1, IInvHolds, PTL

\* Units are numbered consecutively within and across frames, modulo SNMod.
THEOREM NumberingHolds == Spec => []SNConsecutive
<1>1. IInv => SNConsecutive
  BY DEF IInv, NumbersFollow, SNConsecutive, Last
<1> QED
  BY <1>1, IInvHolds, PTL
-----------------------------------------------------------------------------
(* VSFDistribution *)

\* SendVideoLoop drives the splitter as its own module has it: what was proved
\* of DoSplit holds of every frame it distributes.
THEOREM DistributionRefinesSplitter == DSpec => Spec
<1>1. DInit => Init
  BY DEF DInit
<1>2. [DNext]_dvars => [Next]_vars
  BY DEF DNext, SplitFrame, SplitUnread, SplitUnit, GetItemInfo, Drop,
         RecvVideoPacket, NewClient, Next, dvars
<1> QED
  BY <1>1, <1>2, PTL DEF DSpec, Spec

\* Where the cursor stands between two reads.
CursorGood ==
  /\ index \in 0 .. Len(dataList)
  /\ curIndex \in Nat
  /\ index > 0 => ~doInit /\ curIndex = index - 1 /\ current = index
  /\ unit # NoUnit => ~doing /\ index > 0 /\ unit = dataList[index]
  /\ doing => index = 0

LEMMA CursorInductive ==
  TypeOK /\ CursorGood /\ [DNext]_dvars => CursorGood'
<1> SUFFICES ASSUME TypeOK, CursorGood, [DNext]_dvars PROVE CursorGood'
  OBVIOUS
<1>t. /\ Len(dataList) \in Nat
      /\ index \in 0 .. Len(dataList) /\ curIndex \in Nat
  BY DEF TypeOK, CursorGood
<1>1. ASSUME NEW n \in Lens, SplitFrame(n) \/ SplitUnread(n) PROVE CursorGood'
  <2>1. dataList' = <<>> /\ index' = 0 /\ curIndex' = 0 /\ unit' = NoUnit
    BY <1>1 DEF SplitFrame, FrameIsOut, SplitUnread, DoSplit, ListReset, loopVars
  <2> QED
    BY <2>1 DEF CursorGood
<1>2. CASE SplitUnit
  <2>1. doing /\ UNCHANGED <<listVars, loopVars>>
    BY <1>2 DEF SplitUnit, SplitMiddle, SplitLast
  <2>2. index' = 0 /\ unit' = NoUnit /\ curIndex' \in Nat
    BY <2>1, <1>t DEF CursorGood, listVars, loopVars
  <2>3. Len(dataList') \in Nat
    BY <1>2, <1>t DEF SplitUnit, SplitMiddle, SplitLast, AddUnit, TypeOK
  <2> QED
    BY <2>2, <2>3 DEF CursorGood
<1>3. CASE GetItemInfo
  <2>1. /\ ~doing /\ index < Len(dataList) /\ index' = index + 1
        /\ ListGet(index) /\ dataList' = dataList /\ doing' = doing
    BY <1>3 DEF GetItemInfo, vars
  <2>2. Walk(index) = index + 1
    BY <1>t DEF CursorGood, Walk, StartsOver
  <2>3. /\ current' = index + 1 /\ curIndex' = index /\ doInit' = FALSE
        /\ unit' = dataList[index + 1]
    <3>1. current' = index + 1 /\ current' \in 1 .. Len(dataList)
      BY <1>t, <2>1, <2>2 DEF ListGet
    <3> QED
      BY <2>1, <3>1 DEF ListGet
  <2> QED
    BY <1>t, <2>1, <2>3 DEF CursorGood
<1>4. CASE Drop \/ RecvVideoPacket
  BY <1>4, <1>t DEF Drop, RecvVideoPacket, vars, listVars, CursorGood
<1>5. CASE NewClient \/ UNCHANGED dvars
  BY <1>5, <1>t DEF NewClient, ClientIsNew, dvars, vars, listVars, loopVars, CursorGood
<1> QED
  BY <1>1, <1>2, <1>3, <1>4, <1>5 DEF DNext

LEMMA CursorHolds == DSpec => []CursorGood
<1>1. DInit => CursorGood
  BY DEF DInit, Init, CursorGood
<1> QED
  BY <1>1, CursorInductive, DistributionRefinesSplitter, TypeCorrect, PTL DEF DSpec

\* The units are read as they lie in the list (ServerManager::SendVideoLoop,
\* SQList::Get).
THEOREM ReadsInOrderHolds == DSpec => []ReadsInOrder
<1>1. CursorGood => ReadsInOrder
  BY DEF CursorGood, ReadsInOrder
<1> QED
  BY <1>1, CursorHolds, PTL

\* The number of the next unit to be offered to the client.
PendingSN ==
  IF unit # NoUnit THEN unit.sn
  ELSE IF index < Len(dataList) THEN dataList[index + 1].sn
  ELSE packetCount

\* sn + k modulo SNMod, for k of at most SNMod.
After(sn, k) == IF sn + k >= SNMod THEN sn + k - SNMod ELSE sn + k

\* It is ahead of the last number that arrived by one more than was dropped.
PendingFollows ==
  /\ lastSN \in -1 .. SNMod - 1
  /\ dropped \in 0 .. SNMod
  /\ lastSN # -1 /\ dropped < SNMod - 1 => PendingSN = After(lastSN, dropped + 1)

LEMMA NextIsAfter ==
  ASSUME NEW sn \in 0 .. SNMod - 1
  PROVE  (sn + 1) % SNMod = IF sn = SNMod - 1 THEN 0 ELSE sn + 1
<1>1. CASE sn = SNMod - 1
  BY <1>1, SplitterAssumption
<1>2. CASE sn # SNMod - 1
  BY <1>2, SplitterAssumption
<1> QED
  BY <1>1, <1>2

\* What is pending after the unit in hand is one further, within the frame and
\* from its last unit to the next frame.
LEMMA PendingAfterUnit ==
  ASSUME IInv, CursorGood, unit # NoUnit
  PROVE  /\ unit.sn \in 0 .. SNMod - 1
         /\ index < Len(dataList) =>
              dataList[index + 1].sn = (unit.sn + 1) % SNMod
         /\ ~(index < Len(dataList)) => packetCount = (unit.sn + 1) % SNMod
<1>t. /\ Len(dataList) \in Nat /\ index \in 1 .. Len(dataList)
      /\ unit = dataList[index] /\ dataList # <<>>
  BY DEF IInv, TypeOK, CursorGood
<1>1. dataList[index] \in UnitPositionInfo
  BY <1>t DEF IInv, TypeOK
<1>2. unit.sn \in 0 .. SNMod - 1
  BY <1>1, <1>t DEF UnitPositionInfo
<1>3. ASSUME index < Len(dataList)
      PROVE  dataList[index + 1].sn = (unit.sn + 1) % SNMod
  <2>1. index \in 1 .. Len(dataList) - 1
    BY <1>3, <1>t
  <2> QED
    BY <2>1, <1>t DEF IInv, NumbersFollow
<1>4. ASSUME ~(index < Len(dataList)) PROVE packetCount = (unit.sn + 1) % SNMod
  <2>1. unit = dataList[Len(dataList)]
    BY <1>4, <1>t
  <2> QED
    BY <2>1, <1>t DEF IInv, NumbersFollow
<1> QED
  BY <1>2, <1>3, <1>4

LEMMA PendingInductive ==
  IInv /\ CursorGood /\ PendingFollows /\ [DNext]_dvars => PendingFollows'
<1> SUFFICES ASSUME IInv, CursorGood, PendingFollows, [DNext]_dvars
             PROVE  PendingFollows'
  OBVIOUS
<1> USE SplitterAssumption
<1>t. /\ Len(dataList) \in Nat /\ index \in 0 .. Len(dataList)
      /\ lastSN \in -1 .. SNMod - 1 /\ dropped \in 0 .. SNMod
  BY DEF IInv, TypeOK, CursorGood, PendingFollows
<1>0. ASSUME PendingSN' = PendingSN, lastSN' = lastSN, dropped' = dropped
      PROVE  PendingFollows'
  BY <1>0 DEF PendingFollows, After
<1>1. ASSUME NEW n \in Lens, SplitFrame(n) PROVE PendingFollows'
  <2>1. /\ dataList' = <<>> /\ index' = 0 /\ unit' = NoUnit /\ unit = NoUnit
        /\ index = Len(dataList) /\ packetCount' = packetCount
        /\ lastSN' = lastSN /\ dropped' = dropped
    BY <1>1 DEF SplitFrame, FrameIsOut, DoSplit, ListReset, clientVars, historyVars
  <2>2. PendingSN = packetCount /\ PendingSN' = packetCount
    BY <2>1 DEF PendingSN
  <2> QED
    BY <2>1, <2>2, <1>0
<1>2. CASE SplitUnit
  <2>1. /\ index = 0 /\ index' = 0 /\ unit = NoUnit /\ unit' = NoUnit
        /\ lastSN' = lastSN /\ dropped' = dropped
    BY <1>2 DEF SplitUnit, SplitMiddle, SplitLast, CursorGood, loopVars,
                clientVars, historyVars
  <2>2. PICK u : dataList' = Append(dataList, u) /\ u.sn = packetCount
    BY <1>2 DEF SplitUnit, SplitMiddle, SplitLast, AddUnit
  <2>3. Len(dataList') = Len(dataList) + 1
        /\ dataList'[1] = IF Len(dataList) = 0 THEN u ELSE dataList[1]
    BY <2>2, <1>t DEF IInv, TypeOK
  <2>4. PendingSN' = PendingSN
    BY <2>1, <2>2, <2>3, <1>t DEF PendingSN
  <2> QED
    BY <2>1, <2>4, <1>0
<1>3. CASE GetItemInfo
  <2>1. /\ unit = NoUnit /\ index < Len(dataList) /\ index' = index + 1
        /\ dataList' = dataList
        /\ lastSN' = lastSN /\ dropped' = dropped
    BY <1>3 DEF GetItemInfo, vars, clientVars, historyVars
  <2>2. CursorGood'
    BY CursorInductive, <1>3 DEF IInv, DNext
  <2>3. unit' = dataList[index + 1]
    <3>1. Walk(index) = index + 1
      BY <1>t DEF CursorGood, Walk, StartsOver
    <3> QED
      BY <1>3, <3>1, <1>t, <2>1 DEF GetItemInfo, ListGet
  <2>4. unit' # NoUnit
    <3>1. dataList[index + 1] \in UnitPositionInfo
      BY <1>t, <2>1 DEF IInv, TypeOK
    <3> QED
      BY <3>1, <2>3 DEF UnitPositionInfo, NoUnit
  <2>5. PendingSN' = PendingSN
    BY <2>1, <2>3, <2>4 DEF PendingSN
  <2> QED
    BY <2>1, <2>5, <1>0
<1>4. CASE Drop \/ RecvVideoPacket
  <2>1. /\ unit # NoUnit /\ unit' = NoUnit /\ index' = index
        /\ dataList' = dataList /\ packetCount' = packetCount
    BY <1>4 DEF Drop, RecvVideoPacket, vars
  <2>2. /\ unit.sn \in 0 .. SNMod - 1
        /\ PendingSN = unit.sn /\ PendingSN' = (unit.sn + 1) % SNMod
    BY <2>1, PendingAfterUnit DEF PendingSN
  <2>3. PendingSN' = IF unit.sn = SNMod - 1 THEN 0 ELSE unit.sn + 1
    BY <2>2, NextIsAfter
  <2>4. CASE Drop
    <3>1. /\ lastSN' = lastSN
          /\ dropped' = IF dropped < SNMod THEN dropped + 1 ELSE dropped
      BY <2>4 DEF Drop, clientVars
    <3> QED
      BY <3>1, <2>2, <2>3, <1>t DEF PendingFollows, After
  <2>5. CASE RecvVideoPacket
    <3>1. lastSN' = unit.sn /\ dropped' = 0
      BY <2>5 DEF RecvVideoPacket
    <3> QED
      BY <3>1, <2>2, <2>3 DEF PendingFollows, After
  <2> QED
    BY <1>4, <2>4, <2>5
<1>5. ASSUME ClientIsNew PROVE PendingFollows'
  BY <1>5 DEF ClientIsNew, PendingFollows
<1>6. CASE UNCHANGED dvars
  <2>1. UNCHANGED <<vars, loopVars, clientVars, historyVars>>
    BY <1>6 DEF dvars
  <2> QED
    BY <2>1, <1>0 DEF vars, loopVars, clientVars, historyVars, PendingSN
<1> QED
  BY <1>1, <1>2, <1>3, <1>4, <1>5, <1>6 DEF DNext, SplitUnread, NewClient

\* The client's test abs(lCurSN - m_lLastSN) > 1 sees every gap of up to
\* SNMod - 3 units, and reports one where there is none only at the wrap and to
\* a new client (Client::RecvVideoPacket).
THEOREM LossTestHolds == DSpec => LossTestIsRight
<1>1. DInit => PendingFollows
  BY SplitterAssumption DEF DInit, PendingFollows
<1>2. DSpec => [](IInv /\ CursorGood /\ PendingFollows)
  BY <1>1, PendingInductive, CursorHolds, IInvHolds, DistributionRefinesSplitter,
     PTL DEF DSpec
<1>3. ASSUME IInv, CursorGood, PendingFollows, RecvVideoPacket
      PROVE  /\ dropped \in 1 .. SNMod - 3 /\ lastSN # -1 => IsLoss(unit)
             /\ IsLoss(unit) => dropped > 0 \/ lastSN = -1 \/ unit.sn = 0
  <2>1. unit # NoUnit
    BY <1>3 DEF RecvVideoPacket
  <2>2. unit.sn \in 0 .. SNMod - 1 /\ PendingSN = unit.sn
    BY <1>3, <2>1, PendingAfterUnit DEF PendingSN
  <2>3. /\ lastSN \in -1 .. SNMod - 1 /\ dropped \in 0 .. SNMod
        /\ lastSN # -1 /\ dropped < SNMod - 1 => unit.sn = After(lastSN, dropped + 1)
    BY <1>3, <2>2 DEF PendingFollows
  <2> QED
    BY <2>2, <2>3, SplitterAssumption DEF IsLoss, Distance, After
<1> QED
  BY <1>2, <1>3, PTL DEF DSpec, LossTestIsRight

\* The first byte, in its frame, of the next unit to be offered to the client.
PendingStart ==
  IF unit # NoUnit THEN unit.start
  ELSE IF index < Len(dataList) THEN dataList[index + 1].start
  ELSE 0

\* A buffer that is not the beginning of a frame has been noticed or missed;
\* one that is ends where the next unit begins.
BufferFollows ==
  /\ tmpLen \in Int
  /\ ~whole => logged \/ missed
  /\ lastSN = -1 => whole /\ tmpLen = 0
  /\ lastSN # -1 /\ dropped = 0 /\ whole => tmpLen = PendingStart

BInv == IInv /\ CursorGood /\ PendingFollows /\ BufferFollows

\* A marked unit is its frame's last, any other has its successor behind it.
LEMMA StartAfterUnit ==
  ASSUME IInv, CursorGood, unit # NoUnit
  PROVE  /\ unit.start \in Nat /\ unit.end \in Nat
         /\ unit.ended => ~(index < Len(dataList))
         /\ ~unit.ended => /\ index < Len(dataList)
                           /\ dataList[index + 1].start = unit.end
<1>t. /\ Len(dataList) \in Nat /\ index \in 1 .. Len(dataList)
      /\ unit = dataList[index] /\ dataList # <<>> /\ ~doing
  BY DEF IInv, TypeOK, CursorGood
<1>1. unit \in UnitPositionInfo
  BY <1>t DEF IInv, TypeOK
<1>2. ASSUME ~unit.ended PROVE index # Len(dataList)
  BY <1>2, <1>t DEF IInv, SplitIsPartition, Last
<1>3. ASSUME index < Len(dataList) PROVE dataList[index + 1].start = unit.end
  <2>1. index \in 1 .. Len(dataList) - 1
    BY <1>3, <1>t
  <2> QED
    BY <2>1, <1>t DEF IInv, SplitIsPartition, Contiguous
<1> QED
  BY <1>t, <1>1, <1>2, <1>3 DEF UnitPositionInfo, IInv, SplitIsPartition

\* The loss test against what it has to find.
LEMMA GapIsSeen ==
  ASSUME BInv, unit # NoUnit
  PROVE  Continues(unit) \/ logged \/ IsLoss(unit) \/ missed \/ GapIsMissed(unit)
<1> USE SplitterAssumption
<1>1. unit.sn \in 0 .. SNMod - 1 /\ PendingSN = unit.sn
  BY PendingAfterUnit DEF BInv, PendingSN
<1>2. unit.start \in Nat /\ PendingStart = unit.start
  BY StartAfterUnit DEF BInv, PendingStart
<1>3. /\ lastSN \in -1 .. SNMod - 1 /\ dropped \in 0 .. SNMod
      /\ lastSN # -1 /\ dropped < SNMod - 1 => unit.sn = After(lastSN, dropped + 1)
  BY <1>1 DEF BInv, PendingFollows
<1>4. /\ ~whole => logged \/ missed
      /\ lastSN = -1 => whole /\ tmpLen = 0
      /\ lastSN # -1 /\ dropped = 0 /\ whole => tmpLen = unit.start
  BY <1>2 DEF BInv, BufferFollows
<1>5. CASE lastSN = -1
  BY <1>1, <1>2, <1>4, <1>5 DEF Continues, IsLoss, Distance, GapIsMissed
<1>6. CASE lastSN # -1 /\ dropped = 0
  BY <1>4, <1>6 DEF Continues
<1>7. CASE lastSN # -1 /\ dropped # 0
  BY <1>1, <1>3, <1>7 DEF IsLoss, Distance, GapIsMissed, After
<1> QED
  BY <1>5, <1>6, <1>7

LEMMA BufferInductive == BInv /\ [DNext]_dvars => BufferFollows'
<1> SUFFICES ASSUME BInv, [DNext]_dvars PROVE BufferFollows'
  OBVIOUS
<1> USE SplitterAssumption
<1>t. /\ Len(dataList) \in Nat /\ index \in 0 .. Len(dataList)
      /\ lastSN \in -1 .. SNMod - 1 /\ dropped \in 0 .. SNMod
  BY DEF BInv, IInv, TypeOK, CursorGood, PendingFollows
<1>0. ASSUME PendingStart' = PendingStart, UNCHANGED <<clientVars, historyVars>>
      PROVE  BufferFollows'
  BY <1>0 DEF BInv, BufferFollows, clientVars, historyVars
<1>1. ASSUME NEW n \in Lens, SplitFrame(n) PROVE BufferFollows'
  <2>1. /\ dataList' = <<>> /\ index' = 0 /\ unit' = NoUnit /\ unit = NoUnit
        /\ index = Len(dataList) /\ UNCHANGED <<clientVars, historyVars>>
    BY <1>1 DEF SplitFrame, FrameIsOut, DoSplit, ListReset
  <2> QED
    BY <2>1, <1>0 DEF PendingStart
<1>2. CASE SplitUnit
  <2>1. /\ index = 0 /\ index' = 0 /\ unit = NoUnit /\ unit' = NoUnit
        /\ UNCHANGED <<clientVars, historyVars>>
    BY <1>2 DEF SplitUnit, SplitMiddle, SplitLast, BInv, CursorGood, loopVars
  <2>2. PICK u : dataList' = Append(dataList, u) /\ u.start = curPos
    BY <1>2 DEF SplitUnit, SplitMiddle, SplitLast, AddUnit
  <2>3. Len(dataList') = Len(dataList) + 1
        /\ dataList'[1] = IF Len(dataList) = 0 THEN u ELSE dataList[1]
    BY <2>2, <1>t DEF BInv, IInv, TypeOK
  <2>4. dataList = <<>> => curPos = 0
    BY <1>2 DEF SplitUnit, SplitMiddle, SplitLast, BInv, IInv, LoopPosition
  <2>5. Len(dataList) = 0 => dataList = <<>>
    BY DEF BInv, IInv, TypeOK
  <2>6. PendingStart' = PendingStart
    BY <2>1, <2>2, <2>3, <2>4, <2>5, <1>t DEF PendingStart
  <2> QED
    BY <2>1, <2>6, <1>0
<1>3. CASE GetItemInfo
  <2>1. /\ unit = NoUnit /\ index < Len(dataList)
        /\ UNCHANGED <<clientVars, historyVars>>
    BY <1>3 DEF GetItemInfo
  <2>2. unit' = dataList[index + 1]
    <3>1. Walk(index) = index + 1
      BY <1>t DEF BInv, CursorGood, Walk, StartsOver
    <3> QED
      BY <1>3, <3>1, <1>t, <2>1 DEF GetItemInfo, ListGet
  <2>3. unit' # NoUnit
    <3>1. dataList[index + 1] \in UnitPositionInfo
      BY <1>t, <2>1 DEF BInv, IInv, TypeOK
    <3> QED
      BY <3>1, <2>2 DEF UnitPositionInfo, NoUnit
  <2> QED
    BY <2>1, <2>2, <2>3, <1>0 DEF PendingStart
<1>4. CASE Drop
  BY <1>4, <1>t DEF Drop, BInv, BufferFollows, clientVars
<1>5. CASE RecvVideoPacket
  <2>1. /\ unit # NoUnit /\ unit' = NoUnit /\ index' = index
        /\ dataList' = dataList /\ lastSN' = unit.sn /\ dropped' = 0
    BY <1>5 DEF RecvVideoPacket, vars
  <2>2. /\ unit.start \in Nat /\ unit.end \in Nat /\ unit.sn \in 0 .. SNMod - 1
        /\ unit.ended => ~(index < Len(dataList))
        /\ ~unit.ended => /\ index < Len(dataList)
                          /\ dataList[index + 1].start = unit.end
    BY <2>1, StartAfterUnit, PendingAfterUnit DEF BInv
  <2>3. CASE unit.ended
    BY <1>5, <2>1, <2>2, <2>3 DEF RecvVideoPacket, AfterMark, BufferFollows, PendingStart
  <2>4. CASE ~unit.ended
    <3>1. /\ tmpLen' = tmpLen + (unit.end - unit.start)
          /\ whole' = Continues(unit)
          /\ logged' = (logged \/ IsLoss(unit))
          /\ missed' = (missed \/ GapIsMissed(unit))
      BY <1>5, <2>4 DEF RecvVideoPacket
    <3>2. ~whole' => logged' \/ missed'
      BY <3>1, <2>1, GapIsSeen
    <3>3. tmpLen' \in Int
      BY <3>1, <2>2 DEF BInv, BufferFollows
    <3>4. whole' => tmpLen' = unit.end
      <4>1. whole' => tmpLen = unit.start
        BY <3>1, Zenon DEF Continues
      <4>2. tmpLen = unit.start => tmpLen' = unit.end
        BY <3>1, <2>2
      <4> QED
        BY <4>1, <4>2
    <3>5. PendingStart' = unit.end
      BY <2>1, <2>2, <2>4 DEF PendingStart
    <3> QED
      BY <2>1, <2>2, <3>2, <3>3, <3>4, <3>5 DEF BufferFollows
  <2> QED
    BY <2>3, <2>4
<1>6. ASSUME ClientIsNew PROVE BufferFollows'
  BY <1>6 DEF ClientIsNew, BufferFollows
<1>7. CASE UNCHANGED dvars
  BY <1>7, <1>0 DEF dvars, vars, loopVars, PendingStart
<1> QED
  BY <1>1, <1>2, <1>3, <1>4, <1>5, <1>6, <1>7 DEF DNext, SplitUnread, NewClient

\* What Client::RecvVideoPacket decodes is a whole frame, or a loss was logged,
\* or the gap was one of the two that the test of the numbers cannot see.
THEOREM DecodesWholeOrLoggedHolds == DSpec => DecodesWholeOrLogged
<1>1. DInit => PendingFollows /\ BufferFollows
  BY SplitterAssumption DEF DInit, PendingFollows, BufferFollows
<1>2. BInv /\ [DNext]_dvars => PendingFollows' /\ BufferFollows'
  BY PendingInductive, BufferInductive DEF BInv
<1>3. DSpec => []BInv
  BY <1>1, <1>2, CursorHolds, IInvHolds, DistributionRefinesSplitter, PTL DEF DSpec, BInv
<1>4. ASSUME BInv, RecvVideoPacket
      PROVE  \/ Continues(unit)
             \/ logged \/ IsLoss(unit)
             \/ missed \/ GapIsMissed(unit)
  BY <1>4, GapIsSeen DEF RecvVideoPacket
<1> QED
  BY <1>3, <1>4, PTL DEF DSpec, DecodesWholeOrLogged
=============================================================================
