--------------------------- MODULE VSFDistribution ---------------------------
(***************************************************************************)
(* The units of the splitter on their way to one client.  SendVideoLoop    *)
(* (ServerManager.cpp) splits a frame, reads the units back by their index *)
(* and offers each to the client; queues that are full and sockets without *)
(* room drop some.  Client::RecvVideoPacket puts the frame together again, *)
(* finds losses by the wrapping number and decodes on the mark.            *)
(*                                                                         *)
(* The splitter keeps its units in an SQList (Source/SQList.cpp on SList), *)
(* a linked list with a cursor; Get(i) walks on from where the last Get    *)
(* ended.  Everything between AddVideoPacket and RecvVideoPacket keeps the *)
(* order and at most drops, so a unit arrives in the step it is offered or *)
(* not at all; a frame has left the loop before the next one is split.     *)
(***************************************************************************)
EXTENDS VSFSplitter

CONSTANT
  MaxMarks  \* bound: marked units lost between two calls of the decoder

ASSUME DistributionAssumption == MaxMarks \in Nat

VARIABLES
  current,   \* SList::m_pCurrent: 0 the head, n the n-th unit, Freed
  curIndex,  \* SQList::m_ulCurIndex
  doInit,    \* SQList::m_bDoInit
  index,     \* i of SendVideoLoop: units read so far
  unit,      \* pUnitPosInfo, before it is offered to the client
  lastSN,    \* Client::m_lLastSN
  tmpLen,    \* Client::m_ulTmpVideoBufLen
  whole,     \* history: the client's buffer holds bytes 0 .. tmpLen of a frame
  dropped,   \* history: units dropped since the last that arrived, capped
  marks,     \* history: marked ones among those lost since the last decoding
  logged,    \* history: a loss was logged since the last decoding
  missed     \* history: a gap was not, since then (see GapIsMissed)

listVars    == <<current, curIndex, doInit>>
loopVars    == <<index, unit>>
clientVars  == <<lastSN, tmpLen>>
historyVars == <<whole, dropped, marks, logged, missed>>
dvars == <<vars, listVars, loopVars, clientVars, historyVars>>

Freed == -1

NoUnit == [start |-> 0, end |-> 0, sn |-> -1, ended |-> FALSE]

DInit ==
  /\ Init
  /\ current = Freed /\ curIndex = 0 /\ doInit = TRUE
  /\ index = 0 /\ unit = NoUnit
  /\ lastSN = -1 /\ tmpLen = 0
  /\ whole = TRUE /\ dropped = 0 /\ marks = 0 /\ logged = FALSE /\ missed = FALSE
-----------------------------------------------------------------------------
(* SQList *)

\* Reset: the nodes are freed, the one under the cursor with them.
ListReset ==
  /\ current' = Freed
  /\ curIndex' = 0
  /\ doInit' = TRUE

\* Get(n) starts again from the head, or goes on from the unit before n.
StartsOver(n) == doInit \/ curIndex >= Len(dataList) \/ curIndex >= n

\* Fault variant: the walk goes one unit too far.
Walk_OneFurther(n) == IF StartsOver(n) THEN n + 1 ELSE current + (n - curIndex) + 1

Walk(n) == IF StartsOver(n) THEN n + 1 ELSE current + (n - curIndex)

\* SQList::Get(n) for n below the total: the cursor ends on the unit returned.
ListGet(n) ==
  /\ current' = Walk(n)
  /\ curIndex' = n
  /\ doInit' = FALSE
  /\ unit' = IF current' \in 1 .. Len(dataList) THEN dataList[current'] ELSE NoUnit
-----------------------------------------------------------------------------
(* SendVideoLoop *)

\* A client with an object of its own, which has had no packet.
ClientIsNew ==
  /\ lastSN' = -1 /\ tmpLen' = 0
  /\ whole' = TRUE /\ dropped' = 0 /\ marks' = 0 /\ logged' = FALSE /\ missed' = FALSE

FrameIsOut == ~doing /\ unit = NoUnit /\ index = Len(dataList)

\* The call of DoSplit, which empties the list through RemoveAll.
SplitFrame(n) ==
  /\ FrameIsOut
  /\ DoSplit(n)
  /\ ListReset
  /\ index' = 0
  /\ UNCHANGED <<unit, clientVars, historyVars>>

\* A frame that was split while no client was listed is not read, and the next
\* one is split; a client that comes then is new.
SplitUnread(n) ==
  /\ ~doing /\ unit = NoUnit
  /\ index = 0 /\ dataList # <<>>
  /\ DoSplit(n)
  /\ ListReset
  /\ ClientIsNew
  /\ UNCHANGED loopVars

SplitUnit ==
  /\ SplitMiddle \/ SplitLast
  /\ UNCHANGED <<listVars, loopVars, clientVars, historyVars>>

GetItemInfo ==
  /\ ~doing /\ unit = NoUnit
  /\ index < Len(dataList)
  /\ ListGet(index)
  /\ index' = index + 1
  /\ UNCHANGED <<vars, clientVars, historyVars>>

\* The unit is lost on its way, or the client is not in PLAY.
Drop ==
  /\ unit # NoUnit
  /\ unit.ended => marks < MaxMarks
  /\ unit' = NoUnit
  /\ dropped' = IF dropped < SNMod THEN dropped + 1 ELSE dropped
  /\ marks' = IF unit.ended THEN marks + 1 ELSE marks
  /\ UNCHANGED <<vars, listVars, index, clientVars, whole, logged, missed>>
-----------------------------------------------------------------------------
(* The client *)

Distance(a, b) == IF a > b THEN a - b ELSE b - a

\* Fault variant: a greater number is never a loss.
IsLoss_Backwards(u) == lastSN - u.sn > 1

\* abs(lCurSN - m_lLastSN) > 1
IsLoss(u) == Distance(u.sn, lastSN) > 1

\* The gaps the test cannot see: nearly a whole round of numbers is missing, or
\* the client is new and the first number it gets is 0.
GapIsMissed(u) ==
  \/ dropped >= SNMod - 2
  \/ lastSN = -1 /\ u.sn = 0 /\ u.start # 0

\* u continues what the client's buffer holds.
Continues(u) == whole /\ tmpLen = u.start /\ (dropped = 0 \/ u.start = 0)

\* Fault variant: the buffer is not emptied when a loss was logged.
AfterMark_KeepsLost(u) ==
  /\ tmpLen' = IF IsLoss(u) THEN tmpLen ELSE 0
  /\ whole' = TRUE
  /\ marks' = 0
  /\ logged' = FALSE
  /\ missed' = FALSE

\* The decoder is called, m_ulTmpVideoBufLen goes back to 0.
AfterMark(u) ==
  /\ tmpLen' = 0
  /\ whole' = TRUE
  /\ marks' = 0
  /\ logged' = FALSE
  /\ missed' = FALSE

\* RecvVideoPacket: append, look at the number, decode on the mark.
RecvVideoPacket ==
  /\ unit # NoUnit
  /\ unit' = NoUnit
  /\ lastSN' = unit.sn
  /\ dropped' = 0
  /\ \/ /\ unit.ended
        /\ AfterMark(unit)
     \/ /\ ~unit.ended
        /\ tmpLen' = tmpLen + (unit.end - unit.start)
        /\ whole' = Continues(unit)
        /\ logged' = (logged \/ IsLoss(unit))
        /\ missed' = (missed \/ GapIsMissed(unit))
        /\ UNCHANGED marks
  /\ UNCHANGED <<vars, listVars, index>>

\* The client is another one from now on.
NewClient ==
  /\ ClientIsNew
  /\ UNCHANGED <<vars, listVars, loopVars>>

DNext ==
  \/ \E n \in Lens : SplitFrame(n) \/ SplitUnread(n)
  \/ SplitUnit
  \/ GetItemInfo
  \/ Drop
  \/ RecvVideoPacket
  \/ NewClient

DSpec == DInit /\ [][DNext]_dvars
-----------------------------------------------------------------------------
DTypeOK ==
  /\ TypeOK
  /\ current \in Int /\ curIndex \in Nat /\ doInit \in BOOLEAN
  /\ index \in 0 .. Len(dataList)
  /\ unit \in UnitPositionInfo \union {NoUnit}
  /\ lastSN \in -1 .. SNMod - 1 /\ tmpLen \in Nat
  /\ dropped \in 0 .. SNMod /\ marks \in 0 .. MaxMarks
  /\ {whole, logged, missed} \subseteq BOOLEAN

\* What SendVideoLoop reads as unit number index of the frame is that unit of this
\* frame: the list's cursor, which remembers where the last Get ended, has been
\* taken back after the list was emptied and filled again.
ReadsInOrder == unit # NoUnit => index > 0 /\ unit = dataList[index]

\* The client's test of the numbers tells a loss from none, except in three
\* places: at the wrap to 0 it reports a loss where there is none, a new client
\* reports what went before it, and SNMod - 2 losses in a row escape it.
LossTestIsRight ==
  [][RecvVideoPacket =>
       /\ dropped \in 1 .. SNMod - 3 /\ lastSN # -1 => IsLoss(unit)
       /\ IsLoss(unit) => dropped > 0 \/ lastSN = -1 \/ unit.sn = 0]_dvars

\* What the decoder is given is a whole frame, or a loss has been logged since
\* it was called last, or the gap was one of those the test cannot see.  Not
\* even the loss of marked units, after which a buffer holds parts of several
\* frames, goes unnoticed, although the numbers wrap.
DecodesWholeOrLogged ==
  [][RecvVideoPacket /\ unit.ended =>
       \/ Continues(unit)
       \/ logged \/ IsLoss(unit)
       \/ missed \/ GapIsMissed(unit)]_dvars
=============================================================================
