------------------------- MODULE VSFPipelineProofs -------------------------
(***************************************************************************)
(* For any clients, any sizes of the queues and any number of units: the   *)
(* pipeline's types and queue bounds, that a queued pointer is good until  *)
(* the second GetNext after its own, and that packets and frames stay in   *)
(* order from the application to the sockets.                              *)
(***************************************************************************)
EXTENDS VSFPipeline, TLAPS

-----------------------------------------------------------------------------
(* Sequences *)

LEMMA AppendElement ==
  ASSUME NEW S, NEW q \in Seq(S), NEW x \in S
  PROVE  /\ Append(q, x) \in Seq(S)
         /\ Len(Append(q, x)) = Len(q) + 1
         /\ \A i \in 1 .. Len(q) : Append(q, x)[i] = q[i]
         /\ Append(q, x)[Len(q) + 1] = x
OBVIOUS

LEMMA TailElement ==
  ASSUME NEW S, NEW q \in Seq(S), q # <<>>
  PROVE  /\ Len(q) \in Nat \ {0}
         /\ Head(q) = q[1] /\ Head(q) \in S
         /\ Tail(q) \in Seq(S)
         /\ Len(Tail(q)) = Len(q) - 1
         /\ \A i \in 1 .. Len(q) - 1 : Tail(q)[i] = q[i + 1]
OBVIOUS

LEMMA EmptyElement ==
  ASSUME NEW S
  PROVE  <<>> \in Seq(S) /\ Len(<<>>) = 0
OBVIOUS

-----------------------------------------------------------------------------
(* Types *)

\* Every conjunct of TypeOK depends on these two facts about TCThread.
TCShape ==
  /\ tcPc = "share" => unit \in UnitSet
  /\ tcPc = "copy" => videoQ # <<>>

LEMMA ItemType ==
  ASSUME TypeOK, TCShape, tcPc = "share"
  PROVE  [frame |-> current, unit |-> unit, buf |-> 1 - bufIndex, take |-> takes] \in MsgItem
<1>1. 1 - bufIndex \in Buffers
  BY DEF TypeOK, TCTypeOK, Buffers
<1> QED
  BY <1>1 DEF TypeOK, TCTypeOK, TCShape, MsgItem

LEMMA TypeInit == Init => TypeOK /\ TCShape
<1> SUFFICES ASSUME Init PROVE TypeOK /\ TCShape
  OBVIOUS
<1> USE PipelineAssumption DEF Init
<1>1. 0 \in UnitSet /\ 0 \in Buffers /\ 0 \in 0 .. Units
  BY DEF UnitSet, Buffers
<1>2. <<>> \in Seq(Nat) /\ <<>> \in Seq(MsgItem) /\ Len(<<>>) = 0
  BY EmptyElement
<1>3. Nothing \in [frame : Nat, unit : UnitSet, content : Nat]
  BY <1>1 DEF Nothing
<1>4. /\ msgQ \in [Clients -> Seq(MsgItem)]
      /\ sent \in [Clients -> [frame : Nat, unit : UnitSet, content : Nat]]
  BY <1>2, <1>3
<1>5. \A c \in Clients : Len(msgQ[c]) <= MsgMax
  BY <1>2
<1>6. /\ ctrlQ \in Seq(Nat) /\ Len(ctrlQ) <= CtrlMax
      /\ videoQ \in Seq(Nat) /\ Len(videoQ) <= VideoMax
  BY <1>2
<1>7. tmp \in [Buffers -> [UnitSet -> Nat]]
  OBVIOUS
<1> QED
  BY <1>1, <1>4, <1>5, <1>6, <1>7 DEF TypeOK, AppTypeOK, QueueTypeOK, TCTypeOK, ClientTypeOK, TCShape

LEMMA TypeNext == TypeOK /\ TCShape /\ [Next]_vars => TypeOK' /\ TCShape'
<1> SUFFICES ASSUME AppTypeOK, QueueTypeOK, TCTypeOK, ClientTypeOK, TCShape, [Next]_vars
             PROVE  AppTypeOK' /\ QueueTypeOK' /\ TCTypeOK' /\ ClientTypeOK' /\ TCShape'
  BY DEF TypeOK
<1> USE PipelineAssumption DEF vars, appVars, imageVars, tcVars, clientVars
<1>1. UNCHANGED <<appVars, input>> => AppTypeOK'
  BY DEF AppTypeOK
<1>2. UNCHANGED <<ctrlQ, videoQ>> => QueueTypeOK'
  BY DEF QueueTypeOK
<1>3. UNCHANGED tcVars => TCTypeOK'
  BY DEF TCTypeOK
<1>4. UNCHANGED clientVars => ClientTypeOK'
  BY DEF ClientTypeOK
<1>5. UNCHANGED <<tcPc, unit, videoQ>> => TCShape'
  BY DEF TCShape
<1>6. CASE InputVideo
  <2>1. input' \in Nat
    BY <1>6 DEF InputVideo, AppTypeOK
  <2>2. QueueTypeOK'
    <3>1. CASE Len(ctrlQ) < CtrlMax /\ ctrlQ' = Append(ctrlQ, input')
      <4>1. ctrlQ' \in Seq(Nat) /\ Len(ctrlQ') = Len(ctrlQ) + 1
        BY <2>1, <3>1, AppendElement DEF QueueTypeOK
      <4> QED
        BY <1>6, <3>1, <4>1 DEF InputVideo, QueueTypeOK
    <3> QED
      BY <1>2, <1>6, <3>1 DEF InputVideo
  <2>3. AppTypeOK'
    BY <1>6, <2>1 DEF InputVideo, AppTypeOK
  <2> QED
    BY <1>3, <1>4, <1>5, <1>6, <2>2, <2>3 DEF InputVideo
<1>7. CASE Start \/ StartReturns \/ StopReturns \/ ImageThreadEnds
  <2>1. AppTypeOK'
    BY <1>7 DEF Start, StartReturns, StopReturns, ImageThreadEnds, AppTypeOK
  <2> QED
    BY <1>2, <1>3, <1>4, <1>5, <1>7, <2>1 DEF Start, StartReturns, StopReturns, ImageThreadEnds
<1>8. CASE Stop
  <2>1. AppTypeOK'
    <3>1. /\ input' = input /\ isAlive' = isAlive /\ imageRuns' = imageRuns
          /\ open' = FALSE /\ calling' = "Stop"
      BY <1>8 DEF Stop
    <3> QED
      BY <3>1 DEF AppTypeOK
  <2>2. ClientTypeOK'
    <3>1. <<>> \in Seq(MsgItem) /\ Len(<<>>) = 0
      BY EmptyElement
    <3>2. msgQ' = [c \in Clients |-> <<>>] /\ playing' = {} /\ sent' = sent
      BY <1>8 DEF Stop
    <3>3. msgQ' \in [Clients -> Seq(MsgItem)]
      BY <3>1, <3>2
    <3>4. \A c \in Clients : Len(msgQ'[c]) <= MsgMax
      BY <3>1, <3>2
    <3> QED
      BY <3>2, <3>3, <3>4 DEF ClientTypeOK
  <2> QED
    BY <1>2, <1>3, <1>5, <1>8, <2>1, <2>2 DEF Stop
<1>9. CASE UpdateVideo3
  <2>1. /\ ctrlQ' \in Seq(Nat) /\ Len(ctrlQ') <= CtrlMax
        /\ Head(ctrlQ) \in Nat
    <3>1. ctrlQ # <<>> /\ ctrlQ' = Tail(ctrlQ) /\ ctrlQ \in Seq(Nat)
      BY <1>9 DEF UpdateVideo3, QueueTypeOK
    <3>2. /\ ctrlQ' \in Seq(Nat) /\ Len(ctrlQ') = Len(ctrlQ) - 1
          /\ Head(ctrlQ) \in Nat /\ Len(ctrlQ) \in Nat
      BY <3>1, TailElement
    <3> QED
      BY <3>2 DEF QueueTypeOK
  <2>2. videoQ' \in Seq(Nat) /\ Len(videoQ') <= VideoMax /\ (videoQ # <<>> => videoQ' # <<>>)
    <3>1. CASE Len(videoQ) < VideoMax /\ videoQ' = Append(videoQ, Head(ctrlQ))
      <4>1. videoQ' \in Seq(Nat) /\ Len(videoQ') = Len(videoQ) + 1 /\ Len(videoQ) \in Nat
        BY <2>1, <3>1, AppendElement DEF QueueTypeOK
      <4>2. videoQ' # <<>>
        BY <4>1
      <4> QED
        BY <3>1, <4>1, <4>2
    <3> QED
      BY <1>9, <3>1 DEF UpdateVideo3, QueueTypeOK
  <2>3. QueueTypeOK'
    BY <2>1, <2>2 DEF QueueTypeOK
  <2>4. TCShape'
    BY <1>9, <2>2 DEF UpdateVideo3, TCShape
  <2> QED
    BY <1>1, <1>3, <1>4, <1>9, <2>3, <2>4 DEF UpdateVideo3
<1>10. CASE GetNextBegin
  <2>1. videoQ # <<>>
    BY <1>10 DEF GetNextBegin, FrameWaits, QueueTypeOK
  <2>2. TCTypeOK' /\ TCShape'
    BY <1>10, <2>1 DEF GetNextBegin, TCTypeOK, TCShape
  <2> QED
    BY <1>1, <1>2, <1>4, <1>10, <2>2 DEF GetNextBegin
<1>11. CASE GetNextCopy
  <2>1. Head(videoQ) \in Nat
    BY <1>11, TailElement DEF GetNextCopy, TCShape, QueueTypeOK
  <2>2. tmp' \in [Buffers -> [UnitSet -> Nat]]
    BY <1>11, <2>1 DEF GetNextCopy, TCTypeOK
  <2>3. TCTypeOK' /\ TCShape'
    BY <1>11, <2>2 DEF GetNextCopy, TCTypeOK, TCShape
  <2> QED
    BY <1>1, <1>2, <1>4, <1>11, <2>3 DEF GetNextCopy
<1>12. CASE GetNextReturns
  <2>1. videoQ # <<>> /\ videoQ \in Seq(Nat)
    BY <1>12 DEF GetNextReturns, TCShape, QueueTypeOK
  <2>2. /\ Head(videoQ) \in Nat /\ Tail(videoQ) \in Seq(Nat)
        /\ Len(Tail(videoQ)) = Len(videoQ) - 1 /\ Len(videoQ) \in Nat
    BY <2>1, TailElement
  <2>3. QueueTypeOK'
    BY <1>12, <2>2 DEF GetNextReturns, Rest, QueueTypeOK
  <2>4. bufIndex' \in Buffers
    BY <1>12 DEF GetNextReturns, OtherBuffer, Buffers, TCTypeOK
  <2>5. TCTypeOK'
    BY <1>12, <2>2, <2>4 DEF GetNextReturns, TCTypeOK
  <2>6. TCShape'
    BY <1>12 DEF GetNextReturns, TCShape, UnitSet
  <2> QED
    BY <1>1, <1>4, <1>12, <2>3, <2>5, <2>6 DEF GetNextReturns
<1>13. CASE NextUnit
  <2>1. TCTypeOK' /\ TCShape'
    BY <1>13 DEF NextUnit, TCTypeOK, TCShape, UnitSet
  <2> QED
    BY <1>1, <1>2, <1>4, <1>13, <2>1 DEF NextUnit
<1>14. ASSUME NEW c \in Clients, AddVideoPacket(c)
       PROVE  AppTypeOK' /\ QueueTypeOK' /\ TCTypeOK' /\ ClientTypeOK' /\ TCShape'
  <2>1. ClientTypeOK'
    <3>1. CASE UNCHANGED msgQ
      BY <1>4, <1>14, <3>1 DEF AddVideoPacket
    <3> DEFINE m == [frame |-> current, unit |-> unit, buf |-> 1 - bufIndex, take |-> takes]
    <3>2. CASE HasRoom(c) /\ msgQ' = [msgQ EXCEPT ![c] = Append(@, m)]
      <4>1. m \in MsgItem
        BY <1>14, ItemType DEF AddVideoPacket, TypeOK
      <4>2. msgQ' = [msgQ EXCEPT ![c] = Append(msgQ[c], m)]
        BY <3>2
      <4> HIDE DEF m
      <4>3. Append(msgQ[c], m) \in Seq(MsgItem) /\ Len(Append(msgQ[c], m)) = Len(msgQ[c]) + 1
        BY <4>1, AppendElement DEF ClientTypeOK
      <4>4. msgQ' \in [Clients -> Seq(MsgItem)]
        BY <4>2, <4>3 DEF ClientTypeOK
      <4>5. Len(msgQ[c]) \in Nat /\ Len(msgQ[c]) < MsgMax
        BY <3>2 DEF HasRoom, ClientTypeOK
      <4>6. \A d \in Clients : Len(msgQ'[d]) <= MsgMax
        BY <4>2, <4>3, <4>5 DEF ClientTypeOK
      <4> QED
        BY <1>14, <4>4, <4>6 DEF AddVideoPacket, ClientTypeOK
    <3> QED
      BY <1>14, <3>1, <3>2 DEF AddVideoPacket
  <2>2. TCTypeOK'
    BY <1>14 DEF AddVideoPacket, TCTypeOK
  <2> QED
    BY <1>1, <1>2, <1>5, <1>14, <2>1, <2>2 DEF AddVideoPacket
<1>15. ASSUME NEW c \in Clients, Play(c) \/ StopPlaying(c)
       PROVE  AppTypeOK' /\ QueueTypeOK' /\ TCTypeOK' /\ ClientTypeOK' /\ TCShape'
  <2>1. ClientTypeOK'
    BY <1>15 DEF Play, StopPlaying, ClientTypeOK
  <2> QED
    BY <1>1, <1>2, <1>3, <1>5, <1>15, <2>1 DEF Play, StopPlaying
<1>16. ASSUME NEW c \in Clients, SendPacket(c)
       PROVE  AppTypeOK' /\ QueueTypeOK' /\ TCTypeOK' /\ ClientTypeOK' /\ TCShape'
  <2>1. /\ Head(msgQ[c]) \in MsgItem
        /\ Tail(msgQ[c]) \in Seq(MsgItem)
        /\ Len(msgQ[c]) \in Nat
        /\ Len(Tail(msgQ[c])) = Len(msgQ[c]) - 1
    BY <1>16, TailElement DEF SendPacket, ClientTypeOK
  <2>2. msgQ' \in [Clients -> Seq(MsgItem)]
    BY <1>16, <2>1 DEF SendPacket, ClientTypeOK
  <2>3. \A d \in Clients : Len(msgQ'[d]) <= MsgMax
    <3>1. msgQ' = [msgQ EXCEPT ![c] = Tail(msgQ[c])] /\ msgQ \in [Clients -> Seq(MsgItem)]
      BY <1>16 DEF SendPacket, ClientTypeOK
    <3>2. Len(Tail(msgQ[c])) <= MsgMax
      BY <2>1, <1>16 DEF ClientTypeOK
    <3>3. \A d \in Clients : msgQ'[d] = IF d = c THEN Tail(msgQ[c]) ELSE msgQ[d]
      BY <3>1
    <3> QED
      BY <3>2, <3>3 DEF ClientTypeOK
  <2>4. sent' \in [Clients -> [frame : Nat, unit : UnitSet, content : Nat]]
    <3> DEFINE item == Head(msgQ[c])
    <3>1. /\ item.frame \in Nat /\ item.unit \in UnitSet
          /\ item.buf \in Buffers /\ item.take \in Nat
      BY <2>1 DEF MsgItem
    <3>2. tmp[item.buf][item.unit] \in Nat
      BY <3>1 DEF TCTypeOK
    <3>3. CASE UNCHANGED sent
      BY <3>3 DEF ClientTypeOK
    <3>4. CASE sent' = [sent EXCEPT ![c] = [frame |-> item.frame, unit |-> item.unit,
                          content |-> tmp[item.buf][item.unit]]]
      BY <3>1, <3>2, <3>4 DEF ClientTypeOK
    <3> QED
      BY <1>16, <3>3, <3>4 DEF SendPacket
  <2>5. ClientTypeOK'
    BY <1>16, <2>2, <2>3, <2>4 DEF SendPacket, ClientTypeOK
  <2> QED
    BY <1>1, <1>2, <1>3, <1>5, <1>16, <2>5 DEF SendPacket
<1>17. CASE UNCHANGED vars
  BY <1>1, <1>2, <1>3, <1>4, <1>5, <1>17
<1> QED
  BY <1>6, <1>7, <1>8, <1>9, <1>10, <1>11, <1>12, <1>13, <1>14, <1>15, <1>16, <1>17
     DEF Next, Application, TCThread

\* The types and the bounds of all queues, for every size of them.
THEOREM TypeCorrect == Spec => []TypeOK
<1>1. Init => TypeOK /\ TCShape
  BY TypeInit
<1>2. TypeOK /\ TCShape /\ [Next]_vars => (TypeOK /\ TCShape)'
  BY TypeNext
<1> QED
  BY <1>1, <1>2, PTL DEF Spec
-----------------------------------------------------------------------------
(* Pointers *)

\* What PointersGood needs of one packet: b is the buffer the next GetNext fills,
\* n the number of GetNext that returned, g of those that began, t the buffers.
\* The packets of the last GetNext are in the other buffer, so a copy that has
\* begun spoils only packets that are two calls old.
ItemGood(item, b, n, g, t) ==
  /\ item.take <= n
  /\ item.take = n => item.buf # b
  /\ g < item.take + 2 => t[item.buf][item.unit] = item.frame

QueueGood(q, b, n, g, t) == \A i \in 1 .. Len(q) : ItemGood(q[i], b, n, g, t)

QueuesGood == \A c \in Clients : QueueGood(msgQ[c], bufIndex, takes, Begun, tmp)

\* The units copied so far are the head's.
CopyGood == tcPc = "copy" => \A u \in UnitSet : u < unit => tmp[bufIndex][u] = Head(videoQ)

\* The units being shared out are the current frame's.
ShareGood == tcPc = "share" => \A u \in UnitSet : tmp[1 - bufIndex][u] = current

PInv == CopyGood /\ ShareGood /\ QueuesGood

LEMMA AppendGood ==
  ASSUME NEW q \in Seq(MsgItem), NEW m \in MsgItem, NEW b, NEW n, NEW g, NEW t,
         QueueGood(q, b, n, g, t), ItemGood(m, b, n, g, t)
  PROVE  QueueGood(Append(q, m), b, n, g, t)
<1> SUFFICES ASSUME NEW i \in 1 .. Len(Append(q, m))
             PROVE  ItemGood(Append(q, m)[i], b, n, g, t)
  BY DEF QueueGood
<1>1. /\ Len(Append(q, m)) = Len(q) + 1 /\ Len(q) \in Nat
      /\ \A j \in 1 .. Len(q) : Append(q, m)[j] = q[j]
      /\ Append(q, m)[Len(q) + 1] = m
  BY AppendElement
<1>2. CASE i \in 1 .. Len(q)
  BY <1>1, <1>2, Zenon DEF QueueGood
<1>3. CASE i = Len(q) + 1
  BY <1>1, <1>3, Zenon
<1>4. i \in 1 .. Len(q) \/ i = Len(q) + 1
  BY <1>1
<1> QED
  BY <1>2, <1>3, <1>4

LEMMA TailGood ==
  ASSUME NEW q \in Seq(MsgItem), q # <<>>, NEW b, NEW n, NEW g, NEW t,
         QueueGood(q, b, n, g, t)
  PROVE  QueueGood(Tail(q), b, n, g, t)
<1> SUFFICES ASSUME NEW i \in 1 .. Len(Tail(q))
             PROVE  ItemGood(Tail(q)[i], b, n, g, t)
  BY DEF QueueGood
<1>1. /\ Len(q) \in Nat \ {0} /\ Len(Tail(q)) = Len(q) - 1
      /\ \A j \in 1 .. Len(q) - 1 : Tail(q)[j] = q[j + 1]
  BY TailElement
<1>2. i \in 1 .. Len(q) - 1 /\ i + 1 \in 1 .. Len(q)
  BY <1>1
<1>3. Tail(q)[i] = q[i + 1]
  BY <1>1, <1>2, Zenon
<1> QED
  BY <1>2, <1>3, Zenon DEF QueueGood

\* GetNext begins: nothing is spoiled yet, and less is claimed.
LEMMA BeginKeepsItems ==
  ASSUME NEW q \in Seq(MsgItem), NEW b, NEW n \in Nat, NEW t,
         QueueGood(q, b, n, n, t)
  PROVE  QueueGood(q, b, n, n + 1, t)
<1> SUFFICES ASSUME NEW i \in 1 .. Len(q)
             PROVE  ItemGood(q[i], b, n, n + 1, t)
  BY Zenon DEF QueueGood
<1>1. q[i] \in MsgItem
  OBVIOUS
<1>2. q[i].take \in Nat
  BY <1>1 DEF MsgItem
<1>3. ItemGood(q[i], b, n, n, t)
  BY DEF QueueGood
<1> QED
  BY <1>2, <1>3 DEF ItemGood

\* GetNext copies: only packets of the call before the last are in its buffer.
LEMMA CopyKeepsItems ==
  ASSUME NEW q \in Seq(MsgItem), NEW b \in Buffers, NEW n \in Nat,
         NEW t \in [Buffers -> [UnitSet -> Nat]], NEW u \in UnitSet, NEW f \in Nat,
         QueueGood(q, b, n, n + 1, t)
  PROVE  QueueGood(q, b, n, n + 1, [t EXCEPT ![b][u] = f])
<1> DEFINE s == [t EXCEPT ![b][u] = f]
<1>1. \A a \in Buffers : a # b => s[a] = t[a]
  OBVIOUS
<1> HIDE DEF s
<1> SUFFICES ASSUME NEW i \in 1 .. Len(q)
             PROVE  ItemGood(q[i], b, n, n + 1, s)
  BY Zenon DEF QueueGood, s
<1>2. q[i] \in MsgItem
  OBVIOUS
<1>3. q[i].take \in Nat /\ q[i].buf \in Buffers
  BY <1>2 DEF MsgItem
<1>4. ItemGood(q[i], b, n, n + 1, t)
  BY Zenon DEF QueueGood
<1>5. n + 1 < q[i].take + 2 => q[i].take = n
  BY <1>3, <1>4 DEF ItemGood
<1> QED
  BY <1>1, <1>3, <1>4, <1>5, Zenon DEF ItemGood

\* GetNext returns: every packet is now one call older.
LEMMA ReturnKeepsItems ==
  ASSUME NEW q \in Seq(MsgItem), NEW b, NEW n \in Nat, NEW t,
         QueueGood(q, b, n, n + 1, t)
  PROVE  QueueGood(q, 1 - b, n + 1, n + 1, t)
<1> SUFFICES ASSUME NEW i \in 1 .. Len(q)
             PROVE  ItemGood(q[i], 1 - b, n + 1, n + 1, t)
  BY Zenon DEF QueueGood
<1>1. q[i] \in MsgItem
  OBVIOUS
<1>2. q[i].take \in Nat
  BY <1>1 DEF MsgItem
<1>3. ItemGood(q[i], b, n, n + 1, t)
  BY Zenon DEF QueueGood
<1> QED
  BY <1>2, <1>3 DEF ItemGood

LEMMA PointersNext ==
  TypeOK /\ TCShape /\ PInv /\ [Next]_vars => PInv'
<1> SUFFICES ASSUME TypeOK, TCShape, PInv, [Next]_vars
             PROVE  CopyGood' /\ ShareGood' /\ QueuesGood'
  BY Zenon DEF PInv
<1> USE PipelineAssumption DEF vars, appVars, imageVars, tcVars, clientVars
<1>0. QueueTypeOK /\ TCTypeOK /\ ClientTypeOK /\ CopyGood /\ ShareGood /\ QueuesGood
  BY Zenon DEF TypeOK, PInv
<1>1. UNCHANGED <<tcVars, videoQ>> => CopyGood'
  BY <1>0 DEF CopyGood
<1>2. UNCHANGED tcVars => ShareGood'
  BY <1>0 DEF ShareGood
<1>3. UNCHANGED <<tcVars, msgQ>> => QueuesGood'
  BY <1>0 DEF QueuesGood, Begun
<1>4. CASE InputVideo \/ Start \/ StartReturns \/ StopReturns \/ ImageThreadEnds
  BY <1>1, <1>2, <1>3, <1>4 DEF InputVideo, Start, StartReturns, StopReturns, ImageThreadEnds
<1>5. CASE Stop
  <2>1. \A c \in Clients : msgQ'[c] = <<>> /\ Len(<<>>) = 0
    BY <1>5 DEF Stop
  <2>2. \A c \in Clients : 1 .. Len(msgQ'[c]) = {}
    BY <2>1
  <2>3. QueuesGood'
    BY <2>2, Zenon DEF QueuesGood, QueueGood
  <2> QED
    BY <1>1, <1>2, <1>5, <2>3 DEF Stop
<1>6. CASE UpdateVideo3
  <2>1. CopyGood'
    <3>1. CASE tcPc = "copy" /\ videoQ' = Append(videoQ, Head(ctrlQ))
      <4>1. videoQ # <<>> /\ videoQ \in Seq(Nat) /\ ctrlQ \in Seq(Nat) /\ ctrlQ # <<>>
        BY <1>0, <1>6, <3>1 DEF TCShape, QueueTypeOK, UpdateVideo3
      <4>2. Head(ctrlQ) \in Nat
        BY <4>1, TailElement
      <4>3. Head(videoQ') = Head(videoQ)
        BY <3>1, <4>1, <4>2
      <4> QED
        BY <1>0, <1>6, <4>3 DEF CopyGood, UpdateVideo3
    <3>2. CASE tcPc # "copy"
      BY <1>6, <3>2 DEF CopyGood, UpdateVideo3
    <3>3. CASE UNCHANGED videoQ
      BY <1>1, <1>6, <3>3 DEF UpdateVideo3
    <3> QED
      BY <1>6, <3>1, <3>2, <3>3 DEF UpdateVideo3
  <2> QED
    BY <1>2, <1>3, <1>6, <2>1 DEF UpdateVideo3
<1>7. CASE GetNextBegin
  <2>1. CopyGood'
    BY <1>7 DEF GetNextBegin, CopyGood, UnitSet
  <2>2. ShareGood'
    BY <1>7 DEF GetNextBegin, ShareGood
  <2>3. Begun = takes /\ Begun' = takes + 1
    BY <1>7 DEF GetNextBegin, Begun
  <2>4. takes \in Nat /\ msgQ \in [Clients -> Seq(MsgItem)]
    BY <1>0 DEF TCTypeOK, ClientTypeOK
  <2>5. \A c \in Clients : QueueGood(msgQ[c], bufIndex, takes, takes + 1, tmp)
    BY <1>0, <2>3, <2>4, BeginKeepsItems DEF QueuesGood
  <2> QED
    BY <1>7, <2>1, <2>2, <2>3, <2>5 DEF GetNextBegin, QueuesGood
<1>8. CASE GetNextCopy
  <2>1. /\ tcPc = "copy" /\ unit \in UnitSet /\ bufIndex \in Buffers /\ takes \in Nat
        /\ tmp \in [Buffers -> [UnitSet -> Nat]]
        /\ tmp' = [tmp EXCEPT ![bufIndex][unit] = Head(videoQ)]
        /\ msgQ \in [Clients -> Seq(MsgItem)]
    BY <1>0, <1>8 DEF GetNextCopy, TCTypeOK, ClientTypeOK, UnitSet
  <2>2. Head(videoQ) \in Nat
    BY <1>0, <2>1, TailElement DEF TCShape, QueueTypeOK
  <2>3. Begun = takes + 1 /\ Begun' = takes + 1
    BY <1>8 DEF GetNextCopy, Begun
  <2>4. \A c \in Clients : QueueGood(msgQ[c], bufIndex, takes, takes + 1, tmp)
    BY <1>0, <2>3 DEF QueuesGood
  <2>5. \A c \in Clients : QueueGood(msgQ[c], bufIndex, takes, takes + 1, tmp')
    BY <2>1, <2>2, <2>4, CopyKeepsItems
  <2>6. QueuesGood'
    BY <1>8, <2>3, <2>5 DEF GetNextCopy, QueuesGood
  <2>7. \A u \in UnitSet : u < unit + 1 => tmp'[bufIndex][u] = Head(videoQ)
    BY <1>0, <2>1, <2>2 DEF CopyGood, UnitSet
  <2>8. CopyGood'
    BY <1>8, <2>7 DEF GetNextCopy, CopyGood
  <2>9. ShareGood'
    BY <1>8 DEF GetNextCopy, ShareGood
  <2> QED
    BY <2>6, <2>8, <2>9
<1>9. CASE GetNextReturns
  <2>1. /\ tcPc = "copy" /\ unit = Units /\ bufIndex \in Buffers /\ takes \in Nat
        /\ msgQ \in [Clients -> Seq(MsgItem)]
    BY <1>0, <1>9 DEF GetNextReturns, TCTypeOK, ClientTypeOK
  <2>2. Begun = takes + 1 /\ Begun' = takes + 1
    BY <1>9 DEF GetNextReturns, Begun
  <2>3. \A c \in Clients : QueueGood(msgQ[c], bufIndex, takes, takes + 1, tmp)
    BY <1>0, <2>2 DEF QueuesGood
  <2>4. \A c \in Clients : QueueGood(msgQ[c], 1 - bufIndex, takes + 1, takes + 1, tmp)
    BY <2>1, <2>3, ReturnKeepsItems
  <2>5. QueuesGood'
    BY <1>9, <2>2, <2>4 DEF GetNextReturns, OtherBuffer, QueuesGood
  <2>6. \A u \in UnitSet : tmp[bufIndex][u] = Head(videoQ)
    BY <1>0, <2>1 DEF CopyGood, UnitSet
  <2>7. 1 - bufIndex' = bufIndex /\ tmp' = tmp /\ current' = Head(videoQ)
    BY <1>9, <2>1 DEF GetNextReturns, OtherBuffer, Buffers
  <2>8. ShareGood'
    BY <2>6, <2>7 DEF ShareGood
  <2>9. CopyGood'
    BY <1>9 DEF GetNextReturns, CopyGood
  <2> QED
    BY <2>5, <2>8, <2>9
<1>10. CASE NextUnit
  <2>1. CopyGood' /\ ShareGood'
    BY <1>0, <1>10 DEF NextUnit, CopyGood, ShareGood
  <2>2. Begun' = Begun
    BY <1>10 DEF NextUnit, Begun
  <2> QED
    BY <1>0, <1>10, <2>1, <2>2 DEF NextUnit, QueuesGood
<1>11. ASSUME NEW c \in Clients, AddVideoPacket(c)
       PROVE  CopyGood' /\ ShareGood' /\ QueuesGood'
  <2>1. CopyGood' /\ ShareGood'
    BY <1>0, <1>11 DEF AddVideoPacket, CopyGood, ShareGood
  <2>2. CASE UNCHANGED msgQ
    <3>1. Begun' = Begun
      BY <1>11 DEF AddVideoPacket, Begun
    <3> QED
      BY <1>0, <1>11, <2>1, <2>2, <3>1 DEF AddVideoPacket, QueuesGood
  <2> DEFINE m == [frame |-> current, unit |-> unit, buf |-> 1 - bufIndex, take |-> takes]
  <2>3. CASE msgQ' = [msgQ EXCEPT ![c] = Append(@, m)]
    <3>1. tcPc = "share" /\ unit \in UnitSet /\ bufIndex \in Buffers /\ takes \in Nat
      BY <1>0, <1>11 DEF AddVideoPacket, TCTypeOK, TCShape
    <3>2. Begun = takes /\ Begun' = takes
      BY <1>11, <3>1 DEF AddVideoPacket, Begun
    <3>3. m \in MsgItem
      BY <3>1, ItemType
    <3>4. ItemGood(m, bufIndex, takes, takes, tmp)
      BY <1>0, <3>1 DEF ItemGood, ShareGood, Buffers
    <3> HIDE DEF m
    <3>5. msgQ \in [Clients -> Seq(MsgItem)]
      BY <1>0 DEF ClientTypeOK
    <3>6. QueueGood(Append(msgQ[c], m), bufIndex, takes, takes, tmp)
      BY <1>0, <3>2, <3>3, <3>4, <3>5, AppendGood DEF QueuesGood
    <3>7. \A d \in Clients : (d = c => msgQ'[d] = Append(msgQ[c], m)) /\ (d # c => msgQ'[d] = msgQ[d])
      BY <2>3, <3>5
    <3>8. \A d \in Clients : QueueGood(msgQ'[d], bufIndex, takes, takes, tmp)
      BY <1>0, <3>2, <3>6, <3>7, Zenon DEF QueuesGood
    <3> QED
      BY <1>11, <2>1, <3>2, <3>8 DEF AddVideoPacket, QueuesGood
  <2> QED
    BY <1>11, <2>2, <2>3 DEF AddVideoPacket
<1>12. ASSUME NEW c \in Clients, Play(c) \/ StopPlaying(c)
       PROVE  CopyGood' /\ ShareGood' /\ QueuesGood'
  BY <1>1, <1>2, <1>3, <1>12 DEF Play, StopPlaying
<1>13. ASSUME NEW c \in Clients, SendPacket(c)
       PROVE  CopyGood' /\ ShareGood' /\ QueuesGood'
  <2>1. /\ msgQ \in [Clients -> Seq(MsgItem)] /\ msgQ[c] # <<>>
        /\ msgQ' = [msgQ EXCEPT ![c] = Tail(msgQ[c])]
    BY <1>0, <1>13 DEF SendPacket, ClientTypeOK
  <2>2. QueueGood(Tail(msgQ[c]), bufIndex, takes, Begun, tmp)
    BY <1>0, <2>1, TailGood DEF QueuesGood
  <2>3. \A d \in Clients : (d = c => msgQ'[d] = Tail(msgQ[c])) /\ (d # c => msgQ'[d] = msgQ[d])
    BY <2>1
  <2>4. \A d \in Clients : QueueGood(msgQ'[d], bufIndex, takes, Begun, tmp)
    BY <1>0, <2>2, <2>3, Zenon DEF QueuesGood
  <2>5. UNCHANGED <<tcVars, videoQ>> /\ Begun' = Begun
    BY <1>13 DEF SendPacket, Begun
  <2>6. QueuesGood'
    BY <2>4, <2>5 DEF QueuesGood
  <2> QED
    BY <1>1, <1>2, <2>5, <2>6
<1>14. CASE UNCHANGED vars
  BY <1>1, <1>2, <1>3, <1>14
<1> QED
  BY <1>4, <1>5, <1>6, <1>7, <1>8, <1>9, <1>10, <1>11, <1>12, <1>13, <1>14
     DEF Next, Application, TCThread

\* The two buffers of the video queue keep the bytes of every queued packet until
\* the second GetNext after its own begins, for any number of clients, units and
\* places in the queues, and whatever the order of the threads.
THEOREM PointersStayGood == Spec => []PointersGood
<1>1. Init => TypeOK /\ TCShape /\ PInv
  <2>1. Init => CopyGood /\ ShareGood
    BY DEF Init, CopyGood, ShareGood
  <2>2. Init => \A c \in Clients : 1 .. Len(msgQ[c]) = {}
    BY DEF Init
  <2>3. Init => QueuesGood
    BY <2>2, Zenon DEF QueuesGood, QueueGood
  <2> QED
    BY <2>1, <2>3, TypeInit DEF PInv
<1>2. TypeOK /\ TCShape /\ PInv /\ [Next]_vars => (TypeOK /\ TCShape /\ PInv)'
  BY TypeNext, PointersNext
<1>3. PInv => PointersGood
  BY Zenon DEF PInv, QueuesGood, QueueGood, ItemGood, PointersGood
<1> QED
  BY <1>1, <1>2, <1>3, PTL DEF Spec
-----------------------------------------------------------------------------
(* The order of frames *)

Sorted(q) == \A i, j \in 1 .. Len(q) : i < j => q[i] < q[j]

AllAbove(q, x) == \A i \in 1 .. Len(q) : x < q[i]

AllUpTo(q, x) == \A i \in 1 .. Len(q) : q[i] <= x

AllBelow(q, r) == \A i \in 1 .. Len(q), j \in 1 .. Len(r) : q[i] < r[j]

\* FramesInOrder(<<c>> \o v \o k, n), taken apart.
Frames(c, v, k, n) ==
  /\ c <= n
  /\ Sorted(v) /\ AllAbove(v, c) /\ AllUpTo(v, n)
  /\ Sorted(k) /\ AllAbove(k, c) /\ AllUpTo(k, n)
  /\ AllBelow(v, k)

LEMMA AppendSorted ==
  ASSUME NEW q \in Seq(Nat), NEW x \in Nat, Sorted(q), \A i \in 1 .. Len(q) : q[i] < x
  PROVE  Sorted(Append(q, x))
<1> DEFINE a == Append(q, x)
<1>1. /\ Len(q) \in Nat /\ Len(a) = Len(q) + 1
      /\ (\A i \in 1 .. Len(q) : a[i] = q[i]) /\ a[Len(q) + 1] = x
  BY AppendElement
<1> HIDE DEF a
<1>2. ASSUME NEW i \in 1 .. Len(a), NEW j \in 1 .. Len(a), i < j
      PROVE  a[i] < a[j]
  <2>1. i \in 1 .. Len(q) /\ a[i] = q[i]
    BY <1>1, <1>2
  <2>2. CASE j \in 1 .. Len(q)
    <3>1. a[j] = q[j] /\ q[i] < q[j]
      BY <1>1, <1>2, <2>1, <2>2, Zenon DEF Sorted
    <3> QED
      BY <2>1, <3>1
  <2>3. CASE j = Len(q) + 1
    BY <1>1, <2>1, <2>3
  <2> QED
    BY <1>1, <2>2, <2>3
<1> QED
  BY <1>2, Zenon DEF Sorted, a

LEMMA TailSorted ==
  ASSUME NEW q \in Seq(Nat), q # <<>>, Sorted(q)
  PROVE  Sorted(Tail(q)) /\ AllAbove(Tail(q), Head(q))
<1> DEFINE t == Tail(q)
           h == Head(q)
<1>1. /\ Len(q) \in Nat \ {0} /\ h = q[1] /\ Len(t) = Len(q) - 1
      /\ \A i \in 1 .. Len(q) - 1 : t[i] = q[i + 1]
  BY TailElement
<1> HIDE DEF h, t
<1>2. \A i \in 1 .. Len(t) : i + 1 \in 1 .. Len(q) /\ 1 < i + 1 /\ t[i] = q[i + 1]
  BY <1>1
<1>3. 1 \in 1 .. Len(q)
  BY <1>1
<1>4. AllAbove(t, h)
  BY <1>1, <1>2, <1>3, Zenon DEF AllAbove, Sorted
<1>5. \A i, j \in 1 .. Len(t) : i < j => i + 1 < j + 1
  BY <1>1
<1>6. Sorted(t)
  BY <1>2, <1>5, Zenon DEF Sorted
<1> QED
  BY <1>4, <1>6 DEF h, t

LEMMA Together ==
  ASSUME NEW c \in Nat, NEW v \in Seq(Nat), NEW k \in Seq(Nat), NEW n \in Nat,
         Frames(c, v, k, n)
  PROVE  FramesInOrder(<<c>> \o v \o k, n)
<1> DEFINE s == <<c>> \o v \o k
<1>1. /\ Len(v) \in Nat /\ Len(k) \in Nat
      /\ Len(s) = (1 + Len(v)) + Len(k)
  OBVIOUS
<1>2. s[1] = c
  OBVIOUS
<1>3. \A i \in 1 .. Len(v) : s[1 + i] = v[i]
  OBVIOUS
<1>4. \A j \in 1 .. Len(k) : s[(1 + Len(v)) + j] = k[j]
  OBVIOUS
<1>5. (\A i \in 1 .. Len(v) : v[i] \in Nat) /\ (\A j \in 1 .. Len(k) : k[j] \in Nat)
  OBVIOUS
<1> HIDE DEF s
<1>6. \A i \in 1 .. Len(s) : \/ i = 1
                             \/ (i - 1 \in 1 .. Len(v) /\ s[i] = v[i - 1])
                             \/ /\ (i - 1) - Len(v) \in 1 .. Len(k)
                                /\ s[i] = k[(i - 1) - Len(v)]
  <2> SUFFICES ASSUME NEW i \in 1 .. Len(s), i # 1
               PROVE  \/ i - 1 \in 1 .. Len(v) /\ s[i] = v[i - 1]
                      \/ /\ (i - 1) - Len(v) \in 1 .. Len(k)
                         /\ s[i] = k[(i - 1) - Len(v)]
    BY Zenon
  <2>1. CASE i - 1 \in 1 .. Len(v)
    <3>1. 1 + (i - 1) = i
      BY <1>1
    <3> QED
      BY <1>3, <2>1, <3>1
  <2>2. CASE i - 1 \notin 1 .. Len(v)
    <3>1. (i - 1) - Len(v) \in 1 .. Len(k)
      BY <1>1, <2>2
    <3>2. (1 + Len(v)) + ((i - 1) - Len(v)) = i
      BY <1>1
    <3> QED
      BY <1>4, <3>1, <3>2
  <2> QED
    BY <2>1, <2>2
<1>7. \A i \in 1 .. Len(s) : s[i] <= n
  BY <1>2, <1>6 DEF Frames, AllUpTo
<1>8. ASSUME NEW i \in 1 .. Len(s), NEW j \in 1 .. Len(s), i < j
      PROVE  s[i] < s[j]
  <2>1. CASE i = 1
    <3>1. j # 1
      BY <1>8, <2>1
    <3> QED
      BY <1>2, <1>6, <2>1, <3>1, Zenon DEF Frames, AllAbove
  <2>2. CASE i - 1 \in 1 .. Len(v) /\ s[i] = v[i - 1]
    <3>1. CASE j - 1 \in 1 .. Len(v) /\ s[j] = v[j - 1]
      <4>1. i - 1 < j - 1
        BY <1>1, <1>8
      <4>2. v[i - 1] < v[j - 1]
        BY <2>2, <3>1, <4>1, Zenon DEF Frames, Sorted
      <4> QED
        BY <2>2, <3>1, <4>2
    <3>2. CASE (j - 1) - Len(v) \in 1 .. Len(k) /\ s[j] = k[(j - 1) - Len(v)]
      BY <2>2, <3>2, Zenon DEF Frames, AllBelow
    <3>3. j # 1
      BY <1>1, <1>8, <2>2
    <3> QED
      BY <1>6, <3>1, <3>2, <3>3, Zenon
  <2>3. CASE (i - 1) - Len(v) \in 1 .. Len(k) /\ s[i] = k[(i - 1) - Len(v)]
    <3>1. (j - 1) - Len(v) \in 1 .. Len(k) /\ s[j] = k[(j - 1) - Len(v)]
      BY <1>1, <1>6, <1>8, <2>3
    <3>2. (i - 1) - Len(v) < (j - 1) - Len(v)
      BY <1>1, <1>8
    <3>3. k[(i - 1) - Len(v)] < k[(j - 1) - Len(v)]
      BY <2>3, <3>1, <3>2, Zenon DEF Frames, Sorted
    <3> QED
      BY <2>3, <3>1, <3>3
  <2> QED
    BY <1>6, <2>1, <2>2, <2>3
<1> QED
  BY <1>7, <1>8 DEF FramesInOrder, s

\* InputVideo queues the newest frame.
LEMMA FramesInput ==
  ASSUME NEW c \in Nat, NEW v \in Seq(Nat), NEW k \in Seq(Nat), NEW n \in Nat,
         Frames(c, v, k, n)
  PROVE  /\ Frames(c, v, k, n + 1)
         /\ Frames(c, v, Append(k, n + 1), n + 1)
<1> DEFINE a == Append(k, n + 1)
<1>1. n + 1 \in Nat
  OBVIOUS
<1>2. /\ Len(k) \in Nat /\ Len(a) = Len(k) + 1
      /\ (\A i \in 1 .. Len(k) : a[i] = k[i]) /\ a[Len(k) + 1] = n + 1
  BY <1>1, AppendElement
<1>3. (\A i \in 1 .. Len(v) : v[i] \in Nat) /\ (\A j \in 1 .. Len(k) : k[j] \in Nat)
  OBVIOUS
<1>4. Frames(c, v, k, n + 1)
  BY <1>3 DEF Frames, AllUpTo
<1> HIDE DEF a
<1>5. \A i \in 1 .. Len(a) : (i \in 1 .. Len(k) /\ a[i] = k[i]) \/ (i = Len(k) + 1 /\ a[i] = n + 1)
  BY <1>2
<1>6. /\ c < n + 1 /\ n + 1 <= n + 1
      /\ \A i \in 1 .. Len(v) : v[i] < n + 1
      /\ \A i \in 1 .. Len(k) : k[i] < n + 1 /\ k[i] <= n + 1
  BY <1>3 DEF Frames, AllUpTo
<1>7. AllAbove(a, c) /\ AllUpTo(a, n + 1) /\ AllBelow(v, a)
  BY <1>5, <1>6, Zenon DEF Frames, AllAbove, AllUpTo, AllBelow
<1>8. Sorted(a)
  BY <1>1, <1>6, AppendSorted DEF Frames, a
<1> QED
  BY <1>4, <1>7, <1>8 DEF Frames, a

\* UpdateVideo3 moves the oldest frame on, or loses it.
LEMMA FramesUpdate ==
  ASSUME NEW c \in Nat, NEW v \in Seq(Nat), NEW k \in Seq(Nat), NEW n \in Nat,
         k # <<>>, Frames(c, v, k, n)
  PROVE  /\ Frames(c, v, Tail(k), n)
         /\ Frames(c, Append(v, Head(k)), Tail(k), n)
<1> DEFINE t == Tail(k)
           h == Head(k)
           a == Append(v, h)
<1>1. /\ Len(k) \in Nat \ {0} /\ h = k[1] /\ h \in Nat /\ Len(t) = Len(k) - 1
      /\ \A i \in 1 .. Len(k) - 1 : t[i] = k[i + 1]
  BY TailElement
<1>2. /\ Len(v) \in Nat /\ Len(a) = Len(v) + 1
      /\ (\A i \in 1 .. Len(v) : a[i] = v[i]) /\ a[Len(v) + 1] = h
  BY <1>1, AppendElement
<1>3. (\A i \in 1 .. Len(v) : v[i] \in Nat) /\ (\A j \in 1 .. Len(k) : k[j] \in Nat)
  OBVIOUS
<1> HIDE DEF a, h, t
<1>4. \A i \in 1 .. Len(t) : i + 1 \in 1 .. Len(k) /\ i + 1 > 1 /\ t[i] = k[i + 1]
  BY <1>1
<1>5. \A i \in 1 .. Len(a) : (i \in 1 .. Len(v) /\ a[i] = v[i]) \/ (i = Len(v) + 1 /\ a[i] = k[1])
  BY <1>1, <1>2
<1>6. 1 \in 1 .. Len(k)
  BY <1>1
<1>7. Sorted(t) /\ AllAbove(t, h)
  BY TailSorted DEF Frames, t, h
<1>8. AllAbove(t, c) /\ AllUpTo(t, n) /\ AllBelow(v, t)
  BY <1>4, Zenon DEF Frames, AllAbove, AllUpTo, AllBelow
<1>9. Sorted(a)
  <2>1. \A i \in 1 .. Len(v) : v[i] < h
    BY <1>1, <1>6, Zenon DEF Frames, AllBelow
  <2> QED
    BY <1>1, <2>1, AppendSorted DEF Frames, a
<1>10. AllAbove(a, c) /\ AllUpTo(a, n)
  BY <1>5, <1>6, Zenon DEF Frames, AllAbove, AllUpTo
<1>11. AllBelow(a, t)
  BY <1>1, <1>5, <1>7, <1>8, Zenon DEF AllAbove, AllBelow
<1> QED
  BY <1>7, <1>8, <1>9, <1>10, <1>11 DEF Frames, a, h, t

\* GetNext takes the oldest encoded frame: it becomes the current one.
LEMMA FramesTake ==
  ASSUME NEW c \in Nat, NEW v \in Seq(Nat), NEW k \in Seq(Nat), NEW n \in Nat,
         v # <<>>, Frames(c, v, k, n)
  PROVE  Frames(Head(v), Tail(v), k, n) /\ c < Head(v)
<1> DEFINE t == Tail(v)
           h == Head(v)
<1>1. /\ Len(v) \in Nat \ {0} /\ h = v[1] /\ h \in Nat /\ Len(t) = Len(v) - 1
      /\ \A i \in 1 .. Len(v) - 1 : t[i] = v[i + 1]
  BY TailElement
<1>2. (\A i \in 1 .. Len(v) : v[i] \in Nat) /\ (\A j \in 1 .. Len(k) : k[j] \in Nat)
  OBVIOUS
<1> HIDE DEF h, t
<1>3. \A i \in 1 .. Len(t) : i + 1 \in 1 .. Len(v) /\ i + 1 > 1 /\ t[i] = v[i + 1]
  BY <1>1
<1>4. 1 \in 1 .. Len(v)
  BY <1>1
<1>5. h <= n /\ c < h
  BY <1>1, <1>4 DEF Frames, AllUpTo, AllAbove
<1>6. Sorted(t) /\ AllAbove(t, h)
  BY TailSorted DEF Frames, t, h
<1>8. AllUpTo(t, n)
  BY <1>3, Zenon DEF Frames, AllUpTo
<1>7. AllAbove(k, h) /\ AllBelow(t, k)
  BY <1>1, <1>3, <1>4 DEF Frames, AllAbove, AllBelow
<1> QED
  BY <1>5, <1>6, <1>7, <1>8 DEF Frames, h, t
-----------------------------------------------------------------------------
(* The order of a client's packets *)

\* ClientInOrder for a queue q, the packet s sent last and the place p where the
\* packets still to come begin.
PacketsInOrder(q, s, p) ==
  /\ \A i, j \in 1 .. Len(q) : i < j => Before(q[i], q[j])
  /\ \A i \in 1 .. Len(q) : Before(q[i], p)
  /\ s # Nothing => /\ \A i \in 1 .. Len(q) : Before(s, q[i])
                    /\ Before(s, p)

Place == [frame : Nat, unit : Nat]

Sent == [frame : Nat, unit : UnitSet, content : Nat]

LEMMA BeforeTransitive ==
  ASSUME NEW x, NEW y, NEW z,
         x.frame \in Nat, y.frame \in Nat, z.frame \in Nat,
         x.unit \in Nat, y.unit \in Nat, z.unit \in Nat,
         Before(x, y), Before(y, z)
  PROVE  Before(x, z)
BY DEF Before

LEMMA ItemPlace ==
  /\ \A m \in MsgItem : m.frame \in Nat /\ m.unit \in Nat
  /\ \A m \in Sent : m.frame \in Nat /\ m.unit \in Nat
  /\ \A m \in Place : m.frame \in Nat /\ m.unit \in Nat
<1>1. \A u \in UnitSet : u \in Nat
  BY PipelineAssumption DEF UnitSet
<1> QED
  BY <1>1 DEF MsgItem, Sent, Place

\* A later place leaves everything in order.
LEMMA PacketsLater ==
  ASSUME NEW q \in Seq(MsgItem), NEW s \in Sent, NEW p \in Place, NEW r \in Place,
         PacketsInOrder(q, s, p), Before(p, r)
  PROVE  PacketsInOrder(q, s, r)
<1>1. \A i \in 1 .. Len(q) : q[i] \in MsgItem
  OBVIOUS
<1>2. ASSUME NEW i \in 1 .. Len(q) PROVE Before(q[i], r)
  BY <1>1, ItemPlace, BeforeTransitive, Zenon DEF PacketsInOrder
<1>3. s # Nothing => Before(s, r)
  BY ItemPlace, BeforeTransitive, Zenon DEF PacketsInOrder
<1> QED
  BY <1>2, <1>3, Zenon DEF PacketsInOrder

\* The packet of the place is queued, and the place moves on to the next unit.
LEMMA PacketsAppend ==
  ASSUME NEW q \in Seq(MsgItem), NEW s \in Sent, NEW p \in Place, NEW r \in Place,
         NEW m \in MsgItem, m.frame = p.frame, m.unit = p.unit, Before(p, r),
         PacketsInOrder(q, s, p)
  PROVE  PacketsInOrder(Append(q, m), s, r)
<1> DEFINE a == Append(q, m)
<1>1. /\ Len(q) \in Nat /\ Len(a) = Len(q) + 1
      /\ (\A i \in 1 .. Len(q) : a[i] = q[i]) /\ a[Len(q) + 1] = m
  BY AppendElement
<1> HIDE DEF a
<1>2. \A i \in 1 .. Len(a) : (i \in 1 .. Len(q) /\ a[i] = q[i]) \/ a[i] = m
  BY <1>1
<1>3. \A i, j \in 1 .. Len(a) : i < j => i \in 1 .. Len(q) /\ a[i] = q[i]
  BY <1>1
<1>4. \A x : Before(x, p) => Before(x, m)
  BY DEF Before
<1>5. Before(m, r)
  BY DEF Before
<1>6. PacketsInOrder(q, s, r)
  BY PacketsLater
<1>7. \A i, j \in 1 .. Len(a) : i < j => Before(a[i], a[j])
  BY <1>2, <1>3, <1>4, Zenon DEF PacketsInOrder
<1>8. \A i \in 1 .. Len(a) : Before(a[i], r)
  BY <1>2, <1>5, <1>6, Zenon DEF PacketsInOrder
<1>9. s # Nothing => \A i \in 1 .. Len(a) : Before(s, a[i])
  BY <1>2, <1>4, Zenon DEF PacketsInOrder
<1> QED
  BY <1>6, <1>7, <1>8, <1>9, Zenon DEF PacketsInOrder, a

\* The oldest packet leaves the queue, sent or given up.
LEMMA PacketsTail ==
  ASSUME NEW q \in Seq(MsgItem), q # <<>>, NEW s \in Sent, NEW p \in Place,
         PacketsInOrder(q, s, p),
         NEW z \in Sent,
         z = s \/ (z.frame = Head(q).frame /\ z.unit = Head(q).unit)
  PROVE  PacketsInOrder(Tail(q), z, p)
<1> DEFINE t == Tail(q)
           h == Head(q)
<1>1. /\ Len(q) \in Nat \ {0} /\ h = q[1] /\ Len(t) = Len(q) - 1
      /\ \A i \in 1 .. Len(q) - 1 : t[i] = q[i + 1]
  BY TailElement
<1>2. z = s \/ (z.frame = h.frame /\ z.unit = h.unit)
  OBVIOUS
<1> HIDE DEF h, t
<1>3. \A i \in 1 .. Len(t) : i + 1 \in 1 .. Len(q) /\ 1 < i + 1 /\ t[i] = q[i + 1]
  BY <1>1
<1>4. 1 \in 1 .. Len(q)
  BY <1>1
<1>5. \A i, j \in 1 .. Len(t) : i < j => i + 1 < j + 1
  BY <1>1
<1>6. \A i, j \in 1 .. Len(t) : i < j => Before(t[i], t[j])
  BY <1>3, <1>5, Zenon DEF PacketsInOrder
<1>7. \A i \in 1 .. Len(t) : Before(t[i], p) /\ Before(h, t[i])
  BY <1>1, <1>3, <1>4, Zenon DEF PacketsInOrder
<1>8. Before(h, p)
  BY <1>1, <1>4, Zenon DEF PacketsInOrder
<1>9. CASE z = s
  BY <1>3, <1>6, <1>7, <1>9, Zenon DEF PacketsInOrder, t
<1>10. CASE z.frame = h.frame /\ z.unit = h.unit
  <2>1. \A x : Before(h, x) => Before(z, x)
    BY <1>10 DEF Before
  <2> QED
    BY <1>6, <1>7, <1>8, <2>1, Zenon DEF PacketsInOrder, t
<1> QED
  BY <1>2, <1>9, <1>10
PacketsAreInOrder == \A c \in Clients : PacketsInOrder(msgQ[c], sent[c], UpTo(c))

FramesAreInOrder == Frames(current, videoQ, ctrlQ, input)

LEMMA UnitNumbers == \A u \in 0 .. Units : u \in Nat /\ u + 1 \in Nat /\ Units \in Nat
BY PipelineAssumption

LEMMA UpToPlace == TypeOK => \A c \in Clients : UpTo(c) \in Place
<1> SUFFICES ASSUME TypeOK, NEW c \in Clients PROVE UpTo(c) \in Place
  OBVIOUS
<1>1. current \in Nat /\ unit \in Nat /\ Units \in Nat
  BY PipelineAssumption DEF TypeOK, TCTypeOK
<1> QED
  BY <1>1 DEF UpTo, Place

LEMMA FramesNext ==
  TypeOK /\ TCShape /\ FramesAreInOrder /\ [Next]_vars => FramesAreInOrder'
<1> SUFFICES ASSUME TypeOK, TCShape, FramesAreInOrder, [Next]_vars
             PROVE  FramesAreInOrder'
  OBVIOUS
<1> USE DEF vars, appVars, imageVars, tcVars, clientVars
<1>1. /\ current \in Nat /\ videoQ \in Seq(Nat) /\ ctrlQ \in Seq(Nat) /\ input \in Nat
      /\ Frames(current, videoQ, ctrlQ, input)
  BY DEF TypeOK, AppTypeOK, QueueTypeOK, TCTypeOK, FramesAreInOrder
<1>2. UNCHANGED <<current, videoQ, ctrlQ, input>> => FramesAreInOrder'
  BY <1>1 DEF FramesAreInOrder
<1>3. CASE InputVideo
  <2>1. /\ Frames(current, videoQ, ctrlQ, input + 1)
        /\ Frames(current, videoQ, Append(ctrlQ, input + 1), input + 1)
    BY <1>1, FramesInput
  <2>2. /\ input' = input + 1 /\ current' = current /\ videoQ' = videoQ
        /\ ctrlQ' = ctrlQ \/ ctrlQ' = Append(ctrlQ, input + 1)
    BY <1>3 DEF InputVideo
  <2> QED
    BY <2>1, <2>2 DEF FramesAreInOrder
<1>4. CASE UpdateVideo3
  <2>1. /\ Frames(current, videoQ, Tail(ctrlQ), input)
        /\ Frames(current, Append(videoQ, Head(ctrlQ)), Tail(ctrlQ), input)
    BY <1>1, <1>4, FramesUpdate DEF UpdateVideo3
  <2>2. /\ input' = input /\ current' = current /\ ctrlQ' = Tail(ctrlQ)
        /\ videoQ' = videoQ \/ videoQ' = Append(videoQ, Head(ctrlQ))
    BY <1>4 DEF UpdateVideo3
  <2> QED
    BY <2>1, <2>2 DEF FramesAreInOrder
<1>5. CASE GetNextReturns
  <2>1. videoQ # <<>>
    BY <1>5 DEF GetNextReturns, TCShape
  <2>2. Frames(Head(videoQ), Tail(videoQ), ctrlQ, input)
    BY <1>1, <2>1, FramesTake
  <2>3. input' = input /\ current' = Head(videoQ) /\ videoQ' = Tail(videoQ) /\ ctrlQ' = ctrlQ
    BY <1>5 DEF GetNextReturns, Rest
  <2> QED
    BY <2>2, <2>3 DEF FramesAreInOrder
<1>6. CASE Start \/ StartReturns \/ Stop \/ StopReturns \/ ImageThreadEnds
  BY <1>2, <1>6 DEF Start, StartReturns, Stop, StopReturns, ImageThreadEnds
<1>7. CASE GetNextBegin \/ GetNextCopy \/ NextUnit
  BY <1>2, <1>7 DEF GetNextBegin, GetNextCopy, NextUnit
<1>8. ASSUME NEW c \in Clients, AddVideoPacket(c) \/ Play(c) \/ StopPlaying(c) \/ SendPacket(c)
      PROVE  FramesAreInOrder'
  BY <1>2, <1>8 DEF AddVideoPacket, Play, StopPlaying, SendPacket
<1>9. CASE UNCHANGED vars
  BY <1>2, <1>9
<1> QED
  BY <1>3, <1>4, <1>5, <1>6, <1>7, <1>8, <1>9 DEF Next, Application, TCThread

LEMMA PacketsNext ==
  TypeOK /\ TypeOK' /\ TCShape /\ FramesAreInOrder /\ PacketsAreInOrder /\ [Next]_vars
    => PacketsAreInOrder'
<1> SUFFICES ASSUME TypeOK, TypeOK', TCShape, FramesAreInOrder, PacketsAreInOrder, [Next]_vars
             PROVE  PacketsAreInOrder'
  OBVIOUS
<1> USE DEF vars, appVars, imageVars, tcVars, clientVars
<1>1. /\ msgQ \in [Clients -> Seq(MsgItem)] /\ sent \in [Clients -> Sent]
      /\ sent' \in [Clients -> Sent]
      /\ \A c \in Clients : UpTo(c) \in Place /\ UpTo(c)' \in Place
  <2>1. \A c \in Clients : UpTo(c) \in Place
    BY UpToPlace
  <2>2. \A c \in Clients : UpTo(c)' \in Place
    <3>0. current' \in Nat /\ unit' \in 0 .. Units
      BY Zenon DEF TypeOK, TCTypeOK
    <3>1. current' \in Nat /\ unit' \in Nat /\ Units \in Nat /\ unit' + 1 \in Nat
      BY <3>0, UnitNumbers, Zenon
    <3>2. \A c \in Clients : (IF tcPc' = "share" THEN IF c \in todo' THEN unit' ELSE unit' + 1
                              ELSE Units) \in Nat
      BY <3>1, Zenon
    <3> QED
      BY <3>1, <3>2, Zenon DEF UpTo, Place
  <2> QED
    BY <2>1, <2>2 DEF TypeOK, ClientTypeOK, Sent
<1>2. UNCHANGED <<msgQ, sent, tcPc, unit, todo, current>> => PacketsAreInOrder'
  BY DEF PacketsAreInOrder, UpTo
<1>3. CASE InputVideo \/ Start \/ StartReturns \/ StopReturns \/ UpdateVideo3 \/ ImageThreadEnds
  BY <1>2, <1>3 DEF InputVideo, Start, StartReturns, StopReturns, UpdateVideo3, ImageThreadEnds
<1>4. CASE Stop
  <2>1. \A c \in Clients : msgQ'[c] = <<>> /\ sent'[c] = sent[c] /\ UpTo(c)' = UpTo(c)
    BY <1>4 DEF Stop, UpTo
  <2>2. \A c \in Clients : 1 .. Len(msgQ'[c]) = {}
    BY <2>1
  <2> QED
    BY <2>1, <2>2, Zenon DEF PacketsAreInOrder, PacketsInOrder
<1>5. CASE GetNextBegin \/ GetNextCopy
  <2>1. \A c \in Clients : UpTo(c)' = UpTo(c)
    BY <1>5 DEF GetNextBegin, GetNextCopy, UpTo
  <2> QED
    BY <1>5, <2>1 DEF GetNextBegin, GetNextCopy, PacketsAreInOrder
<1>6. CASE GetNextReturns
  <2>1. current < current' /\ current \in Nat /\ current' \in Nat
    <3>1. videoQ # <<>> /\ current' = Head(videoQ)
      BY <1>6 DEF GetNextReturns, TCShape
    <3>2. /\ current \in Nat /\ videoQ \in Seq(Nat) /\ ctrlQ \in Seq(Nat) /\ input \in Nat
          /\ current' \in Nat
      BY DEF TypeOK, AppTypeOK, QueueTypeOK, TCTypeOK
    <3> QED
      BY <3>1, <3>2, FramesTake DEF FramesAreInOrder
  <2>2. \A c \in Clients : Before(UpTo(c), UpTo(c)')
    BY <2>1 DEF UpTo, Before
  <2>3. \A c \in Clients : PacketsInOrder(msgQ[c], sent[c], UpTo(c)')
    BY <1>1, <2>2, PacketsLater DEF PacketsAreInOrder
  <2> QED
    BY <1>6, <2>3 DEF GetNextReturns, PacketsAreInOrder
<1>7. CASE NextUnit
  <2>1. \A c \in Clients : UpTo(c)' = UpTo(c)
    <3>1. unit \in Nat /\ Units \in Nat
      BY PipelineAssumption DEF TypeOK, TCTypeOK
    <3> QED
      BY <1>7, <3>1 DEF NextUnit, UpTo
  <2> QED
    BY <1>7, <2>1 DEF NextUnit, PacketsAreInOrder
<1>8. ASSUME NEW c \in Clients, AddVideoPacket(c)
      PROVE  PacketsAreInOrder'
  <2>1. /\ tcPc = "share" /\ tcPc' = "share" /\ c \in todo /\ todo' = todo \ {c}
        /\ unit' = unit /\ current' = current /\ sent' = sent
        /\ current \in Nat /\ unit \in Nat
    BY <1>8, PipelineAssumption DEF AddVideoPacket, TypeOK, TCTypeOK
  <2>2. \A d \in Clients : d # c => UpTo(d)' = UpTo(d)
    BY <2>1 DEF UpTo
  <2>3. /\ UpTo(c).frame = current /\ UpTo(c).unit = unit
        /\ UpTo(c)'.frame = current /\ UpTo(c)'.unit = unit + 1
    BY <2>1 DEF UpTo
  <2>4. Before(UpTo(c), UpTo(c)')
    BY <2>1, <2>3 DEF Before
  <2>5. PacketsInOrder(msgQ[c], sent[c], UpTo(c)')
    BY <1>1, <2>4, PacketsLater DEF PacketsAreInOrder
  <2>6. CASE UNCHANGED msgQ
    BY <2>1, <2>2, <2>5, <2>6 DEF PacketsAreInOrder
  <2> DEFINE m == [frame |-> current, unit |-> unit, buf |-> 1 - bufIndex, take |-> takes]
  <2>7. CASE msgQ' = [msgQ EXCEPT ![c] = Append(@, m)]
    <3>1. m \in MsgItem
      BY <2>1, ItemType
    <3>2. m.frame = UpTo(c).frame /\ m.unit = UpTo(c).unit
      BY <2>3
    <3> HIDE DEF m
    <3>3. PacketsInOrder(Append(msgQ[c], m), sent[c], UpTo(c)')
      BY <1>1, <2>4, <3>1, <3>2, PacketsAppend DEF PacketsAreInOrder
    <3>4. \A d \in Clients : (d = c => msgQ'[d] = Append(msgQ[c], m)) /\ (d # c => msgQ'[d] = msgQ[d])
      BY <1>1, <2>7
    <3> QED
      BY <2>1, <2>2, <3>3, <3>4, Zenon DEF PacketsAreInOrder
  <2> QED
    BY <1>8, <2>6, <2>7 DEF AddVideoPacket
<1>9. ASSUME NEW c \in Clients, Play(c) \/ StopPlaying(c)
      PROVE  PacketsAreInOrder'
  BY <1>2, <1>9 DEF Play, StopPlaying
<1>10. ASSUME NEW c \in Clients, SendPacket(c)
       PROVE  PacketsAreInOrder'
  <2>1. \A d \in Clients : UpTo(d)' = UpTo(d)
    BY <1>10 DEF SendPacket, UpTo
  <2>2. msgQ[c] # <<>> /\ msgQ' = [msgQ EXCEPT ![c] = Tail(msgQ[c])]
    BY <1>10 DEF SendPacket
  <2>3. \A d \in Clients : (d = c => msgQ'[d] = Tail(msgQ[c])) /\ (d # c => msgQ'[d] = msgQ[d])
    BY <1>1, <2>2
  <2>4. \A d \in Clients : d # c => sent'[d] = sent[d]
    BY <1>1, <1>10 DEF SendPacket
  <2>5. \/ sent'[c] = sent[c]
        \/ sent'[c].frame = Head(msgQ[c]).frame /\ sent'[c].unit = Head(msgQ[c]).unit
    BY <1>1, <1>10 DEF SendPacket
  <2>6. PacketsInOrder(Tail(msgQ[c]), sent'[c], UpTo(c))
    BY <1>1, <2>2, <2>5, PacketsTail DEF PacketsAreInOrder
  <2> QED
    BY <2>1, <2>3, <2>4, <2>6, Zenon DEF PacketsAreInOrder
<1>11. CASE UNCHANGED vars
  BY <1>2, <1>11
<1> QED
  BY <1>3, <1>4, <1>5, <1>6, <1>7, <1>8, <1>9, <1>10, <1>11 DEF Next, Application, TCThread

\* From the application to the sockets frames and units keep their order and none
\* comes twice, however many clients there are, wherever frames and packets are
\* dropped and whenever clients play, stop or the server is stopped.
THEOREM OrderIsKept == Spec => []InOrder
<1>1. Init => TypeOK /\ TCShape /\ FramesAreInOrder /\ PacketsAreInOrder
  <2>1. Init => Frames(0, <<>>, <<>>, 0)
    BY DEF Frames, Sorted, AllAbove, AllUpTo, AllBelow
  <2>2. Init => FramesAreInOrder
    BY <2>1 DEF Init, FramesAreInOrder
  <2>3. Init => \A c \in Clients : 1 .. Len(msgQ[c]) = {} /\ sent[c] = Nothing
    BY DEF Init
  <2>4. Init => PacketsAreInOrder
    BY <2>3, Zenon DEF PacketsAreInOrder, PacketsInOrder
  <2> QED
    BY <2>2, <2>4, TypeInit
<1>2. TypeOK /\ TCShape /\ FramesAreInOrder /\ PacketsAreInOrder /\ [Next]_vars
        => (TypeOK /\ TCShape /\ FramesAreInOrder /\ PacketsAreInOrder)'
  BY TypeNext, FramesNext, PacketsNext
<1>3. TypeOK /\ FramesAreInOrder /\ PacketsAreInOrder => InOrder
  <2> SUFFICES ASSUME TypeOK, FramesAreInOrder, PacketsAreInOrder PROVE InOrder
    OBVIOUS
  <2>1. FramesInOrder(<<current>> \o videoQ \o ctrlQ, input)
    BY Together DEF TypeOK, AppTypeOK, QueueTypeOK, TCTypeOK, FramesAreInOrder
  <2>2. \A c \in Clients : ClientInOrder(c)
    BY Zenon DEF PacketsAreInOrder, PacketsInOrder, ClientInOrder
  <2> QED
    BY <2>1, <2>2 DEF InOrder
<1> QED
  BY <1>1, <1>2, <1>3, PTL DEF Spec
=============================================================================
