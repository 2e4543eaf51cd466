-------------------------- MODULE VSFSessionProofs --------------------------
(***************************************************************************)
(* For every size of every queue, any number of late HELLOs and any mix of *)
(* accepted and refused logins: the session's types and queue bounds, that *)
(* only a client whose login was accepted is served, that no video packet  *)
(* reaches a client without a decoder, and that a frame that is not whole  *)
(* is not decoded without a word.                                          *)
(*                                                                         *)
(* And below the session, for any packets, chunks and size of the queue of *)
(* chunks: what the handlers get was sent, nothing is lost but by a full   *)
(* queue or a cut header, and what is complete does not wait (VSFStream).  *)
(***************************************************************************)
EXTENDS VSFSession, VSFStream, SequenceTheorems, WellFoundedInduction, TLAPS

-----------------------------------------------------------------------------
(* Queues *)

LEMMA MessageType ==
  /\ \A c \in ServerCommands \union ClientCommands, v \in Nat : Msg(c, v) \in Message
  /\ \A c, v : Msg(c, v).cmd = c /\ Msg(c, v).val = v
BY DEF Msg, Message

\* Append adds its message and nothing else; it needs room for one.
LEMMA AppendMessage ==
  ASSUME NEW q \in Seq(Message), NEW m \in Message
  PROVE  /\ Append(q, m) \in Seq(Message)
         /\ \A max \in Nat : Len(q) < max => IsQueue(Append(q, m), max)
         /\ \A c : Has(Append(q, m), c) => Has(q, c) \/ m.cmd = c
<1>1. Append(q, m) \in Seq(Message) /\ Len(Append(q, m)) = Len(q) + 1
  OBVIOUS
<1>2. ASSUME NEW c, Has(Append(q, m), c) PROVE Has(q, c) \/ m.cmd = c
  <2>1. PICK i \in 1 .. Len(q) + 1 : Append(q, m)[i].cmd = c
    BY <1>1, <1>2 DEF Has
  <2>2. CASE i = Len(q) + 1
    BY <2>1, <2>2
  <2>3. CASE i # Len(q) + 1
    <3>1. i \in 1 .. Len(q) /\ Append(q, m)[i] = q[i]
      BY <2>3
    <3> QED
      BY <2>1, <3>1 DEF Has
  <2> QED
    BY <2>2, <2>3
<1>3. ASSUME NEW max \in Nat, Len(q) < max PROVE IsQueue(Append(q, m), max)
  BY <1>1, <1>3 DEF IsQueue
<1> QED
  BY <1>1, <1>2, <1>3

\* Tail removes the head and nothing else.
LEMMA TailMessage ==
  ASSUME NEW q \in Seq(Message), q # <<>>
  PROVE  /\ Head(q) \in Message
         /\ Has(q, Head(q).cmd)
         /\ Tail(q) \in Seq(Message)
         /\ \A max \in Nat : IsQueue(q, max) => IsQueue(Tail(q), max)
         /\ \A c : Has(Tail(q), c) => Has(q, c)
<1>1. /\ Head(q) \in Message /\ Head(q) = q[1] /\ Len(q) >= 1
      /\ Tail(q) \in Seq(Message) /\ Len(Tail(q)) = Len(q) - 1
  OBVIOUS
<1>2. Has(q, Head(q).cmd)
  BY <1>1 DEF Has
<1>3. ASSUME NEW c, Has(Tail(q), c) PROVE Has(q, c)
  <2>1. PICK i \in 1 .. Len(q) - 1 : Tail(q)[i].cmd = c
    BY <1>1, <1>3 DEF Has
  <2>2. Tail(q)[i] = q[i + 1] /\ i + 1 \in 1 .. Len(q)
    BY <1>1, <2>1
  <2> QED
    BY <2>1, <2>2 DEF Has
<1>4. ASSUME NEW max \in Nat, IsQueue(q, max) PROVE IsQueue(Tail(q), max)
  BY <1>1, <1>4 DEF IsQueue
<1> QED
  BY <1>1, <1>2, <1>3, <1>4

LEMMA EmptyQueue ==
  /\ <<>> \in Seq(Message)
  /\ \A max \in Nat : IsQueue(<<>>, max)
  /\ \A c : ~Has(<<>>, c)
<1>1. <<>> \in Seq(Message) /\ Len(<<>>) = 0
  OBVIOUS
<1> QED
  BY <1>1 DEF Has, IsQueue

\* Whether it finds room or not, AddMsg keeps the queue within its capacity
\* and leaves no message in it but m that was not there before.
LEMMA AddMsgEffect ==
  ASSUME NEW m \in Message, AddMsg(m), IsQueue(msgQ, MsgMax), lost \in BOOLEAN
  PROVE  /\ IsQueue(msgQ', MsgMax)
         /\ lost' \in BOOLEAN
         /\ \A c : Has(msgQ', c) => Has(msgQ, c) \/ m.cmd = c
<1>0. msgQ \in Seq(Message) /\ MsgMax \in Nat
  BY SessionAssumption DEF IsQueue
<1>1. CASE Len(msgQ) < MsgMax /\ msgQ' = Append(msgQ, m) /\ UNCHANGED lost
  <2>1. /\ IsQueue(Append(msgQ, m), MsgMax)
        /\ \A c : Has(Append(msgQ, m), c) => Has(msgQ, c) \/ m.cmd = c
    BY <1>0, <1>1, AppendMessage
  <2> QED
    BY <1>1, <2>1, Zenon
<1>2. CASE lost' = (lost \/ IsProtocol(m)) /\ UNCHANGED msgQ
  <2>1. lost' \in BOOLEAN
    BY <1>2
  <2> QED
    BY <1>2, <2>1
<1> QED
  BY <1>1, <1>2 DEF AddMsg
-----------------------------------------------------------------------------
(* Types and bounds *)

\* What the type invariant says of the messages the handlers move about.
LEMMA QueueFacts ==
  ASSUME TypeOK
  PROVE  /\ msgQ # <<>> => /\ Head(msgQ) \in Message
                           /\ IsQueue(Tail(msgQ), MsgMax)
         /\ recvQ # <<>> => /\ Head(recvQ) \in Message
                            /\ IsQueue(Tail(recvQ), RecvMax)
         /\ s2c # <<>> => /\ Head(s2c) \in Message
                          /\ IsQueue(Tail(s2c), NetMax)
         /\ c2s # <<>> => /\ Head(c2s) \in Message
                          /\ Tail(c2s) \in Seq(Message)
         /\ rcvQ # <<>> => /\ Head(rcvQ) \in Message
                           /\ IsQueue(Tail(rcvQ), RcvMax)
<1>1. /\ msgQ \in Seq(Message) /\ recvQ \in Seq(Message) /\ s2c \in Seq(Message)
      /\ c2s \in Seq(Message) /\ rcvQ \in Seq(Message)
      /\ MsgMax \in Nat /\ RecvMax \in Nat /\ NetMax \in Nat /\ RcvMax \in Nat
  BY SessionAssumption DEF TypeOK, IsQueue, QueueTypeOK
<1>2. /\ IsQueue(msgQ, MsgMax) /\ IsQueue(recvQ, RecvMax)
      /\ IsQueue(s2c, NetMax) /\ IsQueue(rcvQ, RcvMax)
  BY DEF TypeOK, QueueTypeOK
<1> QED
  BY <1>1, <1>2, TailMessage

\* The fields a message of a well-typed queue has.
LEMMA MessageFields ==
  ASSUME NEW m \in Message
  PROVE  m.val \in Nat /\ m.cmd \in ServerCommands \union ClientCommands
BY DEF Message

LEMMA TypeInit == Init => TypeOK
<1> SUFFICES ASSUME Init PROVE TypeOK
  OBVIOUS
<1>1. /\ IsQueue(msgQ, MsgMax) /\ IsQueue(recvQ, RecvMax) /\ IsQueue(s2c, NetMax)
      /\ c2s \in Seq(Message) /\ IsQueue(rcvQ, RcvMax)
  BY EmptyQueue, SessionAssumption DEF Init
<1>2. tmpBuf \in Seq(Nat)
  BY DEF Init
<1>3. next \in Nat /\ late \in Nat /\ lastSN \in Int
  BY DEF Init
<1> QED
  BY <1>1, <1>2, <1>3 DEF Init, TypeOK, QueueTypeOK, ServerTypeOK, ClientTypeOK

LEMMA TypeStep == TypeOK /\ [Next]_vars => TypeOK'
<1> SUFFICES ASSUME TypeOK, [Next]_vars PROVE TypeOK'
  OBVIOUS
<1> USE SessionAssumption
    DEF vars, serverVars, tcVars, clientVars, queueVars,
        QueueTypeOK, ServerTypeOK, ClientTypeOK
<1>1. CASE AcceptPush
  BY <1>1 DEF AcceptPush, TypeOK
<1>2. CASE AcceptInit
  BY <1>2 DEF AcceptInit, TypeOK
<1>3. CASE AcceptHello
  <2>1. AddMsg(Msg("HELLO", 0)) /\ helloOld' = FALSE
    BY <1>3 DEF AcceptHello, Hello
  <2>2. Msg("HELLO", 0) \in Message
    BY MessageType DEF ServerCommands
  <2>3. IsQueue(msgQ', MsgMax) /\ lost' \in BOOLEAN
    BY <2>1, <2>2, AddMsgEffect DEF TypeOK
  <2> QED
    BY <1>3, <2>1, <2>3 DEF AcceptHello, TypeOK
<1>4. CASE ServerReceive
  <2>1. c2s # <<>> /\ Head(c2s) \in Message /\ Tail(c2s) \in Seq(Message)
    BY <1>4, QueueFacts DEF ServerReceive
  <2>2. IsQueue(recvQ', RecvMax) /\ lost' \in BOOLEAN
    <3>1. CASE Len(recvQ) < RecvMax /\ recvQ' = Append(recvQ, Head(c2s)) /\ UNCHANGED lost
      BY <2>1, <3>1, AppendMessage DEF TypeOK, IsQueue
    <3>2. CASE lost' = (lost \/ IsProtocol(Head(c2s))) /\ UNCHANGED recvQ
      BY <3>2 DEF TypeOK
    <3> QED
      BY <1>4, <3>1, <3>2 DEF ServerReceive
  <2> QED
    BY <1>4, <2>1, <2>2 DEF ServerReceive, TypeOK
<1>5. CASE CloseClient
  BY <1>5 DEF CloseClient, TypeOK
<1>6. CASE ServerLogin
  <2>1. Head(recvQ) \in Message /\ IsQueue(recvQ', RecvMax)
    BY <1>6, QueueFacts DEF ServerLogin, Take
  <2>2. IsQueue(msgQ', MsgMax) /\ lost' \in BOOLEAN
    <3>1. Msg("LOGIN_RET", Head(recvQ).val) \in Message
      BY <2>1, MessageFields, MessageType DEF ServerCommands
    <3>2. AddMsg(Msg("LOGIN_RET", Head(recvQ).val))
      BY <1>6 DEF ServerLogin
    <3> QED
      BY <3>1, <3>2, AddMsgEffect DEF TypeOK
  <2> QED
    BY <1>6, <2>1, <2>2 DEF ServerLogin, TypeOK
<1>7. CASE LoginAnswered
  <2>1. status' \in {"FAIL", "STOP", "SETUP", "PLAY"}
    BY <1>7 DEF LoginAnswered, TypeOK
  <2>2. handler' \in {"idle", "accepted", "passing", "refused", "failing", "setup"}
    BY <1>7 DEF LoginAnswered, TypeOK
  <2>3. passed' \in BOOLEAN
    BY <1>7, Zenon DEF LoginAnswered, TypeOK
  <2>4. UNCHANGED <<accept, helloOld, tcVars, clientVars, queueVars, late, lost>>
    BY <1>7 DEF LoginAnswered
  <2> QED
    BY <2>1, <2>2, <2>3, <2>4 DEF TypeOK
<1>8. CASE LoginReturns
  <2>1. status' \in {"FAIL", "STOP", "SETUP", "PLAY"}
    BY <1>8 DEF LoginReturns, TypeOK
  <2>2. handler' \in {"idle", "accepted", "passing", "refused", "failing", "setup"}
    BY <1>8 DEF LoginReturns, TypeOK
  <2>3. passed' \in BOOLEAN
    BY <1>8, Zenon DEF LoginReturns, TypeOK
  <2>4. UNCHANGED <<accept, helloOld, tcVars, clientVars, queueVars, late, lost>>
    BY <1>8 DEF LoginReturns
  <2> QED
    BY <2>1, <2>2, <2>3, <2>4 DEF TypeOK
<1>9. CASE ServerSetup
  <2>1. Head(recvQ) \in Message /\ IsQueue(recvQ', RecvMax)
    BY <1>9, QueueFacts DEF ServerSetup, Take
  <2>2. IsQueue(msgQ', MsgMax) /\ lost' \in BOOLEAN
    <3>1. Msg("SETUP_RET", 0) \in Message
      BY MessageType DEF ServerCommands
    <3>2. CASE AddMsg(Msg("SETUP_RET", 0))
      BY <3>1, <3>2, AddMsgEffect DEF TypeOK
    <3>3. CASE UNCHANGED <<msgQ, handler, lost>>
      BY <3>3 DEF TypeOK
    <3> QED
      BY <1>9, <3>2, <3>3 DEF ServerSetup
  <2> QED
    BY <1>9, <2>1, <2>2 DEF ServerSetup, TypeOK
<1>10. CASE SetupReturns
  BY <1>10 DEF SetupReturns, TypeOK
<1>11. CASE ServerPlay
  <2>1. IsQueue(recvQ', RecvMax)
    BY <1>11, QueueFacts DEF ServerPlay, Take
  <2> QED
    BY <1>11, <2>1 DEF ServerPlay, TypeOK
<1>12. CASE ServerStop
  <2>1. IsQueue(recvQ', RecvMax)
    BY <1>12, QueueFacts DEF ServerStop, Take
  <2> QED
    BY <1>12, <2>1 DEF ServerStop, TypeOK
<1>13. CASE ServerUpdateTimestamp
  <2>1. IsQueue(recvQ', RecvMax)
    BY <1>13, QueueFacts DEF ServerUpdateTimestamp, Take
  <2> QED
    BY <1>13, <2>1 DEF ServerUpdateTimestamp, TypeOK
<1>14. CASE SendPacket
  <2>1. Head(msgQ) \in Message /\ IsQueue(msgQ', MsgMax)
    BY <1>14, QueueFacts DEF SendPacket
  <2>2. IsQueue(s2c', NetMax) /\ lost' \in BOOLEAN
    <3>1. CASE Len(s2c) < NetMax /\ s2c' = Append(s2c, Head(msgQ)) /\ UNCHANGED lost
      BY <2>1, <3>1, AppendMessage DEF TypeOK, IsQueue
    <3>2. CASE lost' = (lost \/ IsProtocol(Head(msgQ))) /\ UNCHANGED s2c
      BY <3>2 DEF TypeOK
    <3> QED
      BY <1>14, <3>1, <3>2 DEF SendPacket
  <2> QED
    BY <1>14, <2>1, <2>2 DEF SendPacket, TypeOK
<1>15. CASE TCReadStatus
  <2>1. IsQueue(msgQ', MsgMax) /\ lost' \in BOOLEAN /\ helloOld' \in BOOLEAN
    <3>1. CASE Hello
      <4>1. Msg("HELLO", 0) \in Message
        BY MessageType DEF ServerCommands
      <4> QED
        BY <3>1, <4>1, AddMsgEffect DEF Hello, TypeOK
    <3>2. CASE UNCHANGED <<helloOld, msgQ, lost>>
      BY <3>2 DEF TypeOK
    <3> QED
      BY <1>15, <3>1, <3>2 DEF TCReadStatus
  <2>2. /\ next' = next \/ next' = next + 1
        /\ sawPlay' = sawPlay \/ sawPlay' = TRUE
        /\ UNCHANGED <<accept, status, passed, handler, clientVars,
                       recvQ, s2c, c2s, rcvQ, late>>
    BY <1>15, Zenon DEF TCReadStatus
  <2>3. next' \in Nat
    BY <2>2 DEF TypeOK
  <2>a. QueueTypeOK'
    BY <2>1, <2>2, <2>3 DEF TypeOK
  <2>b. ServerTypeOK'
    BY <2>1, <2>2, <2>3 DEF TypeOK
  <2>c. ClientTypeOK'
    BY <2>1, <2>2, <2>3 DEF TypeOK
  <2>d. late' \in Nat /\ lost' \in BOOLEAN
    BY <2>1, <2>2, <2>3 DEF TypeOK
  <2> QED
    BY <2>a, <2>b, <2>c, <2>d DEF TypeOK
<1>16. CASE TCAddVideoPacket
  <2>1. next \in Nat /\ next' \in Nat
    BY <1>16 DEF TCAddVideoPacket, TypeOK
  <2>2. Msg("VIDEO_PACKET", next) \in Message /\ AddMsg(Msg("VIDEO_PACKET", next))
    BY <1>16, <2>1, MessageType DEF TCAddVideoPacket, ServerCommands
  <2>3. IsQueue(msgQ', MsgMax) /\ lost' \in BOOLEAN
    BY <2>2, AddMsgEffect DEF TypeOK
  <2>4. /\ sawPlay' = FALSE
        /\ UNCHANGED <<serverVars, clientVars, recvQ, s2c, c2s, rcvQ, late>>
    BY <1>16, Zenon DEF TCAddVideoPacket
  <2>a. QueueTypeOK'
    BY <2>1, <2>3, <2>4 DEF TypeOK
  <2>b. ServerTypeOK'
    BY <2>1, <2>3, <2>4 DEF TypeOK
  <2>c. ClientTypeOK'
    BY <2>1, <2>3, <2>4 DEF TypeOK
  <2>d. late' \in Nat /\ lost' \in BOOLEAN
    BY <2>1, <2>3, <2>4 DEF TypeOK
  <2> QED
    BY <2>a, <2>b, <2>c, <2>d DEF TypeOK
<1>17. CASE HelloTimeout
  <2>1. late' \in Nat
    BY <1>17 DEF HelloTimeout, TypeOK
  <2> QED
    BY <1>17, <2>1 DEF HelloTimeout, TypeOK
<1>18. CASE ClientReceive
  <2>1. Head(s2c) \in Message /\ IsQueue(s2c', NetMax)
    BY <1>18, QueueFacts DEF ClientReceive
  <2>2. IsQueue(rcvQ', RcvMax) /\ lost' \in BOOLEAN
    <3>1. CASE Len(rcvQ) < RcvMax /\ rcvQ' = Append(rcvQ, Head(s2c)) /\ UNCHANGED lost
      BY <2>1, <3>1, AppendMessage DEF TypeOK, IsQueue
    <3>2. CASE lost' = (lost \/ IsProtocol(Head(s2c))) /\ UNCHANGED rcvQ
      BY <3>2 DEF TypeOK
    <3> QED
      BY <1>18, <3>1, <3>2 DEF ClientReceive
  <2> QED
    BY <1>18, <2>1, <2>2 DEF ClientReceive, TypeOK
<1>19. CASE ClientHello
  <2>1. Head(rcvQ) \in Message /\ IsQueue(rcvQ', RcvMax)
    BY <1>19, QueueFacts DEF ClientHello, Process
  <2>2. c2s' \in Seq(Message)
    <3>1. Msg("LOGIN", 0) \in Message /\ Msg("LOGIN", 1) \in Message
      BY MessageType DEF ClientCommands
    <3> QED
      BY <1>19, <3>1, AppendMessage DEF ClientHello, Send, TypeOK
  <2> QED
    BY <1>19, <2>1, <2>2 DEF ClientHello, Process, TypeOK
<1>20. CASE ClientLoginRet
  <2>1. Head(rcvQ) \in Message /\ IsQueue(rcvQ', RcvMax)
    BY <1>20, QueueFacts DEF ClientLoginRet, Process
  <2>2. c2s' \in Seq(Message)
    <3>1. Msg("SETUP", 0) \in Message
      BY MessageType DEF ClientCommands
    <3> QED
      BY <1>20, <3>1, AppendMessage DEF ClientLoginRet, Send, TypeOK
  <2> QED
    BY <1>20, <2>1, <2>2 DEF ClientLoginRet, Process, TypeOK
<1>21. CASE ClientSetupRet
  <2>1. Head(rcvQ) \in Message /\ IsQueue(rcvQ', RcvMax)
    BY <1>21, QueueFacts DEF ClientSetupRet, Process
  <2>2. c2s' \in Seq(Message)
    <3>1. Msg("PLAY", 0) \in Message
      BY MessageType DEF ClientCommands
    <3> QED
      BY <1>21, <3>1, AppendMessage DEF ClientSetupRet, Send, TypeOK
  <2> QED
    BY <1>21, <2>1, <2>2 DEF ClientSetupRet, Process, TypeOK
<1>22. CASE ClientVideoPacket
  <2> DEFINE n == Head(rcvQ).val
  <2>1. n \in Nat /\ IsQueue(rcvQ', RcvMax)
    BY <1>22, QueueFacts, MessageFields DEF ClientVideoPacket, Process
  <2>2. Msg("UPDATE_TIMESTAMP", 0) \in Message
    BY MessageType DEF ClientCommands
  <2>3. c2s' \in Seq(Message)
    BY <1>22, <2>2, AppendMessage DEF ClientVideoPacket, Send, TypeOK
  <2>4. tmpBuf' \in Seq(Nat)
    <3>1. tmpBuf' = <<>> \/ tmpBuf' = Append(tmpBuf, n)
      BY <1>22 DEF ClientVideoPacket
    <3>2. tmpBuf \in Seq(Nat)
      BY DEF TypeOK
    <3>3. <<>> \in Seq(Nat) /\ Append(tmpBuf, n) \in Seq(Nat)
      BY <2>1, <3>2
    <3> QED
      BY <3>1, <3>3, Zenon
  <2>5. lastSN' \in Int
    BY <1>22, <2>1 DEF ClientVideoPacket
  <2>6. gapSeen' = FALSE \/ gapSeen' = (gapSeen \/ IsLoss(n))
    BY <1>22 DEF ClientVideoPacket
  <2>7. gapSeen' \in BOOLEAN
    BY <2>6, Zenon DEF TypeOK
  <2>8. UNCHANGED <<serverVars, tcVars, alive, cPassed, decoder,
                    msgQ, recvQ, s2c, late, lost>>
    BY <1>22 DEF ClientVideoPacket
  <2> QED
    BY <2>1, <2>3, <2>4, <2>5, <2>7, <2>8 DEF TypeOK
<1>23. CASE ClientClose
  <2>1. c2s' \in Seq(Message)
    <3>1. Msg("STOP", 0) \in Message
      BY MessageType DEF ClientCommands
    <3> QED
      BY <1>23, <3>1, AppendMessage DEF ClientClose, Send, TypeOK
  <2>2. IsQueue(s2c', NetMax) /\ IsQueue(rcvQ', RcvMax)
    BY <1>23, EmptyQueue DEF ClientClose
  <2>3. /\ alive' = FALSE /\ cPassed' = FALSE
        /\ UNCHANGED <<serverVars, tcVars, decoder, tmpBuf, lastSN, gapSeen,
                       msgQ, recvQ, late, lost>>
    BY <1>23 DEF ClientClose
  <2>a. QueueTypeOK'
    BY <2>1, <2>2, <2>3 DEF TypeOK
  <2>b. ServerTypeOK'
    BY <2>1, <2>2, <2>3 DEF TypeOK
  <2>c. ClientTypeOK'
    BY <2>1, <2>2, <2>3 DEF TypeOK
  <2>d. late' \in Nat /\ lost' \in BOOLEAN
    BY <2>1, <2>2, <2>3 DEF TypeOK
  <2> QED
    BY <2>a, <2>b, <2>c, <2>d DEF TypeOK
<1>24. CASE UNCHANGED vars
  BY <1>24 DEF TypeOK
<1> QED
  BY <1>1, <1>2, <1>3, <1>4, <1>5, <1>6, <1>7, <1>8, <1>9,
     <1>10, <1>11, <1>12, <1>13, <1>14, <1>15, <1>16, <1>17, <1>18,
     <1>19, <1>20, <1>21, <1>22, <1>23, <1>24
     DEF Next, WindowThread, RecvThread, TCThread, ProcessThread

\* The queues of both sides never exceed their capacities, and every message
\* in them is one of the protocol's.
THEOREM TypeCorrect == Spec => []TypeOK
BY TypeInit, TypeStep, PTL DEF Spec
-----------------------------------------------------------------------------
(* Only an accepted client is served *)

(***************************************************************************)
(* ServedOnlyIfPassed speaks of the moments between two handlers.  Inside  *)
(* them: Setup has checked m_bIsPassed before it changes the status, and a *)
(* refused Login has withdrawn it before it does.                          *)
(***************************************************************************)
ServedInv ==
  /\ status \in {"SETUP", "PLAY"} => passed \/ handler = "failing"
  /\ handler = "setup" => passed

\* No order of logins, accepted and refused, and of the other commands leads
\* to a client that is served without an accepted login.
THEOREM ServedHolds == Spec => []ServedOnlyIfPassed
<1>a. Init => ServedInv
  BY DEF Init, ServedInv
<1>b. TypeOK /\ ServedInv /\ [Next]_vars => ServedInv'
  <2> SUFFICES ASSUME TypeOK, ServedInv, [Next]_vars PROVE ServedInv'
    OBVIOUS
  <2> USE DEF ServedInv, vars, serverVars
  <2>1. CASE ServerLogin
    BY <2>1, Zenon DEF ServerLogin, Take
  <2>2. CASE LoginAnswered
    BY <2>2, Zenon DEF LoginAnswered, Take
  <2>3. CASE LoginReturns
    BY <2>3, Zenon DEF LoginReturns, Take
  <2>4. CASE ServerSetup
    BY <2>4, Zenon DEF ServerSetup, Take
  <2>5. CASE SetupReturns
    BY <2>5, Zenon DEF SetupReturns, Take
  <2>6. CASE ServerPlay
    BY <2>6, Zenon DEF ServerPlay, Take
  <2>7. CASE ServerStop
    BY <2>7, Zenon DEF ServerStop, Take
  <2>8. CASE UNCHANGED <<status, passed, handler>>
    BY <2>8
  <2>9. CASE AcceptPush
    BY <2>9, <2>8, Zenon DEF AcceptPush
  <2>10. CASE AcceptInit
    BY <2>10, <2>8, Zenon DEF AcceptInit
  <2>11. CASE AcceptHello
    BY <2>11, <2>8, Zenon DEF AcceptHello
  <2>12. CASE ServerReceive
    BY <2>12, <2>8, Zenon DEF ServerReceive
  <2>13. CASE CloseClient
    BY <2>13, <2>8, Zenon DEF CloseClient
  <2>14. CASE ServerUpdateTimestamp
    BY <2>14, <2>8, Zenon DEF ServerUpdateTimestamp
  <2>15. CASE SendPacket
    BY <2>15, <2>8, Zenon DEF SendPacket
  <2>16. CASE TCReadStatus
    BY <2>16, <2>8, Zenon DEF TCReadStatus
  <2>17. CASE TCAddVideoPacket
    BY <2>17, <2>8, Zenon DEF TCAddVideoPacket
  <2>18. CASE HelloTimeout
    BY <2>18, <2>8, Zenon DEF HelloTimeout
  <2>19. CASE ClientReceive
    BY <2>19, <2>8, Zenon DEF ClientReceive
  <2>20. CASE ClientHello
    BY <2>20, <2>8, Zenon DEF ClientHello
  <2>21. CASE ClientLoginRet
    BY <2>21, <2>8, Zenon DEF ClientLoginRet
  <2>22. CASE ClientSetupRet
    BY <2>22, <2>8, Zenon DEF ClientSetupRet
  <2>23. CASE ClientVideoPacket
    BY <2>23, <2>8, Zenon DEF ClientVideoPacket
  <2>24. CASE ClientClose
    BY <2>24, <2>8, Zenon DEF ClientClose
  <2>25. CASE UNCHANGED vars
    BY <2>25
  <2> QED
    BY <2>1, <2>2, <2>3, <2>4, <2>5, <2>6, <2>7, <2>8, <2>9,
       <2>10, <2>11, <2>12, <2>13, <2>14, <2>15, <2>16, <2>17, <2>18,
       <2>19, <2>20, <2>21, <2>22, <2>23, <2>24, <2>25
       DEF Next, WindowThread, RecvThread, TCThread, ProcessThread
<1>c. ServedInv => ServedOnlyIfPassed
  BY DEF ServedInv, ServedOnlyIfPassed
<1> QED
  BY <1>a, <1>b, <1>c, TypeCorrect, PTL DEF Spec
-----------------------------------------------------------------------------
(* No video without a decoder *)

(***************************************************************************)
(* Before the client has opened its decoder nothing on the way to video    *)
(* exists: neither a video packet, nor the status that makes TCThread add  *)
(* one, nor the PLAY that would set it.  A PLAY is only sent by the        *)
(* handler that opens the decoder, so the conjunction sustains itself.     *)
(***************************************************************************)
NoStream ==
  /\ ~Has(msgQ, "VIDEO_PACKET")
  /\ ~Has(s2c, "VIDEO_PACKET")
  /\ ~Has(rcvQ, "VIDEO_PACKET")
  /\ ~sawPlay
  /\ status # "PLAY"
  /\ ~Has(c2s, "PLAY")
  /\ ~Has(recvQ, "PLAY")

DecoderInv == ~decoder => NoStream

\* Whatever is dropped, repeated or refused on the way, no video packet exists
\* for a client that has not opened its decoder.
THEOREM DecoderReadyHolds == Spec => []DecoderReady
<1>a. Init => DecoderInv
  BY EmptyQueue DEF Init, DecoderInv, NoStream
<1>b. TypeOK /\ DecoderInv /\ [Next]_vars => DecoderInv'
  <2> SUFFICES ASSUME TypeOK, DecoderInv, [Next]_vars, ~decoder' PROVE NoStream'
    BY DEF DecoderInv
  <2> USE DEF vars, serverVars, tcVars, clientVars, queueVars
  <2>a. NoStream
    <3>1. decoder => decoder'
      BY DEF Next, WindowThread, RecvThread, TCThread, ProcessThread,
             AcceptPush, AcceptInit, AcceptHello, ServerReceive, CloseClient, ServerLogin,
             LoginAnswered, LoginReturns, ServerSetup, SetupReturns, ServerPlay, ServerStop, ServerUpdateTimestamp,
             SendPacket, TCReadStatus, TCAddVideoPacket, HelloTimeout, ClientReceive,
             ClientHello, ClientLoginRet, ClientSetupRet, ClientVideoPacket, ClientClose
    <3> QED
      BY <3>1 DEF DecoderInv
  <2>b. /\ msgQ \in Seq(Message) /\ recvQ \in Seq(Message) /\ s2c \in Seq(Message)
        /\ c2s \in Seq(Message) /\ rcvQ \in Seq(Message)
        /\ IsQueue(msgQ, MsgMax) /\ lost \in BOOLEAN
    BY DEF TypeOK, QueueTypeOK, IsQueue
  <2>d. \A c \in ClientCommands, v \in Nat :
           Has(Append(c2s, Msg(c, v)), "PLAY") => Has(c2s, "PLAY") \/ c = "PLAY"
    <3> SUFFICES ASSUME NEW c \in ClientCommands, NEW v \in Nat,
                        Has(Append(c2s, Msg(c, v)), "PLAY")
                 PROVE  Has(c2s, "PLAY") \/ c = "PLAY"
      OBVIOUS
    <3>1. Msg(c, v) \in Message /\ Msg(c, v).cmd = c
      BY MessageType
    <3> QED
      BY <2>b, <3>1, AppendMessage
  <2>c. AddMsg(Msg("HELLO", 0)) => (Has(msgQ', "VIDEO_PACKET") => Has(msgQ, "VIDEO_PACKET"))
    <3>1. Msg("HELLO", 0) \in Message /\ Msg("HELLO", 0).cmd # "VIDEO_PACKET"
      BY MessageType DEF ServerCommands
    <3> QED
      BY <2>b, <3>1, AddMsgEffect
  <2>1. CASE AcceptPush
    BY <2>a, <2>1, Zenon DEF AcceptPush, NoStream
  <2>2. CASE AcceptInit
    BY <2>a, <2>2, Zenon DEF AcceptInit, NoStream
  <2>3. CASE AcceptHello
    <3>1. AddMsg(Msg("HELLO", 0))
      BY <2>3 DEF AcceptHello, Hello
    <3>2. ~Has(msgQ', "VIDEO_PACKET")
      BY <2>a, <3>1, <2>c DEF NoStream
    <3> QED
      BY <2>a, <2>3, <3>2, Zenon DEF AcceptHello, NoStream
  <2>4. CASE ServerReceive
    <3>1. /\ Head(c2s) \in Message /\ Has(c2s, Head(c2s).cmd)
          /\ Has(Tail(c2s), "PLAY") => Has(c2s, "PLAY")
      BY <2>4, <2>b, TailMessage DEF ServerReceive
    <3>2. recvQ' = Append(recvQ, Head(c2s)) \/ recvQ' = recvQ
      BY <2>4, Zenon DEF ServerReceive
    <3>3. Has(Append(recvQ, Head(c2s)), "PLAY") => Has(recvQ, "PLAY") \/ Head(c2s).cmd = "PLAY"
      BY <3>1, <2>b, AppendMessage
    <3>4. ~Has(recvQ', "PLAY") /\ ~Has(c2s', "PLAY")
      BY <2>a, <2>4, <3>1, <3>2, <3>3, Zenon DEF ServerReceive, NoStream
    <3> QED
      BY <2>a, <2>4, <3>4, Zenon DEF ServerReceive, NoStream
  <2>5. CASE CloseClient
    BY <2>a, <2>5, Zenon DEF CloseClient, NoStream
  <2>6. CASE ServerLogin
    <3>1. ~Has(recvQ', "PLAY")
      BY <2>a, <2>6, <2>b, TailMessage, Zenon DEF ServerLogin, Take, NoStream
    <3>2. Head(recvQ).val \in Nat
      BY <2>6, QueueFacts, MessageFields DEF ServerLogin, Take
    <3>3. Msg("LOGIN_RET", Head(recvQ).val) \in Message
      BY <3>2, MessageType DEF ServerCommands
    <3>4. /\ AddMsg(Msg("LOGIN_RET", Head(recvQ).val))
          /\ UNCHANGED <<status, tcVars, clientVars, s2c, c2s, rcvQ>>
      BY <2>6 DEF ServerLogin
    <3>5. ~Has(msgQ', "VIDEO_PACKET")
      BY <2>a, <3>3, <3>4, <2>b, AddMsgEffect, MessageType DEF NoStream
    <3> QED
      BY <2>a, <3>1, <3>4, <3>5, Zenon DEF NoStream
  <2>7. CASE LoginAnswered
    BY <2>a, <2>7, Zenon DEF LoginAnswered, NoStream
  <2>8. CASE LoginReturns
    BY <2>a, <2>8, Zenon DEF LoginReturns, NoStream
  <2>9. CASE ServerSetup
    <3>1. ~Has(recvQ', "PLAY")
      BY <2>a, <2>9, <2>b, TailMessage, Zenon DEF ServerSetup, Take, NoStream
    <3>2. AddMsg(Msg("SETUP_RET", 0)) \/ UNCHANGED msgQ
      BY <2>9 DEF ServerSetup
    <3>3. Msg("SETUP_RET", 0) \in Message
      BY MessageType DEF ServerCommands
    <3>4. ~Has(msgQ', "VIDEO_PACKET")
      BY <2>a, <3>2, <3>3, <2>b, AddMsgEffect, MessageType DEF NoStream
    <3> QED
      BY <2>a, <2>9, <3>1, <3>4, Zenon DEF ServerSetup, NoStream
  <2>10. CASE SetupReturns
    BY <2>a, <2>10, Zenon DEF SetupReturns, NoStream
  <2>11. CASE ServerPlay
    <3>1. Has(recvQ, "PLAY")
      BY <2>11, <2>b, TailMessage DEF ServerPlay, Take
    <3> QED
      BY <2>a, <3>1 DEF NoStream
  <2>12. CASE ServerStop
    <3>1. ~Has(recvQ', "PLAY")
      BY <2>a, <2>12, <2>b, TailMessage, Zenon DEF ServerStop, Take, NoStream
    <3> QED
      BY <2>a, <2>12, <3>1 DEF ServerStop, NoStream
  <2>13. CASE ServerUpdateTimestamp
    <3>1. ~Has(recvQ', "PLAY")
      BY <2>a, <2>13, <2>b, TailMessage, Zenon DEF ServerUpdateTimestamp, Take, NoStream
    <3> QED
      BY <2>a, <2>13, <3>1 DEF ServerUpdateTimestamp, NoStream
  <2>14. CASE SendPacket
    <3>1. /\ Head(msgQ) \in Message /\ Has(msgQ, Head(msgQ).cmd)
          /\ Has(Tail(msgQ), "VIDEO_PACKET") => Has(msgQ, "VIDEO_PACKET")
      BY <2>14, <2>b, TailMessage DEF SendPacket
    <3>2. s2c' = Append(s2c, Head(msgQ)) \/ s2c' = s2c
      BY <2>14, Zenon DEF SendPacket
    <3>3. Has(Append(s2c, Head(msgQ)), "VIDEO_PACKET")
            => Has(s2c, "VIDEO_PACKET") \/ Head(msgQ).cmd = "VIDEO_PACKET"
      BY <3>1, <2>b, AppendMessage
    <3>4. ~Has(s2c', "VIDEO_PACKET") /\ ~Has(msgQ', "VIDEO_PACKET")
      BY <2>a, <2>14, <3>1, <3>2, <3>3, Zenon DEF SendPacket, NoStream
    <3> QED
      BY <2>a, <2>14, <3>4, Zenon DEF SendPacket, NoStream
  <2>15. CASE TCReadStatus
    <3>1. sawPlay' = sawPlay /\ (AddMsg(Msg("HELLO", 0)) \/ UNCHANGED msgQ)
      BY <2>a, <2>15, Zenon DEF TCReadStatus, Hello, NoStream
    <3>2. ~Has(msgQ', "VIDEO_PACKET")
      BY <2>a, <3>1, <2>c DEF NoStream
    <3>3. UNCHANGED <<status, s2c, c2s, rcvQ, recvQ>>
      BY <2>15, Zenon DEF TCReadStatus
    <3> QED
      BY <2>a, <3>1, <3>2, <3>3, Zenon DEF NoStream
  <2>16. CASE TCAddVideoPacket
    BY <2>a, <2>16, Zenon DEF TCAddVideoPacket, NoStream
  <2>17. CASE HelloTimeout
    BY <2>a, <2>17, Zenon DEF HelloTimeout, NoStream
  <2>18. CASE ClientReceive
    <3>1. /\ Head(s2c) \in Message /\ Has(s2c, Head(s2c).cmd)
          /\ Has(Tail(s2c), "VIDEO_PACKET") => Has(s2c, "VIDEO_PACKET")
      BY <2>18, <2>b, TailMessage DEF ClientReceive
    <3>2. rcvQ' = Append(rcvQ, Head(s2c)) \/ rcvQ' = rcvQ
      BY <2>18, Zenon DEF ClientReceive
    <3>3. Has(Append(rcvQ, Head(s2c)), "VIDEO_PACKET")
            => Has(rcvQ, "VIDEO_PACKET") \/ Head(s2c).cmd = "VIDEO_PACKET"
      BY <3>1, <2>b, AppendMessage
    <3>4. ~Has(rcvQ', "VIDEO_PACKET") /\ ~Has(s2c', "VIDEO_PACKET")
      BY <2>a, <2>18, <3>1, <3>2, <3>3, Zenon DEF ClientReceive, NoStream
    <3> QED
      BY <2>a, <2>18, <3>4, Zenon DEF ClientReceive, NoStream
  <2>19. CASE ClientHello
    <3>1. ~Has(rcvQ', "VIDEO_PACKET")
      BY <2>a, <2>19, <2>b, TailMessage, Zenon DEF ClientHello, Process, NoStream
    <3>2. c2s' = Append(c2s, Msg("LOGIN", 0)) \/ c2s' = Append(c2s, Msg("LOGIN", 1))
      BY <2>19 DEF ClientHello, Send
    <3>3. ~Has(c2s', "PLAY")
      BY <2>a, <3>2, <2>d DEF ClientCommands, NoStream
    <3> QED
      BY <2>a, <2>19, <3>1, <3>3, Zenon DEF ClientHello, NoStream
  <2>20. CASE ClientLoginRet
    <3>1. ~Has(rcvQ', "VIDEO_PACKET")
      BY <2>a, <2>20, <2>b, TailMessage, Zenon DEF ClientLoginRet, Process, NoStream
    <3>2. c2s' = Append(c2s, Msg("SETUP", 0)) \/ c2s' = c2s
      BY <2>20 DEF ClientLoginRet, Send
    <3>3. ~Has(c2s', "PLAY")
      BY <2>a, <3>2, <2>d DEF ClientCommands, NoStream
    <3> QED
      BY <2>a, <2>20, <3>1, <3>3, Zenon DEF ClientLoginRet, NoStream
  <2>21. CASE ClientSetupRet
    BY <2>a, <2>21, Zenon DEF ClientSetupRet, NoStream
  <2>22. CASE ClientVideoPacket
    <3>1. Has(rcvQ, "VIDEO_PACKET")
      BY <2>22, <2>b, TailMessage DEF ClientVideoPacket, Process
    <3> QED
      BY <2>a, <3>1 DEF NoStream
  <2>23. CASE ClientClose
    <3>1. c2s' = Append(c2s, Msg("STOP", 0)) /\ s2c' = <<>> /\ rcvQ' = <<>>
      BY <2>23 DEF ClientClose, Send
    <3>2. ~Has(c2s', "PLAY")
      BY <2>a, <3>1, <2>d DEF ClientCommands, NoStream
    <3>3. ~Has(s2c', "VIDEO_PACKET") /\ ~Has(rcvQ', "VIDEO_PACKET")
      BY <3>1, EmptyQueue
    <3> QED
      BY <2>a, <2>23, <3>2, <3>3, Zenon DEF ClientClose, NoStream
  <2>24. CASE UNCHANGED vars
    BY <2>24, <2>a, Zenon DEF NoStream
  <2> QED
    BY <2>1, <2>2, <2>3, <2>4, <2>5, <2>6, <2>7, <2>8, <2>9,
       <2>10, <2>11, <2>12, <2>13, <2>14, <2>15, <2>16, <2>17, <2>18,
       <2>19, <2>20, <2>21, <2>22, <2>23, <2>24
       DEF Next, WindowThread, RecvThread, TCThread, ProcessThread
<1>c. DecoderInv => DecoderReady
  BY DEF DecoderInv, DecoderReady, NoStream
<1> QED
  BY <1>a, <1>b, <1>c, TypeCorrect, PTL DEF Spec
-----------------------------------------------------------------------------
(* The numbers on their way, and what the client collects *)

IsVideo(m) == m.cmd = "VIDEO_PACKET"

\* The video packets of q are numbered above lo, at most hi, and ascending.
Numbered(q, lo, hi) ==
  /\ lo \in Int /\ hi \in Int /\ lo <= hi
  /\ \A i \in 1 .. Len(q) : IsVideo(q[i]) => lo < q[i].val /\ q[i].val <= hi
  /\ \A i, j \in 1 .. Len(q) : i < j /\ IsVideo(q[i]) /\ IsVideo(q[j]) => q[i].val < q[j].val

LEMMA NumberedAppend ==
  ASSUME NEW q \in Seq(Message), NEW m \in Message, NEW lo, NEW hi, Numbered(q, lo, hi)
  PROVE  /\ ~IsVideo(m) => Numbered(Append(q, m), lo, hi)
         /\ IsVideo(m) /\ hi < m.val => Numbered(Append(q, m), lo, m.val)
<1> DEFINE all == Append(q, m)
           top == IF IsVideo(m) THEN m.val ELSE hi
<1>1. /\ Len(all) = Len(q) + 1 /\ Len(q) \in Nat /\ all[Len(q) + 1] = m
      /\ \A i \in 1 .. Len(q) : all[i] = q[i]
  OBVIOUS
<1>2. m.val \in Int /\ \A i \in 1 .. Len(q) : q[i].val \in Int
  BY MessageFields
<1> SUFFICES ASSUME IsVideo(m) => hi < m.val PROVE Numbered(all, lo, top)
  OBVIOUS
<1>3. lo \in Int /\ top \in Int /\ lo <= top /\ hi <= top /\ hi \in Int
  BY <1>2 DEF Numbered
<1>4. ASSUME NEW i \in 1 .. Len(all), IsVideo(all[i])
      PROVE  lo < all[i].val /\ all[i].val <= top
  BY <1>1, <1>2, <1>3, <1>4 DEF Numbered
<1>5. ASSUME NEW i \in 1 .. Len(all), NEW j \in 1 .. Len(all), i < j,
             IsVideo(all[i]), IsVideo(all[j])
      PROVE  all[i].val < all[j].val
  <2>1. i \in 1 .. Len(q) /\ all[i] = q[i] /\ q[i].val <= hi
    BY <1>1, <1>5 DEF Numbered
  <2>2. CASE j = Len(q) + 1
    BY <1>1, <1>2, <1>3, <1>5, <2>1, <2>2
  <2>3. CASE j # Len(q) + 1
    <3>1. j \in 1 .. Len(q) /\ all[j] = q[j]
      BY <1>1, <2>3
    <3> QED
      BY <1>5, <2>1, <3>1, Zenon DEF Numbered
  <2> QED
    BY <2>2, <2>3
<1> HIDE DEF all, top
<1> QED
  BY <1>3, <1>4, <1>5, Zenon DEF Numbered

\* What is left behind the head lies above it.
LEMMA NumberedTail ==
  ASSUME NEW q \in Seq(Message), q # <<>>, NEW lo, NEW hi, Numbered(q, lo, hi)
  PROVE  /\ Numbered(Tail(q), lo, hi)
         /\ IsVideo(Head(q)) => /\ Numbered(Tail(q), Head(q).val, hi)
                                /\ lo < Head(q).val
<1> DEFINE rest == Tail(q)
           low == IF IsVideo(Head(q)) THEN Head(q).val ELSE lo
<1>1. /\ Len(rest) = Len(q) - 1 /\ Len(q) \in Nat /\ Len(q) >= 1 /\ Head(q) = q[1]
      /\ \A i \in 1 .. Len(q) - 1 : rest[i] = q[i + 1]
  OBVIOUS
<1>2. \A i \in 1 .. Len(q) : q[i].val \in Int
  BY MessageFields
<1>3. lo \in Int /\ low \in Int /\ lo <= low /\ low <= hi /\ hi \in Int
  BY <1>1, <1>2 DEF Numbered
<1>4. ASSUME NEW i \in 1 .. Len(rest), IsVideo(rest[i])
      PROVE  low < rest[i].val /\ lo < rest[i].val /\ rest[i].val <= hi
  <2>1. i + 1 \in 1 .. Len(q) /\ 1 \in 1 .. Len(q) /\ 1 < i + 1 /\ rest[i] = q[i + 1]
    BY <1>1
  <2> QED
    BY <1>1, <1>3, <1>4, <2>1 DEF Numbered
<1>5. ASSUME NEW i \in 1 .. Len(rest), NEW j \in 1 .. Len(rest), i < j,
             IsVideo(rest[i]), IsVideo(rest[j])
      PROVE  rest[i].val < rest[j].val
  <2>1. i + 1 \in 1 .. Len(q) /\ j + 1 \in 1 .. Len(q) /\ i + 1 < j + 1
        /\ rest[i] = q[i + 1] /\ rest[j] = q[j + 1]
    BY <1>1, <1>5
  <2> QED
    BY <1>5, <2>1, Zenon DEF Numbered
<1>6. IsVideo(Head(q)) => lo < Head(q).val
  BY <1>1 DEF Numbered
<1> HIDE DEF rest
<1>7. Numbered(rest, lo, hi)
  <2>1. lo <= hi
    BY <1>3
  <2> QED
    BY <1>3, <1>4, <1>5, <2>1, Zenon DEF Numbered
<1>8. Numbered(rest, low, hi)
  <2> HIDE DEF low
  <2> QED
    BY <1>3, <1>4, <1>5, Zenon DEF Numbered
<1> QED
  BY <1>6, <1>7, <1>8 DEF rest

LEMMA NumberedEmpty == \A lo, hi \in Int : lo <= hi => Numbered(<<>>, lo, hi)
BY DEF Numbered

LEMMA NumberedHigher ==
  \A q \in Seq(Message) : \A lo, hi : \A top \in Int :
    Numbered(q, lo, hi) /\ hi <= top => Numbered(q, lo, top)
<1> SUFFICES ASSUME NEW q \in Seq(Message), NEW lo, NEW hi, NEW top \in Int,
                    Numbered(q, lo, hi), hi <= top
             PROVE  Numbered(q, lo, top)
  OBVIOUS
<1>1. \A i \in 1 .. Len(q) : q[i].val \in Int
  BY MessageFields
<1> QED
  BY <1>1 DEF Numbered

(***************************************************************************)
(* From the client back to TCThread the numbers only rise: the last one    *)
(* ProcessThread took, its queue, the connection, m_pMsgQueue, and the     *)
(* next packet.                                                            *)
(***************************************************************************)
Places(a, b) ==
  /\ Numbered(rcvQ, lastSN, a)
  /\ Numbered(s2c, a, b)
  /\ Numbered(msgQ, b, next - 1)

InNumbers == \E a, b : Places(a, b)

\* A step of the session as the packets see it.
LEMMA PacketsMove ==
  ASSUME TypeOK, [Next]_vars
  PROVE  \/ /\ UNCHANGED <<rcvQ, s2c, lastSN>>
            /\ next' >= next
            /\ \/ UNCHANGED msgQ
               \/ \E m \in Message : ~IsVideo(m) /\ msgQ' = Append(msgQ, m)
         \/ TCAddVideoPacket \/ SendPacket \/ ClientReceive \/ ClientClose
         \/ /\ rcvQ # <<>>
            /\ rcvQ' = Tail(rcvQ)
            /\ lastSN' = IF IsVideo(Head(rcvQ)) THEN Head(rcvQ).val ELSE lastSN
            /\ UNCHANGED <<s2c, msgQ, next>>
<1> DEFINE Quiet == /\ UNCHANGED <<rcvQ, s2c, lastSN>>
                    /\ next' >= next
                    /\ \/ UNCHANGED msgQ
                       \/ \E m \in Message : ~IsVideo(m) /\ msgQ' = Append(msgQ, m)
<1>n. next \in Nat
  BY DEF TypeOK, ServerTypeOK
<1>m. ASSUME NEW c \in ServerCommands \ {"VIDEO_PACKET"}, NEW v \in Nat, AddMsg(Msg(c, v))
      PROVE  UNCHANGED msgQ \/ \E m \in Message : ~IsVideo(m) /\ msgQ' = Append(msgQ, m)
  <2>1. Msg(c, v) \in Message /\ ~IsVideo(Msg(c, v))
    BY MessageType DEF IsVideo
  <2> QED
    BY <1>m, <2>1 DEF AddMsg
<1> USE DEF vars, serverVars, tcVars, clientVars, queueVars
<1>1. CASE WindowThread
  <2>1. CASE AcceptHello
    <3>1. AddMsg(Msg("HELLO", 0)) /\ UNCHANGED <<rcvQ, s2c, lastSN, next>>
      BY <2>1 DEF AcceptHello, Hello
    <3> QED
      BY <1>m, <1>n, <3>1 DEF ServerCommands
  <2>2. CASE AcceptPush \/ AcceptInit \/ ServerReceive \/ CloseClient
    <3>1. UNCHANGED <<rcvQ, s2c, lastSN, next, msgQ>>
      BY <2>2, Zenon DEF AcceptPush, AcceptInit, ServerReceive, CloseClient
    <3> QED
      BY <1>n, <3>1
  <2> QED
    BY <1>1, <2>1, <2>2 DEF WindowThread
<1>2. CASE RecvThread
  <2>1. CASE ServerLogin
    <3>1. Head(recvQ).val \in Nat
      BY <2>1, QueueFacts, MessageFields DEF ServerLogin, Take
    <3>2. /\ AddMsg(Msg("LOGIN_RET", Head(recvQ).val))
          /\ UNCHANGED <<rcvQ, s2c, lastSN, next>>
      BY <2>1 DEF ServerLogin
    <3> QED
      BY <1>m, <1>n, <3>1, <3>2 DEF ServerCommands
  <2>2. CASE ServerSetup
    <3>1. /\ AddMsg(Msg("SETUP_RET", 0)) \/ UNCHANGED msgQ
          /\ UNCHANGED <<rcvQ, s2c, lastSN, next>>
      BY <2>2 DEF ServerSetup
    <3> QED
      BY <1>m, <1>n, <3>1 DEF ServerCommands
  <2>3. CASE \/ LoginAnswered \/ LoginReturns \/ SetupReturns
             \/ ServerPlay \/ ServerStop \/ ServerUpdateTimestamp
    <3>1. UNCHANGED <<rcvQ, s2c, lastSN, next, msgQ>>
      BY <2>3, Zenon DEF LoginAnswered, LoginReturns, SetupReturns,
         ServerPlay, ServerStop, ServerUpdateTimestamp
    <3> QED
      BY <1>n, <3>1
  <2> QED
    BY <1>2, <2>1, <2>2, <2>3 DEF RecvThread
<1>3. CASE TCReadStatus
  <2>1. /\ AddMsg(Msg("HELLO", 0)) \/ UNCHANGED msgQ
        /\ UNCHANGED <<rcvQ, s2c, lastSN>>
        /\ next' = next \/ next' = next + 1
    BY <1>3 DEF TCReadStatus, Hello
  <2> QED
    BY <1>m, <1>n, <2>1 DEF ServerCommands
<1>4. CASE HelloTimeout
  BY <1>n, <1>4 DEF HelloTimeout
<1>5. CASE ProcessThread
  <2>1. /\ rcvQ # <<>>
        /\ rcvQ' = Tail(rcvQ)
        /\ UNCHANGED <<s2c, msgQ, next>>
    BY <1>5 DEF ProcessThread, Process, ClientHello, ClientLoginRet, ClientSetupRet,
       ClientVideoPacket
  <2>2. lastSN' = IF IsVideo(Head(rcvQ)) THEN Head(rcvQ).val ELSE lastSN
    BY <1>5 DEF ProcessThread, Process, ClientHello, ClientLoginRet, ClientSetupRet,
       ClientVideoPacket, IsVideo
  <2> QED
    BY <2>1, <2>2
<1>6. CASE UNCHANGED vars
  BY <1>n, <1>6
<1> QED
  BY <1>1, <1>2, <1>3, <1>4, <1>5, <1>6 DEF Next, TCThread

LEMMA NumbersStep == TypeOK /\ InNumbers /\ [Next]_vars => InNumbers'
<1> SUFFICES ASSUME TypeOK, [Next]_vars, NEW a, NEW b, Places(a, b)
             PROVE  \E c, d : Places(c, d)'
  BY Zenon DEF InNumbers
<1>1. /\ msgQ \in Seq(Message) /\ s2c \in Seq(Message) /\ rcvQ \in Seq(Message)
      /\ next \in Nat /\ lastSN \in Int
  BY DEF TypeOK, QueueTypeOK, ServerTypeOK, ClientTypeOK, IsQueue
<1>2. /\ Numbered(rcvQ, lastSN, a) /\ Numbered(s2c, a, b) /\ Numbered(msgQ, b, next - 1)
      /\ a \in Int /\ b \in Int /\ lastSN <= a /\ a <= b /\ b <= next - 1
  BY Zenon DEF Places, Numbered
<1> USE DEF vars, serverVars, tcVars, clientVars, queueVars
<1>3. CASE /\ UNCHANGED <<rcvQ, s2c, lastSN>>
           /\ next' >= next
           /\ \/ UNCHANGED msgQ
              \/ \E m \in Message : ~IsVideo(m) /\ msgQ' = Append(msgQ, m)
  <2>n. next' \in Int /\ next' - 1 \in Int /\ next - 1 <= next' - 1
    BY <1>1, <1>3, TypeStep DEF TypeOK, ServerTypeOK
  <2>1. CASE UNCHANGED msgQ
    <3>1. Numbered(msgQ, b, next' - 1)
      BY <1>1, <1>2, <2>n, NumberedHigher
    <3>2. Places(a, b)'
      BY <1>2, <1>3, <2>1, <3>1, Zenon DEF Places
    <3> QED
      BY <3>2, Zenon
  <2>2. CASE \E m \in Message : ~IsVideo(m) /\ msgQ' = Append(msgQ, m)
    <3>0. PICK m \in Message : ~IsVideo(m) /\ msgQ' = Append(msgQ, m)
      BY <2>2, Zenon
    <3>1. Numbered(Append(msgQ, m), b, next - 1) /\ Append(msgQ, m) \in Seq(Message)
      BY <1>1, <1>2, <3>0, NumberedAppend
    <3>2. Numbered(Append(msgQ, m), b, next' - 1)
      BY <1>1, <2>n, <3>1, NumberedHigher
    <3>3. Places(a, b)'
      BY <1>2, <1>3, <3>0, <3>2, Zenon DEF Places
    <3> QED
      BY <3>3, Zenon
  <2> QED
    BY <1>3, <2>1, <2>2
<1>4. CASE TCAddVideoPacket
  <2>1. /\ UNCHANGED <<rcvQ, s2c, lastSN>> /\ next' = next + 1
        /\ msgQ' = msgQ \/ msgQ' = Append(msgQ, Msg("VIDEO_PACKET", next))
    BY <1>4 DEF TCAddVideoPacket, AddMsg
  <2>2. /\ Msg("VIDEO_PACKET", next) \in Message /\ IsVideo(Msg("VIDEO_PACKET", next))
        /\ Msg("VIDEO_PACKET", next).val = next
    BY <1>1, MessageType DEF ServerCommands, IsVideo
  <2>3. next - 1 < next /\ next - 1 <= next /\ next \in Int /\ next' - 1 = next
    BY <1>1, <2>1
  <2>4. Numbered(Append(msgQ, Msg("VIDEO_PACKET", next)), b, next)
    BY <1>1, <1>2, <2>2, <2>3, NumberedAppend
  <2>5. Numbered(msgQ, b, next)
    BY <1>1, <1>2, <2>3, NumberedHigher, Zenon
  <2>6. Places(a, b)'
    BY <1>2, <2>1, <2>3, <2>4, <2>5, Zenon DEF Places
  <2> QED
    BY <2>6, Zenon
<1>5. CASE SendPacket
  <2>1. /\ UNCHANGED <<rcvQ, lastSN, next>> /\ msgQ # <<>> /\ msgQ' = Tail(msgQ)
        /\ s2c' = s2c \/ s2c' = Append(s2c, Head(msgQ))
    BY <1>5 DEF SendPacket
  <2>2. Head(msgQ) \in Message
    BY <2>1, QueueFacts
  <2>3. PICK d \in Int : /\ Numbered(Tail(msgQ), d, next - 1) /\ b <= d
                         /\ s2c' # s2c /\ IsVideo(Head(msgQ)) => d = Head(msgQ).val
    <3>1. Numbered(Tail(msgQ), b, next - 1)
      BY <1>1, <1>2, <2>1, NumberedTail
    <3>2. IsVideo(Head(msgQ)) => Numbered(Tail(msgQ), Head(msgQ).val, next - 1) /\ b < Head(msgQ).val
      BY <1>1, <1>2, <2>1, NumberedTail
    <3>3. Head(msgQ).val \in Int
      BY <2>2, MessageFields
    <3> DEFINE top == IF s2c' # s2c /\ IsVideo(Head(msgQ)) THEN Head(msgQ).val ELSE b
    <3>4. /\ top \in Int /\ Numbered(Tail(msgQ), top, next - 1) /\ b <= top
          /\ s2c' # s2c /\ IsVideo(Head(msgQ)) => top = Head(msgQ).val
      BY <1>2, <3>1, <3>2, <3>3
    <3> QED
      BY <3>4
  <2>4. Numbered(s2c', a, d)
    <3>1. CASE s2c' = s2c
      BY <1>1, <1>2, <2>3, <3>1, NumberedHigher, Zenon
    <3>2. CASE s2c' = Append(s2c, Head(msgQ)) /\ s2c' # s2c
      <4>1. CASE IsVideo(Head(msgQ))
        <5>1. b < Head(msgQ).val
          BY <1>1, <1>2, <2>1, <4>1, NumberedTail
        <5>2. Numbered(Append(s2c, Head(msgQ)), a, Head(msgQ).val)
          BY <1>1, <1>2, <2>2, <4>1, <5>1, NumberedAppend
        <5> QED
          BY <2>3, <3>2, <4>1, <5>2, Zenon
      <4>2. CASE ~IsVideo(Head(msgQ))
        <5>1. Numbered(s2c', a, b) /\ s2c' \in Seq(Message)
          BY <1>1, <1>2, <2>2, <3>2, <4>2, NumberedAppend
        <5> QED
          BY <2>3, <5>1, NumberedHigher, Zenon
      <4> QED
        BY <4>1, <4>2
    <3> QED
      BY <2>1, <3>1, <3>2
  <2>5. Places(a, d)'
    BY <1>2, <2>1, <2>3, <2>4, Zenon DEF Places
  <2> QED
    BY <2>5, Zenon
<1>6. CASE ClientReceive
  <2>1. /\ UNCHANGED <<msgQ, lastSN, next>> /\ s2c # <<>> /\ s2c' = Tail(s2c)
        /\ rcvQ' = rcvQ \/ rcvQ' = Append(rcvQ, Head(s2c))
    BY <1>6 DEF ClientReceive
  <2>2. Head(s2c) \in Message
    BY <2>1, QueueFacts
  <2>3. PICK c \in Int : /\ Numbered(Tail(s2c), c, b) /\ a <= c
                         /\ rcvQ' # rcvQ /\ IsVideo(Head(s2c)) => c = Head(s2c).val
    <3>1. Numbered(Tail(s2c), a, b)
      BY <1>1, <1>2, <2>1, NumberedTail
    <3>2. IsVideo(Head(s2c)) => Numbered(Tail(s2c), Head(s2c).val, b) /\ a < Head(s2c).val
      BY <1>1, <1>2, <2>1, NumberedTail
    <3>3. Head(s2c).val \in Int
      BY <2>2, MessageFields
    <3> DEFINE top == IF rcvQ' # rcvQ /\ IsVideo(Head(s2c)) THEN Head(s2c).val ELSE a
    <3>4. /\ top \in Int /\ Numbered(Tail(s2c), top, b) /\ a <= top
          /\ rcvQ' # rcvQ /\ IsVideo(Head(s2c)) => top = Head(s2c).val
      BY <1>2, <3>1, <3>2, <3>3
    <3> QED
      BY <3>4
  <2>4. Numbered(rcvQ', lastSN, c)
    <3>1. CASE rcvQ' = rcvQ
      BY <1>1, <1>2, <2>3, <3>1, NumberedHigher, Zenon
    <3>2. CASE rcvQ' = Append(rcvQ, Head(s2c)) /\ rcvQ' # rcvQ
      <4>1. CASE IsVideo(Head(s2c))
        <5>1. a < Head(s2c).val
          BY <1>1, <1>2, <2>1, <4>1, NumberedTail
        <5>2. Numbered(Append(rcvQ, Head(s2c)), lastSN, Head(s2c).val)
          BY <1>1, <1>2, <2>2, <4>1, <5>1, NumberedAppend
        <5> QED
          BY <2>3, <3>2, <4>1, <5>2, Zenon
      <4>2. CASE ~IsVideo(Head(s2c))
        <5>1. Numbered(rcvQ', lastSN, a) /\ rcvQ' \in Seq(Message)
          BY <1>1, <1>2, <2>2, <3>2, <4>2, NumberedAppend
        <5> QED
          BY <2>3, <5>1, NumberedHigher, Zenon
      <4> QED
        BY <4>1, <4>2
    <3> QED
      BY <2>1, <3>1, <3>2
  <2>5. Places(c, b)'
    BY <1>2, <2>1, <2>3, <2>4, Zenon DEF Places
  <2> QED
    BY <2>5, Zenon
<1>7. CASE ClientClose
  <2>1. rcvQ' = <<>> /\ s2c' = <<>> /\ UNCHANGED <<msgQ, lastSN, next>>
    BY <1>7 DEF ClientClose
  <2>2. Numbered(<<>>, lastSN, a) /\ Numbered(<<>>, a, b)
    BY <1>1, <1>2, NumberedEmpty
  <2>3. Places(a, b)'
    BY <1>2, <2>1, <2>2, Zenon DEF Places
  <2> QED
    BY <2>3, Zenon
<1>8. CASE /\ rcvQ # <<>>
           /\ rcvQ' = Tail(rcvQ)
           /\ lastSN' = IF IsVideo(Head(rcvQ)) THEN Head(rcvQ).val ELSE lastSN
           /\ UNCHANGED <<s2c, msgQ, next>>
  <2>1. Numbered(Tail(rcvQ), lastSN', a)
    BY <1>1, <1>2, <1>8, NumberedTail
  <2>2. Places(a, b)'
    BY <1>2, <1>8, <2>1, Zenon DEF Places
  <2> QED
    BY <2>2, Zenon
<1> QED
  BY <1>3, <1>4, <1>5, <1>6, <1>7, <1>8, PacketsMove

(***************************************************************************)
(* What the client has collected since the decoder was last called, unless *)
(* it has logged a loss: the packets from the start of a frame up to the   *)
(* last one it took.                                                       *)
(***************************************************************************)
BufferInv ==
  ~gapSeen =>
    /\ (lastSN + 1) % Units = Len(tmpBuf)
    /\ tmpBuf # <<>> => tmpBuf[1] % Units = 0
    /\ \A i \in 1 .. Len(tmpBuf) : tmpBuf[i] = (lastSN - Len(tmpBuf)) + i

LEMMA Remainder ==
  ASSUME NEW x \in Nat, NEW q \in Nat, NEW r \in 0 .. Units - 1, x = Units * q + r
  PROVE  x % Units = r
BY SessionAssumption

\* The unit behind one, and behind a marked one.
LEMMA UnitAfter ==
  ASSUME NEW n \in Nat
  PROVE  /\ n % Units \in 0 .. Units - 1
         /\ (n + 1) % Units = IF IsMarked(n) THEN 0 ELSE (n % Units) + 1
<1> DEFINE q == n \div Units
           r == n % Units
<1>1. q \in Nat /\ r \in 0 .. Units - 1 /\ n = Units * q + r
  BY SessionAssumption
<1>2. Units \in Nat /\ Units >= 1 /\ n + 1 \in Nat
  BY SessionAssumption
<1> HIDE DEF q, r
<1>3. CASE r = Units - 1
  <2>1. n + 1 = Units * (q + 1) + 0 /\ q + 1 \in Nat /\ 0 \in 0 .. Units - 1
    BY <1>1, <1>2, <1>3
  <2>2. (n + 1) % Units = 0
    BY <1>2, <2>1, Remainder, Zenon
  <2> QED
    BY <1>1, <1>3, <2>2 DEF IsMarked, r
<1>4. CASE r # Units - 1
  <2>1. n + 1 = Units * q + (r + 1) /\ r + 1 \in 0 .. Units - 1
    BY <1>1, <1>2, <1>4
  <2>2. (n + 1) % Units = r + 1
    BY <1>1, <1>2, <2>1, Remainder, Zenon
  <2> QED
    BY <1>1, <1>4, <2>2 DEF IsMarked, r
<1> QED
  BY <1>3, <1>4

\* A packet that is no loss is the one after the last.
LEMMA NextInLine ==
  ASSUME TypeOK, InNumbers, ClientVideoPacket
  PROVE  LET n == Head(rcvQ).val IN
           /\ n \in Nat /\ lastSN \in Int /\ tmpBuf \in Seq(Nat)
           /\ ~IsLoss(n) => n = lastSN + 1
<1> DEFINE n == Head(rcvQ).val
<1>1. rcvQ # <<>> /\ IsVideo(Head(rcvQ)) /\ rcvQ \in Seq(Message) /\ Head(rcvQ) \in Message
  BY QueueFacts DEF ClientVideoPacket, Process, IsVideo, TypeOK, QueueTypeOK, IsQueue
<1>2. n \in Nat /\ lastSN \in Int /\ tmpBuf \in Seq(Nat)
  BY <1>1, MessageFields DEF TypeOK, ClientTypeOK
<1>3. lastSN < n
  BY <1>1, NumberedTail DEF InNumbers, Places
<1> QED
  BY <1>2, <1>3 DEF IsLoss

LEMMA BufferStep == TypeOK /\ InNumbers /\ BufferInv /\ [Next]_vars => BufferInv'
<1> SUFFICES ASSUME TypeOK, InNumbers, BufferInv, [Next]_vars PROVE BufferInv'
  OBVIOUS
<1>1. CASE ClientVideoPacket
  <2> DEFINE n == Head(rcvQ).val
  <2>1. /\ n \in Nat /\ lastSN \in Int /\ tmpBuf \in Seq(Nat)
        /\ ~IsLoss(n) => n = lastSN + 1
    BY <1>1, NextInLine
  <2>2. lastSN' = n
    BY <1>1 DEF ClientVideoPacket
  <2>3. /\ n % Units \in 0 .. Units - 1
        /\ (n + 1) % Units = IF IsMarked(n) THEN 0 ELSE (n % Units) + 1
    BY <2>1, UnitAfter
  <2>4. CASE IsMarked(n) /\ tmpBuf' = <<>>
    BY <2>2, <2>3, <2>4 DEF BufferInv
  <2>5. CASE ~IsMarked(n) /\ tmpBuf' = Append(tmpBuf, n) /\ gapSeen' = (gapSeen \/ IsLoss(n))
    <3> SUFFICES ASSUME ~gapSeen, n = lastSN + 1
                 PROVE  /\ (n + 1) % Units = Len(Append(tmpBuf, n))
                        /\ Append(tmpBuf, n)[1] % Units = 0
                        /\ \A i \in 1 .. Len(Append(tmpBuf, n)) :
                             Append(tmpBuf, n)[i] = (n - Len(Append(tmpBuf, n))) + i
      BY <2>1, <2>2, <2>5 DEF BufferInv
    <3>1. /\ n % Units = Len(tmpBuf)
          /\ tmpBuf # <<>> => tmpBuf[1] % Units = 0
          /\ \A i \in 1 .. Len(tmpBuf) : tmpBuf[i] = ((n - 1) - Len(tmpBuf)) + i
      <4>1. /\ (lastSN + 1) % Units = Len(tmpBuf)
            /\ tmpBuf # <<>> => tmpBuf[1] % Units = 0
            /\ \A i \in 1 .. Len(tmpBuf) : tmpBuf[i] = (lastSN - Len(tmpBuf)) + i
        BY Zenon DEF BufferInv
      <4>2. lastSN = n - 1
        BY <2>1
      <4> QED
        BY <4>1, <4>2, Zenon
    <3>2. /\ Len(Append(tmpBuf, n)) = Len(tmpBuf) + 1 /\ Len(tmpBuf) \in Nat
          /\ Append(tmpBuf, n)[Len(tmpBuf) + 1] = n
          /\ \A i \in 1 .. Len(tmpBuf) : Append(tmpBuf, n)[i] = tmpBuf[i]
          /\ tmpBuf # <<>> => 1 \in 1 .. Len(tmpBuf)
          /\ tmpBuf = <<>> => Len(tmpBuf) = 0
      BY <2>1
    <3>3. (n + 1) % Units = Len(tmpBuf) + 1
      BY <2>3, <2>5, <3>1
    <3>4. Append(tmpBuf, n)[1] % Units = 0
      BY <3>1, <3>2
    <3>5. ASSUME NEW i \in 1 .. Len(tmpBuf) + 1
          PROVE  Append(tmpBuf, n)[i] = (n - (Len(tmpBuf) + 1)) + i
      BY <2>1, <3>1, <3>2
    <3> QED
      BY <3>2, <3>3, <3>4, <3>5
  <2> QED
    BY <1>1, <2>4, <2>5 DEF ClientVideoPacket
<1>2. CASE ~ClientVideoPacket
  <2>1. UNCHANGED <<tmpBuf, lastSN, gapSeen>>
    BY <1>2, Zenon DEF Next, WindowThread, RecvThread, TCThread, ProcessThread,
       AcceptPush, AcceptInit, AcceptHello, ServerReceive, CloseClient, ServerLogin,
       LoginAnswered, LoginReturns, ServerSetup, SetupReturns, ServerPlay, ServerStop,
       ServerUpdateTimestamp, SendPacket, TCReadStatus, TCAddVideoPacket, HelloTimeout,
       ClientReceive, ClientHello, ClientLoginRet, ClientSetupRet, ClientClose,
       vars, clientVars
  <2> QED
    BY <2>1 DEF BufferInv
<1> QED
  BY <1>1, <1>2

LEMMA CollectedIsFrame ==
  ASSUME TypeOK, InNumbers, BufferInv, ClientVideoPacket
  PROVE  LET n == Head(rcvQ).val IN
         IsMarked(n) => gapSeen \/ IsLoss(n) \/ IsWholeFrame(Append(tmpBuf, n))
<1> DEFINE n == Head(rcvQ).val
           s == Append(tmpBuf, n)
<1> SUFFICES ASSUME IsMarked(n), ~gapSeen, ~IsLoss(n) PROVE IsWholeFrame(s)
  OBVIOUS
<1>1. n \in Nat /\ lastSN \in Int /\ tmpBuf \in Seq(Nat) /\ n = lastSN + 1
  BY NextInLine
<1>2. /\ n % Units = Len(tmpBuf)
      /\ tmpBuf # <<>> => tmpBuf[1] % Units = 0
      /\ \A i \in 1 .. Len(tmpBuf) : tmpBuf[i] = ((n - 1) - Len(tmpBuf)) + i
  <2>1. /\ (lastSN + 1) % Units = Len(tmpBuf)
        /\ tmpBuf # <<>> => tmpBuf[1] % Units = 0
        /\ \A i \in 1 .. Len(tmpBuf) : tmpBuf[i] = (lastSN - Len(tmpBuf)) + i
    BY Zenon DEF BufferInv
  <2>2. lastSN = n - 1
    BY <1>1
  <2> QED
    BY <1>1, <2>1, <2>2, Zenon
<1>3. /\ Len(s) = Len(tmpBuf) + 1 /\ Len(tmpBuf) \in Nat
      /\ s[Len(tmpBuf) + 1] = n
      /\ \A i \in 1 .. Len(tmpBuf) : s[i] = tmpBuf[i]
      /\ tmpBuf # <<>> => 1 \in 1 .. Len(tmpBuf)
      /\ tmpBuf = <<>> => Len(tmpBuf) = 0
  BY <1>1
<1>4. Len(tmpBuf) = Units - 1 /\ Units \in Nat
  BY <1>2, SessionAssumption DEF IsMarked
<1> HIDE DEF s, n
<1>5. \A i \in 1 .. Units : s[i] = (n - Units) + i
  BY <1>1, <1>2, <1>3, <1>4
<1>6. 1 \in 1 .. Units
  BY SessionAssumption
<1>7. \A i \in 1 .. Units : s[i] = (s[1] + i) - 1
  BY <1>1, <1>4, <1>5, <1>6
<1>8. s[1] % Units = 0
  BY <1>2, <1>3
<1>9. Len(s) = Units
  BY <1>3, <1>4
<1> QED
  BY <1>1, <1>4, <1>5, <1>6, <1>7, <1>8, <1>9 DEF IsWholeFrame

\* What RecvVideoPacket hands to the decoder is one whole frame, unless it has
\* logged a loss since the decoder was last called (Client::RecvVideoPacket).
THEOREM FragmentIsLoggedHolds == Spec => FragmentIsLogged
<1>1. Init => InNumbers /\ BufferInv
  <2> SUFFICES ASSUME Init PROVE InNumbers /\ BufferInv
    OBVIOUS
  <2>1. /\ rcvQ = <<>> /\ s2c = <<>> /\ msgQ = <<>> /\ lastSN = -1 /\ next - 1 = -1
        /\ tmpBuf = <<>> /\ lastSN + 1 = 0 /\ Len(tmpBuf) = 0 /\ -1 \in Int /\ -1 <= -1
    BY DEF Init
  <2>2. Numbered(<<>>, -1, -1)
    BY <2>1, NumberedEmpty
  <2>3. Places(-1, -1)
    BY <2>1, <2>2, Zenon DEF Places
  <2>4. 0 % Units = 0
    BY SessionAssumption
  <2>5. BufferInv
    BY <2>1, <2>4 DEF BufferInv
  <2> QED
    BY <2>3, <2>5, Zenon DEF InNumbers
<1>2. TypeOK /\ InNumbers /\ BufferInv /\ [Next]_vars
        => [ClientVideoPacket =>
              LET n == Head(rcvQ).val IN
              IsMarked(n) => gapSeen \/ IsLoss(n) \/ IsWholeFrame(Append(tmpBuf, n))]_vars
  BY CollectedIsFrame
<1> QED
  BY <1>1, <1>2, NumbersStep, BufferStep, TypeCorrect, PTL DEF Spec, FragmentIsLogged
-----------------------------------------------------------------------------
(* The bytes below the session: VSFStream *)

\* A non-empty set of numbers has a least one.
LEMMA LeastNat ==
  ASSUME NEW T, T \subseteq Nat, T # {}
  PROVE  \E x \in T : \A y \in T : x <= y
<1>1. IsWellFoundedOn(OpToRel(<, Nat), Nat)
  BY NatLessThanWellFounded
<1>2. PICK x \in T : \A y \in T : ~ (<<y, x>> \in OpToRel(<, Nat))
  BY <1>1, WFMin
<1>3. \A y \in T : ~(y < x)
  BY <1>2 DEF OpToRel
<1> QED
  BY <1>3

\* Induction, for a set of numbers.
LEMMA SetInduction ==
  ASSUME NEW T, 0 \in T, \A n \in Nat : n \in T => n + 1 \in T
  PROVE  Nat \subseteq T
<1> SUFFICES ASSUME Nat \ T # {} PROVE FALSE
  OBVIOUS
<1>1. PICK x \in Nat \ T : \A y \in Nat \ T : x <= y
  BY LeastNat
<1>2. x - 1 \in Nat
  BY <1>1
<1>3. x - 1 \in T
  BY <1>1, <1>2
<1> QED
  BY <1>1, <1>2, <1>3

(***************************************************************************)
(* Concatenation of a sequence of sequences.  g holds the concatenations   *)
(* of the prefixes of s.                                                   *)
(***************************************************************************)
Flat(s) == FlattenSeq(s)

Partials(S, s, g) ==
  /\ g \in [0 .. Len(s) -> Seq(S)]
  /\ g[0] = <<>>
  /\ \A i \in 1 .. Len(s) : g[i] = g[i - 1] \o s[i]

LEMMA PartialsExist ==
  ASSUME NEW S, NEW s \in Seq(Seq(S))
  PROVE  \E g : Partials(S, s, g)
<1> DEFINE R(n, g) == /\ g \in [0 .. n -> Seq(S)]
                      /\ g[0] = <<>>
                      /\ \A i \in 1 .. n : g[i] = g[i - 1] \o s[i]
           T == {n \in Nat : n <= Len(s) => \E g : R(n, g)}
<1>1. 0 \in T
  <2>1. R(0, [i \in 0 .. 0 |-> <<>>])
    OBVIOUS
  <2> QED
    BY <2>1, Zenon
<1>2. ASSUME NEW n \in Nat, n \in T PROVE n + 1 \in T
  <2>1. ASSUME n + 1 <= Len(s) PROVE \E g : R(n + 1, g)
    <3>1. n <= Len(s)
      BY <2>1
    <3>2. \E g : R(n, g)
      BY <1>2, <3>1, Zenon
    <3>3. PICK g : R(n, g)
      BY <3>2, Zenon
    <3> DEFINE h == [i \in 0 .. n + 1 |-> IF i = n + 1 THEN g[n] \o s[n + 1] ELSE g[i]]
    <3>4. s[n + 1] \in Seq(S) /\ g[n] \in Seq(S)
      BY <2>1, <3>3
    <3>5. h \in [0 .. n + 1 -> Seq(S)] /\ h[0] = <<>>
      BY <3>3, <3>4
    <3>6. ASSUME NEW i \in 1 .. n + 1 PROVE h[i] = h[i - 1] \o s[i]
      <4>1. CASE i = n + 1
        <5>1. i - 1 = n /\ i - 1 \in 0 .. n + 1 /\ n + 1 \in 0 .. n + 1 /\ n # n + 1
          BY <4>1
        <5>2. h[i] = g[n] \o s[n + 1] /\ h[i - 1] = g[n]
          BY <4>1, <5>1, Zenon
        <5> QED
          BY <4>1, <5>2, Zenon
      <4>2. CASE i # n + 1
        <5>1. i \in 1 .. n /\ i \in 0 .. n + 1 /\ i - 1 \in 0 .. n + 1 /\ i - 1 # n + 1
          BY <4>2
        <5>2. h[i] = g[i] /\ h[i - 1] = g[i - 1]
          BY <4>2, <5>1, Zenon
        <5> QED
          BY <3>3, <5>1, <5>2, Zenon
      <4> QED
        BY <4>1, <4>2
    <3> HIDE DEF h
    <3>7. R(n + 1, h)
      BY <3>5, <3>6, Zenon
    <3> QED
      BY <3>7, Zenon
  <2> HIDE DEF R
  <2> QED
    BY <2>1
<1> HIDE DEF T
<1>3. Nat \subseteq T
  BY <1>1, <1>2, SetInduction
<1>4. Len(s) \in T
  BY <1>3
<1>5. \E g : R(Len(s), g)
  <2> HIDE DEF R
  <2> QED
    BY <1>4 DEF T
<1> QED
  BY <1>5, Zenon DEF Partials

\* FlattenSeq is the last of the prefixes.
LEMMA FlatIsLast ==
  ASSUME NEW S, NEW s \in Seq(Seq(S)), NEW g, Partials(S, s, g)
  PROVE  Flat(s) = g[Len(s)]
<1>1. CASE Len(s) = 0
  <2>1. Flat(s) = s
    BY <1>1, Zenon DEF Flat, FlattenSeq
  <2>2. s = <<>>
    BY <1>1
  <2> QED
    BY <1>1, <2>1, <2>2 DEF Partials
<1>2. CASE Len(s) # 0
  <2> DEFINE f[i \in 1 .. Len(s)] == IF i = 1 THEN s[i] ELSE f[i - 1] \o s[i]
             h == [i \in 1 .. Len(s) |-> g[i]]
             T == {n \in Nat : n \in 1 .. Len(s) => f[n] = g[n]}
  <2>1. Flat(s) = f[Len(s)]
    BY <1>2, Zenon DEF Flat, FlattenSeq
  <2>2. f = CHOOSE k : k = [i \in 1 .. Len(s) |-> IF i = 1 THEN s[i] ELSE k[i - 1] \o s[i]]
    OBVIOUS
  <2>3. h = [i \in 1 .. Len(s) |-> IF i = 1 THEN s[i] ELSE h[i - 1] \o s[i]]
    <3>1. ASSUME NEW i \in 1 .. Len(s)
          PROVE  g[i] = IF i = 1 THEN s[i] ELSE h[i - 1] \o s[i]
      <4>1. g[i] = g[i - 1] \o s[i] /\ s[i] \in Seq(S) /\ g[0] = <<>>
        <5>1. s[i] \in Seq(S)
          OBVIOUS
        <5> QED
          BY <5>1, Zenon DEF Partials
      <4>2. CASE i = 1
        <5>1. <<>> \o s[i] = s[i]
          BY <4>1, ConcatEmptySeq
        <5>2. i - 1 = 0
          BY <4>2
        <5> QED
          BY <4>1, <4>2, <5>1, <5>2, Zenon
      <4>3. CASE i # 1
        <5>1. i - 1 \in 1 .. Len(s)
          BY <4>3
        <5>2. h[i - 1] = g[i - 1]
          BY <5>1, Zenon
        <5> QED
          BY <4>1, <4>3, <5>2, Zenon
      <4> QED
        BY <4>2, <4>3
    <3> QED
      BY <3>1, Zenon
  <2>4. f = [i \in 1 .. Len(s) |-> IF i = 1 THEN s[i] ELSE f[i - 1] \o s[i]]
    <3> HIDE DEF f, h
    <3> QED
      BY <2>2, <2>3, Zenon
  <2> HIDE DEF f
  <2>5. 0 \in T
    OBVIOUS
  <2>6. ASSUME NEW n \in Nat, n \in T PROVE n + 1 \in T
    <3>1. ASSUME n + 1 \in 1 .. Len(s) PROVE f[n + 1] = g[n + 1]
      <4>1. g[n + 1] = g[n] \o s[n + 1] /\ s[n + 1] \in Seq(S) /\ g[0] = <<>>
        <5>1. (n + 1) - 1 = n
          OBVIOUS
        <5>2. s[n + 1] \in Seq(S)
          BY <3>1
        <5> QED
          BY <3>1, <5>1, <5>2, Zenon DEF Partials
      <4>2. f[n + 1] = IF n = 0 THEN s[n + 1] ELSE f[n] \o s[n + 1]
        <5>1. f[n + 1] = IF n + 1 = 1 THEN s[n + 1] ELSE f[(n + 1) - 1] \o s[n + 1]
          BY <2>4, <3>1, Zenon
        <5>2. (n + 1) - 1 = n /\ (n + 1 = 1 <=> n = 0)
          OBVIOUS
        <5> QED
          BY <5>1, <5>2, Zenon
      <4>3. n # 0 => f[n] = g[n]
        BY <2>6, <3>1
      <4>4. <<>> \o s[n + 1] = s[n + 1]
        BY <4>1, ConcatEmptySeq
      <4> QED
        BY <4>1, <4>2, <4>3, <4>4, Zenon
    <3> QED
      BY <3>1
  <2> HIDE DEF T
  <2>7. Nat \subseteq T
    BY <2>5, <2>6, SetInduction
  <2>8. Len(s) \in T /\ Len(s) \in 1 .. Len(s)
    BY <1>2, <2>7
  <2> QED
    BY <2>1, <2>8 DEF T
<1> QED
  BY <1>1, <1>2

LEMMA FlatType ==
  ASSUME NEW S, NEW s \in Seq(Seq(S))
  PROVE  Flat(s) \in Seq(S)
<1>1. PICK g : Partials(S, s, g)
  BY PartialsExist
<1>2. g[Len(s)] \in Seq(S)
  BY <1>1 DEF Partials
<1> QED
  BY <1>1, <1>2, FlatIsLast

LEMMA FlatEmpty == Flat(<<>>) = <<>>
BY DEF Flat, FlattenSeq

LEMMA FlatAppend ==
  ASSUME NEW S, NEW s \in Seq(Seq(S)), NEW x \in Seq(S)
  PROVE  Flat(Append(s, x)) = Flat(s) \o x
<1>1. PICK g : Partials(S, s, g)
  BY PartialsExist
<1> DEFINE t == Append(s, x)
           n == Len(s)
           h == [i \in 0 .. n + 1 |-> IF i = n + 1 THEN g[n] \o x ELSE g[i]]
<1>2. t \in Seq(Seq(S)) /\ Len(t) = n + 1 /\ t[n + 1] = x /\ \A i \in 1 .. n : t[i] = s[i]
  OBVIOUS
<1>3. g \in [0 .. n -> Seq(S)] /\ g[0] = <<>> /\ \A i \in 1 .. n : g[i] = g[i - 1] \o s[i]
  BY <1>1, Zenon DEF Partials
<1>n. n \in Nat
  OBVIOUS
<1> HIDE DEF t, n
<1>4. h \in [0 .. n + 1 -> Seq(S)] /\ h[0] = <<>>
  BY <1>3, <1>n
<1>5. ASSUME NEW i \in 1 .. n + 1 PROVE h[i] = h[i - 1] \o t[i]
  <2>1. CASE i = n + 1
    <3>1. i - 1 = n /\ i - 1 \in 0 .. n + 1 /\ n + 1 \in 0 .. n + 1 /\ n # n + 1
      BY <1>n, <2>1
    <3>2. h[i] = g[n] \o x /\ h[i - 1] = g[n]
      BY <2>1, <3>1, Zenon
    <3> QED
      BY <1>2, <2>1, <3>2, Zenon
  <2>2. CASE i # n + 1
    <3>1. i \in 1 .. n /\ i \in 0 .. n + 1 /\ i - 1 \in 0 .. n + 1 /\ i - 1 # n + 1
      BY <1>n, <2>2
    <3>2. h[i] = g[i] /\ h[i - 1] = g[i - 1]
      BY <2>2, <3>1, Zenon
    <3> QED
      BY <1>2, <1>3, <3>1, <3>2, Zenon
  <2> QED
    BY <2>1, <2>2
<1>6. Partials(S, t, h)
  BY <1>2, <1>4, <1>5, Zenon DEF Partials
<1>7. h[n + 1] = g[n] \o x
  BY <1>n
<1> HIDE DEF h
<1>8. Flat(t) = h[n + 1] /\ Flat(s) = g[n]
  BY <1>1, <1>2, <1>6, FlatIsLast, Zenon DEF n
<1> QED
  BY <1>7, <1>8, Zenon DEF t

LEMMA FlatHead ==
  ASSUME NEW S, NEW s \in Seq(Seq(S)), s # <<>>
  PROVE  Flat(s) = Head(s) \o Flat(Tail(s))
<1> DEFINE t == Tail(s)
           n == Len(s)
<1>2. /\ t \in Seq(Seq(S)) /\ Len(t) = n - 1 /\ n \in Nat /\ n > 0
      /\ \A i \in 1 .. n - 1 : t[i] = s[i + 1]
      /\ \A i \in 1 .. n : s[i] \in Seq(S)
      /\ Head(s) = s[1]
  OBVIOUS
<1>1. PICK g : Partials(S, t, g)
  BY <1>2, PartialsExist
<1> DEFINE h == [i \in 0 .. n |-> IF i = 0 THEN <<>> ELSE s[1] \o g[i - 1]]
<1>3. g \in [0 .. n - 1 -> Seq(S)] /\ g[0] = <<>> /\ \A i \in 1 .. n - 1 : g[i] = g[i - 1] \o t[i]
  BY <1>1, <1>2 DEF Partials
<1> HIDE DEF t, n
<1>4. h \in [0 .. n -> Seq(S)] /\ h[0] = <<>>
  <2>1. s[1] \in Seq(S)
    BY <1>2
  <2>2. \A i \in 0 .. n : i # 0 => s[1] \o g[i - 1] \in Seq(S)
    BY <1>2, <1>3, <2>1
  <2>3. \A i \in 0 .. n : (IF i = 0 THEN <<>> ELSE s[1] \o g[i - 1]) \in Seq(S)
    <3>1. <<>> \in Seq(S)
      OBVIOUS
    <3> QED
      BY <2>2, <3>1, Zenon
  <2>4. 0 \in 0 .. n
    BY <1>2
  <2> QED
    BY <2>3, <2>4, Zenon
<1>5. ASSUME NEW i \in 1 .. n PROVE h[i] = h[i - 1] \o s[i]
  <2>1. CASE i = 1
    BY <1>2, <1>3, <2>1
  <2>2. CASE i # 1
    <3>1. /\ i - 1 \in 1 .. n - 1 /\ (i - 1) + 1 = i /\ i - 1 \in 0 .. n /\ i \in 0 .. n
          /\ i - 1 # 0 /\ i # 0 /\ (i - 1) - 1 \in 0 .. n - 1 /\ 1 \in 1 .. n
      BY <1>2, <2>2
    <3>2. g[i - 1] = g[(i - 1) - 1] \o s[i]
      BY <1>2, <1>3, <3>1, Zenon
    <3>3. h[i] = s[1] \o g[i - 1] /\ h[i - 1] = s[1] \o g[(i - 1) - 1]
      BY <3>1, Zenon
    <3>4. s[1] \in Seq(S) /\ g[(i - 1) - 1] \in Seq(S) /\ s[i] \in Seq(S)
      BY <1>2, <1>3, <3>1, Zenon
    <3> DEFINE a == s[1]
               b == g[(i - 1) - 1]
               c == s[i]
    <3>5. a \o (b \o c) = (a \o b) \o c
      <4> HIDE DEF a, b, c
      <4>1. a \in Seq(S) /\ b \in Seq(S) /\ c \in Seq(S)
        BY <3>4, Zenon DEF a, b, c
      <4> QED
        BY <4>1
    <3> QED
      BY <3>2, <3>3, <3>5, Zenon
  <2> QED
    BY <2>1, <2>2
<1>6. h[n] = s[1] \o g[n - 1]
  <2>1. n \in 0 .. n /\ n # 0
    BY <1>2
  <2> QED
    BY <2>1, Zenon
<1> HIDE DEF h
<1>7. Partials(S, s, h)
  BY <1>4, <1>5, Zenon DEF Partials, n
<1>8. Flat(s) = h[n] /\ Flat(t) = g[n - 1]
  BY <1>1, <1>2, <1>7, FlatIsLast, Zenon DEF n
<1> QED
  BY <1>2, <1>6, <1>8, Zenon DEF t

(***************************************************************************)
(* The stream: packet after packet, each cell before all later ones.       *)
(***************************************************************************)
Before(c, d) == c.packet < d.packet \/ (c.packet = d.packet /\ c.pos < d.pos)

Ends(c) == c.pos = Lengths[c.packet]

\* s is packets 1 to K: where a packet begins all of it follows, and where it
\* ends the next one begins.
IsPackets(K, s) ==
  /\ s \in Seq(Cell)
  /\ \A j \in 1 .. Len(s) : s[j].packet <= K /\ s[j].pos \in 1 .. Lengths[s[j].packet]
  /\ \A i, j \in 1 .. Len(s) : i < j => Before(s[i], s[j])
  /\ \A j \in 1 .. Len(s) : s[j].pos = 1 =>
       \A i \in 1 .. Lengths[s[j].packet] :
         /\ (j + i) - 1 <= Len(s)
         /\ s[(j + i) - 1] = [packet |-> s[j].packet, pos |-> i]
  /\ \A j \in 1 .. Len(s) : Ends(s[j]) => j = Len(s) \/ s[j + 1].pos = 1
  /\ s # <<>> => s[1].pos = 1 /\ Ends(s[Len(s)])

LEMMA MakeValue ==
  ASSUME NEW p \in 1 .. Len(Lengths)
  PROVE  /\ Lengths[p] \in Nat /\ Lengths[p] >= 4
         /\ Make(p) \in Seq(Cell) /\ Len(Make(p)) = Lengths[p]
         /\ \A i \in 1 .. Lengths[p] : Make(p)[i] = [packet |-> p, pos |-> i]
<1>1. Lengths[p] \in Nat /\ Lengths[p] >= 4
  <2>1. Lengths \in Seq(Nat \ 0 .. 3)
    BY StreamAssumption
  <2>2. Lengths[p] \in Nat \ 0 .. 3
    BY <2>1
  <2> QED
    BY <2>2
<1>2. Make(p) = [i \in 1 .. Lengths[p] |-> [packet |-> p, pos |-> i]]
  BY DEF Make
<1>3. \A i \in 1 .. Lengths[p] : [packet |-> p, pos |-> i] \in Cell
  BY <1>1 DEF Cell, Packets
<1>4. Make(p) \in [1 .. Lengths[p] -> Cell]
  BY <1>2, <1>3
<1>5. Make(p) \in Seq(Cell) /\ Len(Make(p)) = Lengths[p]
  BY <1>1, <1>4
<1> QED
  BY <1>1, <1>2, <1>5

LEMMA NextPacket ==
  ASSUME NEW K \in Nat, K + 1 \in 1 .. Len(Lengths), NEW s, IsPackets(K, s)
  PROVE  IsPackets(K + 1, s \o Make(K + 1))
<1> DEFINE p == K + 1
           m == Make(p)
           n == Len(s)
           l == Lengths[p]
           t == s \o m
<1>1. /\ l \in Nat /\ l >= 4 /\ m \in Seq(Cell) /\ Len(m) = l
      /\ \A i \in 1 .. l : m[i] = [packet |-> p, pos |-> i]
  BY MakeValue
<1>2. /\ s \in Seq(Cell) /\ n \in Nat
      /\ p \in Nat /\ p > K
  BY DEF IsPackets
<1>3. /\ t \in Seq(Cell) /\ Len(t) = n + l
      /\ \A i \in 1 .. n : t[i] = s[i]
      /\ \A i \in 1 .. l : t[n + i] = m[i]
  <2> HIDE DEF m, l
  <2>1. /\ t \in Seq(Cell) /\ Len(t) = n + l
        /\ \A i \in 1 .. n + l : t[i] = IF i <= n THEN s[i] ELSE m[i - n]
    BY <1>1, <1>2, ConcatProperties
  <2>2. ASSUME NEW i \in 1 .. n PROVE t[i] = s[i]
    <3>1. i \in 1 .. n + l /\ i <= n
      BY <1>1, <1>2
    <3> QED
      BY <2>1, <3>1, Zenon
  <2>3. ASSUME NEW i \in 1 .. l PROVE t[n + i] = m[i]
    <3>1. n + i \in 1 .. n + l /\ ~(n + i <= n) /\ (n + i) - n = i
      BY <1>1, <1>2
    <3> QED
      BY <2>1, <3>1, Zenon
  <2> QED
    BY <2>1, <2>2, <2>3
<1>4. ASSUME NEW j \in 1 .. n + l, j > n
      PROVE  /\ j - n \in 1 .. l /\ t[j] = [packet |-> p, pos |-> j - n]
             /\ t[j].packet = p /\ t[j].pos = j - n
  <2>1. j - n \in 1 .. l /\ n + (j - n) = j
    BY <1>1, <1>2, <1>4
  <2> DEFINE c == [packet |-> p, pos |-> j - n]
  <2>2. c.packet = p /\ c.pos = j - n
    OBVIOUS
  <2>3. t[j] = c
    BY <1>1, <1>3, <2>1, Zenon
  <2> QED
    BY <2>1, <2>2, <2>3, Zenon
<1>c. \A j \in 1 .. n : s[j].packet \in Nat /\ s[j].pos \in Nat /\ Lengths[s[j].packet] \in Nat
  <2>1. \A j \in 1 .. n : s[j] \in Cell
    BY <1>2
  <2>2. \A j \in 1 .. n : s[j].packet \in 1 .. Len(Lengths) /\ s[j].pos \in Nat
    BY <2>1 DEF Cell, Packets
  <2> QED
    BY <2>2, MakeValue
<1>5. \A j \in 1 .. n : /\ s[j].packet <= K /\ s[j].pos \in 1 .. Lengths[s[j].packet]
                        /\ (Ends(s[j]) => j = n \/ s[j + 1].pos = 1)
  BY DEF IsPackets
<1>6. s # <<>> => s[1].pos = 1 /\ Ends(s[n])
  BY DEF IsPackets
<1>7. \A i, j \in 1 .. n : i < j => Before(s[i], s[j])
  BY DEF IsPackets
<1>8. \A j \in 1 .. n : s[j].pos = 1 =>
       \A i \in 1 .. Lengths[s[j].packet] :
         /\ (j + i) - 1 <= n
         /\ s[(j + i) - 1] = [packet |-> s[j].packet, pos |-> i]
  BY DEF IsPackets
<1>9. n > 0 <=> s # <<>>
  BY <1>2
<1> HIDE DEF p, m, n, l, t
<1>10. ASSUME NEW j \in 1 .. n + l
       PROVE  t[j].packet <= p /\ t[j].pos \in 1 .. Lengths[t[j].packet]
  <2>1. CASE j <= n
    <3>1. j \in 1 .. n /\ t[j] = s[j]
      BY <1>2, <1>3, <2>1
    <3>2. s[j].packet <= K /\ s[j].packet \in Nat /\ s[j].pos \in 1 .. Lengths[s[j].packet]
      BY <1>5, <1>c, <3>1
    <3> QED
      BY <1>2, <3>1, <3>2
  <2>2. CASE j > n
    <3>1. j - n \in 1 .. l
      BY <1>4, <2>2
    <3>2. t[j].packet = p /\ t[j].pos = j - n
      BY <1>4, <2>2, Zenon
    <3> QED
      BY <1>2, <3>1, <3>2 DEF l
  <2> QED
    BY <1>2, <2>1, <2>2
<1>11. ASSUME NEW i \in 1 .. n + l, NEW j \in 1 .. n + l, i < j PROVE Before(t[i], t[j])
  <2>1. CASE j <= n
    <3>1. i \in 1 .. n /\ j \in 1 .. n
      BY <1>2, <1>11, <2>1
    <3> QED
      BY <1>3, <1>7, <1>11, <3>1
  <2>2. CASE i <= n /\ j > n
    <3>1. i \in 1 .. n
      BY <2>2
    <3>2. t[i].packet <= K /\ t[i].packet \in Nat
      BY <1>3, <1>5, <1>c, <3>1
    <3>3. t[j].packet = p
      BY <1>4, <2>2, Zenon
    <3> QED
      BY <1>2, <3>2, <3>3 DEF Before
  <2>3. CASE i > n
    <3>1. j > n /\ i - n < j - n
      BY <1>2, <1>11, <2>3
    <3>2. t[i] = [packet |-> p, pos |-> i - n] /\ t[j] = [packet |-> p, pos |-> j - n]
      BY <1>4, <2>3, <3>1
    <3> QED
      BY <3>1, <3>2 DEF Before
  <2> QED
    BY <1>1, <1>2, <2>1, <2>2, <2>3
<1>12. ASSUME NEW j \in 1 .. n + l, t[j].pos = 1, NEW i \in 1 .. Lengths[t[j].packet]
       PROVE  /\ (j + i) - 1 <= n + l
              /\ t[(j + i) - 1] = [packet |-> t[j].packet, pos |-> i]
  <2>1. CASE j <= n
    <3>1. j \in 1 .. n /\ t[j] = s[j]
      BY <1>3, <2>1
    <3>2. (j + i) - 1 <= n /\ s[(j + i) - 1] = [packet |-> s[j].packet, pos |-> i]
      BY <1>8, <1>12, <3>1
    <3>3. (j + i) - 1 \in 1 .. n
      <4>1. Lengths[t[j].packet] \in Nat
        BY <1>c, <3>1
      <4> QED
        BY <1>2, <3>1, <3>2, <4>1
    <3>4. t[(j + i) - 1] = s[(j + i) - 1]
      BY <1>3, <3>3, Zenon
    <3>5. (j + i) - 1 <= n + l
      <4>1. n \in Nat /\ l \in Nat
        BY <1>1, <1>2
      <4> QED
        BY <3>3, <4>1
    <3> QED
      BY <3>1, <3>2, <3>4, <3>5, Zenon
  <2>2. CASE j > n
    <3>1. j - n \in 1 .. l /\ t[j] = [packet |-> p, pos |-> j - n]
      BY <1>4, <2>2
    <3>2. j - n = 1 /\ t[j].packet = p /\ i \in 1 .. l
      BY <1>12, <3>1 DEF l
    <3>3. (j + i) - 1 \in 1 .. n + l /\ (j + i) - 1 > n /\ ((j + i) - 1) - n = i
      BY <1>1, <1>2, <3>2
    <3> QED
      BY <1>4, <3>2, <3>3
  <2> QED
    BY <1>2, <2>1, <2>2
<1>13. ASSUME NEW j \in 1 .. n + l, Ends(t[j]) PROVE j = n + l \/ t[j + 1].pos = 1
  <2>1. CASE j < n
    <3>1. j \in 1 .. n /\ j + 1 \in 1 .. n
      BY <1>2, <2>1
    <3> QED
      BY <1>3, <1>5, <1>13, <2>1, <3>1
  <2>2. CASE j = n
    <3>1. n + 1 \in 1 .. n + l /\ n + 1 > n /\ (n + 1) - n = 1
      BY <1>1, <1>2
    <3>2. t[n + 1].pos = (n + 1) - n
      BY <1>4, <3>1, Zenon
    <3> QED
      BY <2>2, <3>1, <3>2, Zenon
  <2>3. CASE j > n
    <3>1. j - n \in 1 .. l /\ t[j] = [packet |-> p, pos |-> j - n]
      BY <1>4, <2>3
    <3>2. j - n = l
      BY <1>13, <3>1 DEF Ends, l
    <3> QED
      BY <1>2, <3>2
  <2> QED
    BY <1>2, <2>1, <2>2, <2>3
<1>14. t[1].pos = 1 /\ Ends(t[n + l])
  <2>1. t[1].pos = 1
    <3>1. CASE n > 0
      <4>1. 1 \in 1 .. n
        BY <1>2, <3>1
      <4> QED
        BY <1>3, <1>6, <1>9, <3>1, <4>1
    <3>2. CASE n = 0
      <4>1. 1 \in 1 .. n + l /\ 1 > n /\ 1 - n = 1
        BY <1>1, <3>2
      <4>2. t[1].pos = 1 - n
        BY <1>4, <4>1, Zenon
      <4> QED
        BY <4>1, <4>2, Zenon
    <3> QED
      BY <1>2, <3>1, <3>2
  <2>2. n + l \in 1 .. n + l /\ n + l > n /\ (n + l) - n = l
    BY <1>1, <1>2
  <2>3. t[n + l] = [packet |-> p, pos |-> l]
    BY <1>4, <2>2
  <2> QED
    BY <2>1, <2>3 DEF Ends, l
<1>15. IsPackets(p, t)
  BY <1>3, <1>10, <1>11, <1>12, <1>13, <1>14, Zenon DEF IsPackets
<1> QED
  BY <1>15, Zenon DEF p, m, t

LEMMA StreamIsPackets == IsPackets(Len(Lengths), Stream)
<1> DEFINE N == Len(Lengths)
           s == [p \in 1 .. N |-> Make(p)]
<1>1. N \in Nat
  BY StreamAssumption
<1> HIDE DEF N
<1>2. s \in Seq(Seq(Cell)) /\ Len(s) = N
  <2>1. \A p \in 1 .. N : Make(p) \in Seq(Cell)
    BY MakeValue DEF N
  <2>2. s \in [1 .. N -> Seq(Cell)]
    BY <2>1, Zenon
  <2> HIDE DEF s
  <2> QED
    BY <1>1, <2>2
<1>3. \A p \in 1 .. N : s[p] = Make(p)
  BY Zenon
<1>4. Stream = Flat(s)
  BY Zenon DEF Stream, Flat, Packets, N
<1> HIDE DEF s
<1>5. PICK g : Partials(Cell, s, g)
  BY <1>2, PartialsExist
<1>6. g[0] = <<>> /\ \A K \in 1 .. N : g[K] = g[K - 1] \o Make(K)
  BY <1>2, <1>3, <1>5, Zenon DEF Partials
<1> DEFINE T == {K \in Nat : K <= N => IsPackets(K, g[K])}
<1>7. 0 \in T
  <2>1. <<>> \in Seq(Cell) /\ Len(<<>>) = 0 /\ 1 .. 0 = {}
    OBVIOUS
  <2>2. IsPackets(0, <<>>)
    BY <2>1, Zenon DEF IsPackets
  <2> QED
    BY <1>6, <2>2
<1>8. ASSUME NEW K \in Nat, K \in T PROVE K + 1 \in T
  <2>1. ASSUME K + 1 <= N PROVE IsPackets(K + 1, g[K + 1])
    <3>1. K + 1 \in 1 .. N /\ (K + 1) - 1 = K /\ K <= N
      BY <1>1, <2>1
    <3>2. g[K + 1] = g[K] \o Make(K + 1)
      BY <1>6, <3>1, Zenon
    <3>3. IsPackets(K, g[K])
      BY <1>8, <3>1
    <3> QED
      BY <3>1, <3>2, <3>3, NextPacket DEF N
  <2> QED
    BY <2>1
<1> HIDE DEF T
<1>9. Nat \subseteq T
  BY <1>7, <1>8, SetInduction
<1>10. IsPackets(N, g[N])
  BY <1>1, <1>9 DEF T
<1>11. Stream = g[N]
  BY <1>2, <1>4, <1>5, FlatIsLast
<1> QED
  BY <1>10, <1>11, Zenon DEF N

-----------------------------------------------------------------------------
(* What a step does to the cells *)

Waiting == buffer \o Flat(queue)
Handled == Flat(out)

LEMMA StreamType == Stream \in Seq(Cell) /\ Len(Stream) \in Nat
BY StreamIsPackets DEF IsPackets

LEMMA StreamTypeInit == StreamInit => StreamTypeOK
<1> SUFFICES ASSUME StreamInit PROVE StreamTypeOK
  OBVIOUS
<1>1. Len(Stream) \in Nat /\ QueueMax \in Nat
  BY StreamType, StreamAssumption
<1>2. 0 \in 0 .. Len(Stream)
  BY <1>1
<1>3. /\ at = 0 /\ queue = <<>> /\ buffer = <<>> /\ out = <<>>
      /\ parsing = FALSE /\ dropped = FALSE /\ cut = FALSE
  BY DEF StreamInit
<1>4. Len(queue) <= QueueMax
  <2>1. Len(queue) = 0
    BY <1>3
  <2> QED
    BY <1>1, <2>1
<1>5. /\ queue \in Seq(Seq(Cell)) /\ buffer \in Seq(Cell)
      /\ out \in Seq(Seq(Cell))
  BY <1>3
<1> QED
  BY <1>2, <1>3, <1>4, <1>5, Zenon DEF StreamTypeOK

LEMMA Regroup ==
  \A a, b, c \in Seq(Cell) : (a \o b) \o c = a \o (b \o c)
OBVIOUS

\* A piece of the cells is cells.
LEMMA PieceType ==
  ASSUME NEW S, NEW s \in Seq(S), NEW i \in Nat, i >= 1, NEW j \in Nat, j <= Len(s)
  PROVE  /\ SubSeq(s, i, j) \in Seq(S)
         /\ Len(SubSeq(s, i, j)) = IF i <= j THEN (j - i) + 1 ELSE 0
         /\ \A k \in 1 .. (j - i) + 1 : SubSeq(s, i, j)[k] = s[(i + k) - 1]
<1>1. \A k \in i .. j : s[k] \in S
  BY Z3
<1> QED
  BY <1>1, SubSeqProperties

\* Cutting off the front.
LEMMA PieceSplit ==
  ASSUME NEW S, NEW s \in Seq(S), NEW n \in Nat, n <= Len(s)
  PROVE  s = SubSeq(s, 1, n) \o SubSeq(s, n + 1, Len(s))
<1>0. /\ 1 \in 1 .. Len(s) + 1 /\ n \in 1 - 1 .. Len(s) /\ Len(s) \in n .. Len(s)
  OBVIOUS
<1>1. SubSeq(s, 1, n) \o SubSeq(s, n + 1, Len(s)) = SubSeq(s, 1, Len(s))
  BY <1>0, ConcatAdjacentSubSeq, Zenon
<1> QED
  BY <1>1, SubSeqFull

\* A step takes some cells u from the front of those that wait, and passes
\* them to a handler or drops them; and some cells v of the stream arrive,
\* or the queue drops them.
Moves(u, v) ==
  /\ u \in Seq(Cell) /\ v \in Seq(Cell)
  /\ Waiting \o v = u \o Waiting'
  /\ Handled' \in {Handled, Handled \o u}
  /\ \/ v = SubSeq(Stream, at + 1, at')
     \/ v = <<>> /\ dropped'
  /\ at' \in at .. Len(Stream)

LEMMA CutOff ==
  ASSUME StreamTypeOK, StreamTypeOK', NEW n \in Nat, n <= Len(buffer),
         buffer' = SubSeq(buffer, n + 1, Len(buffer)), UNCHANGED <<at, queue>>,
         out' = out \/ out' = Append(out, SubSeq(buffer, 1, n))
  PROVE  Moves(SubSeq(buffer, 1, n), <<>>)
<1> DEFINE u == SubSeq(buffer, 1, n)
<1>1. /\ buffer \in Seq(Cell) /\ out \in Seq(Seq(Cell)) /\ Flat(queue) \in Seq(Cell)
      /\ buffer' \in Seq(Cell)
      /\ at \in 0 .. Len(Stream) /\ at \in Nat
  BY FlatType DEF StreamTypeOK
<1>2. u \in Seq(Cell)
  BY <1>1, PieceType
<1>3. buffer = u \o buffer'
  BY <1>1, PieceSplit
<1> HIDE DEF u
<1> DEFINE b == buffer'
           c == Flat(queue)
<1>4. (u \o b) \o c = u \o (b \o c)
  <2> HIDE DEF b, c
  <2>1. b \in Seq(Cell) /\ c \in Seq(Cell)
    BY <1>1 DEF b, c
  <2> QED
    BY <1>2, <2>1, Regroup, Zenon
<1>5. Waiting = u \o Waiting' /\ Waiting \in Seq(Cell)
  <2>1. Waiting' = buffer' \o Flat(queue)
    BY Zenon DEF Waiting, Flat
  <2> QED
    BY <1>1, <1>3, <1>4, <2>1, Zenon, ConcatProperties DEF Waiting
<1>6. Waiting \o <<>> = Waiting
  BY <1>5, ConcatEmptySeq
<1>7. Handled' \in {Handled, Handled \o u}
  <2>1. Flat(Append(out, u)) = Flat(out) \o u
    BY <1>1, <1>2, FlatAppend
  <2>2. Handled' = Flat(out')
    BY DEF Handled, Flat
  <2> QED
    BY <2>1, <2>2, Zenon DEF Handled, u
<1>8. SubSeq(Stream, at + 1, at') = <<>> /\ at' \in at .. Len(Stream)
  <2>1. at' = at
    OBVIOUS
  <2>2. SubSeq(Stream, at + 1, at) = <<>>
    BY <1>1, SubSeqEmpty
  <2>3. at \in at .. Len(Stream)
    BY <1>1
  <2> QED
    BY <2>1, <2>2, <2>3, Zenon
<1>9. Moves(u, <<>>)
  <2>1. <<>> \in Seq(Cell)
    OBVIOUS
  <2> QED
    BY <1>2, <1>5, <1>6, <1>7, <1>8, <2>1, Zenon DEF Moves
<1> QED
  BY <1>9, Zenon DEF u

LEMMA BufferCells ==
  ASSUME StreamTypeOK, NEW i \in 1 .. Len(buffer)
  PROVE  /\ buffer[i].packet \in 1 .. Len(Lengths) /\ buffer[i].pos \in Nat
         /\ Lengths[buffer[i].packet] \in Nat /\ Lengths[buffer[i].packet] >= 4
<1>1. buffer[i] \in Cell
  BY DEF StreamTypeOK
<1>2. buffer[i].packet \in 1 .. Len(Lengths) /\ buffer[i].pos \in Nat
  BY <1>1 DEF Cell, Packets
<1> QED
  BY <1>2, MakeValue

\* Parse takes n cells from the front of the buffer.
CutsOff(n) ==
  /\ buffer' = SubSeq(buffer, n + 1, Len(buffer))
  /\ \/ out' = out
     \/ out' = Append(out, SubSeq(buffer, 1, n)) /\ UNCHANGED parsing

LEMMA ParseCuts ==
  ASSUME StreamTypeOK, Parse
  PROVE  /\ \E n \in Nat : n <= Len(buffer) /\ CutsOff(n)
         /\ UNCHANGED <<at, queue, dropped, cut>> /\ parsing' \in BOOLEAN
<1>0. /\ buffer \in Seq(Cell) /\ Len(buffer) \in Nat /\ parsing \in BOOLEAN
      /\ UNCHANGED <<at, queue, dropped, cut>>
  BY DEF StreamTypeOK, Parse
<1>1. ASSUME NEW n \in Nat, n <= Len(buffer), Accept(n)
      PROVE  (\E k \in Nat : k <= Len(buffer) /\ CutsOff(k)) /\ parsing' \in BOOLEAN
  BY <1>0, <1>1, Zenon DEF Accept, CutsOff
<1>2. ASSUME NEW n \in Nat, n <= Len(buffer), Fail(SubSeq(buffer, n + 1, Len(buffer)))
      PROVE  (\E k \in Nat : k <= Len(buffer) /\ CutsOff(k)) /\ parsing' \in BOOLEAN
  BY <1>2, Zenon DEF Fail, CutsOff
<1>3. SubSeq(buffer, Len(buffer) + 1, Len(buffer)) = <<>> /\ SubSeq(buffer, 0 + 1, Len(buffer)) = buffer
  <2>1. SubSeq(buffer, Len(buffer) + 1, Len(buffer)) = <<>>
    BY <1>0, SubSeqEmpty
  <2>2. SubSeq(buffer, 1, Len(buffer)) = buffer
    BY <1>0, SubSeqFull
  <2> QED
    BY <2>1, <2>2
<1>4. ASSUME Fail(<<>>)
      PROVE  (\E k \in Nat : k <= Len(buffer) /\ CutsOff(k)) /\ parsing' \in BOOLEAN
  <2>1. Len(buffer) \in Nat /\ Len(buffer) <= Len(buffer)
    BY <1>0
  <2> QED
    BY <1>2, <1>3, <1>4, <2>1, Zenon
<1>5. ASSUME Fail(buffer)
      PROVE  (\E k \in Nat : k <= Len(buffer) /\ CutsOff(k)) /\ parsing' \in BOOLEAN
  <2>1. 0 \in Nat /\ 0 <= Len(buffer)
    BY <1>0
  <2> QED
    BY <1>2, <1>3, <1>5, <2>1, Zenon
<1>6. CASE ParseNothing
  BY <1>0, <1>4, <1>6, Zenon DEF ParseNothing
<1>7. CASE ParseNoHeader
  <2>1. ASSUME NEW h \in Headers(buffer), Fail(SubSeq(buffer, h, Len(buffer)))
        PROVE  (\E k \in Nat : k <= Len(buffer) /\ CutsOff(k)) /\ parsing' \in BOOLEAN
    <3>1. h \in 1 .. Len(buffer)
      BY DEF Headers
    <3>2. h - 1 \in Nat /\ h - 1 <= Len(buffer) /\ (h - 1) + 1 = h
      BY <1>0, <3>1
    <3> QED
      BY <1>2, <2>1, <3>2, Zenon
  <2> QED
    BY <1>0, <1>4, <1>7, <2>1, Zenon DEF ParseNoHeader
<1>8. CASE ParseNoLength
  <2>1. ASSUME NEW n \in 4 .. Len(buffer), Accept(n)
        PROVE  (\E k \in Nat : k <= Len(buffer) /\ CutsOff(k)) /\ parsing' \in BOOLEAN
    <3>1. n \in Nat /\ n <= Len(buffer)
      BY <1>0
    <3> QED
      BY <1>1, <2>1, <3>1, Zenon
  <2> QED
    BY <1>0, <1>4, <1>5, <1>8, <2>1, Zenon DEF ParseNoLength
<1>9. CASE ParseIncomplete
  BY <1>0, <1>5, <1>9, Zenon DEF ParseIncomplete
<1>10. CASE ParsePacket
  <2>1. Len(buffer) >= 3
    BY <1>10 DEF ParsePacket, HasLength
  <2>2. 3 \in 1 .. Len(buffer)
    BY <1>0, <2>1
  <2>3. Lengths[buffer[3].packet] \in Nat
    BY <2>2, BufferCells
  <2>4. /\ PacketLen(buffer) \in Nat /\ PacketLen(buffer) <= Len(buffer)
        /\ Accept(PacketLen(buffer)) \/ Fail(<<>>)
    BY <1>0, <1>10, <2>3 DEF ParsePacket, PacketLen
  <2> QED
    BY <1>0, <1>1, <1>4, <2>4, Zenon
<1> QED
  BY <1>0, <1>6, <1>7, <1>8, <1>9, <1>10, Zenon DEF Parse

LEMMA StreamTypeStep ==
  ASSUME StreamTypeOK, [StreamNext]_streamVars
  PROVE  StreamTypeOK'
<1> DEFINE N == Len(Stream)
           C == Cell
<1>0. /\ at \in 0 .. N /\ queue \in Seq(Seq(C)) /\ Len(queue) <= QueueMax
      /\ buffer \in Seq(C) /\ parsing \in BOOLEAN /\ out \in Seq(Seq(C))
      /\ dropped \in BOOLEAN /\ cut \in BOOLEAN
      /\ N \in Nat /\ Stream \in Seq(C) /\ QueueMax \in Nat
  BY StreamType, StreamAssumption DEF StreamTypeOK
<1> HIDE DEF N, C
<1> SUFFICES /\ at' \in 0 .. N /\ queue' \in Seq(Seq(C)) /\ Len(queue') <= QueueMax
             /\ buffer' \in Seq(C) /\ parsing' \in BOOLEAN /\ out' \in Seq(Seq(C))
             /\ dropped' \in BOOLEAN /\ cut' \in BOOLEAN
  BY DEF StreamTypeOK, N, C
<1>1. ASSUME NEW n \in 1 .. MaxChunk, Receive(n) PROVE StreamTypeOK'
  <2>0. MaxChunk \in Nat
    BY StreamAssumption
  <2>1. at' = at + n /\ at + n <= N /\ UNCHANGED <<buffer, parsing, out>>
    BY <1>1 DEF Receive, N
  <2>2. at' \in 0 .. N /\ at + 1 \in Nat /\ at + 1 >= 1 /\ at' \in Nat /\ at' <= N
    BY <1>0, <2>0, <2>1
  <2> DEFINE c == SubSeq(Stream, at + 1, at')
  <2>3. c \in Seq(C)
    BY <1>0, <2>2, PieceType DEF N
  <2>4. cut' \in BOOLEAN
    BY <1>1, <1>0 DEF Receive
  <2>5. \/ Len(queue) < QueueMax /\ queue' = Append(queue, c) /\ dropped' = dropped
        \/ queue' = queue /\ dropped' = TRUE
    BY <1>0, <1>1 DEF Receive, IsFull
  <2> HIDE DEF c
  <2>6. queue' \in Seq(Seq(C)) /\ Len(queue') <= QueueMax /\ dropped' \in BOOLEAN
    <3>1. Append(queue, c) \in Seq(Seq(C)) /\ Len(Append(queue, c)) = Len(queue) + 1
      BY <1>0, <2>3, AppendProperties
    <3>2. Len(queue) \in Nat
      BY <1>0
    <3>3. Len(queue) < QueueMax => Len(Append(queue, c)) <= QueueMax
      BY <1>0, <3>1, <3>2
    <3> QED
      BY <1>0, <2>5, <3>1, <3>3, Zenon
  <2> QED
    BY <1>0, <2>1, <2>2, <2>4, <2>6, Zenon DEF StreamTypeOK, N, C
<1>2. CASE ProcessRecvData
  <2>1. /\ queue # <<>> /\ buffer' = buffer \o Head(queue) /\ queue' = Tail(queue)
        /\ parsing' = TRUE /\ UNCHANGED <<at, out, dropped, cut>>
    BY <1>2 DEF ProcessRecvData, Input
  <2>2. /\ Head(queue) \in Seq(C) /\ Tail(queue) \in Seq(Seq(C)) /\ Len(Tail(queue)) = Len(queue) - 1
    BY <1>0, <2>1, HeadTailProperties
  <2>3. buffer' \in Seq(C)
    BY <1>0, <2>1, <2>2, ConcatProperties
  <2>4. Len(queue') <= QueueMax
    BY <1>0, <2>1, <2>2
  <2> QED
    BY <1>0, <2>1, <2>2, <2>3, <2>4, Zenon
<1>3. CASE Parse
  <2>1. PICK n \in Nat : n <= Len(buffer) /\ CutsOff(n)
    BY <1>3, ParseCuts
  <2>2. UNCHANGED <<at, queue, dropped, cut>> /\ parsing' \in BOOLEAN
    BY <1>3, ParseCuts
  <2>3. SubSeq(buffer, n + 1, Len(buffer)) \in Seq(C) /\ SubSeq(buffer, 1, n) \in Seq(C)
    BY <1>0, <2>1, PieceType
  <2>4. Append(out, SubSeq(buffer, 1, n)) \in Seq(Seq(C))
    BY <1>0, <2>3, AppendProperties
  <2> QED
    BY <1>0, <2>1, <2>2, <2>3, <2>4, Zenon DEF CutsOff
<1>4. CASE UNCHANGED streamVars
  BY <1>0, <1>4 DEF streamVars
<1> QED
  BY <1>1, <1>2, <1>3, <1>4, Zenon DEF StreamNext, StreamThread, StreamTypeOK, N, C

LEMMA StepMoves ==
  ASSUME StreamTypeOK, StreamTypeOK', [StreamNext]_streamVars
  PROVE  \/ \E v : Moves(<<>>, v)
         \/ Parse /\ \E u, v : Moves(u, v)
<1>0. /\ at \in 0 .. Len(Stream) /\ queue \in Seq(Seq(Cell)) /\ buffer \in Seq(Cell)
      /\ out \in Seq(Seq(Cell)) /\ Flat(queue) \in Seq(Cell) /\ Handled \in Seq(Cell)
      /\ Stream \in Seq(Cell) /\ Len(Stream) \in Nat /\ <<>> \in Seq(Cell)
  BY FlatType, StreamType DEF StreamTypeOK, Handled
<1>1. ASSUME Waiting' = Waiting, Handled' = Handled, at' = at PROVE Moves(<<>>, <<>>)
  <2>1. Waiting \in Seq(Cell)
    BY <1>0, ConcatProperties DEF Waiting
  <2>2. Waiting \o <<>> = Waiting /\ <<>> \o Waiting = Waiting
    BY <2>1, ConcatEmptySeq
  <2>3. SubSeq(Stream, at + 1, at) = <<>>
    BY <1>0, SubSeqEmpty
  <2>4. at \in at .. Len(Stream)
    BY <1>0
  <2> QED
    BY <1>0, <1>1, <2>2, <2>3, <2>4, Zenon DEF Moves
<1>2. ASSUME NEW n \in 1 .. MaxChunk, Receive(n) PROVE \E v : Moves(<<>>, v)
  <2>0. MaxChunk \in Nat
    BY StreamAssumption
  <2>1. at' = at + n /\ at + n <= Len(Stream) /\ UNCHANGED <<buffer, out>>
    BY <1>2 DEF Receive
  <2>2. at' \in at .. Len(Stream) /\ at + 1 \in Nat /\ at + 1 >= 1 /\ at' \in Nat /\ at' <= Len(Stream)
    BY <1>0, <2>0, <2>1
  <2>3. Handled' = Handled
    BY <2>1 DEF Handled, Flat
  <2> DEFINE c == SubSeq(Stream, at + 1, at')
  <2>4. c \in Seq(Cell)
    BY <1>0, <2>2, PieceType
  <2>5. \/ queue' = Append(queue, c)
        \/ queue' = queue /\ dropped'
    BY <1>2 DEF Receive
  <2>6. CASE queue' = queue /\ dropped'
    <3>1. Waiting' = Waiting
      BY <2>1, <2>6 DEF Waiting, Flat
    <3>2. Waiting \in Seq(Cell)
      BY <1>0, ConcatProperties DEF Waiting
    <3>3. Waiting \o <<>> = Waiting /\ <<>> \o Waiting = Waiting
      BY <3>2, ConcatEmptySeq
    <3>4. Moves(<<>>, <<>>)
      BY <1>0, <2>2, <2>3, <2>6, <3>1, <3>3, Zenon DEF Moves
    <3> QED
      BY <3>4, Zenon
  <2>7. CASE queue' = Append(queue, c)
    <3> HIDE DEF c
    <3>1. Flat(queue)' = Flat(queue) \o c
      <4>1. Flat(Append(queue, c)) = Flat(queue) \o c
        BY <1>0, <2>4, FlatAppend
      <4>2. Flat(queue)' = Flat(queue')
        BY DEF Flat
      <4> QED
        BY <2>7, <4>1, <4>2, Zenon
    <3> DEFINE b == buffer
               q == Flat(queue)
    <3>2. (b \o q) \o c = b \o (q \o c)
      <4> HIDE DEF b, q
      <4>1. b \in Seq(Cell) /\ q \in Seq(Cell)
        BY <1>0 DEF b, q
      <4> QED
        BY <2>4, <4>1, Regroup, Zenon
    <3>3. Waiting' = Waiting \o c
      BY <2>1, <3>1, <3>2, Zenon DEF Waiting
    <3>4. Waiting \o c \in Seq(Cell)
      BY <1>0, <2>4, ConcatProperties DEF Waiting
    <3>5. <<>> \o (Waiting \o c) = Waiting \o c
      BY <3>4, ConcatEmptySeq
    <3>6. Moves(<<>>, c)
      BY <1>0, <2>2, <2>3, <2>4, <3>3, <3>5, Zenon DEF Moves, c
    <3> QED
      BY <3>6, Zenon
  <2> QED
    BY <2>5, <2>6, <2>7
<1>3. CASE ProcessRecvData
  <2>1. /\ queue # <<>> /\ buffer' = buffer \o Head(queue) /\ queue' = Tail(queue)
        /\ UNCHANGED <<at, out>>
    BY <1>3 DEF ProcessRecvData, Input
  <2> DEFINE b == buffer
             h == Head(queue)
             q == Flat(Tail(queue))
  <2>2. h \in Seq(Cell) /\ q \in Seq(Cell) /\ Flat(queue) = h \o q
    BY <1>0, <2>1, HeadTailProperties, FlatHead, FlatType
  <2>3. (b \o h) \o q = b \o (h \o q)
    <3> HIDE DEF b, h, q
    <3>1. b \in Seq(Cell)
      BY <1>0 DEF b
    <3> QED
      BY <2>2, <3>1, Regroup, Zenon
  <2>4. Flat(queue)' = q
    <3>1. Flat(queue)' = Flat(queue')
      BY DEF Flat
    <3> QED
      BY <2>1, <3>1, Zenon
  <2>5. Waiting' = Waiting
    BY <2>1, <2>2, <2>3, <2>4, Zenon DEF Waiting
  <2>6. Handled' = Handled
    BY <2>1 DEF Handled, Flat
  <2> QED
    BY <1>1, <2>1, <2>5, <2>6, Zenon
<1>4. CASE Parse
  <2>1. PICK n \in Nat : n <= Len(buffer) /\ CutsOff(n)
    BY <1>4, ParseCuts
  <2>2. UNCHANGED <<at, queue>>
    BY <1>4, ParseCuts
  <2>3. Moves(SubSeq(buffer, 1, n), <<>>)
    BY <2>1, <2>2, CutOff DEF CutsOff
  <2> QED
    BY <1>4, <2>3, Zenon
<1>5. CASE UNCHANGED streamVars
  <2>1. Waiting' = Waiting /\ Handled' = Handled /\ at' = at
    BY <1>5, Zenon DEF streamVars, Waiting, Handled, Flat
  <2> QED
    BY <1>1, <2>1, Zenon
<1> QED
  BY <1>2, <1>3, <1>4, <1>5 DEF StreamNext, StreamThread

-----------------------------------------------------------------------------
(* The order of the cells *)

Ordered(s, k) ==
  /\ \A i, j \in 1 .. Len(s) : i < j => Before(s[i], s[j])
  /\ \A i \in 1 .. Len(s), m \in k + 1 .. Len(Stream) : Before(s[i], Stream[m])

LEMMA OrderedMore ==
  ASSUME NEW s \in Seq(Cell), NEW k \in 0 .. Len(Stream),
         NEW l \in k .. Len(Stream), Ordered(s, k),
         NEW v, v = SubSeq(Stream, k + 1, l) \/ v = <<>>
  PROVE  Ordered(s \o v, l)
<1>0. /\ Stream \in Seq(Cell) /\ Len(Stream) \in Nat /\ k \in Nat /\ l \in Nat /\ k <= l
      /\ l <= Len(Stream) /\ Len(s) \in Nat
      /\ \A i, j \in 1 .. Len(Stream) : i < j => Before(Stream[i], Stream[j])
  BY StreamType, StreamIsPackets DEF IsPackets
<1>1. /\ v \in Seq(Cell) /\ Len(v) \in {0, l - k}
      /\ \A i \in 1 .. Len(v) : v[i] = Stream[k + i]
  <2>1. CASE v = <<>>
    BY <2>1
  <2>2. CASE v = SubSeq(Stream, k + 1, l)
    <3>1. k + 1 \in Nat /\ k + 1 >= 1
      BY <1>0
    <3>2. /\ v \in Seq(Cell) /\ Len(v) = (IF k + 1 <= l THEN (l - (k + 1)) + 1 ELSE 0)
          /\ \A i \in 1 .. (l - (k + 1)) + 1 : v[i] = Stream[((k + 1) + i) - 1]
      BY <1>0, <2>2, <3>1, PieceType
    <3>3. Len(v) = l - k
      BY <1>0, <3>2
    <3>4. ASSUME NEW i \in 1 .. Len(v) PROVE v[i] = Stream[k + i]
      <4>1. i \in 1 .. (l - (k + 1)) + 1 /\ ((k + 1) + i) - 1 = k + i
        BY <1>0, <3>3
      <4> QED
        BY <3>2, <4>1
    <3> QED
      BY <3>2, <3>3, <3>4
  <2> QED
    BY <2>1, <2>2
<1> DEFINE t == s \o v
<1>2. /\ t \in Seq(Cell) /\ Len(t) = Len(s) + Len(v)
      /\ \A i \in 1 .. Len(s) + Len(v) : t[i] = IF i <= Len(s) THEN s[i] ELSE v[i - Len(s)]
  BY <1>1, ConcatProperties
<1> HIDE DEF t
<1>n. k \in Nat /\ l \in Nat /\ k <= l /\ l <= Len(Stream) /\ Len(Stream) \in Nat /\ Len(s) \in Nat
      /\ Len(v) \in Nat
  BY <1>0, <1>1
<1>3. ASSUME NEW i \in 1 .. Len(t)
      PROVE  \/ i \in 1 .. Len(s) /\ t[i] = s[i]
             \/ /\ i - Len(s) \in 1 .. Len(v) /\ k + (i - Len(s)) \in k + 1 .. l
                /\ t[i] = Stream[k + (i - Len(s))]
  <2>0. i \in 1 .. Len(s) + Len(v)
    BY <1>2
  <2>1. CASE i <= Len(s)
    BY <1>2, <1>n, <2>0, <2>1
  <2>2. CASE ~(i <= Len(s))
    <3>1. i - Len(s) \in 1 .. Len(v)
      BY <1>n, <2>0, <2>2
    <3>2. Len(v) = l - k
      BY <1>1, <1>n, <3>1
    <3>3. k + (i - Len(s)) \in k + 1 .. l
      BY <1>n, <3>1, <3>2
    <3>4. t[i] = v[i - Len(s)]
      BY <1>2, <2>0, <2>2, Zenon
    <3> QED
      BY <1>1, <3>1, <3>3, <3>4, Zenon
  <2> QED
    BY <2>1, <2>2
<1>4. ASSUME NEW i \in 1 .. Len(t), NEW j \in 1 .. Len(t), i < j PROVE Before(t[i], t[j])
  <2>1. CASE i \in 1 .. Len(s) /\ t[i] = s[i] /\ j \in 1 .. Len(s) /\ t[j] = s[j]
    BY <1>4, <2>1 DEF Ordered
  <2>2. CASE /\ i \in 1 .. Len(s) /\ t[i] = s[i]
             /\ k + (j - Len(s)) \in k + 1 .. l /\ t[j] = Stream[k + (j - Len(s))]
    <3>1. k + (j - Len(s)) \in k + 1 .. Len(Stream)
      BY <1>0, <2>2
    <3> QED
      BY <2>2, <3>1 DEF Ordered
  <2>3. CASE /\ k + (i - Len(s)) \in k + 1 .. l /\ t[i] = Stream[k + (i - Len(s))]
             /\ k + (j - Len(s)) \in k + 1 .. l /\ t[j] = Stream[k + (j - Len(s))]
    <3>0. k + (i - Len(s)) \in k + 1 .. l /\ k + (j - Len(s)) \in k + 1 .. l
      BY <2>3, Zenon
    <3>1. /\ k + (i - Len(s)) \in 1 .. Len(Stream) /\ k + (j - Len(s)) \in 1 .. Len(Stream)
      BY <1>n, <3>0
    <3>2. k + (i - Len(s)) < k + (j - Len(s))
      BY <1>n, <1>2, <1>4
    <3> QED
      BY <1>0, <2>3, <3>1, <3>2, Zenon
  <2>4. CASE i - Len(s) \in 1 .. Len(v) /\ j \in 1 .. Len(s)
    BY <1>0, <1>4, <2>4
  <2> QED
    BY <1>3, <2>1, <2>2, <2>3, <2>4
<1>5. ASSUME NEW i \in 1 .. Len(t), NEW m \in l + 1 .. Len(Stream) PROVE Before(t[i], Stream[m])
  <2>1. m \in k + 1 .. Len(Stream) /\ m \in 1 .. Len(Stream)
    BY <1>0
  <2>2. CASE i \in 1 .. Len(s) /\ t[i] = s[i]
    BY <2>1, <2>2 DEF Ordered
  <2>3. CASE k + (i - Len(s)) \in k + 1 .. l /\ t[i] = Stream[k + (i - Len(s))]
    <3>1. k + (i - Len(s)) \in 1 .. Len(Stream) /\ k + (i - Len(s)) < m
      BY <1>0, <2>3
    <3> QED
      BY <1>0, <2>1, <2>3, <3>1
  <2> QED
    BY <1>3, <2>2, <2>3
<1>6. Ordered(t, l)
  BY <1>4, <1>5, Zenon DEF Ordered
<1> QED
  BY <1>6, Zenon DEF t

LEMMA OrderedLess ==
  ASSUME NEW a \in Seq(Cell), NEW u \in Seq(Cell), NEW w \in Seq(Cell), NEW k,
         Ordered(a \o (u \o w), k)
  PROVE  Ordered(a \o w, k)
<1> DEFINE s == a \o (u \o w)
           t == a \o w
           To(i) == IF i <= Len(a) THEN i ELSE i + Len(u)
<1>1. Len(a) \in Nat /\ Len(u) \in Nat /\ Len(w) \in Nat
  OBVIOUS
<1>2. /\ Len(u \o w) = Len(u) + Len(w) /\ u \o w \in Seq(Cell)
      /\ \A i \in 1 .. Len(u) + Len(w) : (u \o w)[i] = IF i <= Len(u) THEN u[i] ELSE w[i - Len(u)]
  BY ConcatProperties
<1>3. /\ Len(s) = Len(a) + (Len(u) + Len(w))
      /\ \A i \in 1 .. Len(a) + (Len(u) + Len(w)) : s[i] = IF i <= Len(a) THEN a[i] ELSE (u \o w)[i - Len(a)]
  BY <1>2, ConcatProperties
<1>4. /\ Len(t) = Len(a) + Len(w)
      /\ \A i \in 1 .. Len(a) + Len(w) : t[i] = IF i <= Len(a) THEN a[i] ELSE w[i - Len(a)]
  BY ConcatProperties
<1> HIDE DEF s, t
<1>5. ASSUME NEW i \in 1 .. Len(t) PROVE To(i) \in 1 .. Len(s) /\ t[i] = s[To(i)]
  <2>1. CASE i <= Len(a)
    BY <1>1, <1>3, <1>4, <2>1
  <2>2. CASE i > Len(a)
    <3>1. /\ i \in 1 .. Len(a) + Len(w) /\ ~(i <= Len(a)) /\ i - Len(a) \in 1 .. Len(w)
          /\ i + Len(u) \in 1 .. Len(s) /\ i + Len(u) \in 1 .. Len(a) + (Len(u) + Len(w))
          /\ ~(i + Len(u) <= Len(a))
          /\ (i + Len(u)) - Len(a) \in 1 .. Len(u) + Len(w)
          /\ ~((i + Len(u)) - Len(a) <= Len(u))
          /\ ((i + Len(u)) - Len(a)) - Len(u) = i - Len(a)
      BY <1>1, <1>3, <1>4, <2>2
    <3>2. t[i] = w[i - Len(a)]
      BY <1>4, <3>1, Zenon
    <3>3. s[i + Len(u)] = (u \o w)[(i + Len(u)) - Len(a)]
      BY <1>3, <3>1, Zenon
    <3>4. (u \o w)[(i + Len(u)) - Len(a)] = w[i - Len(a)]
      BY <1>2, <3>1, Zenon
    <3> QED
      BY <3>1, <3>2, <3>3, <3>4, Zenon
  <2> QED
    BY <1>1, <1>4, <2>1, <2>2
<1>6. ASSUME NEW i \in 1 .. Len(t), NEW j \in 1 .. Len(t), i < j PROVE To(i) < To(j)
  BY <1>1, <1>4, <1>6
<1> HIDE DEF To
<1>7. Ordered(t, k)
  <2>1. Ordered(s, k)
    BY DEF s
  <2> QED
    BY <1>5, <1>6, <2>1, Zenon DEF Ordered
<1> QED
  BY <1>7 DEF t

InOrder == Ordered(Handled \o Waiting, at)

\* Without a drop the cells that wait are the last ones received.
WaitingIsRecent ==
  ~dropped => /\ Len(Waiting) <= at
              /\ \A i \in 1 .. Len(Waiting) : Waiting[i] = Stream[(at - Len(Waiting)) + i]

LEMMA CellTypes ==
  ASSUME StreamTypeOK
  PROVE  /\ at \in 0 .. Len(Stream) /\ queue \in Seq(Seq(Cell)) /\ buffer \in Seq(Cell)
         /\ out \in Seq(Seq(Cell)) /\ Flat(queue) \in Seq(Cell) /\ Handled \in Seq(Cell)
         /\ Waiting \in Seq(Cell) /\ Stream \in Seq(Cell) /\ Len(Stream) \in Nat
         /\ at \in Nat /\ at <= Len(Stream)
<1>1. /\ at \in 0 .. Len(Stream) /\ queue \in Seq(Seq(Cell)) /\ buffer \in Seq(Cell)
      /\ out \in Seq(Seq(Cell)) /\ Flat(queue) \in Seq(Cell) /\ Handled \in Seq(Cell)
      /\ Stream \in Seq(Cell) /\ Len(Stream) \in Nat
  BY FlatType, StreamType DEF StreamTypeOK, Handled
<1>2. Waiting \in Seq(Cell)
  BY <1>1, ConcatProperties DEF Waiting
<1> QED
  BY <1>1, <1>2

LEMMA CellTypesNext ==
  ASSUME StreamTypeOK'
  PROVE  /\ at' \in 0 .. Len(Stream) /\ Handled' \in Seq(Cell) /\ Waiting' \in Seq(Cell)
         /\ at' \in Nat /\ buffer' \in Seq(Cell) /\ Flat(queue)' \in Seq(Cell)
<1>1. /\ at' \in 0 .. Len(Stream) /\ queue' \in Seq(Seq(Cell)) /\ buffer' \in Seq(Cell)
      /\ out' \in Seq(Seq(Cell)) /\ Len(Stream) \in Nat
  BY StreamType DEF StreamTypeOK
<1>2. /\ Flat(queue') \in Seq(Cell) /\ Flat(out') \in Seq(Cell)
      /\ Flat(queue)' = Flat(queue') /\ Handled' = Flat(out')
  BY <1>1, FlatType DEF Flat, Handled
<1>3. Waiting' = buffer' \o Flat(queue')
  BY DEF Waiting, Flat
<1>4. Waiting' \in Seq(Cell)
  BY <1>1, <1>2, <1>3, ConcatProperties
<1> QED
  BY <1>1, <1>2, <1>4

LEMMA InOrderStep ==
  ASSUME StreamTypeOK, StreamTypeOK', InOrder, [StreamNext]_streamVars
  PROVE  InOrder'
<1> DEFINE H == Handled
           W == Waiting
           X == Waiting'
<1>0. PICK u, v : Moves(u, v)
  BY StepMoves, Zenon
<1>1. /\ H \in Seq(Cell) /\ W \in Seq(Cell) /\ X \in Seq(Cell) /\ u \in Seq(Cell) /\ v \in Seq(Cell)
      /\ at \in 0 .. Len(Stream) /\ at' \in at .. Len(Stream)
      /\ v = SubSeq(Stream, at + 1, at') \/ v = <<>>
      /\ W \o v = u \o X /\ Handled' \in {H, H \o u}
      /\ Ordered(H \o W, at)
  BY <1>0, CellTypes, CellTypesNext, Zenon DEF Moves, InOrder
<1> HIDE DEF H, W, X
<1>t. H \in Seq(Cell) /\ W \in Seq(Cell) /\ X \in Seq(Cell) /\ u \in Seq(Cell) /\ v \in Seq(Cell)
  BY <1>1
<1>2. H \o W \in Seq(Cell)
  BY <1>t, ConcatProperties
<1>3. Ordered((H \o W) \o v, at')
  BY <1>1, <1>2, OrderedMore
<1>4. (H \o W) \o v = H \o (u \o X)
  <2>1. (H \o W) \o v = H \o (W \o v)
    BY <1>t, Regroup, Zenon
  <2> QED
    BY <1>1, <2>1, Zenon
<1>5. Ordered(H \o X, at')
  <2>1. Ordered(H \o (u \o X), at')
    BY <1>3, <1>4, Zenon
  <2> QED
    BY <1>t, <2>1, OrderedLess
<1>6. Ordered((H \o u) \o X, at')
  <2>0. H \in Seq(Cell) /\ u \in Seq(Cell) /\ X \in Seq(Cell)
    BY <1>t
  <2>1. (H \o u) \o X = H \o (u \o X)
    BY <2>0, Regroup, Zenon
  <2> QED
    BY <1>3, <1>4, <2>1, Zenon
<1>7. Ordered(Handled' \o Waiting', at')
  BY <1>1, <1>5, <1>6 DEF X
<1>8. InOrder' = Ordered(Handled' \o Waiting', at')
  BY DEF InOrder, Ordered, Stream
<1> QED
  BY <1>7, <1>8

LEMMA RecentStep ==
  ASSUME StreamTypeOK, StreamTypeOK', WaitingIsRecent, [StreamNext]_streamVars
  PROVE  WaitingIsRecent'
<1> SUFFICES ASSUME ~dropped'
    PROVE  /\ Len(Waiting') <= at'
           /\ \A i \in 1 .. Len(Waiting') : Waiting'[i] = Stream[(at' - Len(Waiting')) + i]
  BY DEF WaitingIsRecent, Stream
<1>d. ~dropped
  BY DEF StreamNext, StreamThread, Receive, ProcessRecvData, Parse,
     streamVars, StreamTypeOK
<1> DEFINE W == Waiting
           X == Waiting'
<1>0. PICK u, v : Moves(u, v)
  BY StepMoves, Zenon
<1>1. /\ W \in Seq(Cell) /\ X \in Seq(Cell) /\ u \in Seq(Cell)
      /\ at \in Nat /\ at' \in at .. Len(Stream) /\ at' \in Nat
      /\ v = SubSeq(Stream, at + 1, at')
      /\ W \o v = u \o X
      /\ Stream \in Seq(Cell) /\ Len(Stream) \in Nat
      /\ Len(W) <= at
      /\ \A i \in 1 .. Len(W) : W[i] = Stream[(at - Len(W)) + i]
  BY <1>0, <1>d, CellTypes, CellTypesNext, Zenon DEF Moves, WaitingIsRecent
<1> DEFINE k == at'
<1>a. at \in Nat /\ k \in Nat /\ at <= k /\ k <= Len(Stream) /\ Len(Stream) \in Nat
  BY <1>1
<1>s. Stream \in Seq(Cell) /\ v = SubSeq(Stream, at + 1, k)
  BY <1>1
<1>k. Len(W) <= at
  BY <1>1
<1> HIDE DEF W, X, k
<1>2. v \in Seq(Cell) /\ Len(v) = k - at /\ \A i \in 1 .. Len(v) : v[i] = Stream[at + i]
  <2>1. at + 1 \in Nat /\ at + 1 >= 1 /\ k <= Len(Stream)
    BY <1>a
  <2>2. /\ v \in Seq(Cell) /\ Len(v) = (IF at + 1 <= k THEN (k - (at + 1)) + 1 ELSE 0)
        /\ \A i \in 1 .. (k - (at + 1)) + 1 : v[i] = Stream[((at + 1) + i) - 1]
    BY <1>a, <1>s, <2>1, PieceType
  <2>3. Len(v) = k - at
    BY <1>a, <2>2
  <2>4. ASSUME NEW i \in 1 .. Len(v) PROVE v[i] = Stream[at + i]
    <3>1. i \in 1 .. (k - (at + 1)) + 1 /\ ((at + 1) + i) - 1 = at + i
      BY <1>a, <2>3
    <3> QED
      BY <2>2, <3>1
  <2> QED
    BY <2>2, <2>3, <2>4
<1> DEFINE z == W \o v
<1>3. /\ Len(z) = Len(W) + Len(v)
      /\ \A i \in 1 .. Len(W) + Len(v) : z[i] = IF i <= Len(W) THEN W[i] ELSE v[i - Len(W)]
  BY <1>1, <1>2, ConcatProperties
<1>4. /\ Len(z) = Len(u) + Len(X)
      /\ \A i \in 1 .. Len(u) + Len(X) : z[i] = IF i <= Len(u) THEN u[i] ELSE X[i - Len(u)]
  <2>1. z = u \o X
    BY <1>1
  <2> HIDE DEF z
  <2> QED
    BY <1>1, <2>1, ConcatProperties
<1> HIDE DEF z
<1>5. Len(W) \in Nat /\ Len(X) \in Nat /\ Len(u) \in Nat /\ Len(v) \in Nat
  <2>1. Len(W) \in Nat /\ Len(X) \in Nat /\ Len(u) \in Nat
    BY <1>1, LenProperties
  <2> QED
    BY <1>2, <2>1, LenProperties
<1>6. ASSUME NEW i \in 1 .. Len(z) PROVE z[i] = Stream[(at - Len(W)) + i]
  <2>1. CASE i <= Len(W)
    <3>1. i \in 1 .. Len(W) + Len(v) /\ i \in 1 .. Len(W)
      BY <1>3, <1>5, <2>1
    <3>2. z[i] = W[i]
      BY <1>3, <2>1, <3>1, Zenon
    <3> QED
      BY <1>1, <3>1, <3>2, Zenon
  <2>2. CASE i > Len(W)
    <3>1. /\ i \in 1 .. Len(W) + Len(v) /\ ~(i <= Len(W)) /\ i - Len(W) \in 1 .. Len(v)
          /\ at + (i - Len(W)) = (at - Len(W)) + i
      BY <1>a, <1>3, <1>5, <2>2
    <3> QED
      BY <1>2, <1>3, <3>1, Zenon
  <2> QED
    BY <1>3, <1>5, <2>1, <2>2
<1>7. Len(X) <= k /\ k - Len(X) = (at - Len(W)) + Len(u)
  <2>1. Len(W) + Len(v) = Len(u) + Len(X) /\ Len(v) = k - at
    BY <1>2, <1>3, <1>4, Zenon
  <2> QED
    BY <1>5, <1>a, <1>k, <2>1
<1>8. ASSUME NEW i \in 1 .. Len(X) PROVE X[i] = Stream[(k - Len(X)) + i]
  <2>1. /\ Len(u) + i \in 1 .. Len(z) /\ Len(u) + i \in 1 .. Len(u) + Len(X)
        /\ ~(Len(u) + i <= Len(u)) /\ (Len(u) + i) - Len(u) = i
    BY <1>4, <1>5
  <2>2. z[Len(u) + i] = X[i]
    BY <1>4, <2>1, Zenon
  <2>3. z[Len(u) + i] = Stream[(at - Len(W)) + (Len(u) + i)]
    BY <1>6, <2>1, Zenon
  <2>4. (at - Len(W)) + (Len(u) + i) = (k - Len(X)) + i
    BY <1>a, <1>5, <1>7
  <2> QED
    BY <2>2, <2>3, <2>4
<1> QED
  BY <1>7, <1>8 DEF X, k

-----------------------------------------------------------------------------
(* Packets *)

\* The buffer is a piece of the stream.
LEMMA BufferIsPiece ==
  ASSUME StreamTypeOK, WaitingIsRecent, ~dropped
  PROVE  \E from \in Nat :
           /\ from = at - Len(Waiting) /\ from + Len(buffer) <= at
           /\ \A i \in 1 .. Len(buffer) : buffer[i] = Stream[from + i]
<1>1. /\ at \in Nat /\ buffer \in Seq(Cell) /\ Flat(queue) \in Seq(Cell)
  BY CellTypes
<1>2. /\ Len(Waiting) = Len(buffer) + Len(Flat(queue))
      /\ \A i \in 1 .. Len(buffer) + Len(Flat(queue)) :
           Waiting[i] = IF i <= Len(buffer) THEN buffer[i] ELSE Flat(queue)[i - Len(buffer)]
  BY <1>1, ConcatProperties DEF Waiting
<1>3. /\ Len(buffer) \in Nat /\ Len(Flat(queue)) \in Nat
  BY <1>1, LenProperties
<1>4. /\ Len(Waiting) <= at
      /\ \A i \in 1 .. Len(Waiting) : Waiting[i] = Stream[(at - Len(Waiting)) + i]
  BY DEF WaitingIsRecent
<1> DEFINE from == at - Len(Waiting)
<1>5. from \in Nat /\ from + Len(buffer) <= at
  BY <1>1, <1>2, <1>3, <1>4
<1>6. ASSUME NEW i \in 1 .. Len(buffer) PROVE buffer[i] = Stream[from + i]
  <2>1. i \in 1 .. Len(buffer) + Len(Flat(queue)) /\ i <= Len(buffer) /\ i \in 1 .. Len(Waiting)
    BY <1>2, <1>3
  <2> QED
    BY <1>2, <1>4, <2>1, Zenon
<1> QED
  BY <1>5, <1>6, Zenon

\* A packet that begins where the buffer begins.
LEMMA BufferBegins ==
  ASSUME StreamTypeOK, WaitingIsRecent, ~dropped, buffer # <<>>,
         NEW from \in Nat, from = at - Len(Waiting), Stream[from + 1].pos = 1,
         NEW p, p = buffer[1].packet
  PROVE  /\ p \in 1 .. Len(Lengths) /\ Lengths[p] \in Nat /\ Lengths[p] >= 4
         /\ from + Lengths[p] <= Len(Stream)
         /\ \A i \in 1 .. Lengths[p] : Stream[from + i] = [packet |-> p, pos |-> i]
         /\ \A i \in 1 .. Len(buffer) :
              i <= Lengths[p] => buffer[i].packet = p /\ buffer[i].pos = i
<1>1. /\ Len(buffer) \in Nat /\ Len(buffer) > 0 /\ at <= Len(Stream) /\ at \in Nat /\ Len(Stream) \in Nat
  <2>1. buffer \in Seq(Cell)
    BY CellTypes
  <2>2. Len(buffer) \in Nat /\ Len(buffer) > 0
    BY <2>1
  <2> QED
    BY <2>2, CellTypes
<1>2. from + Len(buffer) <= at /\ \A i \in 1 .. Len(buffer) : buffer[i] = Stream[from + i]
  BY BufferIsPiece
<1>3. 1 \in 1 .. Len(buffer) /\ from + 1 \in 1 .. Len(Stream)
  BY <1>1, <1>2
<1>4. p \in 1 .. Len(Lengths) /\ Lengths[p] \in Nat /\ Lengths[p] >= 4
  BY <1>3, BufferCells
<1>5. Stream[from + 1].packet = p
  BY <1>2, <1>3
<1>6. \A i \in 1 .. Lengths[p] : /\ ((from + 1) + i) - 1 <= Len(Stream)
                                 /\ Stream[((from + 1) + i) - 1] = [packet |-> p, pos |-> i]
  <2>1. \A j \in 1 .. Len(Stream) : Stream[j].pos = 1 =>
          \A i \in 1 .. Lengths[Stream[j].packet] :
            /\ (j + i) - 1 <= Len(Stream)
            /\ Stream[(j + i) - 1] = [packet |-> Stream[j].packet, pos |-> i]
    BY StreamIsPackets, Zenon DEF IsPackets
  <2> QED
    BY <1>3, <1>5, <2>1, Zenon
<1>7. ASSUME NEW i \in 1 .. Lengths[p]
      PROVE  Stream[from + i] = [packet |-> p, pos |-> i] /\ from + i <= Len(Stream)
  <2>1. ((from + 1) + i) - 1 = from + i
    BY <1>4
  <2> QED
    BY <1>6, <2>1
<1>8. from + Lengths[p] <= Len(Stream)
  <2>1. Lengths[p] \in 1 .. Lengths[p]
    BY <1>4
  <2> QED
    BY <1>7, <2>1
<1>9. ASSUME NEW i \in 1 .. Len(buffer), i <= Lengths[p]
      PROVE  buffer[i].packet = p /\ buffer[i].pos = i
  <2>1. i \in 1 .. Lengths[p]
    BY <1>4, <1>9
  <2> DEFINE c == [packet |-> p, pos |-> i]
  <2>2. c.packet = p /\ c.pos = i
    OBVIOUS
  <2>3. buffer[i] = c
    BY <1>2, <1>7, <2>1, Zenon
  <2> QED
    BY <2>2, <2>3, Zenon
<1> QED
  BY <1>4, <1>7, <1>8, <1>9, Zenon

\* Such a packet is recognised when it is all there.
LEMMA WholePacket ==
  ASSUME StreamTypeOK, WaitingIsRecent, ~dropped, buffer # <<>>,
         buffer[1].pos = 1, NEW p, p = buffer[1].packet
  PROVE  /\ p \in 1 .. Len(Lengths) /\ Lengths[p] \in Nat /\ Lengths[p] >= 4
         /\ Len(buffer) >= 2 => CheckPacketHeader(buffer)
         /\ Len(buffer) >= 3 => /\ HasLength(buffer)
                                /\ buffer[3].packet = p /\ PacketLen(buffer) = Lengths[p]
         /\ Len(buffer) >= Lengths[p] => /\ SubSeq(buffer, 1, Lengths[p]) = Make(p)
                                         /\ CheckPacketTailer(buffer, Lengths[p])
         /\ \A i \in 1 .. Len(buffer) : i <= Lengths[p] => buffer[i].pos = i
<1>0. buffer \in Seq(Cell) /\ Len(buffer) \in Nat
  BY CellTypes
<1>1. PICK from \in Nat :
        /\ from = at - Len(Waiting) /\ from + Len(buffer) <= at
        /\ \A i \in 1 .. Len(buffer) : buffer[i] = Stream[from + i]
  BY BufferIsPiece
<1>2. 1 \in 1 .. Len(buffer)
  BY <1>0
<1>3. Stream[from + 1].pos = 1
  BY <1>1, <1>2
<1>4. /\ p \in 1 .. Len(Lengths) /\ Lengths[p] \in Nat /\ Lengths[p] >= 4
      /\ \A i \in 1 .. Len(buffer) :
           i <= Lengths[p] => buffer[i].packet = p /\ buffer[i].pos = i
  BY <1>1, <1>3, BufferBegins
<1>5. \A i \in 1 .. Lengths[p] : Stream[from + i] = [packet |-> p, pos |-> i]
  BY <1>1, <1>3, BufferBegins
<1>6. ASSUME Len(buffer) >= 2 PROVE CheckPacketHeader(buffer)
  <2>1. 2 \in 1 .. Len(buffer) /\ 2 <= Lengths[p]
    BY <1>0, <1>4, <1>6
  <2> QED
    BY <1>4, <1>6, <2>1 DEF CheckPacketHeader
<1>7. ASSUME Len(buffer) >= 3
      PROVE  /\ HasLength(buffer) /\ buffer[3].packet = p
             /\ PacketLen(buffer) = Lengths[p]
  <2>1. 3 \in 1 .. Len(buffer) /\ 3 <= Lengths[p]
    BY <1>0, <1>4, <1>7
  <2> QED
    BY <1>4, <1>7, <2>1 DEF HasLength, PacketLen
<1>8. ASSUME Len(buffer) >= Lengths[p]
      PROVE  /\ SubSeq(buffer, 1, Lengths[p]) = Make(p)
             /\ CheckPacketTailer(buffer, Lengths[p])
  <2> DEFINE l == Lengths[p]
             s == SubSeq(buffer, 1, l)
  <2>1. /\ s \in Seq(Cell) /\ Len(s) = l
        /\ \A i \in 1 .. l : s[i] = buffer[i]
    <3>1. /\ s \in Seq(Cell) /\ Len(s) = (IF 1 <= l THEN (l - 1) + 1 ELSE 0)
          /\ \A i \in 1 .. (l - 1) + 1 : s[i] = buffer[(1 + i) - 1]
      BY <1>0, <1>4, <1>8, PieceType
    <3>2. Len(s) = l
      BY <1>4, <3>1
    <3>3. ASSUME NEW i \in 1 .. l PROVE s[i] = buffer[i]
      <4>1. i \in 1 .. (l - 1) + 1 /\ (1 + i) - 1 = i
        BY <1>4
      <4> QED
        BY <3>1, <4>1
    <3> QED
      BY <3>1, <3>2, <3>3
  <2>2. /\ Make(p) \in Seq(Cell) /\ Len(Make(p)) = l
        /\ \A i \in 1 .. l : Make(p)[i] = [packet |-> p, pos |-> i]
    BY <1>4, MakeValue
  <2> HIDE DEF s
  <2>3. \A i \in 1 .. l : i \in 1 .. Len(buffer)
    BY <1>0, <1>4, <1>8
  <2>4. ASSUME NEW i \in 1 .. l PROVE s[i] = Make(p)[i]
    <3>1. s[i] = buffer[i] /\ buffer[i] = Stream[from + i]
      BY <1>1, <2>1, <2>3, Zenon
    <3>2. Stream[from + i] = [packet |-> p, pos |-> i] /\ Make(p)[i] = [packet |-> p, pos |-> i]
      BY <1>5, <2>2, Zenon
    <3> QED
      BY <3>1, <3>2, Zenon
  <2>5. s = Make(p)
    BY <2>1, <2>2, <2>4, SeqEqual
  <2>6. l \in 1 .. Len(buffer) /\ l <= Lengths[p]
    BY <1>0, <1>4, <1>8
  <2>7. CheckPacketTailer(buffer, l)
    BY <1>4, <2>6 DEF CheckPacketTailer
  <2> QED
    BY <2>5, <2>7 DEF s
<1> QED
  BY <1>4, <1>6, <1>7, <1>8, Zenon

\* What Parse takes out as a packet is one, unless the queue dropped a chunk.
LEMMA AcceptsPackets ==
  ASSUME StreamTypeOK, WaitingIsRecent, ~dropped, Parse, out' # out
  PROVE  \E p \in 1 .. Len(Lengths) :
           /\ Lengths[p] \in Nat /\ Lengths[p] <= Len(buffer) /\ p = buffer[1].packet
           /\ SubSeq(buffer, 1, Lengths[p]) = Make(p)
           /\ out' = Append(out, Make(p))
           /\ buffer' = SubSeq(buffer, Lengths[p] + 1, Len(buffer))
           /\ UNCHANGED <<at, queue, parsing>>
<1>0. buffer \in Seq(Cell) /\ Len(buffer) \in Nat
  BY CellTypes
<1>1. \/ /\ ParsePacket /\ Len(buffer) >= PacketLen(buffer)
         /\ Accept(PacketLen(buffer))
      \/ ParseNoLength /\ \E n \in 4 .. Len(buffer) : Accept(n)
  BY Zenon DEF Parse, ParseNothing, ParseNoHeader, ParseNoLength,
     ParseIncomplete, ParsePacket, Fail
<1>2. CheckPacketHeader(buffer) /\ UNCHANGED <<at, queue>>
  BY <1>1 DEF Parse, ParsePacket, ParseNoLength
<1>3. buffer # <<>> /\ buffer[1].pos = 1
  <2>1. Len(buffer) >= 2 /\ buffer[1].pos = 1
    BY <1>2 DEF CheckPacketHeader
  <2> QED
    BY <2>1
<1> DEFINE p == buffer[1].packet
<1>4. /\ p \in 1 .. Len(Lengths) /\ Lengths[p] \in Nat /\ Lengths[p] >= 4
      /\ Len(buffer) >= 3 => HasLength(buffer) /\ PacketLen(buffer) = Lengths[p]
      /\ Len(buffer) >= Lengths[p] => SubSeq(buffer, 1, Lengths[p]) = Make(p)
  BY <1>3, WholePacket
<1> HIDE DEF p
<1>5. Len(buffer) >= 3
  <2>1. ParsePacket => Len(buffer) >= 3
    BY DEF ParsePacket, HasLength
  <2>2. ASSUME NEW n \in 4 .. Len(buffer) PROVE Len(buffer) >= 3
    BY <1>0
  <2> QED
    BY <1>1, <2>1, <2>2, Zenon
<1>6. ~ParseNoLength
  BY <1>4, <1>5, Zenon DEF ParseNoLength
<1>7. Len(buffer) >= Lengths[p] /\ Lengths[p] <= Len(buffer) /\ Accept(Lengths[p])
  <2>1. PacketLen(buffer) = Lengths[p]
    BY <1>4, <1>5
  <2>2. Len(buffer) >= Lengths[p] /\ Accept(Lengths[p])
    BY <1>1, <1>6, <2>1, Zenon
  <2> QED
    BY <1>0, <1>4, <2>2
<1>8. SubSeq(buffer, 1, Lengths[p]) = Make(p)
  BY <1>4, <1>7
<1> QED
  BY <1>2, <1>4, <1>7, <1>8, Zenon DEF Accept, p

OutIsWhole == ~dropped => \A i \in 1 .. Len(out) : out[i] = Make(out[i][1].packet)

LEMMA OutIsWholeStep ==
  ASSUME StreamTypeOK, WaitingIsRecent, OutIsWhole, [StreamNext]_streamVars
  PROVE  OutIsWhole'
<1> SUFFICES ASSUME ~dropped' PROVE \A i \in 1 .. Len(out') : out'[i] = Make(out'[i][1].packet)
  BY DEF OutIsWhole, Make
<1>1. ~dropped
  BY DEF StreamNext, StreamThread, Receive, ProcessRecvData, Parse,
     streamVars, StreamTypeOK
<1>2. CASE out' = out
  BY <1>1, <1>2 DEF OutIsWhole
<1>3. CASE out' # out
  <2>1. Parse
    BY <1>3 DEF StreamNext, StreamThread, Receive, ProcessRecvData, streamVars
  <2>2. PICK p \in 1 .. Len(Lengths) : out' = Append(out, Make(p))
    BY <1>1, <1>3, <2>1, AcceptsPackets
  <2>3. Make(p)[1].packet = p
    <3>1. /\ Lengths[p] \in Nat /\ Lengths[p] >= 4
          /\ \A i \in 1 .. Lengths[p] : Make(p)[i] = [packet |-> p, pos |-> i]
      BY MakeValue
    <3>2. 1 \in 1 .. Lengths[p]
      BY <3>1
    <3>3. Make(p)[1] = [packet |-> p, pos |-> 1]
      BY <3>1, <3>2, Zenon
    <3> QED
      BY <3>3
  <2>4. out \in Seq(Seq(Cell)) /\ Make(p) \in Seq(Cell) /\ Len(out) \in Nat
    <3>1. out \in Seq(Seq(Cell))
      BY CellTypes
    <3>2. Make(p) \in Seq(Cell)
      BY MakeValue
    <3>3. Len(out) \in Nat
      BY <3>1, LenProperties
    <3> QED
      BY <3>1, <3>2, <3>3
  <2> DEFINE m == Make(p)
  <2> HIDE DEF m
  <2>5. /\ Len(out') = Len(out) + 1 /\ out'[Len(out) + 1] = m
        /\ \A i \in 1 .. Len(out) : out'[i] = out[i]
    BY <2>2, <2>4, AppendProperties DEF m
  <2>6. ASSUME NEW i \in 1 .. Len(out') PROVE out'[i] = Make(out'[i][1].packet)
    <3>1. CASE i = Len(out) + 1
      BY <2>3, <2>5, <3>1, Zenon DEF m
    <3>2. CASE i # Len(out) + 1
      <4>1. i \in 1 .. Len(out)
        BY <2>4, <2>5, <3>2
      <4>2. out'[i] = out[i] /\ out[i] = Make(out[i][1].packet)
        BY <1>1, <2>5, <4>1, Zenon DEF OutIsWhole
      <4> QED
        BY <4>2, Zenon
    <3> QED
      BY <3>1, <3>2
  <2> QED
    BY <2>6, Zenon
<1> QED
  BY <1>2, <1>3

LEMMA OrderMeansSent ==
  ASSUME StreamTypeOK, InOrder, OutIsWhole
  PROVE  HandledAreSent
<1> DEFINE h == Handled
           w == Waiting
<1>1. h \in Seq(Cell) /\ w \in Seq(Cell) /\ Ordered(h \o w, at)
  BY CellTypes DEF InOrder
<1> HIDE DEF h, w
<1>2. /\ Len(h \o w) = Len(h) + Len(w) /\ Len(h) \in Nat /\ Len(w) \in Nat
      /\ \A i \in 1 .. Len(h) + Len(w) : (h \o w)[i] = IF i <= Len(h) THEN h[i] ELSE w[i - Len(h)]
  BY <1>1, ConcatProperties, LenProperties
<1>3. ASSUME NEW i \in 1 .. Len(h) - 1 PROVE Before(h[i], h[i + 1])
  <2>1. /\ i \in 1 .. Len(h) + Len(w) /\ i + 1 \in 1 .. Len(h) + Len(w)
        /\ i <= Len(h) /\ i + 1 <= Len(h) /\ i < i + 1
    BY <1>2
  <2>2. (h \o w)[i] = h[i] /\ (h \o w)[i + 1] = h[i + 1]
    BY <1>2, <2>1, Zenon
  <2>3. \A j, k \in 1 .. Len(h) + Len(w) : j < k => Before((h \o w)[j], (h \o w)[k])
    BY <1>1, <1>2, Zenon DEF Ordered
  <2>4. Before((h \o w)[i], (h \o w)[i + 1])
    BY <2>1, <2>3, Zenon
  <2> QED
    BY <2>2, <2>4, Zenon
<1>4. h = FlattenSeq(out)
  BY Zenon DEF h, Handled, Flat
<1> QED
  BY <1>3, <1>4, Zenon DEF HandledAreSent, OutIsWhole, Before

LEMMA StreamInitOrder ==
  ASSUME StreamInit
  PROVE  InOrder /\ WaitingIsRecent /\ OutIsWhole /\ Handled = <<>> /\ Waiting = <<>>
<1>1. queue = <<>> /\ buffer = <<>> /\ out = <<>> /\ at = 0
  BY DEF StreamInit
<1>2. Handled = <<>> /\ Flat(queue) = <<>>
  BY <1>1, FlatEmpty, Zenon DEF Handled
<1>3. <<>> \o <<>> = <<>> /\ Len(<<>>) = 0 /\ 1 .. 0 = {} /\ 0 <= 0
  OBVIOUS
<1>4. Waiting = <<>>
  BY <1>1, <1>2, <1>3, Zenon DEF Waiting
<1>5. InOrder
  BY <1>2, <1>3, <1>4, Zenon DEF InOrder, Ordered
<1>6. WaitingIsRecent
  BY <1>1, <1>3, <1>4, Zenon DEF WaitingIsRecent
<1>7. OutIsWhole
  BY <1>1, <1>3, Zenon DEF OutIsWhole
<1> QED
  BY <1>2, <1>4, <1>5, <1>6, <1>7

OrderInv == StreamTypeOK /\ InOrder /\ WaitingIsRecent /\ OutIsWhole

LEMMA OrderInvHolds == StreamSpec => []OrderInv
<1>1. StreamInit => OrderInv
  BY StreamTypeInit, StreamInitOrder DEF OrderInv
<1>2. OrderInv /\ [StreamNext]_streamVars => OrderInv'
  BY StreamTypeStep, InOrderStep, RecentStep, OutIsWholeStep DEF OrderInv
<1> QED
  BY <1>1, <1>2, PTL DEF StreamSpec

\* Whatever the socket cuts and the queue drops, the handlers get cells of the
\* stream in their order, and without a drop whole packets (ProcessRecvData,
\* PacketParser::Parse2).
THEOREM HandledAreSentHolds == StreamSpec => []HandledAreSent
<1>1. OrderInv => HandledAreSent
  BY OrderMeansSent DEF OrderInv
<1> QED
  BY <1>1, OrderInvHolds, PTL

(***************************************************************************)
(* Nothing is lost.  While no chunk is dropped or cut in a header, the     *)
(* buffer begins where a packet does, and what is in it ends behind the    *)
(* header: so Parse never skips anything.                                  *)
(***************************************************************************)
AllThere == Handled \o Waiting = SubSeq(Stream, 1, at)

AtBoundary == Len(Handled) = Len(Stream) \/ Stream[Len(Handled) + 1].pos = 1

Reaches(c) == c # <<>> => c[Len(c)].pos >= 3

WorkedOff ==
  ~parsing => \/ buffer = <<>>
              \/ ~HasLength(buffer)
              \/ Len(buffer) < PacketLen(buffer)

WholeInv ==
  ~dropped /\ ~cut => /\ AllThere /\ AtBoundary
                      /\ Reaches(buffer)
                      /\ \A i \in 1 .. Len(queue) : queue[i] # <<>> /\ Reaches(queue[i])
                      /\ WorkedOff

\* How far the handled cells reach.
LEMMA HandledReach ==
  ASSUME StreamTypeOK, AllThere
  PROVE  /\ Len(Handled) \in Nat /\ Len(Waiting) \in Nat
         /\ Len(Handled) + Len(Waiting) = at /\ Len(Handled) = at - Len(Waiting)
<1>1. Handled \in Seq(Cell) /\ Waiting \in Seq(Cell) /\ at \in Nat /\ at <= Len(Stream) /\ Stream \in Seq(Cell)
  BY CellTypes
<1>2. Len(Handled) \in Nat /\ Len(Waiting) \in Nat /\ Len(Handled \o Waiting) = Len(Handled) + Len(Waiting)
  BY <1>1, ConcatProperties, LenProperties
<1>3. Len(SubSeq(Stream, 1, at)) = at
  <2>1. Len(SubSeq(Stream, 1, at)) = IF 1 <= at THEN (at - 1) + 1 ELSE 0
    BY <1>1, PieceType
  <2> QED
    BY <1>1, <2>1
<1>4. Len(Handled) + Len(Waiting) = at
  BY <1>2, <1>3 DEF AllThere
<1> QED
  BY <1>1, <1>2, <1>4

\* Cells that arrive follow those that are there.
LEMMA ArrivalKeepsAll ==
  ASSUME StreamTypeOK, StreamTypeOK', AllThere, NEW v, Moves(<<>>, v), ~dropped'
  PROVE  AllThere' /\ Handled' = Handled
<1> DEFINE h == Handled
           w == Waiting
           x == Waiting'
           k == at'
<1>1. /\ h \in Seq(Cell) /\ w \in Seq(Cell) /\ x \in Seq(Cell) /\ v \in Seq(Cell)
      /\ Stream \in Seq(Cell) /\ Len(Stream) \in Nat /\ at \in Nat
      /\ k \in at .. Len(Stream) /\ v = SubSeq(Stream, at + 1, k)
      /\ w \o v = <<>> \o x /\ Handled' \in {h, h \o <<>>}
      /\ h \o w = SubSeq(Stream, 1, at)
  BY CellTypes, CellTypesNext, Zenon DEF Moves, AllThere
<1>t. h \in Seq(Cell) /\ w \in Seq(Cell) /\ x \in Seq(Cell) /\ v \in Seq(Cell)
  BY <1>1
<1> HIDE DEF h, w, x, k
<1>2. <<>> \o x = x /\ h \o <<>> = h
  BY <1>t, ConcatEmptySeq
<1>3. w \o v = x /\ Handled' = h
  BY <1>1, <1>2
<1>4. (h \o w) \o v = h \o (w \o v)
  BY <1>t, Regroup, Zenon
<1>5. SubSeq(Stream, 1, at) \o SubSeq(Stream, at + 1, k) = SubSeq(Stream, 1, k)
  <2>1. 1 \in 1 .. Len(Stream) + 1 /\ at \in 1 - 1 .. Len(Stream) /\ k \in at .. Len(Stream)
    BY <1>1
  <2> QED
    BY <1>1, <2>1, ConcatAdjacentSubSeq, Zenon
<1>6. Handled' \o Waiting' = SubSeq(Stream, 1, k)
  BY <1>1, <1>3, <1>4, <1>5, Zenon DEF x
<1>7. AllThere' = (Handled' \o Waiting' = SubSeq(Stream, 1, at'))
  BY DEF AllThere, Stream
<1> QED
  BY <1>3, <1>6, <1>7 DEF h, k

\* Receive: the chunk ends behind a header.
LEMMA WholeReceive ==
  ASSUME StreamTypeOK, StreamTypeOK', WholeInv, ~dropped', ~cut',
         NEW n \in 1 .. MaxChunk, Receive(n)
  PROVE  /\ AllThere' /\ Handled' = Handled /\ UNCHANGED <<buffer, parsing>>
         /\ \A i \in 1 .. Len(queue') : queue'[i] # <<>> /\ Reaches(queue'[i])
<1>0. MaxChunk \in Nat /\ n \in Nat /\ n >= 1
  BY StreamAssumption
<1>1. /\ at' = at + n /\ at + n <= Len(Stream) /\ UNCHANGED <<buffer, parsing, out>>
      /\ queue' = Append(queue, SubSeq(Stream, at + 1, at'))
      /\ ~dropped /\ ~cut /\ ~(Stream[at'].pos <= 2)
  <2>1. dropped \in BOOLEAN /\ cut \in BOOLEAN
    BY DEF StreamTypeOK
  <2> QED
    BY <2>1 DEF Receive
<1>2. /\ queue \in Seq(Seq(Cell)) /\ Stream \in Seq(Cell) /\ at \in Nat /\ Len(Stream) \in Nat
  BY CellTypes
<1> DEFINE c == SubSeq(Stream, at + 1, at')
<1>3. c \in Seq(Cell) /\ Len(c) = n /\ c[n] = Stream[at']
  <2>1. at + 1 \in Nat /\ at + 1 >= 1 /\ at + n \in Nat
    BY <1>0, <1>2
  <2>2. /\ SubSeq(Stream, at + 1, at + n) \in Seq(Cell)
        /\ Len(SubSeq(Stream, at + 1, at + n)) = (IF at + 1 <= at + n THEN ((at + n) - (at + 1)) + 1 ELSE 0)
        /\ \A k \in 1 .. ((at + n) - (at + 1)) + 1 : SubSeq(Stream, at + 1, at + n)[k] = Stream[((at + 1) + k) - 1]
    BY <1>1, <1>2, <2>1, PieceType
  <2>3. n \in 1 .. ((at + n) - (at + 1)) + 1 /\ ((at + 1) + n) - 1 = at + n
        /\ (IF at + 1 <= at + n THEN ((at + n) - (at + 1)) + 1 ELSE 0) = n
    BY <1>0, <1>2
  <2>4. SubSeq(Stream, at + 1, at + n)[n] = Stream[at + n]
    BY <2>2, <2>3
  <2> QED
    BY <1>1, <2>2, <2>3, <2>4, Zenon
<1> HIDE DEF c
<1>4. c # <<>> /\ Reaches(c)
  <2>1. c # <<>>
    BY <1>0, <1>3
  <2>2. Stream[at'].pos \in Nat
    <3>1. at' \in 1 .. Len(Stream)
      BY <1>0, <1>1, <1>2
    <3>2. Stream[at'] \in Cell
      BY <1>2, <3>1, ElementOfSeq
    <3> QED
      BY <3>2 DEF Cell
  <2>3. Stream[at'].pos >= 3
    BY <1>1, <2>2
  <2> QED
    BY <1>3, <2>1, <2>3, Zenon DEF Reaches
<1>5. /\ Len(queue') = Len(queue) + 1 /\ queue'[Len(queue) + 1] = c
      /\ \A i \in 1 .. Len(queue) : queue'[i] = queue[i]
  <2>1. queue' = Append(queue, c)
    BY <1>1 DEF c
  <2> QED
    BY <1>2, <1>3, <2>1, AppendProperties
<1>6. ASSUME NEW i \in 1 .. Len(queue') PROVE queue'[i] # <<>> /\ Reaches(queue'[i])
  <2>1. CASE i = Len(queue) + 1
    BY <1>4, <1>5, <2>1
  <2>2. CASE i # Len(queue) + 1
    <3>1. i \in 1 .. Len(queue)
      BY <1>2, <1>5, <2>2
    <3> QED
      BY <1>1, <1>5, <3>1 DEF WholeInv
  <2> QED
    BY <2>1, <2>2
<1>7. AllThere' /\ Handled' = Handled
  <2>1. ~Parse
    <3>1. Parse => at' = at
      BY DEF Parse
    <3> QED
      BY <1>0, <1>1, <1>2, <3>1
  <2>2. PICK v : Moves(<<>>, v)
    BY <2>1, StepMoves DEF StreamNext
  <2> QED
    BY <1>1, <2>2, ArrivalKeepsAll DEF WholeInv
<1> QED
  BY <1>1, <1>6, <1>7

LEMMA WholeProcess ==
  ASSUME StreamTypeOK, StreamTypeOK', WholeInv, ~dropped', ~cut',
         ProcessRecvData
  PROVE  /\ AllThere' /\ Handled' = Handled /\ Reaches(buffer') /\ parsing'
         /\ \A i \in 1 .. Len(queue') : queue'[i] # <<>> /\ Reaches(queue'[i])
<1>1. /\ queue # <<>> /\ buffer' = buffer \o Head(queue) /\ queue' = Tail(queue)
      /\ parsing' = TRUE /\ ~parsing /\ UNCHANGED <<at, out, dropped, cut>>
  BY DEF ProcessRecvData, Input
<1>2. ~dropped /\ ~cut /\ AllThere
  BY <1>1 DEF WholeInv
<1>3. queue \in Seq(Seq(Cell)) /\ buffer \in Seq(Cell)
  BY CellTypes
<1>4. \A i \in 1 .. Len(queue) : queue[i] # <<>> /\ Reaches(queue[i])
  BY <1>1 DEF WholeInv
<1> DEFINE c == Head(queue)
<1>5. /\ Len(queue) \in Nat /\ Len(queue) >= 1 /\ c = queue[1] /\ c \in Seq(Cell)
      /\ Len(queue') = Len(queue) - 1
      /\ \A i \in 1 .. Len(queue') : queue'[i] = queue[i + 1]
  <2>1. Len(queue) \in Nat /\ Len(queue) >= 1 /\ c = queue[1]
    BY <1>1, <1>3
  <2> QED
    BY <1>1, <1>3, <2>1, HeadTailProperties
<1> HIDE DEF c
<1>6. c # <<>> /\ Reaches(c)
  <2>1. 1 \in 1 .. Len(queue)
    BY <1>5
  <2> QED
    BY <1>4, <1>5, <2>1
<1>7. Reaches(buffer')
  <2> DEFINE b == buffer \o c
  <2>1. /\ b \in Seq(Cell) /\ Len(b) = Len(buffer) + Len(c)
        /\ \A i \in 1 .. Len(buffer) + Len(c) : b[i] = IF i <= Len(buffer) THEN buffer[i] ELSE c[i - Len(buffer)]
    BY <1>3, <1>5, ConcatProperties
  <2> HIDE DEF b
  <2>2. Len(buffer) \in Nat /\ Len(c) \in Nat /\ Len(c) >= 1
    BY <1>3, <1>5, <1>6
  <2>3. /\ Len(b) \in 1 .. Len(buffer) + Len(c) /\ ~(Len(b) <= Len(buffer))
        /\ Len(b) - Len(buffer) = Len(c)
    BY <2>1, <2>2
  <2>4. b[Len(b)] = c[Len(c)]
    BY <2>1, <2>3
  <2>5. Reaches(b)
    BY <1>6, <2>4 DEF Reaches
  <2> QED
    BY <1>1, <2>5 DEF b, c
<1>8. ASSUME NEW i \in 1 .. Len(queue') PROVE queue'[i] # <<>> /\ Reaches(queue'[i])
  <2>1. i + 1 \in 1 .. Len(queue)
    BY <1>5
  <2> QED
    BY <1>4, <1>5, <2>1
<1>9. AllThere' /\ Handled' = Handled
  <2>1. ~Parse
    BY <1>1 DEF Parse
  <2>2. PICK v : Moves(<<>>, v)
    BY <2>1, StepMoves DEF StreamNext, StreamThread
  <2> QED
    BY <1>2, <2>2, ArrivalKeepsAll
<1> QED
  BY <1>1, <1>7, <1>8, <1>9

\* Parse takes the packet at the front of the buffer, or waits for its rest.
LEMMA WholeParse ==
  ASSUME StreamTypeOK, WaitingIsRecent, WholeInv, ~dropped, ~cut, Parse
  PROVE  \/ out' # out
         \/ /\ buffer' = buffer /\ out' = out /\ ~parsing'
            /\ buffer = <<>> \/ Len(buffer) < PacketLen(buffer)
<1>0. buffer \in Seq(Cell) /\ Len(buffer) \in Nat /\ out \in Seq(Seq(Cell))
  BY CellTypes
<1>1. CASE buffer = <<>>
  <2>1. ~CheckPacketHeader(buffer) /\ ParseNothing
    <3>1. ~CheckPacketHeader(buffer)
      BY <1>1 DEF CheckPacketHeader
    <3> QED
      BY <1>1, <3>1, Zenon DEF Parse, ParseNoHeader, ParseNoLength,
         ParseIncomplete, ParsePacket
  <2> QED
    BY <1>1, <2>1, Zenon DEF ParseNothing, Fail
<1>2. CASE buffer # <<>>
  <2> DEFINE p == buffer[1].packet
  <2>1. AllThere /\ AtBoundary /\ Reaches(buffer)
    BY DEF WholeInv
  <2>2. PICK from \in Nat :
          /\ from = at - Len(Waiting) /\ from + Len(buffer) <= at
          /\ \A i \in 1 .. Len(buffer) : buffer[i] = Stream[from + i]
    BY BufferIsPiece
  <2>3. from = Len(Handled)
    BY <2>1, <2>2, HandledReach
  <2>4. Len(buffer) >= 1 /\ 1 \in 1 .. Len(buffer)
    BY <1>0, <1>2
  <2>5. buffer[1].pos = 1
    <3>1. from # Len(Stream)
      <4>1. at <= Len(Stream) /\ at \in Nat /\ Len(Stream) \in Nat
        BY CellTypes
      <4> QED
        BY <1>0, <2>2, <2>4, <4>1
    <3>2. Stream[from + 1].pos = 1
      BY <2>1, <2>3, <3>1 DEF AtBoundary
    <3> QED
      BY <2>2, <2>4, <3>2
  <2>6. /\ p \in 1 .. Len(Lengths) /\ Lengths[p] \in Nat /\ Lengths[p] >= 4
        /\ Len(buffer) >= 2 => CheckPacketHeader(buffer)
        /\ Len(buffer) >= 3 => /\ HasLength(buffer)
                               /\ buffer[3].packet = p /\ PacketLen(buffer) = Lengths[p]
        /\ Len(buffer) >= Lengths[p] => SubSeq(buffer, 1, Lengths[p]) = Make(p)
        /\ \A i \in 1 .. Len(buffer) : i <= Lengths[p] => buffer[i].pos = i
    BY <1>2, <2>5, WholePacket
  <2> HIDE DEF p
  <2>7. Len(buffer) >= 3
    <3>1. buffer[Len(buffer)].pos >= 3
      BY <1>2, <2>1 DEF Reaches
    <3>2. Len(buffer) \in 1 .. Len(buffer)
      BY <1>0, <2>4
    <3>3. Len(buffer) <= Lengths[p] => buffer[Len(buffer)].pos = Len(buffer)
      BY <2>6, <3>2, Zenon
    <3> QED
      BY <1>0, <2>6, <3>1, <3>3
  <2>8. /\ CheckPacketHeader(buffer) /\ HasLength(buffer)
        /\ buffer[3].packet = p /\ PacketLen(buffer) = Lengths[p]
    BY <1>0, <2>6, <2>7
  <2>9. ParseIncomplete \/ ParsePacket
    BY <1>2, <2>8, Zenon DEF Parse, ParseNothing, ParseNoHeader, ParseNoLength
  <2>10. CASE ParseIncomplete
    BY <2>10, Zenon DEF ParseIncomplete, Fail
  <2>11. CASE ParsePacket
    <3>1. Len(buffer) >= Lengths[p]
      BY <2>8, <2>11, Zenon DEF ParsePacket
    <3>2. SubSeq(buffer, 1, Lengths[p]) = Make(p)
      BY <2>6, <3>1
    <3>3. Accept(Lengths[p])
      BY <2>8, <2>11, <3>2, Zenon DEF ParsePacket
    <3>4. out' = Append(out, SubSeq(buffer, 1, Lengths[p]))
      BY <3>3, Zenon DEF Accept
    <3>5. SubSeq(buffer, 1, Lengths[p]) \in Seq(Cell)
      <4>1. Lengths[p] <= Len(buffer)
        BY <1>0, <2>6, <3>1
      <4> QED
        BY <1>0, <2>6, <4>1, PieceType
    <3>6. Len(out') = Len(out) + 1 /\ Len(out) \in Nat
      BY <1>0, <3>4, <3>5, AppendProperties, LenProperties
    <3> QED
      BY <3>6
  <2> QED
    BY <2>9, <2>10, <2>11
<1> QED
  BY <1>1, <1>2

\* A packet taken out ends where the next one begins.
LEMMA WholeAccept ==
  ASSUME StreamTypeOK, WaitingIsRecent, WholeInv,
         ~dropped, ~cut, Parse, out' # out
  PROVE  AllThere' /\ AtBoundary' /\ Reaches(buffer') /\ UNCHANGED <<queue, parsing>> /\ parsing
<1>1. PICK p \in 1 .. Len(Lengths) :
        /\ Lengths[p] \in Nat /\ Lengths[p] <= Len(buffer) /\ p = buffer[1].packet
        /\ SubSeq(buffer, 1, Lengths[p]) = Make(p)
        /\ out' = Append(out, Make(p))
        /\ buffer' = SubSeq(buffer, Lengths[p] + 1, Len(buffer))
        /\ UNCHANGED <<at, queue, parsing>>
  BY AcceptsPackets
<1> DEFINE l == Lengths[p]
           m == Make(p)
           h == Handled
           b == buffer'
           q == Flat(queue)
<1>2. /\ l \in Nat /\ l >= 4 /\ m \in Seq(Cell) /\ Len(m) = l
  BY MakeValue
<1>3. /\ buffer \in Seq(Cell) /\ Len(buffer) \in Nat /\ out \in Seq(Seq(Cell))
      /\ h \in Seq(Cell) /\ q \in Seq(Cell) /\ at \in Nat /\ at <= Len(Stream) /\ Len(Stream) \in Nat
  BY CellTypes, LenProperties
<1>4. AllThere /\ AtBoundary /\ Reaches(buffer)
  BY DEF WholeInv
<1>5. b \in Seq(Cell) /\ Len(b) = Len(buffer) - l
      /\ \A k \in 1 .. Len(b) : b[k] = buffer[l + k]
  <2>1. l + 1 \in Nat /\ l + 1 >= 1 /\ l <= Len(buffer)
    BY <1>1, <1>2
  <2>2. /\ b \in Seq(Cell)
        /\ Len(b) = (IF l + 1 <= Len(buffer) THEN (Len(buffer) - (l + 1)) + 1 ELSE 0)
        /\ \A k \in 1 .. (Len(buffer) - (l + 1)) + 1 : b[k] = buffer[((l + 1) + k) - 1]
    <3> HIDE DEF l, b
    <3> DEFINE c == SubSeq(buffer, l + 1, Len(buffer))
    <3>1. /\ c \in Seq(Cell)
          /\ Len(c) = (IF l + 1 <= Len(buffer) THEN (Len(buffer) - (l + 1)) + 1 ELSE 0)
          /\ \A k \in 1 .. (Len(buffer) - (l + 1)) + 1 : c[k] = buffer[((l + 1) + k) - 1]
      <4>1. Len(buffer) <= Len(buffer)
        BY <1>3
      <4> QED
        BY <1>3, <2>1, <4>1, PieceType
    <3>2. b = c
      BY <1>1, Zenon DEF b, l
    <3> HIDE DEF c
    <3> QED
      BY <3>1, <3>2, Zenon
  <2> HIDE DEF l, b
  <2>n. Len(buffer) \in Nat /\ l \in Nat
    BY <1>2, <1>3
  <2>3. Len(b) = Len(buffer) - l
    BY <2>n, <2>1, <2>2
  <2>4. ASSUME NEW k \in 1 .. Len(b) PROVE b[k] = buffer[l + k]
    <3>1. k \in 1 .. (Len(buffer) - (l + 1)) + 1 /\ ((l + 1) + k) - 1 = l + k
      BY <1>2, <1>3, <2>3
    <3> QED
      BY <2>2, <3>1
  <2> QED
    BY <2>2, <2>3, <2>4
<1>6. buffer = m \o b
  <2>1. buffer = SubSeq(buffer, 1, l) \o SubSeq(buffer, l + 1, Len(buffer))
    BY <1>1, <1>2, <1>3, PieceSplit
  <2> QED
    BY <1>1, <2>1, Zenon
<1>7. Handled' = h \o m
  <2>1. Handled' = Flat(out')
    BY DEF Handled, Flat
  <2>2. Flat(Append(out, m)) = Flat(out) \o m
    BY <1>2, <1>3, FlatAppend
  <2> QED
    BY <1>1, <2>1, <2>2, Zenon DEF Handled
<1>8. Waiting' = b \o q
  <2>1. Waiting' = buffer' \o Flat(queue')
    BY DEF Waiting, Flat
  <2> QED
    BY <1>1, <2>1
<1>t. h \in Seq(Cell) /\ q \in Seq(Cell)
  BY <1>3
<1>9. AllThere'
  <2>0. h \o Waiting = SubSeq(Stream, 1, at) /\ Waiting = (m \o b) \o q
    BY <1>4, <1>6, Zenon DEF AllThere, Waiting
  <2>w. Handled' \o Waiting' = (h \o m) \o (b \o q)
    BY <1>7, <1>8, Zenon
  <2>a. AllThere' = (Handled' \o Waiting' = SubSeq(Stream, 1, at))
    BY <1>1 DEF AllThere, Stream
  <2> DEFINE x == b \o q
  <2> HIDE DEF m, b, q, h, l
  <2>1. (m \o b) \o q = m \o x /\ x \in Seq(Cell)
    <3>1. m \in Seq(Cell) /\ b \in Seq(Cell)
      BY <1>2, <1>5
    <3>2. (m \o b) \o q = m \o (b \o q)
      BY <1>t, <3>1, Regroup, Zenon
    <3>3. b \o q \in Seq(Cell)
      BY <1>t, <3>1, ConcatProperties
    <3> QED
      BY <3>2, <3>3
  <2> HIDE DEF x
  <2>2. (h \o m) \o x = h \o (m \o x)
    BY <1>t, <1>2, <2>1, Regroup, Zenon
  <2>3. Handled' \o Waiting' = (h \o m) \o x
    BY <2>w DEF x
  <2> QED
    BY <2>0, <2>1, <2>2, <2>3, <2>a, Zenon
<1>10. AtBoundary'
  <2>1. PICK from \in Nat :
          /\ from = at - Len(Waiting) /\ from + Len(buffer) <= at
          /\ \A i \in 1 .. Len(buffer) : buffer[i] = Stream[from + i]
    BY BufferIsPiece
  <2>2. from = Len(Handled)
    BY <1>4, <2>1, HandledReach
  <2>3. buffer # <<>> /\ from # Len(Stream)
    BY <1>1, <1>2, <1>3, <2>1
  <2>4. Stream[from + 1].pos = 1
    BY <1>4, <2>2, <2>3 DEF AtBoundary
  <2>5. /\ from + l <= Len(Stream)
        /\ \A i \in 1 .. l : Stream[from + i] = [packet |-> p, pos |-> i]
    <3>1. p = buffer[1].packet /\ from = at - Len(Waiting) /\ buffer # <<>>
      BY <1>1, <2>1, <2>3
    <3>2. /\ from + Lengths[p] <= Len(Stream)
          /\ \A i \in 1 .. Lengths[p] : Stream[from + i] = [packet |-> p, pos |-> i]
      <4> HIDE DEF h, b, q, m, l
      <4> QED
        BY <2>4, <3>1, BufferBegins, SMTT(40)
    <3> QED
      BY <3>2, Zenon
  <2> DEFINE e == from + l
  <2>6. l \in 1 .. l /\ e \in 1 .. Len(Stream)
    BY <1>2, <1>3, <2>5
  <2>7. Ends(Stream[e])
    <3> DEFINE c == [packet |-> p, pos |-> l]
    <3>1. Stream[e] = c
      BY <2>5, <2>6
    <3>2. c.packet = p /\ c.pos = l
      OBVIOUS
    <3> HIDE DEF c
    <3> QED
      BY <3>1, <3>2 DEF Ends
  <2>8. e = Len(Stream) \/ Stream[e + 1].pos = 1
    BY <2>6, <2>7, StreamIsPackets, Zenon DEF IsPackets
  <2>9. Len(Handled') = e
    <3>1. Len(h \o m) = Len(h) + Len(m)
      BY <1>2, <1>t, ConcatProperties
    <3> QED
      BY <1>2, <1>7, <2>2, <3>1, Zenon
  <2>10. AtBoundary' = (Len(Handled') = Len(Stream) \/ Stream[Len(Handled') + 1].pos = 1)
    BY DEF AtBoundary, Stream
  <2> QED
    BY <2>8, <2>9, <2>10, Zenon
<1>11. Reaches(b)
  <2>1. SUFFICES ASSUME b # <<>> PROVE b[Len(b)].pos >= 3
    BY DEF Reaches
  <2>2. Len(b) \in 1 .. Len(b) /\ l + Len(b) = Len(buffer) /\ buffer # <<>>
    <3> HIDE DEF b, l
    <3>1. Len(b) \in Nat /\ Len(b) # 0
      BY <1>5, <2>1
    <3>2. Len(buffer) # 0
      BY <1>2, <1>3, <1>5, <3>1
    <3> QED
      BY <1>2, <1>3, <1>5, <3>1, <3>2
  <2>3. b[Len(b)] = buffer[Len(buffer)]
    BY <1>5, <2>2, Zenon
  <2> QED
    BY <1>4, <2>2, <2>3 DEF Reaches
<1>12. parsing
  BY DEF Parse
<1> QED
  BY <1>1, <1>9, <1>10, <1>11, <1>12

LEMMA WholeInit == ASSUME StreamInit PROVE WholeInv
<1>1. queue = <<>> /\ buffer = <<>> /\ at = 0 /\ Handled = <<>> /\ Waiting = <<>>
  BY StreamInitOrder DEF StreamInit
<1>2. /\ <<>> \o <<>> = <<>> /\ Len(<<>>) = 0 /\ 1 .. 0 = {}
  OBVIOUS
<1>3. Stream \in Seq(Cell) /\ (Stream # <<>> => Stream[1].pos = 1)
  BY StreamIsPackets, Zenon DEF IsPackets
<1>4. AllThere
  <2>1. SubSeq(Stream, 1, 0) = <<>>
    BY <1>3, SubSeqEmpty
  <2> QED
    BY <1>1, <1>2, <2>1, Zenon DEF AllThere
<1>5. AtBoundary
  <2>1. Stream = <<>> => Len(Stream) = 0
    OBVIOUS
  <2>2. 0 + 1 = 1
    OBVIOUS
  <2> QED
    BY <1>1, <1>2, <1>3, <2>1, <2>2, Zenon DEF AtBoundary
<1>6. Reaches(buffer) /\ \A i \in 1 .. Len(queue) : queue[i] # <<>> /\ Reaches(queue[i])
  BY <1>1, <1>2, Zenon DEF Reaches
<1>7. WorkedOff
  BY <1>1 DEF WorkedOff
<1> QED
  BY <1>4, <1>5, <1>6, <1>7 DEF WholeInv

\* With the same cells handled, the same place is a boundary.
LEMMA SamePlace ==
  ASSUME AtBoundary, Handled' = Handled
  PROVE  AtBoundary'
<1>1. AtBoundary' = (Len(Handled') = Len(Stream) \/ Stream[Len(Handled') + 1].pos = 1)
  BY DEF AtBoundary, Stream
<1> QED
  BY <1>1, Zenon DEF AtBoundary

LEMMA WholeStep ==
  ASSUME StreamTypeOK, StreamTypeOK', WaitingIsRecent, WholeInv,
         [StreamNext]_streamVars
  PROVE  WholeInv'
<1> SUFFICES ASSUME ~dropped', ~cut'
    PROVE  /\ AllThere' /\ AtBoundary' /\ Reaches(buffer')
           /\ \A i \in 1 .. Len(queue') : queue'[i] # <<>> /\ Reaches(queue'[i])
           /\ WorkedOff'
  BY DEF WholeInv, Reaches
<1>1. ~dropped /\ ~cut
  BY DEF StreamNext, StreamThread, Receive, ProcessRecvData, Parse,
     streamVars, StreamTypeOK
<1>2. /\ AllThere /\ AtBoundary /\ Reaches(buffer) /\ WorkedOff
      /\ \A i \in 1 .. Len(queue) : queue[i] # <<>> /\ Reaches(queue[i])
  BY <1>1 DEF WholeInv
<1>3. WorkedOff' = (~parsing' => \/ buffer' = <<>>
                                 \/ ~HasLength(buffer')
                                 \/ Len(buffer') < PacketLen(buffer'))
  BY DEF WorkedOff, HasLength, PacketLen
<1>4. ASSUME NEW n \in 1 .. MaxChunk, Receive(n) PROVE WholeInv'
  <2>1. /\ AllThere' /\ Handled' = Handled /\ UNCHANGED <<buffer, parsing>>
        /\ \A i \in 1 .. Len(queue') : queue'[i] # <<>> /\ Reaches(queue'[i])
    BY <1>4, WholeReceive
  <2>2. WorkedOff' /\ Reaches(buffer')
    BY <1>2, <1>3, <2>1 DEF WorkedOff
  <2>3. AtBoundary'
    BY <1>2, <2>1, SamePlace
  <2> QED
    BY <2>1, <2>2, <2>3 DEF WholeInv, Reaches
<1>5. CASE ProcessRecvData
  <2>1. /\ AllThere' /\ Handled' = Handled /\ Reaches(buffer') /\ parsing'
        /\ \A i \in 1 .. Len(queue') : queue'[i] # <<>> /\ Reaches(queue'[i])
    BY <1>5, WholeProcess
  <2> QED
    BY <1>2, <1>3, <2>1, SamePlace
<1>6. ASSUME AllThere', Handled' = Handled, UNCHANGED <<buffer, queue>>, WorkedOff'
      PROVE  WholeInv'
  <2>1. AtBoundary'
    BY <1>2, <1>6, SamePlace
  <2> QED
    BY <1>2, <1>6, <2>1 DEF WholeInv, Reaches
<1>7. ASSUME UNCHANGED <<at, out, buffer, queue>> PROVE AllThere' /\ Handled' = Handled
  <2>1. AllThere' = AllThere
    BY <1>7 DEF AllThere, Handled, Waiting, Flat, Stream
  <2>2. Handled' = Handled
    BY <1>7 DEF Handled, Flat
  <2> QED
    BY <1>2, <2>1, <2>2
<1>8. CASE Parse
  <2>1. CASE out' # out
    <3>1. AllThere' /\ AtBoundary' /\ Reaches(buffer') /\ UNCHANGED <<queue, parsing>> /\ parsing
      BY <1>1, <1>8, <2>1, WholeAccept
    <3> QED
      BY <1>2, <1>3, <3>1
  <2>2. CASE out' = out
    <3>1. /\ buffer' = buffer /\ ~parsing'
          /\ buffer = <<>> \/ Len(buffer) < PacketLen(buffer)
      BY <1>1, <1>8, <2>2, WholeParse
    <3>2. UNCHANGED <<at, queue>>
      BY <1>8 DEF Parse
    <3>3. WorkedOff'
      BY <1>3, <3>1
    <3>4. WholeInv'
      BY <1>6, <1>7, <2>2, <3>1, <3>2, <3>3
    <3> QED
      BY <3>4 DEF WholeInv, Reaches
  <2> QED
    BY <2>1, <2>2
<1>9. CASE UNCHANGED streamVars
  <2>1. UNCHANGED <<at, out, buffer, queue, parsing>>
    BY <1>9 DEF streamVars
  <2>2. WorkedOff'
    BY <1>2, <1>3, <2>1 DEF WorkedOff
  <2>3. WholeInv'
    BY <1>6, <1>7, <2>1, <2>2
  <2> QED
    BY <2>3 DEF WholeInv, Reaches
<1>10. CASE \E n \in 1 .. MaxChunk : Receive(n)
  <2>1. WholeInv'
    BY <1>4, <1>10
  <2> QED
    BY <2>1 DEF WholeInv, Reaches
<1> QED
  BY <1>5, <1>8, <1>9, <1>10, Zenon DEF StreamNext, StreamThread

StreamInv == OrderInv /\ WholeInv

LEMMA StreamInvHolds == StreamSpec => []StreamInv
<1>1. StreamInit => WholeInv
  BY WholeInit
<1>2. OrderInv /\ OrderInv' /\ WholeInv /\ [StreamNext]_streamVars => WholeInv'
  BY WholeStep DEF OrderInv
<1>3. OrderInv /\ WholeInv <=> StreamInv
  BY DEF StreamInv
<1> QED
  BY <1>1, <1>2, <1>3, OrderInvHolds, PTL DEF StreamSpec

\* What was received and not cut in a header is handled or still waits, cell
\* by cell in the order of the stream (Receive, ProcessRecvData, Parse).
THEOREM NothingLostHolds == StreamSpec => []NothingLost
<1>1. StreamInv => NothingLost
  <2> SUFFICES ASSUME StreamInv, ~dropped, ~cut
      PROVE  FlattenSeq(out) \o buffer \o FlattenSeq(queue) = SubSeq(Stream, 1, at)
    BY DEF NothingLost
  <2>1. StreamTypeOK /\ AllThere
    BY DEF StreamInv, OrderInv, WholeInv
  <2> DEFINE h == Handled
             b == buffer
             q == Flat(queue)
  <2>2. h \in Seq(Cell) /\ b \in Seq(Cell) /\ q \in Seq(Cell)
    BY <2>1, CellTypes
  <2>3. h \o (b \o q) = SubSeq(Stream, 1, at)
    BY <2>1, Zenon DEF AllThere, Waiting
  <2>4. FlattenSeq(out) = h /\ FlattenSeq(queue) = q /\ buffer = b
    BY Zenon DEF Handled, Flat
  <2> HIDE DEF h, b, q
  <2>5. (h \o b) \o q = h \o (b \o q)
    BY <2>2, Regroup, Zenon
  <2> QED
    BY <2>3, <2>4, <2>5, Zenon
<1> QED
  BY <1>1, StreamInvHolds, PTL

\* What is complete has been handled when the thread has worked its queue off
\* (the loops of ProcessRecvData).
THEOREM HandledAtOnceHolds == StreamSpec => []HandledAtOnce
<1>1. StreamInv => HandledAtOnce
  BY DEF StreamInv, WholeInv, WorkedOff, HandledAtOnce
<1> QED
  BY <1>1, StreamInvHolds, PTL
=============================================================================
