----------------------------- MODULE VSFSession -----------------------------
(***************************************************************************)
(* One connection between a streaming server and a client: the session     *)
(* protocol HELLO, LOGIN, SETUP, PLAY, the video packets it lets through   *)
(* and their reassembly.                                                   *)
(*                                                                         *)
(* Server side (VSFServer/Server.cpp, ServerManager.cpp), four threads:    *)
(*   window thread  Accept, FD_READ -> Receive, FD_CLOSE -> CloseClient    *)
(*   RecvThread     ProcessRecvData and the handlers Login ... Stop        *)
(*   SendMsgThread  SendPacket                                             *)
(*   TCThread       SendVideoLoop, which reads m_iStatus without a lock    *)
(* Client side (testVSFClient/Client.cpp), two threads and the user:       *)
(*   RcvThread      Receive                                                *)
(*   ProcessThread  ProcessRecvData and the handlers                       *)
(*                                                                         *)
(* Video packets are numbered 0, 1, 2 ... by the splitter (VSFSplitter);   *)
(* packet n is unit n % Units of frame n \div Units.  The number does not  *)
(* wrap here.  A chunk handed from a socket to a thread is one packet, and *)
(* an Add to a queue is one step: chunking and the races inside the queues *)
(* are separate questions.                                                 *)
(***************************************************************************)
EXTENDS Integers, SequencesExt

CONSTANTS
  MsgMax,       \* capacity of Server::m_pMsgQueue (400)
  RecvMax,      \* capacity of Server::m_pQBuffer (5)
  RcvMax,       \* capacity of Client::m_pQBuffer (400)
  NetMax,       \* packets a socket takes before send() returns WSAEWOULDBLOCK
  Units,        \* units a frame is split into
  Credentials,  \* what a client may log in with: TRUE is the accepted pair
  MaxPackets,   \* bound: video packets TCThread produces
  MaxLate       \* bound: times 3 s pass without an answer to a HELLO

ASSUME SessionAssumption ==
  /\ MsgMax \in Nat \ {0}
  /\ RecvMax \in Nat \ {0}
  /\ RcvMax \in Nat \ {0}
  /\ NetMax \in Nat \ {0}
  /\ Units \in Nat \ {0}
  /\ Credentials \subseteq BOOLEAN
  /\ MaxPackets \in Nat
  /\ MaxLate \in Nat

VARIABLES
  accept,    \* how far Accept got, or "closed" after CloseClient
  status,    \* Server::m_iStatus
  passed,    \* Server::m_bIsPassed
  handler,   \* the handler RecvThread is in the middle of
  helloOld,  \* 3000 ms have passed since m_dwLastHello
  msgQ,      \* Server::m_pMsgQueue
  recvQ,     \* Server::m_pQBuffer
  next,      \* TCThread: number of the next video packet
  sawPlay,   \* TCThread: it read VSFS_PLAY and is about to add packet next
  s2c, c2s,  \* bytes in flight on the TCP connection
  alive,     \* the client has the connection open
  cPassed,   \* Client::m_bIsPassed
  decoder,   \* Client::m_pVideoDecoder is open
  rcvQ,      \* Client::m_pQBuffer
  tmpBuf,    \* Client::m_pTmpVideoBuffer, as the packets copied into it
  lastSN,    \* Client::m_lLastSN
  gapSeen,   \* history: "loss packet" was logged since tmpBuf was last empty
  late,      \* number of HelloTimeout steps, for MaxLate
  lost       \* history: a protocol message was dropped somewhere

serverVars == <<accept, status, passed, handler, helloOld>>
tcVars     == <<next, sawPlay>>
clientVars == <<alive, cPassed, decoder, tmpBuf, lastSN, gapSeen>>
queueVars  == <<msgQ, recvQ, s2c, c2s, rcvQ>>
vars == <<serverVars, tcVars, clientVars, queueVars, late, lost>>

ServerCommands == {"HELLO", "LOGIN_RET", "SETUP_RET", "VIDEO_PACKET"}
ClientCommands == {"LOGIN", "SETUP", "PLAY", "STOP", "UPDATE_TIMESTAMP"}

\* val: the packet number of a VIDEO_PACKET, 1 for an accepted login.
Msg(c, v) == [cmd |-> c, val |-> v]
Message == [cmd : ServerCommands \union ClientCommands, val : Nat]

\* Losing one of these leaves the other side waiting.
IsProtocol(m) == m.cmd \notin {"VIDEO_PACKET", "UPDATE_TIMESTAMP", "STOP"}

Init ==
  /\ accept = "none"
  /\ status = "FAIL"
  /\ passed = FALSE
  /\ handler = "idle"
  /\ helloOld = FALSE
  /\ msgQ = <<>> /\ recvQ = <<>> /\ s2c = <<>> /\ c2s = <<>> /\ rcvQ = <<>>
  /\ next = 0
  /\ sawPlay = FALSE
  /\ alive = TRUE
  /\ cPassed = FALSE
  /\ decoder = FALSE
  /\ tmpBuf = <<>>
  /\ lastSN = -1
  /\ gapSeen = FALSE
  /\ late = 0
  /\ lost = FALSE
-----------------------------------------------------------------------------
(* Server *)

\* Fault variant: the queue grows past its capacity.
AddMsg_Unbounded(m) ==
  /\ msgQ' = Append(msgQ, m)
  /\ UNCHANGED lost

\* m_pMsgQueue->Add, whose result no caller looks at: a full queue drops m.
AddMsg(m) ==
  \/ /\ Len(msgQ) < MsgMax
     /\ msgQ' = Append(msgQ, m)
     /\ UNCHANGED lost
  \/ /\ Len(msgQ) >= MsgMax
     /\ lost' = (lost \/ IsProtocol(m))
     /\ UNCHANGED msgQ

Hello ==
  /\ helloOld' = FALSE
  /\ AddMsg(Msg("HELLO", 0))

\* Accept puts the new Server into m_SocketList first; m_dwLastHello is still
\* uninitialised, so any age may be read from it.
AcceptPush ==
  /\ accept = "none"
  /\ accept' = "listed"
  /\ helloOld' \in BOOLEAN
  /\ UNCHANGED <<status, passed, handler, tcVars, clientVars, queueVars, late, lost>>

\* SetSocket and Init, which starts RecvThread and SendMsgThread.
AcceptInit ==
  /\ accept = "listed"
  /\ accept' = "running"
  /\ UNCHANGED <<status, passed, handler, helloOld, tcVars, clientVars, queueVars, late, lost>>

AcceptHello ==
  /\ accept = "running"
  /\ accept' = "greeted"
  /\ Hello
  /\ UNCHANGED <<status, passed, handler, tcVars, clientVars,
                 recvQ, s2c, c2s, rcvQ, late>>

\* Time: 3000 ms go by after a HELLO.
HelloTimeout ==
  /\ accept \in {"listed", "running", "greeted"}
  /\ ~helloOld
  /\ late < MaxLate
  /\ helloOld' = TRUE
  /\ late' = late + 1
  /\ UNCHANGED <<accept, status, passed, handler, tcVars, clientVars, queueVars, lost>>

\* SendVideoLoop for one unit: read the status.  FAIL leads to ResendHello.
TCReadStatus ==
  /\ accept \in {"listed", "running", "greeted"}
  /\ ~sawPlay
  /\ next < MaxPackets
  /\ \/ /\ status = "PLAY"
        /\ sawPlay' = TRUE
        /\ UNCHANGED <<next, helloOld, msgQ, lost>>
     \/ /\ status = "FAIL" /\ helloOld
        /\ Hello
        /\ next' = next + 1
        /\ UNCHANGED sawPlay
     \/ /\ status # "PLAY"
        /\ ~(status = "FAIL" /\ helloOld)
        /\ next' = next + 1
        /\ UNCHANGED <<sawPlay, helloOld, msgQ, lost>>
  /\ UNCHANGED <<accept, status, passed, handler, clientVars,
                 recvQ, s2c, c2s, rcvQ, late>>

\* AddVideoPacket, on the strength of the status read before: -1 when full.
TCAddVideoPacket ==
  /\ sawPlay
  /\ sawPlay' = FALSE
  /\ next' = next + 1
  /\ AddMsg(Msg("VIDEO_PACKET", next))
  /\ UNCHANGED <<serverVars, clientVars, recvQ, s2c, c2s, rcvQ, late>>

ThreadsRun == accept \in {"running", "greeted"}

\* FD_READ: Receive takes the data and drops it when m_pQBuffer is full.  The
\* window thread gets the message after it has returned from Accept.
ServerReceive ==
  /\ accept = "greeted"
  /\ c2s # <<>>
  /\ c2s' = Tail(c2s)
  /\ \/ /\ Len(recvQ) < RecvMax
        /\ recvQ' = Append(recvQ, Head(c2s))
        /\ UNCHANGED lost
     \/ /\ Len(recvQ) >= RecvMax
        /\ lost' = (lost \/ IsProtocol(Head(c2s)))
        /\ UNCHANGED recvQ
  /\ UNCHANGED <<serverVars, tcVars, clientVars, msgQ, s2c, rcvQ, late>>

\* RecvThread takes the next command c out of the queue.
Take(c) ==
  /\ ThreadsRun
  /\ handler = "idle"
  /\ recvQ # <<>>
  /\ Head(recvQ).cmd = c
  /\ recvQ' = Tail(recvQ)

\* Login answers first; then an accepted one sets the status and m_bIsPassed,
\* a refused one m_bIsPassed and the status.
ServerLogin ==
  /\ Take("LOGIN")
  /\ AddMsg(Msg("LOGIN_RET", Head(recvQ).val))
  /\ handler' = IF Head(recvQ).val = 1 THEN "accepted" ELSE "refused"
  /\ UNCHANGED <<accept, status, passed, helloOld, tcVars, clientVars,
                 s2c, c2s, rcvQ, late>>

LoginAnswered ==
  /\ \/ /\ handler = "accepted"
        /\ status' = "STOP"
        /\ UNCHANGED passed
     \/ /\ handler = "refused"
        /\ passed' = FALSE
        /\ UNCHANGED status
  /\ handler' = IF handler = "accepted" THEN "passing" ELSE "failing"
  /\ UNCHANGED <<accept, helloOld, tcVars, clientVars, queueVars, late, lost>>

LoginReturns ==
  /\ \/ /\ handler = "passing"
        /\ passed' = TRUE
        /\ UNCHANGED status
     \/ /\ handler = "failing"
        /\ status' = "FAIL"
        /\ UNCHANGED passed
  /\ handler' = "idle"
  /\ UNCHANGED <<accept, helloOld, tcVars, clientVars, queueVars, late, lost>>

\* Fault variant: Setup without the early return.
ServerSetup_Unchecked ==
  /\ Take("SETUP")
  /\ AddMsg(Msg("SETUP_RET", 0))
  /\ handler' = "setup"
  /\ UNCHANGED <<accept, status, passed, helloOld, tcVars, clientVars,
                 s2c, c2s, rcvQ, late>>

\* Setup answers first as well; without a login it does nothing.
ServerSetup ==
  /\ Take("SETUP")
  /\ \/ /\ passed
        /\ AddMsg(Msg("SETUP_RET", 0))
        /\ handler' = "setup"
     \/ /\ ~passed
        /\ UNCHANGED <<msgQ, handler, lost>>
  /\ UNCHANGED <<accept, status, passed, helloOld, tcVars, clientVars,
                 s2c, c2s, rcvQ, late>>

\* Fault variant: Setup starts the stream by itself.
SetupReturns_Plays ==
  /\ handler = "setup"
  /\ status' = "PLAY"
  /\ handler' = "idle"
  /\ UNCHANGED <<accept, passed, helloOld, tcVars, clientVars, queueVars, late, lost>>

SetupReturns ==
  /\ handler = "setup"
  /\ status' = "SETUP"
  /\ handler' = "idle"
  /\ UNCHANGED <<accept, passed, helloOld, tcVars, clientVars, queueVars, late, lost>>

\* Fault variant: a second PLAY pauses.
ServerPlay_Toggles ==
  /\ Take("PLAY")
  /\ status' = IF ~passed THEN status ELSE IF status = "PLAY" THEN "STOP" ELSE "PLAY"
  /\ UNCHANGED <<accept, passed, handler, helloOld, tcVars, clientVars,
                 msgQ, s2c, c2s, rcvQ, late, lost>>

ServerPlay ==
  /\ Take("PLAY")
  /\ status' = IF passed THEN "PLAY" ELSE status
  /\ UNCHANGED <<accept, passed, handler, helloOld, tcVars, clientVars,
                 msgQ, s2c, c2s, rcvQ, late, lost>>

\* Stop is the one handler that does not ask for a login.
ServerStop ==
  /\ Take("STOP")
  /\ status' = "STOP"
  /\ UNCHANGED <<accept, passed, handler, helloOld, tcVars, clientVars,
                 msgQ, s2c, c2s, rcvQ, late, lost>>

\* Only the frame rate estimate changes, which is not part of this module.
ServerUpdateTimestamp ==
  /\ Take("UPDATE_TIMESTAMP")
  /\ UNCHANGED <<serverVars, tcVars, clientVars, msgQ, s2c, c2s, rcvQ, late, lost>>

\* SendPacket.  While the socket has no room, the answers LOGIN_RET and
\* SETUP_RET are lost at once; HELLO and VIDEO_PACKET are tried 200 times more
\* (no step) and then given up.
SendPacket ==
  /\ ThreadsRun
  /\ msgQ # <<>>
  /\ msgQ' = Tail(msgQ)
  /\ \/ /\ alive
        /\ Len(s2c) < NetMax
        /\ s2c' = Append(s2c, Head(msgQ))
        /\ UNCHANGED lost
     \/ /\ ~alive \/ Len(s2c) >= NetMax
        /\ lost' = (lost \/ IsProtocol(Head(msgQ)))
        /\ UNCHANGED s2c
  /\ UNCHANGED <<serverVars, tcVars, clientVars, recvQ, c2s, rcvQ, late>>

\* FD_CLOSE, after the data before it was read: CloseClient stops the threads,
\* each at the end of its round, and takes the object out of the list.
CloseClient ==
  /\ accept = "greeted"
  /\ ~alive
  /\ c2s = <<>>
  /\ handler = "idle"
  /\ accept' = "closed"
  /\ UNCHANGED <<status, passed, handler, helloOld, tcVars, clientVars,
                 queueVars, late, lost>>
-----------------------------------------------------------------------------
(* Client *)

\* Receive: the chunk is dropped, with a log line, when m_pQBuffer is full.
ClientReceive ==
  /\ alive
  /\ s2c # <<>>
  /\ s2c' = Tail(s2c)
  /\ \/ /\ Len(rcvQ) < RcvMax
        /\ rcvQ' = Append(rcvQ, Head(s2c))
        /\ UNCHANGED lost
     \/ /\ Len(rcvQ) >= RcvMax
        /\ lost' = (lost \/ IsProtocol(Head(s2c)))
        /\ UNCHANGED rcvQ
  /\ UNCHANGED <<serverVars, tcVars, clientVars, msgQ, recvQ, c2s, late>>

\* ProcessThread takes the next packet with command c out of the queue.
Process(c) ==
  /\ alive
  /\ rcvQ # <<>>
  /\ Head(rcvQ).cmd = c
  /\ rcvQ' = Tail(rcvQ)

Send(c, v) == c2s' = Append(c2s, Msg(c, v))

\* NID_HELLO: DoLogin, every time.
ClientHello ==
  /\ Process("HELLO")
  /\ \E ok \in Credentials : Send("LOGIN", IF ok THEN 1 ELSE 0)
  /\ UNCHANGED <<serverVars, tcVars, clientVars, msgQ, recvQ, s2c, late, lost>>

ClientLoginRet ==
  /\ Process("LOGIN_RET")
  /\ cPassed' = (Head(rcvQ).val = 1)
  /\ IF cPassed' THEN Send("SETUP", 0) ELSE UNCHANGED c2s
  /\ UNCHANGED <<serverVars, tcVars, alive, decoder, tmpBuf, lastSN, gapSeen,
                 msgQ, recvQ, s2c, late, lost>>

\* SetupRet closes and opens the decoder; tmpBuf keeps what it holds.
ClientSetupRet ==
  /\ Process("SETUP_RET")
  /\ decoder' = TRUE
  /\ Send("PLAY", 0)
  /\ UNCHANGED <<serverVars, tcVars, alive, cPassed, tmpBuf, lastSN, gapSeen,
                 msgQ, recvQ, s2c, late, lost>>

\* ucMarker: the last unit of its frame.
IsMarked(n) == n % Units = Units - 1

\* Fault variant: the test tolerates one missing number.
IsLoss_Tolerant(n) == n - lastSN > 2 \/ lastSN - n > 2

\* abs(lCurSN - m_lLastSN) > 1
IsLoss(n) == n - lastSN > 1 \/ lastSN - n > 1

\* RecvVideoPacket: append, compare the number (a loss is only logged), and on
\* a marked packet decode what is there, empty tmpBuf and acknowledge.
ClientVideoPacket ==
  /\ Process("VIDEO_PACKET")
  /\ LET n == Head(rcvQ).val IN
       /\ lastSN' = n
       /\ \/ /\ IsMarked(n)
             /\ tmpBuf' = <<>>
             /\ gapSeen' = FALSE
             /\ Send("UPDATE_TIMESTAMP", 0)
          \/ /\ ~IsMarked(n)
             /\ tmpBuf' = Append(tmpBuf, n)
             /\ gapSeen' = (gapSeen \/ IsLoss(n))
             /\ UNCHANGED c2s
  /\ UNCHANGED <<serverVars, tcVars, alive, cPassed, decoder,
                 msgQ, recvQ, s2c, late, lost>>

\* Close: both threads end, STOP is sent, the socket is closed, the queue is
\* reset.  Data on its way to the client is gone.
ClientClose ==
  /\ alive
  /\ accept # "none"
  /\ alive' = FALSE
  /\ cPassed' = FALSE
  /\ Send("STOP", 0)
  /\ s2c' = <<>>
  /\ rcvQ' = <<>>
  /\ UNCHANGED <<serverVars, tcVars, decoder, tmpBuf, lastSN, gapSeen,
                 msgQ, recvQ, late, lost>>
-----------------------------------------------------------------------------
WindowThread  == AcceptPush \/ AcceptInit \/ AcceptHello \/ ServerReceive \/ CloseClient
RecvThread    == \/ ServerLogin \/ LoginAnswered \/ LoginReturns
                 \/ ServerSetup \/ SetupReturns
                 \/ ServerPlay \/ ServerStop \/ ServerUpdateTimestamp
TCThread      == TCReadStatus \/ TCAddVideoPacket
ProcessThread == \/ ClientHello \/ ClientLoginRet
                 \/ ClientSetupRet \/ ClientVideoPacket

Next ==
  \/ WindowThread
  \/ RecvThread
  \/ SendPacket
  \/ TCThread
  \/ HelloTimeout
  \/ ClientReceive
  \/ ProcessThread
  \/ ClientClose

Spec == Init /\ [][Next]_vars

\* Every thread that has something to do does it in the end.  TCThread is not
\* included: it depends on the application's frames.  The user need not close.
Fairness ==
  /\ WF_vars(WindowThread)
  /\ WF_vars(RecvThread)
  /\ WF_vars(SendPacket)
  /\ WF_vars(ClientReceive)
  /\ WF_vars(ProcessThread)

FairSpec == Spec /\ Fairness
-----------------------------------------------------------------------------
IsQueue(q, max) == q \in Seq(Message) /\ Len(q) <= max

QueueTypeOK ==
  /\ IsQueue(msgQ, MsgMax)
  /\ IsQueue(recvQ, RecvMax)
  /\ IsQueue(s2c, NetMax)
  /\ c2s \in Seq(Message)
  /\ IsQueue(rcvQ, RcvMax)

ServerTypeOK ==
  /\ accept \in {"none", "listed", "running", "greeted", "closed"}
  /\ status \in {"FAIL", "STOP", "SETUP", "PLAY"}
  /\ passed \in BOOLEAN
  /\ handler \in {"idle", "accepted", "passing", "refused", "failing", "setup"}
  /\ helloOld \in BOOLEAN
  /\ next \in Nat
  /\ sawPlay \in BOOLEAN

ClientTypeOK ==
  /\ alive \in BOOLEAN
  /\ cPassed \in BOOLEAN
  /\ decoder \in BOOLEAN
  /\ tmpBuf \in Seq(Nat)
  /\ lastSN \in Int
  /\ gapSeen \in BOOLEAN

TypeOK ==
  /\ QueueTypeOK
  /\ ServerTypeOK
  /\ ClientTypeOK
  /\ late \in Nat
  /\ lost \in BOOLEAN

Has(q, c) == \E i \in 1 .. Len(q) : q[i].cmd = c

\* A video packet, wherever it waits or travels, is for a client that has the
\* answer to its SETUP and so an open decoder; and the server is in PLAY, or
\* about to be, only then.  This must survive refused logins, duplicated
\* HELLOs and lost answers.
DecoderReady ==
  \/ Has(msgQ, "VIDEO_PACKET") \/ Has(s2c, "VIDEO_PACKET")
  \/ Has(rcvQ, "VIDEO_PACKET") \/ status = "PLAY"
  => decoder

\* SETUP and PLAY are only granted to a client whose last login was accepted.
\* Inside a handler, and only there, the two fields may disagree: Login sets
\* them one after the other and TCThread may read the status in between.
ServedOnlyIfPassed == handler = "idle" /\ status \in {"SETUP", "PLAY"} => passed

\* A session reaches PLAY and stays there, unless a login was refused, a protocol
\* message was lost or the client left: no order of the handlers, and no
\* repeated HELLO, stalls it by itself.
StreamsInTheEnd ==
  [](handler \notin {"refused", "failing"})
    => <>[](status = "PLAY" \/ lost \/ ~alive \/ accept = "none")

IsWholeFrame(s) ==
  /\ Len(s) = Units
  /\ \A i \in 1 .. Units : s[i] = s[1] + i - 1
  /\ s[1] % Units = 0

\* What is handed to the decoder is one frame, put together from all its units,
\* or the client has logged a loss since the decoder was last called: a client
\* that enters PLAY inside a frame does decode the rest of it, but not silently.
FragmentIsLogged ==
  [][ClientVideoPacket =>
       LET n == Head(rcvQ).val IN
       IsMarked(n) => gapSeen \/ IsLoss(n) \/ IsWholeFrame(Append(tmpBuf, n))]_vars
=============================================================================
