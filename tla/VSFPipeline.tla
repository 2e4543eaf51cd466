---------------------------- MODULE VSFPipeline ----------------------------
(***************************************************************************)
(* The way of a frame through the server: from InputVideo to the packets   *)
(* handed to the clients' sockets.                                         *)
(*                                                                         *)
(*   application    InputVideo           -> StreamingCtrl::m_pVideoQueue   *)
(*   ImageThread    UpdateVideo3, encode -> ServerManager::m_pVideoQueue   *)
(*   TCThread       SendVideoLoop, split -> Server::m_pMsgQueue per client *)
(*   SendMsgThread  SendPacket, one per client                             *)
(*                                                                         *)
(* The packets TCThread queues hold a pointer into one of the two buffers  *)
(* that GetNext of the video queue fills in turn (SQQueue), not the bytes. *)
(* SendMsgThread reads the bytes when the packet's turn comes.             *)
(*                                                                         *)
(* Frames are numbered 1, 2 ... and have one size.  Copying one unit of a  *)
(* frame is one step.  Calls of a queue are one step; what their missing   *)
(* locks do is the subject of SQQueueThreads.                              *)
(***************************************************************************)
EXTENDS Integers, SequencesExt

CONSTANTS
  Clients,    \* the connected clients
  CtrlMax,    \* capacity of StreamingCtrl::m_pVideoQueue (4)
  VideoMax,   \* capacity of ServerManager::m_pVideoQueue (8)
  MsgMax,     \* capacity of Server::m_pMsgQueue (400)
  Units,      \* units a frame is split into
  MaxFrames   \* bound: frames the application hands in

ASSUME PipelineAssumption ==
  /\ CtrlMax \in Nat \ {0}
  /\ VideoMax \in Nat \ {0}
  /\ MsgMax \in Nat \ {0}
  /\ Units \in Nat \ {0}
  /\ MaxFrames \in Nat

VARIABLES
  calling,   \* the application is inside "Start" or "Stop", or in "none"
  open,      \* ServerManager::m_bIsAlive: TCThread runs
  isAlive,   \* StreamingCtrl::m_bIsAlive
  imageRuns, \* there is an ImageThread
  input,     \* number of frames handed in
  ctrlQ,     \* StreamingCtrl::m_pVideoQueue
  videoQ,    \* ServerManager::m_pVideoQueue
  tmp,       \* its m_pTempBuffer: of which frame each unit of each buffer is
  bufIndex,  \* its m_iBufIndex
  takes,     \* number of GetNext that returned
  tcPc,      \* TCThread: "idle", "copy" in GetNext, or "share" the units out
  unit,      \* TCThread: the unit it copies or shares out
  todo,      \* TCThread: the clients that unit still has to be offered to
  current,   \* TCThread: the frame GetNext returned last
  playing,   \* the clients whose m_iStatus is VSFS_PLAY
  msgQ,      \* Server::m_pMsgQueue of each client, video packets only
  sent       \* history: what was sent to each client last, or Nothing

appVars    == <<calling, open, isAlive, imageRuns>>
imageVars  == <<input, ctrlQ>>
tcVars     == <<tmp, bufIndex, takes, tcPc, unit, todo, current>>
clientVars == <<playing, msgQ, sent>>
vars == <<appVars, imageVars, videoQ, tcVars, clientVars>>

UnitSet == 0 .. Units - 1
Buffers == {0, 1}

\* A MsgItem: unit `unit` of the frame in buffer `buf`.  `frame` and `take` say
\* which frame that was and which GetNext returned it; the code keeps neither.
MsgItem == [frame : Nat, unit : UnitSet, buf : Buffers, take : Nat]

\* Before everything that is sent.
Nothing == [frame |-> 0, unit |-> 0, content |-> 0]

Init ==
  /\ calling = "none"
  /\ open = FALSE
  /\ isAlive = FALSE
  /\ imageRuns = FALSE
  /\ input = 0
  /\ ctrlQ = <<>>
  /\ videoQ = <<>>
  /\ tmp = [b \in Buffers |-> [u \in UnitSet |-> 0]]
  /\ bufIndex = 0
  /\ takes = 0
  /\ tcPc = "idle"
  /\ unit = 0
  /\ todo = {}
  /\ current = 0
  /\ playing = {}
  /\ msgQ = [c \in Clients |-> <<>>]
  /\ sent = [c \in Clients |-> Nothing]
-----------------------------------------------------------------------------
(* The application *)

\* InputVideo: -1 when the queue is full; -2, for a frame that is too large,
\* changes nothing.  It does not ask for a running server.
InputVideo ==
  /\ input < MaxFrames
  /\ input' = input + 1
  /\ \/ Len(ctrlQ) < CtrlMax /\ ctrlQ' = Append(ctrlQ, input')
     \/ Len(ctrlQ) >= CtrlMax /\ UNCHANGED ctrlQ
  /\ UNCHANGED <<appVars, videoQ, tcVars, clientVars>>

\* Start calls Open, which fails when socket, bind or listen does, and must when
\* the server is open already and has the port; what ran before runs on.  After
\* a failure, which ends all sockets, Open succeeds and packets are sent only in
\* this model; VSFServerLife has Winsock.
Start ==
  /\ calling = "none"
  /\ calling' = "Start"
  /\ open' \in {open, TRUE}
  /\ UNCHANGED <<isAlive, imageRuns, imageVars, videoQ, tcVars, clientVars>>

\* It does not look at what Open returned, nor for an ImageThread there is.
StartReturns ==
  /\ calling = "Start"
  /\ calling' = "none"
  /\ isAlive' = TRUE
  /\ imageRuns' = TRUE
  /\ UNCHANGED <<open, imageVars, videoQ, tcVars, clientVars>>

\* Stop closes the manager: it waits for TCThread to end its round, removes
\* every client and leaves both video queues as they are.
Stop ==
  /\ calling = "none"
  /\ tcPc = "idle"
  /\ calling' = "Stop"
  /\ open' = FALSE
  /\ playing' = {}
  /\ msgQ' = [c \in Clients |-> <<>>]
  /\ UNCHANGED <<isAlive, imageRuns, imageVars, videoQ, tcVars, sent>>

\* Only then does it tell ImageThread to end.  It waits for the one created last
\* and 10 s at most, so that one may still run.
StopReturns ==
  /\ calling = "Stop"
  /\ calling' = "none"
  /\ isAlive' = FALSE
  /\ imageRuns' \in {imageRuns, FALSE}
  /\ UNCHANGED <<open, imageVars, videoQ, tcVars, clientVars>>
-----------------------------------------------------------------------------
(* ImageThread *)

\* UpdateVideo3, when a frame is due: take the oldest frame, and unless the
\* manager's queue is full (-1) or encoding fails (-2) queue it there, all under
\* a lock, so that several threads do what one would.
UpdateVideo3 ==
  /\ imageRuns
  /\ ctrlQ # <<>>
  /\ ctrlQ' = Tail(ctrlQ)
  /\ \/ Len(videoQ) < VideoMax /\ videoQ' = Append(videoQ, Head(ctrlQ))
     \/ UNCHANGED videoQ
  /\ UNCHANGED <<appVars, input, tcVars, clientVars>>

\* An ImageThread that Stop did not wait for sees that it is to end, unless the
\* next Start comes before it looks.
ImageThreadEnds ==
  /\ imageRuns /\ ~isAlive
  /\ imageRuns' = FALSE
  /\ UNCHANGED <<calling, open, isAlive, imageVars, videoQ, tcVars, clientVars>>
-----------------------------------------------------------------------------
(* TCThread *)

\* Fault variant: SendVideoLoop waits for a second frame.
FrameWaits_OffByOne == Len(videoQ) > 1

\* m_pVideoQueue->GetTotal() > 0
FrameWaits == Len(videoQ) > 0

\* SendVideoLoop finds a frame: GetNext begins to copy it.
GetNextBegin ==
  /\ open
  /\ tcPc = "idle"
  /\ FrameWaits
  /\ tcPc' = "copy"
  /\ unit' = 0
  /\ UNCHANGED <<appVars, imageVars, videoQ, tmp, bufIndex, takes,
                 todo, current, clientVars>>

GetNextCopy ==
  /\ tcPc = "copy"
  /\ unit < Units
  /\ tmp' = [tmp EXCEPT ![bufIndex][unit] = Head(videoQ)]
  /\ unit' = unit + 1
  /\ UNCHANGED <<appVars, imageVars, videoQ, bufIndex, takes, tcPc,
                 todo, current, clientVars>>

\* Fault variant: GetNext returns the packet and leaves it in the queue.
Rest_Same(q) == q

\* The queue without the packet that GetNext returns.
Rest(q) == Tail(q)

\* Fault variant: one buffer instead of two.
OtherBuffer_Same(b) == b

OtherBuffer(b) == 1 - b

\* GetNext returns a pointer to the buffer and the buffers change places; the
\* frame is split and the first unit is offered to the clients.
GetNextReturns ==
  /\ tcPc = "copy"
  /\ unit = Units
  /\ current' = Head(videoQ)
  /\ videoQ' = Rest(videoQ)
  /\ bufIndex' = OtherBuffer(bufIndex)
  /\ takes' = takes + 1
  /\ tcPc' = "share"
  /\ unit' = 0
  /\ todo' = Clients
  /\ UNCHANGED <<appVars, imageVars, tmp, clientVars>>

\* Fault variant: one packet too many is let in.
HasRoom_OffByOne(c) == Len(msgQ[c]) <= MsgMax

HasRoom(c) == Len(msgQ[c]) < MsgMax

\* AddVideoPacket for a client in PLAY: -1, and a log line, when full.
AddVideoPacket(c) ==
  /\ tcPc = "share"
  /\ c \in todo
  /\ todo' = todo \ {c}
  /\ \/ /\ c \in playing
        /\ HasRoom(c)
        /\ msgQ' = [msgQ EXCEPT ![c] =
             Append(@, [frame |-> current, unit |-> unit,
                        buf |-> 1 - bufIndex, take |-> takes])]
     \/ /\ c \notin playing \/ ~HasRoom(c)
        /\ UNCHANGED msgQ
  /\ UNCHANGED <<appVars, imageVars, videoQ, tmp, bufIndex, takes, tcPc,
                 unit, current, playing, sent>>

\* Every client has been offered the unit: the next one, or the end of the round.
NextUnit ==
  /\ tcPc = "share"
  /\ todo = {}
  /\ \/ /\ unit + 1 < Units
        /\ unit' = unit + 1
        /\ todo' = Clients
        /\ UNCHANGED tcPc
     \/ /\ unit + 1 = Units
        /\ tcPc' = "idle"
        /\ UNCHANGED <<unit, todo>>
  /\ UNCHANGED <<appVars, imageVars, videoQ, tmp, bufIndex, takes, current,
                 clientVars>>
-----------------------------------------------------------------------------
(* The Server object of client c *)

\* RecvThread: the client's PLAY and STOP arrive whenever they like.
Play(c) ==
  /\ open
  /\ c \notin playing
  /\ playing' = playing \union {c}
  /\ UNCHANGED <<appVars, imageVars, videoQ, tcVars, msgQ, sent>>

StopPlaying(c) ==
  /\ c \in playing
  /\ playing' = playing \ {c}
  /\ UNCHANGED <<appVars, imageVars, videoQ, tcVars, msgQ, sent>>

\* GetNext calls of the video queue that have begun to overwrite a buffer.
Begun == IF tcPc = "copy" THEN takes + 1 ELSE takes

\* SendMsgThread: take the packet, read the unit's bytes through the pointer,
\* and send them, or give up after 200 attempts.
SendPacket(c) ==
  /\ msgQ[c] # <<>>
  /\ msgQ' = [msgQ EXCEPT ![c] = Tail(@)]
  /\ LET item == Head(msgQ[c]) IN
       \/ sent' = [sent EXCEPT ![c] =
            [frame |-> item.frame, unit |-> item.unit,
             content |-> tmp[item.buf][item.unit]]]
       \/ UNCHANGED sent
  /\ UNCHANGED <<appVars, imageVars, videoQ, tcVars, playing>>
-----------------------------------------------------------------------------
TCThread ==
  \/ GetNextBegin \/ GetNextCopy \/ GetNextReturns
  \/ NextUnit
  \/ \E c \in Clients : AddVideoPacket(c)

Application == InputVideo \/ Start \/ StartReturns \/ Stop \/ StopReturns

Next ==
  \/ Application
  \/ UpdateVideo3 \/ ImageThreadEnds
  \/ TCThread
  \/ \E c \in Clients : Play(c) \/ StopPlaying(c) \/ SendPacket(c)

Spec == Init /\ [][Next]_vars

\* ImageThread and TCThread run whenever they have work, and a call of Start
\* returns.  Nothing is asked of the application otherwise, nor of the senders.
\* For ImageThread this takes for granted that the waiting frame becomes due,
\* which is the subject of VSFPacing: at a rate of 0, or after the clock has
\* wrapped, that may take weeks.
Fairness ==
  /\ WF_vars(StartReturns)
  /\ WF_vars(UpdateVideo3)
  /\ WF_vars(TCThread)

FairSpec == Spec /\ Fairness
-----------------------------------------------------------------------------
AppTypeOK ==
  /\ {open, isAlive, imageRuns} \subseteq BOOLEAN
  /\ calling \in {"none", "Start", "Stop"}
  /\ input \in Nat

QueueTypeOK ==
  /\ ctrlQ \in Seq(Nat) /\ Len(ctrlQ) <= CtrlMax
  /\ videoQ \in Seq(Nat) /\ Len(videoQ) <= VideoMax

TCTypeOK ==
  /\ tmp \in [Buffers -> [UnitSet -> Nat]]
  /\ bufIndex \in Buffers
  /\ takes \in Nat
  /\ tcPc \in {"idle", "copy", "share"}
  /\ unit \in 0 .. Units
  /\ todo \subseteq Clients
  /\ current \in Nat

ClientTypeOK ==
  /\ playing \subseteq Clients
  /\ msgQ \in [Clients -> Seq(MsgItem)]
  /\ \A c \in Clients : Len(msgQ[c]) <= MsgMax
  /\ sent \in [Clients -> [frame : Nat, unit : UnitSet, content : Nat]]

TypeOK == AppTypeOK /\ QueueTypeOK /\ TCTypeOK /\ ClientTypeOK

\* The two buffers give a packet the time of one frame: until the second
\* GetNext after its own begins, the bytes its pointer leads to are the bytes
\* of its frame, whatever the other clients and threads do.
PointersGood ==
  \A c \in Clients : \A i \in 1 .. Len(msgQ[c]) :
    LET item == msgQ[c][i] IN
      Begun < item.take + 2 => tmp[item.buf][item.unit] = item.frame

\* p goes before q: an earlier frame, or an earlier unit of the same frame.
Before(p, q) ==
  \/ p.frame < q.frame
  \/ p.frame = q.frame /\ p.unit < q.unit

\* Where the packets that client c is still to get begin.
UpTo(c) ==
  [frame |-> current,
   unit  |-> IF tcPc = "share" THEN IF c \in todo THEN unit ELSE unit + 1
             ELSE Units]

\* The packet sent last to client c, the packets queued for it and those it is
\* still to get.
ClientInOrder(c) ==
  /\ \A i, j \in 1 .. Len(msgQ[c]) : i < j => Before(msgQ[c][i], msgQ[c][j])
  /\ \A i \in 1 .. Len(msgQ[c]) : Before(msgQ[c][i], UpTo(c))
  /\ sent[c] # Nothing =>
       /\ \A i \in 1 .. Len(msgQ[c]) : Before(sent[c], msgQ[c][i])
       /\ Before(sent[c], UpTo(c))

\* The frames of sequence s are in order, and bound is the newest there is.
FramesInOrder(s, bound) ==
  /\ \A i, j \in 1 .. Len(s) : i < j => s[i] < s[j]
  /\ \A i \in 1 .. Len(s) : s[i] <= bound

\* From the socket of a client back to the application everything is in order
\* and nothing is there twice: the packet sent last, the packets queued, the
\* frame being shared out, the frames encoded and the frames handed in.  Drops
\* at four places, Play and Stop in the middle of a frame, and stops and starts
\* of the server, which leave frames in the video queues, leave it so.
InOrder ==
  /\ \A c \in Clients : ClientInOrder(c)
  /\ FramesInOrder(<<current>> \o videoQ \o ctrlQ, input)

\* No frame handed in waits for ever: with the frames there are (MaxFrames), both
\* queues run empty and the last frame is shared out, unless the application
\* stops the server.
LeavesQueues == []<>(~open \/ (ctrlQ = <<>> /\ videoQ = <<>> /\ tcPc = "idle"))

\* What is sent under a packet's number is a unit of that packet's frame.
\* libJpeg::Test, the repository's round trip, puts the units of one encoded
\* frame together, each with its own bytes, and stores them as that picture.
SentIsItsFrame == \A c \in Clients : sent[c].content = sent[c].frame
=============================================================================
