----------------------------- MODULE VSFStream -----------------------------
(***************************************************************************)
(* From the bytes of a TCP connection to packets again: Receive puts what  *)
(* recv() returns, a chunk cut anywhere, into a queue, and ProcessRecvData *)
(* feeds chunk after chunk to a PacketParser.  Server and Client do this   *)
(* in the same way.                                                        *)
(*                                                                         *)
(* A packet is a sequence of cells.  Cell 1 is the first part of the mark  *)
(* "<NP" and cell 2 the rest of it; cell 3 is type, command and length;    *)
(* the last cell is the mark "NP>"; between them is the data.  The length  *)
(* PacketMaker writes is that of the whole packet.  Data does not contain  *)
(* a mark.                                                                 *)
(***************************************************************************)
EXTENDS Integers, SequencesExt

CONSTANTS
  Lengths,   \* the number of cells of each packet sent
  MaxChunk,  \* the most cells recv() returns at once
  QueueMax   \* capacity of m_pQBuffer, in chunks (5 and 400)

ASSUME StreamAssumption ==
  /\ Lengths \in Seq(Nat \ 0 .. 3)
  /\ MaxChunk \in Nat \ {0}
  /\ QueueMax \in Nat \ {0}

VARIABLES
  at,        \* cells of the stream received so far
  queue,     \* m_pQBuffer
  buffer,    \* m_pTmpBuffer, m_iTmpBufLen
  parsing,   \* ProcessRecvData is in its loop over Parse
  out,       \* history: the packets passed to the handlers, as cells
  dropped,   \* history: a chunk found the queue full
  cut        \* history: a chunk ended inside the first three cells of a packet

streamVars == <<at, queue, buffer, parsing, out, dropped, cut>>

Packets == 1 .. Len(Lengths)

Cell == [packet : Packets, pos : Nat]

\* PacketMaker: packet p.
Make(p) == [i \in 1 .. Lengths[p] |-> [packet |-> p, pos |-> i]]

Stream == FlattenSeq([p \in Packets |-> Make(p)])

StreamInit ==
  /\ at = 0
  /\ queue = <<>>
  /\ buffer = <<>>
  /\ parsing = FALSE
  /\ out = <<>>
  /\ dropped = FALSE
  /\ cut = FALSE

IsFull == Len(queue) >= QueueMax

\* Receive: a chunk of n cells, dropped when the queue is full.
Receive(n) ==
  /\ at + n <= Len(Stream)
  /\ at' = at + n
  /\ \/ /\ ~IsFull
        /\ queue' = Append(queue, SubSeq(Stream, at + 1, at'))
        /\ UNCHANGED dropped
     \/ /\ IsFull
        /\ dropped' = TRUE
        /\ UNCHANGED queue
  /\ cut' = (cut \/ Stream[at'].pos <= 2)
  /\ UNCHANGED <<buffer, parsing, out>>

\* Fault variant: Input starts the buffer anew.
Input_Anew(chunk) == buffer' = chunk

Input(chunk) == buffer' = buffer \o chunk

ProcessRecvData ==
  /\ ~parsing
  /\ queue # <<>>
  /\ Input(Head(queue))
  /\ queue' = Tail(queue)
  /\ parsing' = TRUE
  /\ UNCHANGED <<at, out, dropped, cut>>
-----------------------------------------------------------------------------
(* Parse *)

CheckPacketHeader(b) == Len(b) >= 2 /\ b[1].pos = 1 /\ b[2].pos = 2

CheckPacketTailer(b, n) == b[n].pos = Lengths[b[n].packet]

\* Where a header begins in b.
Headers(b) == {i \in 1 .. Len(b) : CheckPacketHeader(SubSeq(b, i, Len(b)))}

\* The length field is in b, and is one.
HasLength(b) == Len(b) >= 3 /\ b[3].pos = 3

PacketLen(b) == Lengths[b[3].packet]

\* Parse fails, and the loop ends with b left in the buffer.
Fail(b) ==
  /\ buffer' = b
  /\ parsing' = FALSE
  /\ UNCHANGED out

\* Fault variant: one packet per chunk.
Accept_Once(n) ==
  /\ out' = Append(out, SubSeq(buffer, 1, n))
  /\ buffer' = SubSeq(buffer, n + 1, Len(buffer))
  /\ parsing' = FALSE

\* The first n cells are a packet, and the loop goes on behind them.
Accept(n) ==
  /\ out' = Append(out, SubSeq(buffer, 1, n))
  /\ buffer' = SubSeq(buffer, n + 1, Len(buffer))
  /\ UNCHANGED parsing

\* Fault variant: Parse reports success when there is nothing.
ParseNothing_Succeeds ==
  /\ buffer = <<>>
  /\ UNCHANGED <<buffer, parsing, out>>

ParseNothing ==
  /\ buffer = <<>>
  /\ Fail(<<>>)

\* No header: everything before the next one is skipped, or everything.  The
\* loop ends in either case.
ParseNoHeader ==
  /\ buffer # <<>>
  /\ ~CheckPacketHeader(buffer)
  /\ \/ /\ Headers(buffer) = {}
        /\ Fail(<<>>)
     \/ \E h \in Headers(buffer) :
          /\ \A i \in Headers(buffer) : h <= i
          /\ Fail(SubSeq(buffer, h, Len(buffer)))

ParseIncomplete ==
  /\ CheckPacketHeader(buffer)
  /\ HasLength(buffer)
  /\ Len(buffer) < PacketLen(buffer)
  /\ Fail(buffer)

\* Fault variant: a packet is taken as it is, complete or not.
ParsePacket_Eager ==
  /\ CheckPacketHeader(buffer)
  /\ HasLength(buffer)
  /\ Accept(IF Len(buffer) < PacketLen(buffer) THEN Len(buffer) ELSE PacketLen(buffer))

\* Parse2.  The closing mark is looked for where the data ends by its own
\* length fields; in a packet that is not whole these may be any bytes.
ParsePacket ==
  /\ CheckPacketHeader(buffer)
  /\ HasLength(buffer)
  /\ LET n == PacketLen(buffer) IN
       /\ Len(buffer) >= n
       /\ \/ CheckPacketTailer(buffer, n) /\ Accept(n)
          \/ /\ SubSeq(buffer, 1, n) # Make(buffer[3].packet)
             /\ Fail(<<>>)

\* The length is read although it has not arrived, or where other bytes are:
\* any value, which waits for more, finds no closing mark, or finds one.
ParseNoLength ==
  /\ CheckPacketHeader(buffer)
  /\ ~HasLength(buffer)
  /\ \/ Fail(buffer)
     \/ Fail(<<>>)
     \/ \E n \in 4 .. Len(buffer) : CheckPacketTailer(buffer, n) /\ Accept(n)

Parse ==
  /\ parsing
  /\ \/ ParseNothing \/ ParseNoHeader \/ ParseNoLength
     \/ ParseIncomplete \/ ParsePacket
  /\ UNCHANGED <<at, queue, dropped, cut>>

StreamThread == ProcessRecvData \/ Parse

StreamNext == StreamThread \/ \E n \in 1 .. MaxChunk : Receive(n)

StreamSpec == StreamInit /\ [][StreamNext]_streamVars /\ WF_streamVars(StreamThread)
-----------------------------------------------------------------------------
StreamTypeOK ==
  /\ at \in 0 .. Len(Stream)
  /\ queue \in Seq(Seq(Cell)) /\ Len(queue) <= QueueMax
  /\ buffer \in Seq(Cell)
  /\ parsing \in BOOLEAN
  /\ out \in Seq(Seq(Cell))
  /\ dropped \in BOOLEAN
  /\ cut \in BOOLEAN

\* What the handlers get are cells of the stream in their order, none twice;
\* and unless the queue dropped a chunk it is packets as they were sent, whole
\* and unmixed.  Packets lost to a cut header do not spoil the ones behind.
HandledAreSent ==
  /\ LET cells == FlattenSeq(out) IN
       \A i \in 1 .. Len(cells) - 1 :
         \/ cells[i].packet < cells[i + 1].packet
         \/ /\ cells[i].packet = cells[i + 1].packet
            /\ cells[i].pos < cells[i + 1].pos
  /\ ~dropped => \A i \in 1 .. Len(out) : out[i] = Make(out[i][1].packet)

\* All that was received and not cut in a header is handled or still waits:
\* nothing is lost between the socket and the handlers.
NothingLost ==
  ~dropped /\ ~cut =>
    FlattenSeq(out) \o buffer \o FlattenSeq(queue) = SubSeq(Stream, 1, at)

\* And what is complete does not wait: once the thread has worked its queue
\* off, every packet that has arrived in full has been handled.
HandledAtOnce ==
  ~dropped /\ ~cut /\ ~parsing /\ queue = <<>> =>
    \/ buffer = <<>>
    \/ ~HasLength(buffer)
    \/ Len(buffer) < PacketLen(buffer)

\* In the end every packet sent has reached its handler, unless a chunk was
\* dropped or cut in a header.
AllHandled == (at = Len(Stream)) ~> (dropped \/ cut \/ Len(out) = Len(Lengths))
=============================================================================
