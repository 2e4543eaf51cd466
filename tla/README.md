# NetVSF: models and proofs

NetVSF is a video streaming server and client for Windows (C++, MFC, WinSock
window messages, Win32 threads). A program hands raw frames to the server
library with `InputVideo`; the server encodes each as JPEG, cuts it into units,
and sends the units as numbered packets over TCP to every client that has logged
in, set up and asked for PLAY. The client puts the units together again and
decodes them. The repository has no written specification: the code, its logs
and comments and the `libJpeg::Test` round trip are all there is.

This directory holds TLA+ models of that code, TLC runs over small instances of
them, and TLAPS proofs of the main properties for all sizes. Paths below are
relative to `src/NetVSF`; `VS` stands for `Plugins/VSFServer/VSFServer`, `CL`
for `app/testVSFClient/testVSFClient`. `app/testVSFServer` holds copies of the
`VS` files that are the same or slightly older.

Contents: 1 the system, 2 the modules, 3 the runs, 4 the proofs, 5 findings,
6 assumptions and what is left out, 7 plan.

## 1. The system

### Components, their state and operations

| Component | State | Operations | What must hold |
|---|---|---|---|
| **Packet queue** `Source/QBufferManagerEx`, `SQQueue` | ring of `m_iMax` units of memory, `m_iReadIndex`, `m_iWriteIndex`, `m_lFrameCount`; two temporary buffers and the index of the one filled next | `Add`, `GetNext`, `Reset`, `GetTotal`, `IsFulled` | bounded FIFO; indices and count stay in step; a pointer from `GetNext` survives one more `GetNext` |
| **Splitter** `VS/Splitter` | list of units of the last frame, running number `m_usPacketCount` | `DoSplit` | units partition the frame, last one marked, numbers consecutive modulo 2^16 |
| **Session, server side** `VS/Server`, `VS/ServerManager` | `m_iStatus`, `m_bIsPassed`, `m_dwLastHello`, message queue (400), receive queue (5), list of sessions | `Accept`, `Receive`, `Login`, `Setup`, `Play`, `Stop`, `Hello`, `ResendHello`, `AddVideoPacket`, `SendPacket`, `CloseClient` | served only after an accepted login; no video before the client can decode it; a session does not stall by itself; a client that left is removed, and nobody else; TCThread uses no deleted session |
| **Session, client side** `CL/Client`, `CL/ClientCtrl` | `m_bIsPassed`, decoder, receive queue (400), reassembly buffer, `m_lLastSN`; socket, `m_bIsAlive`, two threads, `m_pClient` | `Connect`, `DoLogin`, `SetupRet`, `RecvVideoPacket`, `Close` | a frame with a hole does not go unnoticed; no thread outlives its object; no socket is forgotten; `Close` returns |
| **Pipeline** `VS/StreamingCtrl`, `VS/ServerManager` | video queue of raw frames (4) and one size for all of them, video queue of encoded frames (8), the clients' message queues | `InputVideo`, `UpdateVideo3`, `UpdateVideo`, `SendVideoLoop`, `Start`, `Stop` | order, no repetition; bytes sent are those of the packet's frame; accepted frames move on, in time and with their size |
| **Stream parser** `VS/PacketMaker`, `VS/PacketParser` | `m_pTmpBuffer`, `m_iTmpBufLen` | `Make…`, `Input`, `Parse` | packets come out as they were sent, whatever the chunks of the TCP stream |
| **Rate control** `VS/AverageIf`, `Server::UpdateTimestamp`, `StreamingCtrl::CheckFPS` | samples, `m_fFPS`, `m_iFPS` | `Calculate`, `GetAvgFPS`, `CheckFPS` | average of the recent samples; rate in 1..30; the stream does not stand still |
| **Indexed list** `Source/SList`, `SQList` | linked list with a cursor | `Add`, `Get`, `Reset` | a read by index gives that item of the list as it is now |
| **Renderer** `VS/glRender` | picture buffer with its size, `m_bUpdate` | `UpdateTexture`, `Update` | a picture that was torn does not stay |
| Codec data, user interface, capture, OpenGL | | | not modelled, see section 6 |

### Threads and how they interact

```
 application     InputVideo ──> StreamingCtrl::m_pVideoQueue (4)
 ImageThread     UpdateVideo3, encode ──> ServerManager::m_pVideoQueue (8)
 TCThread        SendVideoLoop: GetNext, DoSplit, per unit and client AddVideoPacket
                          └──> Server::m_pMsgQueue (400), a pointer into GetNext's buffer
 SendMsgThread   SendPacket ──> send()                          one per session
 ─ ─ ─ ─ ─ ─ ─ ─ ─ ─ ─ ─ ─ ─ TCP ─ ─ ─ ─ ─ ─ ─ ─ ─ ─ ─ ─ ─ ─ ─ ─ ─ ─
 RcvThread       Client::Receive ──> Client::m_pQBuffer (400)
 ProcessThread   PacketParser, handlers, reassembly, decode, answers by send()

 window thread   Accept, FD_READ: Server::Receive ──> Server::m_pQBuffer (5), FD_CLOSE
 RecvThread      Server::ProcessRecvData: Login, Setup, Play, Stop ──> m_pMsgQueue
```

The threads share the queues and the session's fields. Almost nothing is locked:
`QBufferManagerEx` declares a critical section and never enters it, `Lock()` pins
memory only, and callers lock around `GetNext` but not around `Add`.
`m_iStatus` and `m_bIsPassed` are written by RecvThread and read by TCThread
without a lock. Threads poll (`Sleep(1)`); there are no condition variables, so no
wake-up can be missed.

### What is hard

Interleavings on an unlocked ring and on unlocked status fields; pointers that
outlive the buffer they point into; answers that are dropped when a queue or a
socket is full and are never repeated, next to a HELLO that is repeated; a list of
sessions that one thread walks while another erases from it, with messages that name
a session only by a handle which Winsock gives out again; time stamps and answers that
overlap; a clock that wraps; frames dropped at four places while clients enter and leave PLAY in the middle of one;
chunks of the byte stream cut anywhere and dropped whole; numbers that wrap; a list
that remembers where its last reader stood; a picture and a size that two threads share;
waits that give up after 10 s, one of them by a thread for itself.
`PROJECT.json` lists each hazard at its line with the properties that cover it.

## 2. The modules

| Module | Models | Actions and the code behind them |
|---|---|---|
| `BoundedFIFO` | what the callers expect of a queue (abstract) | `Add`, `GetNext`, `Reset` |
| `SQRing` | the ring's fields, which `SQQueue` and `SQQueueThreads` extend | where an index goes next, what an empty slot holds |
| `SQQueue` | one queue, one thread, a call is a step | the same calls on ring, indices, count and the two buffers |
| `SQQueueThreads` | the same ring with several producers and one consumer | every load and store of a shared field of `Add` and `GetNext` is a step |
| `VSFSplitter` | `Splitter::DoSplit` | the call and each round of its loop |
| `VSFSession` | one connection, both ends, all threads | each handler; `Login` and `Setup` in their parts, because they answer before they set the status; reading the status and adding the packet are separate steps of TCThread |
| `VSFPipeline` | a frame's way to several clients' sockets | `InputVideo` … `SendPacket`; `Start` and `Stop` in two parts each, as `Open` and `Close` come before `m_bIsAlive` and ImageThread; copying one unit of a frame is a step |
| `VSFStream` | chunks, receive queue and `PacketParser` | `Receive`, `ProcessRecvData`, each outcome of `Parse` |
| `VSFQos` | `AverageIf`, the time stamps of the session at index 0, `CheckFPS` | `ClearFlag` and `SendPacket` (the flag goes before the stamp is set, so an answer can come between them), `UpdateTimestamp`, `CheckFPS`, `SetFPS`, changes of index 0 |
| `VSFPacing` | the clock arithmetic of `UpdateVideo3` on a wrapping `DWORD` | a poll, a change of the rate, a tick |
| `VSFDistribution` | the units on their way to one client: `SendVideoLoop` with the cursor of `SQList`, `Client::RecvVideoPacket` with numbers that wrap | `SplitFrame`, `SplitUnread` (no client is listed), `GetItemInfo`, `Drop` (for everything between the loop and the client), `RecvVideoPacket`, `NewClient` |
| `VSFStreaming` | `StreamingCtrl` around that clock: the frames' size, `VideoEncoder`'s, the renderer's buffer | `InputVideo` in two parts, `TakeFrame` or `PollInVain`, `EncodeFrame`, `CopyPicture` to `EndCopy`, `StartDrawing` to `EndDrawing` |
| `VSFClientLife` | `ClientCtrl` and `Client` objects from Connect to delete | each press of a button, each wait, each turn of the two threads, with time in ticks |
| `VSFServerLife` | `ServerManager`'s list of sessions, the messages of Winsock, `Open`, which may fail, and `Close`, TCThread's walk | each message's handler; every `it++` of the walk is a step |

Variables carry the name of the field they stand for in their comment. The
`map` of `PROJECT.json` gives the lines of every definition. Definitions called
`…_OffByOne`, `…_Unchecked` and the like are fault variants: what the code would
be with a typical mistake. No specification uses them; they exist so that one can
see each property fail.

How the modules fit together. `SQQueue` implements `BoundedFIFO` (proved), so
the other modules use sequences with a capacity for queues. `SQQueueThreads`
asks what the missing locks do to that abstraction, and states under which
condition it stays valid. `VSFSplitter` shows the numbering and the marks that
`VSFSession` and `VSFPipeline` assume of units; `VSFDistribution` extends it, and implements
it (proved), with the reader at one end and the client's loss test at the other, so that
wrapping numbers, left out of the other modules, are dealt with in one place. `SQQueue`'s
`HandedLivesOnce` is the promise on which `VSFPipeline`'s `PointersGood` is
built, there with the buffers spelled out down to the single unit, as the copy
runs while other threads read. `VSFQos` says which rates there are, 0 included, and
`VSFPacing` takes any of them at any time; `VSFStreaming` extends and implements it
(proved) with the queue and the frames, and what passes then goes into
`VSFPipeline`, which takes a frame whenever there is one. `VSFServerLife` and
`VSFClientLife` are the lives of the two ends of a session, which `VSFSession` models from
the inside. `VSFStream` shows when bytes come out as the
packets that `VSFSession` sends as a whole.

## 3. The runs

| Run (config) | Distinct states | What it asks |
|---|---|---|
| `distribution` (`MCVSFDistribution`) | 10,467 | `SplitIsPartition`, `ReadsInOrder`, `LossTestIsRight`, `DecodesWholeOrLogged` |
| `session` (`MCVSFSession`) | 147,960 | `DecoderReady`, `ServedOnlyIfPassed`, `FragmentIsLogged`, `StreamsInTheEnd` with queues that all overflow and logins accepted and refused |
| `queue` (`MCSQQueue`) | 4,336 | `ImplementsFIFO`, `HandedLivesOnce` |
| `queue_threads` (`MCSQQueueThreads`) | 1,186,231 | `CountNeverNegative`, `CleanIsFIFO` |
| `pipeline` (`MCVSFPipeline`) | 906,800 | `PointersGood`, `InOrder`, `LeavesQueues` |
| `pipeline_sent` (`MCVSFPipelineSent`) | violation | `SentIsItsFrame` |
| `stream` (`MCVSFStream`) | 847,792 | `HandledAreSent`, `NothingLost`, `HandledAtOnce`, `AllHandled` |
| `qos` (`MCVSFQos`) | 165,564 | `AverageIsOfRecent`, `ZeroMeansSlow`, `MeasuredWithinTwoTrips`, `RateRecovers` |
| `qos_zero` (`MCVSFQosZero`) | violation | `RateIsOffered` |
| `streaming` (`MCVSFStreaming`) | 3,276,737 | `FrameIsTaken`, `SteadySize`, `SizeIsOfNewest`, `TornIsReplaced` |
| `server_life` (`MCVSFServerLife`) | 838,180 | `ObjectsOutliveUse`, `UnitReachesAll`, `KeepsItsClients`, `NoneForgotten` |
| `client_life` (`MCVSFClientLife`) | 30,726 | `ObjectOutlivesThreads`, `DisplaysOwnClient`, `SocketsAreKept`, `CloseReturns` |

The type invariants, which also bound the queues by their capacities, are checked in
`session`, `queue`, `queue_threads`, `pipeline` and `streaming`; those of the splitter and
of `VSFClientLife` are proved, for all sizes.

### Properties in words

* **SplitIsPartition.** The units of a frame follow one another
  from byte 0 to the last, only the last is marked and it is not empty unless the
  frame is. That the numbers run on without a gap, across frames and across the wrap, is
  proved (`NumberingHolds`).
* **ReadsInOrder.** What `GetItemInfo(i)` returns is unit i of the frame that was split
  last, although the list remembers where the last read ended and has been emptied and
  filled with another number of units since.
* **LossTestIsRight.** `abs(lCurSN - m_lLastSN) > 1` sees every gap of 1 to 2^16 - 3 packets,
  and where it reports one there is one, or the number has wrapped to 0, or the client is new.
* **DecodesWholeOrLogged.** The decoder gets a whole frame, or the client has logged a loss
  since it was called last, or the gap was one the test cannot see: almost a whole
  round of numbers, or a new client's first packet that has number 0 inside a frame. Not
  even the loss of a marked packet, which joins two frames in the buffer, goes unnoticed.
* **DecoderReady.** A video packet exists anywhere, and the server is in PLAY,
  only if the client has had the answer to its SETUP. `RecvVideoPacket` decodes
  without a check of its own, so this is what keeps it from a closed decoder. It is a
  claim about both ends, two sockets and four queues.
* **ServedOnlyIfPassed.** Outside handlers the status SETUP or PLAY implies that
  the last login was accepted.
* **FragmentIsLogged.** The decoder is called with a whole frame, put together from
  all its units, or the client has logged a loss since the call before. A client
  that turns to PLAY inside a frame does decode the rest of it
  (`VS/ServerManager.cpp:406`, the status is read per unit), but the log says so.
* **StreamsInTheEnd.** A session reaches PLAY and stays there, unless a login was
  refused, a protocol message was dropped at a full queue or socket, or the client
  left: no order of the handlers and no repeated HELLO stalls it by itself.
* **ImplementsFIFO, HandedLivesOnce.** The ring is a bounded FIFO; a buffer
  handed out is intact after one more `GetNext`.
* **CountNeverNegative, CleanIsFIFO.** On the unlocked ring the
  count can be wrong (an update gets lost) but never negative; while no two `Add`s
  and no two updates of the count overlap, packets come out whole, once and in
  order, although copies in and out overlap, and the count is right at rest.
* **PointersGood.** A queued packet's pointer leads to its own frame's bytes until
  the second `GetNext` after its own begins.
* **InOrder.** From a client's socket back to the application, the packet sent
  last, the packets queued, the frame being distributed, the encoded frames and
  the raw frames are strictly in order: no reordering and no repetition, with
  drops at four places, PLAY and STOP at any time, and Starts and Stops of the server, which
  leave frames in both video queues, in any number and order.
* **LeavesQueues.** A frame accepted by `InputVideo` leaves both video queues, and TCThread
  comes to the end of its units, unless the server is stopped; all of them do, as
  the application hands in a bounded number.
* **HandledAreSent.** Handlers see cells of the stream in their order, none twice,
  and, unless the receive queue dropped a chunk, only packets as sent: a
  packet lost to a cut header does not damage those behind it.
* **NothingLost, HandledAtOnce, AllHandled.** Without a dropped chunk or a header
  cut by a chunk's end, nothing is lost between socket and handler, and a packet
  that is complete is handled before the thread rests.
* **AverageIsOfRecent.** What `GetAverage` returns is the mean rate of the slower half
  of the last samples, whatever places the ring and the sorted copy give them.
* **MeasuredWithinTwoTrips.** The stamp a sample is measured from may belong to an
  earlier frame than the one answered. Without losses the sample is still at most
  twice the longest time a frame took.
* **ZeroMeansSlow.** The rate becomes 0 only after a sample of more than a second, not by
  an empty list, a new session, or the 0/0 that one sample gives.
* **RateRecovers.** Old slow samples leave the window: short samples that keep coming
  bring the rate back to the highest, also after `SetFPS` has lowered it.
* **FrameIsTaken.** Whatever the rate changes to, and across wraps of the sum, a queued frame
  waits at most a second and a poll, but for a rate of 0 and
  a clock that wrapped before a poll found the time reached.
* **SteadySize, SizeIsOfNewest.** One pair `m_iWidth`, `m_iHeight` serves all queued frames and
  is read twice without a lock. It is the size of the newest frame in the program, refused
  frames leave it alone, and as long as the application keeps to one size every frame is
  encoded and shown with its own.
* **TornIsReplaced.** Half of one picture and half of the next can be drawn, as nothing
  guards `m_pBuf`, but another draw follows: the flag is up, or will be when the copy ends. That
  draw may be torn in its turn, and is then followed by one more.
* **ObjectsOutliveUse.** TCThread's walk never uses a deleted session.
* **UnitReachesAll.** A session that stays listed during a walk gets the unit, although
  sessions before and behind it come and go, unless the very element the walk
  stands on was erased.
* **KeepsItsClients, NoneForgotten.** Handles are given out again and messages name
  nothing else: no session is closed while its client is there, unless a `Stop` left
  messages behind; and a session whose client has left still has the message to come that
  removes it. Both hold as long as Winsock is there.
* **ObjectOutlivesThreads.** A `Client` is deleted only when both its threads have ended,
  although each wait gives up after 10 s and RcvThread may be waiting for itself: if it was there
  first, its wait runs out first. The exceptions are counted in `crossed` (section 5).
* **DisplaysOwnClient.** While ProcessThread shows a picture, `m_pClient`, which the callback
  asks for the size without a lock, is the object of that thread, unless a Connect
  without a Stop came in between.
* **SocketsAreKept.** An open socket has an owner that has its handle and will close it,
  whichever of the connections failed, and at which point.
* **CloseReturns.** A Connect or a Stop comes to its end, and so does a `Close` by RcvThread,
  although that thread waits for itself.

### Bounds, and why they are enough

* *Distribution*: unit 2, lengths 0..5, numbers modulo 5, at most two marked units lost in
  a row (`MaxMarks`). Gives one to three units, full and short last units, the empty frame, a
  wrap inside a frame and gaps of more than a round of numbers.
* *Session*: message queue 3, receive queues 2, two packets per socket, six
  video packets in frames of 3 units, logins that are accepted or refused in any order,
  one late HELLO (`MaxLate`). A session sends at most two protocol
  messages at once, so these sizes let every queue overflow with protocol and with
  video messages; one late HELLO produces the duplicated login, and a second one only
  repeats it.
* *Queue*: a ring of 3 wraps; two packets suffice to tell order, a third does not
  fit its unit. No bound on calls: the state space is finite.
* *Queue threads*: ring of 2, two producers, one consumer, four calls of `Add`:
  the ring fills, refuses and wraps while all three are inside a call. The third
  producer of `m_pMsgQueue` adds no new pair of overlapping accesses.
* *Pipeline*: two clients, so that one can be ahead of the other, two units per
  frame, video queues of 1 and 2, message queues of two packets, so that there is an order in
  them and they overflow, three frames, so that both buffers are
  filled and the first is filled again. `Start` and `Stop` are not bounded: they are called
  at any time and in any order, so that frames of before a Stop are sent after the next Start.
* *Qos*: a window of four samples, of which two are averaged, times of 1 to 3 ticks with
  two ticks a second and a cap of two frames a second, so that computed rates at the cap, below
  it and below 1 (stored as 0) occur, and `SetFPS` sets the cap or lowers the rate to 1; two frames in
  flight. An average above the cap occurs in `qos_zero`, with three ticks a second. A session that comes to index 0 brings no sample, one slow sample or a full window
  (`Others`). `qos_zero` has a window of two.
* *Streaming*: a clock of 8 ticks, 3 a second, rates 0 to 3, a poll at least every 2
  ticks, every time to begin with: each sum can wrap. Two sizes that differ both ways, and
  two raw frames, so that a frame can be refused and one wait behind another.
* *Client life*: two objects on two handles, so that one can be leaked or run on beside
  the other and get its handle; a select of one tick, waits of three (3 s and 10 s), and a receiver that
  gives up at the second timeout of the real 61.
* *Server life*: three connections on three handles (interchangeable, `Symmetry`), so
  that a session can be erased before, at and behind the walk, and each handle can be given
  out again; three calls of `Start`, so that one may fail, or come without a `Stop`, and others
  open the server before and after; two units a frame, so that walks begin after
  `Stop` too.
* *Stream*: packets of 4, 6, 4 and 5 cells and chunks of 1 to 7 cells: a chunk can hold one
  packet and parts of its neighbours, a packet can span many chunks, and
  every cut of a header occurs. The queue takes two chunks and overflows.

`CHECK_DEADLOCK FALSE` stands where the bounded environment runs out: the
application has no more frames, the client has left, all bytes were received, no
connection is left.

### Fairness

Each thread loops as long as it lives and polls its queue every millisecond or so;
nothing blocks for ever (`send` is non-blocking and tried at most 200 times more).
This justifies weak fairness per thread, not per action: `WF(RecvThread)`, not
`WF(ServerLogin)`. Not assumed: that a user closes the client, that the
application hands in frames, calls `Start` or `Stop`, that a client asks for
PLAY, that data arrives (in `VSFStream`), that 3 s pass. A call of `Start` that has begun
returns. In `VSFPipeline` the senders need not run for `LeavesQueues`, and are not fair; the fairness of
`UpdateVideo3` takes for granted that the waiting frame becomes due, which `VSFPacing` is about: at
a rate of 0, or after the clock has wrapped, it may take weeks. In `VSFSession` TCThread is not fair, as it depends on the application's frames.
In `VSFClientLife` the two threads, what the window thread has begun and time are fair; the user
need not press anything.
In `VSFQos` only `CheckFPS` is fair, which the application's timer calls; that samples
come, and that index 0 stays, are premises of `RateRecovers`.

## 4. The proofs

TLAPS proves the following for all values of the constants, from the named
assumption of each module (capacities and unit counts are positive, bounds are
natural numbers; clients may be any set).

**`VSFSplitterProofs`**: `TypeCorrect`, `PartitionHolds`, `NumberingHolds`. The
invariant adds to the two properties where the loop stands (`LoopPosition`: the
units so far end at `curPos`, which is before the end of the data) and what the
next number is (`NumbersFollow`). Then, for `VSFDistribution`:

* `DistributionRefinesSplitter`, which brings these over.
* `ReadsInOrderHolds`: between two reads the cursor stands on the unit read last, and
  after `DoSplit` it starts again (`CursorGood`).
* `LossTestHolds`: the number pending is the last number received, plus one, plus the
  packets dropped, modulo 2^16 (`PendingFollows`), with a lemma for `%`
  (`NextIsAfter`); the test is arithmetic on that.
* `DecodesWholeOrLoggedHolds`: a buffer that is whole ends where the next unit begins, one
  that is not was logged or missed (`BufferFollows`).

**`VSFSessionProofs`**: `TypeCorrect`, with the capacities of the bounded queues;
`ServedHolds`, where the strengthening `ServedInv` says what status and `passed`
are inside each part of `Login` and `Setup`; `DecoderReadyHolds`, by the invariant
`DecoderInv`: as long as the decoder is not open there is no PLAY in any queue,
no video packet, no PLAY status and TCThread has not read one (`NoStream`).
`DecoderReady` alone is not inductive, as PLAY may still be on its way.
`FragmentIsLoggedHolds`: the video packets on their way from TCThread to the client are at
rising places of the stream of units, a queue after another (`InNumbers`, which holds
although queues drop packets). So a packet whose number follows the last one's is the next unit,
and until the client logs a gap its buffer is the run of units that ends with the last one
and begins where a frame does (`BufferInv`).

It also proves `VSFStream`, for packets and chunks of any length:

* `HandledAreSentHolds`, by `OrderInv`: what was handled, the parser's buffer and the queued chunks, one
  behind the other, are cells of the stream in order, none behind the last chunk
  received (`InOrder`); while the queue dropped none, the cells waiting are the last ones
  received, without a gap (`WaitingIsRecent`), which is why the packets cut out of them are
  those sent (`OutIsWhole`).
* `NothingLostHolds`, `HandledAtOnceHolds`, by `WholeInv`: without a drop or a cut, what was
  handled and what waits are together everything received (`AllThere`), the parser stands at the
  beginning of a packet (`AtBoundary`), each chunk goes on to the third cell of the packet that it
  ends in (`Reaches`), and where ProcessThread rests, no whole packet is left (`WorkedOff`).

What `FlattenSeq` makes of a list of chunks is defined by recursion over the list. The library's
induction theorems take the statement as an operator, which the provers do not accept; so the
lemmas on `FlattenSeq` are proved by induction in the form of a set: a set of numbers that
contains 0 and with every number the next one contains all (`SetInduction`, from the well-foundedness
of `<`). `VSFQosProofs` does the same.

**`SQQueueProofs`**: `TypeCorrect`; `RefinesFIFO`, that the ring implements
`BoundedFIFO` under the mapping `queue <- Content`. The invariant is
`IndicesAgree`: the write index is the slot `frameCount` places after the read
index. It needs lemmas on `%` (`RingPosition`, `SlotsDiffer`, `SlotShift`) and on
the content after an `Add` and a `GetNext` (`HeldAppend`, `HeldTail`).
`HandedLivesOnceHolds`: inductive with the types, as the two temporary buffers change roles
with every `GetNext`. Then `SQQueueThreads`, for any number of producers and any capacity:

* `ThreadsTypeCorrect`.
* `CountNeverNegativeHolds`. That the count is at least 0 is not inductive, as an old value
  may be stored at any time; `CountInv` says that no producer stores less than 1 and that
  the count is at least 1 while the consumer is inside a call.
* `CleanIsFIFOHolds`, by `CleanInv`. While no calls of `Add` and no updates of the count have
  overlapped, there is one producer inside a call at most (`Alone`); the count is the
  packets added and not taken, but for those whose producer or consumer is on its way to
  the count (`Counted`); this leaves a free slot to whoever is about to write (`Room`); and
  the slots between the two indices hold what was added and not taken, in order (`Ring`).

**`VSFPipelineProofs`**:

* `TypeCorrect`, with `TCShape` (a copy implies a frame in the queue).
* `PointersStayGood`. `PointersGood` does not say in which buffer a packet lies,
  so it is not inductive. `PInv` adds that the packets of the last `GetNext` lie
  in the buffer that is not filled next (`ItemGood`), that the units copied so far
  are the head's (`CopyGood`) and those shared out the current frame's
  (`ShareGood`). A copy in progress then reaches only packets two calls old.
* `OrderIsKept`. `InOrder` speaks of the concatenation of current frame and
  queues; the invariant is its parts (`Frames`: each queue sorted, every element
  above the current frame, the encoded below the raw), which lemma `Together`
  puts together. For a client, `PacketsInOrder` with the place `UpTo` where the
  packets to come begin; each action keeps the place, moves it on
  (`PacketsLater`), fills it (`PacketsAppend`) or drops the head (`PacketsTail`).

**`VSFQosProofs`**:

* `MeasuredHolds`. `StampIsRecent` says what the age of the stamp is
  bounded by: a stamp set since the last answer belongs to a frame still in flight;
  otherwise every frame in flight was sent before that answer, when the stamp was at
  most one trip old.
* `AverageIsOfRecentHolds`. The invariant `RingInv` says at which place of the ring which of the last
  samples is, while the window fills and after. The rest is about the operators of `Calculate`,
  for all samples: `Sort` returns the same samples, the longest first (`SortIs`, each round of the
  selection sort by `RoundOrders`); a sum does not depend on the order in which a fold
  takes its terms (`AnyOrder`), which `Total` takes from the first place to the last and the
  property in the order of CHOOSE (`TotalIsSum`, `FoldIsSum`, `SumMoves`).
* `ZeroMeansSlowHolds`, by `PaceInv`: as long as no sample was slow, each rate is at least 1, their sum
  at least their number, and the quotient not 0 (`FastAverage`).

**`VSFPacingProofs`**: `TypeCorrect`, `StreamsOn` (`NeverStandsStill`, of the clock alone), the
latter by the invariant that the
time since the last frame is bounded up to the last poll, plus the ticks since. For
`VSFStreaming`: `StreamingRefinesPacing`; `StreamingTypeCorrect`; `FrameIsTakenHolds`, as a frame has
waited no longer than the clock has gone on since the last time (`WaitInv`); `SizeIsOfNewestHolds`
(`NewestInv`: between the two stores of `InputVideo` the width is already the new frame's);
`SteadySizeHolds` (`SteadyInv`: all sizes in the program are the one handed in);
`TornIsReplacedHolds`.

**`VSFServerLifeProofs`**: all properties of `VSFServerLife`, for any number of connections,
handles, units and calls of Start.

* `OutliveUse`. What is listed is live (`ListedLive`), and TCThread stands in the list only while it
  runs (`OnlyWhenRunning`), which `Close` waits for before it deletes. Where the iterator goes after
  its element was erased does not matter, as long as it goes to something listed.
* `KeepsItsClientsHolds`, `NoneForgottenHolds`, by `HInv`. The sessions with a handle are those
  listed, each with one of its own (`Listed`). As long as Stop left nothing behind, every FD_CLOSE in
  the window's queue names the handle of the session it was sent for, and there is one for a session
  at most (`Told`); so the session found by the handle is the right one, and its handle can be given out
  again only when no message names it. `Remembered` says the same from the session's side, and holds
  after a Stop, too. What `RemoveAt`, `Append` and `Tail` do to a sequence without repetitions is in
  lemmas of their own (`RemoveAtDistinct`, `AppendContains`, `TailContains`).
* `UnitReachesAllHolds`, by `UInv`: the sessions listed when the walk began and not visited are at
  places after the walk's (`StandsAt`), which `RemoveAt` does not reorder.
* `TypeCorrect`.

**`VSFClientLifeProofs`**: `TypeCorrect`, `DisplaysOwnClientHolds`, `SocketsAreKeptHolds`,
`ObjectOutlivesThreadsHolds`, for any number of objects and handles and any times of which select's is
shorter than the wait's. `Ownership` says which objects there are and who knows them, `Aliveness`
what `m_bIsAlive` means to each thread, `Sockets` who holds one. The last theorem is an
argument about time (`Waits`): ProcessThread ends in the tick in which it is told to
(`ProcEndsAtOnce`); as long as the window thread waits for RcvThread, a receiver in select or in
its own wait is nearer to its end than the window thread to its own (`WaitIsLonger`); so RcvThread is
done when the second wait begins (`RcvEndedFirst`).

Every invariant that a run checks is proved, and every action property and refinement. Only
model-checked: all liveness (`StreamsInTheEnd`, `LeavesQueues`, `AllHandled`, `RateRecovers`,
`CloseReturns`), as the prover has neither fairness nor ENABLED. `VSFStream`'s type invariant is part of
`OrderInv`; that of `VSFQos` is stated and not run, what the proofs need of it is in `Types` and `RingInv`.

## 5. Findings

* `pipeline_sent`: a client that is two frames behind is sent bytes of a newer
  frame under an older packet's number and length (`VS/ServerManager.cpp:408`
  queues a pointer, `VS/Server.cpp:227` reads through it later; the queue takes 400
  packets, the buffers two frames). `PointersGood` is the exact promise that the
  two buffers do give.
  It contradicts the repository's own round trip: `libJpeg::Test` puts the units of a
  frame together, each with its own bytes (`VS/libJpeg.cpp:445`), and writes the result to a file as
  that picture (`:452`).
* `qos_zero`: answers that take more than a second set `m_iFPS` to 0
  (`VS/StreamingCtrl.cpp:319`), which is not among the rates 1 to 30 the server
  program offers (`app/testVSFServer/testVSFServer/testVSFServerDlg.cpp:136`) and by
  which `UpdateVideo3` divides (`:252`).

Seen while reading, and in the models as the exceptions their properties name: the client takes the wrap of the
numbers from 65535 to 0 for a loss (`CL/Client.cpp:348`, logged only); a chunk
that ends inside the three bytes of a packet's mark loses the packet
(`VS/PacketParser.cpp:380`, in `VSFStream` as `cut`); when `accept` fails, because the
client gave up or the server was stopped meanwhile, `WSACleanup` ends Winsock for
every session (`VS/ServerManager.cpp:221`, in `VSFServerLife` as `winsock`);
`CloseClient` erases the element TCThread's iterator may stand on (`:283`, as `torn`) and
never deletes the session (`:512` is commented out), which is also what keeps `ObjectsOutliveUse`
true; messages that `Stop` leaves in the queue can close a session of the next `Start` that
got the same handle (as `stale`); after a wrap of `timeGetTime` that no poll met in time
no frame passes for up to 49.7 days (`VS/StreamingCtrl.cpp:254`); when the application changes the size of its
frames, the encoder keeps the first size and `glRender::m_pBuf` the length of the first
picture (`VS/ServerManager.cpp:363`, `VS/glRender.cpp:133`); `NID_HELLO` is listed under `//c -> s` in
`include/NetCommon.h:32` but is sent by the server; the layout comment at
`include/NetCommon.h:82` says `data_len` where the total length is written.

The client's end has more of them (`VSFClientLife`). An object can be deleted under a thread in three
cases (`crossed`): the connection breaks while the window thread is in `Close`
(`CL/Client.cpp:235`); both call `Close` in the same tick; the program ends while RcvThread, which
has set `m_hSocket` to 0, has not ended, so that `Cleanup` does not wait for it. A second
Connect without a Stop leaks the first object, and the pictures of its thread are shown
with the size of the second (`CL/ClientCtrl.cpp:73`). A refused connection makes `Close`
wait for two thread handles that were never written. A Stop calls `WSACleanup` twice, in
`Cleanup` and again in the destructor, so that with two objects the second loses its sockets.
`m_iSelectTimeOutCount` goes back to 0 with LOGIN_RET and `Close` only, not with data.

## 6. Assumptions and what is left out

* All frames have one size in `VSFPipeline`; sizes that change are in `VSFStreaming`. What a picture
  larger than `m_pBuf` overwrites is not modelled, nor that `ServerManager` copies the size, which a
  session is told once, at `Accept`.
* A call of a queue is one step outside `SQQueueThreads`. A TCP connection is
  reliable and ordered; only full queues and full sockets lose data. A `send` that
  takes part of a packet is not modelled (the code logs it).
* The waits of 10 s in `ServerManager::Close` and `Server::Close` suffice, so no thread of the server
  runs on a session that was deleted: a sender's longest way is 200 attempts with `Sleep(1)`, a few
  seconds. The client's waits have their time in `VSFClientLife`; there a thread whose object was deleted
  has no further steps, what it does is undefined.
* In `VSFClientLife` what takes no time of its own, a thread's turn for example, is done within a tick,
  and a `send` in `Close` takes none.
* `StreamingCtrl::Start` looks neither at the result of `Open` nor for a server that runs. A second
  Start fails in both models, as all callers use one port (2019), and what ran before runs on.
  A failure calls `WSACleanup`: `VSFServerLife` has that end of Winsock, `VSFPipeline` has not, there a
  later Start may open the server again. The wait of `StreamingCtrl::Stop` is for the ImageThread created
  last and for 10 s at most; in `VSFPipeline` one may run on until it sees `m_bIsAlive`.
* `VSFSession` has one session and `VSFPipeline` a fixed set of them; the list they are
  kept in is `VSFServerLife`'s. `VSFQos` has the session at index 0 only, the one
  `CheckFPS` asks for.
* Winsock in `VSFServerLife`: `FD_ACCEPT`, `FD_READ` and `FD_CLOSE` are posted once until
  the call that enables them again, in the order of the events of a connection.
* Floats are exact in `VSFQos`; a frame is a first and a marked packet there.
* After the undefined behaviour of an erased iterator the walk ends, goes on anywhere in
  the list, or the thread is lost; what a wild write could do is not modelled.
* Packet fields are cells in `VSFStream`, and data does not contain a mark.
  What is read where no length has arrived is any value. That more than `m_pTmpBuffer` holds is
  appended to it is not modelled.
* Numbers wrap in `VSFSplitter` and `VSFDistribution`, not in `VSFSession`, `VSFPipeline` and histories.
  `VSFDistribution` has one client, and hands a unit over in the step that offers it.
* Not modelled: the conversions of the JPEG codec (data of a library; what remains is that the encoder
  opens once and may fail), windows, dialogs, OpenGL and capture (I/O), the other conditions
  of `AverageIf` and the calls of `SQList` that nobody makes,
  `FrameBufferManager`, `SmoothCtrl`, `BackwardHelper` and `ThreadBase` (shared
  sources that neither server nor client compiles), and the vendored libraries. These libraries (GLEW, GLUT,
  GLM, libjpeg) are nine tenths of the repository's lines; the models cover the product's own
  protocol, queues, threads and life cycles, which are a few thousand lines.

## 7. Plan

Done, in this order: `VSFSplitter`, `VSFSession`, `SQQueue` with `BoundedFIFO`,
`SQQueueThreads`, `VSFPipeline`, `VSFStream`, `VSFQos`, `VSFPacing`, `VSFServerLife`,
`VSFDistribution`, `VSFStreaming`, `VSFClientLife`, and the proofs of section 4.

What is left:

1. `VSFSession` over `VSFStream`'s delivery: handlers that see packets cut and joined.
2. Proofs: the steps that liveness rests on, as far as they are safety (a measure that a step
   lowers), and `BoundedFIFO` as the abstraction of `SQQueueThreads` while its calls do not overlap.
