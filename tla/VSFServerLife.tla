--------------------------- MODULE VSFServerLife ---------------------------
(***************************************************************************)
(* The life of the server's sessions (ServerManager): connections are      *)
(* accepted, told apart by their socket handle, and closed by messages to  *)
(* the window thread; TCThread walks the list of sessions meanwhile, with  *)
(* no lock; Stop removes all of them and Start opens the server again.     *)
(*                                                                         *)
(* A connection and the Server object made for it have the same number.    *)
(* What a session says to its client is in VSFSession; here it exists, and *)
(* is used.  Stop is called in the window thread, as the dialogs do; its   *)
(* wait of 10 s for TCThread, which never blocks, is taken to be enough.   *)
(***************************************************************************)
EXTENDS Integers, FiniteSets, SequencesExt

CONSTANTS
  MaxConn,   \* bound: connections in all
  Handles,   \* handles Winsock gives out, again and again
  MaxStarts, \* bound: calls of Start
  Units      \* units of a frame

ASSUME LifeAssumption ==
  /\ MaxConn \in Nat
  /\ MaxStarts \in Nat
  /\ Units \in Nat
  /\ Handles \cap {"none"} = {}
  /\ IsFiniteSet(Handles)

Conn == 1..MaxConn

VARIABLES
  winsock,    \* WSAStartup's count is not used up
  listening,  \* m_Socket
  starts,     \* calls of Start: which of the listening sockets it is
  backlog,    \* connections waiting for accept()
  messages,   \* the window thread's queue; n, which is history, is the
              \* connection the message was sent for
  list,       \* m_SocketList
  sock,       \* Server::m_hSocket
  object,     \* the Server objects: "none", "live", "deleted"
  peer,       \* the client's end: "out", "in", "left", "told" (FD_CLOSE sent)
  stopping,   \* the window thread is in ServerManager::Close
  alive,      \* m_bIsAlive
  tc,         \* TCThread: "ended", "running", "lost" after undefined behaviour
  units,      \* units of the current frame still to be shared out
  item,       \* pCurItem in TCThread's walk, 0 between two walks
  through,    \* history: sessions listed since the walk began
  visited,    \* history: sessions the walk has come to
  torn,       \* history: the walk stood on an element that was erased
  stale       \* history: Stop left messages of its sessions in the queue

osVars   == <<winsock, backlog, messages, peer>>
listVars == <<list, sock, object>>
walkVars == <<tc, units, item, visited>>
vars == <<osVars, listening, starts, listVars, stopping, alive,
          walkVars, through, torn, stale>>

Message(e, h, n) == [event |-> e, handle |-> h, n |-> n]

Init ==
  /\ winsock = TRUE
  /\ listening = FALSE /\ starts = 0
  /\ backlog = <<>> /\ messages = <<>>
  /\ list = <<>>
  /\ sock = [n \in Conn |-> "none"]
  /\ object = [n \in Conn |-> "none"]
  /\ peer = [n \in Conn |-> "out"]
  /\ stopping = FALSE /\ alive = FALSE
  /\ tc = "ended" /\ units = 0 /\ item = 0
  /\ through = {} /\ visited = {}
  /\ torn = FALSE /\ stale = FALSE
-----------------------------------------------------------------------------
(* Winsock and the clients *)

IsWaiting(e, n) == \E i \in 1..Len(messages) : messages[i].event = e /\ messages[i].n = n

\* FD_ACCEPT is sent once until accept() is called.
PostAccept(ms) ==
  IF \E i \in 1..Len(ms) : ms[i].event = "ACCEPT" /\ ms[i].n = starts THEN ms
  ELSE Append(ms, Message("ACCEPT", "none", starts))

\* Bound: no more connections at a time than there are handles.
ClientConnects ==
  /\ winsock /\ listening
  /\ Len(backlog) + Cardinality({n \in Conn : sock[n] # "none"}) < Cardinality(Handles)
  /\ \E n \in Conn :
       /\ peer[n] = "out"
       /\ \A m \in 1..(n - 1) : peer[m] # "out"
       /\ peer' = [peer EXCEPT ![n] = "in"]
       /\ backlog' = Append(backlog, n)
       /\ messages' = PostAccept(messages)
  /\ UNCHANGED <<winsock, listening, starts, listVars, stopping, alive,
                 walkVars, through, torn, stale>>

\* FD_READ is sent once until recv() is called.
ClientSends ==
  /\ winsock
  /\ \E n \in Conn :
       /\ sock[n] # "none" /\ peer[n] = "in"
       /\ ~IsWaiting("READ", n)
       /\ messages' = Append(messages, Message("READ", sock[n], n))
  /\ UNCHANGED <<winsock, backlog, peer, listening, starts, listVars, stopping,
                 alive, walkVars, through, torn, stale>>

\* A client leaves; while it waits for accept() it may take its connection
\* along.
ClientLeaves ==
  \E n \in Conn :
    /\ peer[n] = "in"
    /\ \/ /\ peer' = [peer EXCEPT ![n] = "left"]
          /\ UNCHANGED backlog
       \/ /\ peer' = [peer EXCEPT ![n] = "told"]
          /\ \E i \in 1..Len(backlog) : backlog[i] = n /\ backlog' = RemoveAt(backlog, i)
    /\ UNCHANGED <<winsock, messages, listening, starts, listVars, stopping,
                   alive, walkVars, through, torn, stale>>

\* FD_CLOSE comes after the last data.
PostClose ==
  /\ winsock
  /\ \E n \in Conn :
       /\ sock[n] # "none" /\ peer[n] = "left"
       /\ ~IsWaiting("READ", n)
       /\ peer' = [peer EXCEPT ![n] = "told"]
       /\ messages' = Append(messages, Message("CLOSE", sock[n], n))
  /\ UNCHANGED <<winsock, backlog, listening, starts, listVars, stopping,
                 alive, walkVars, through, torn, stale>>
-----------------------------------------------------------------------------
(* The window thread *)

Handle(e) ==
  /\ ~stopping
  /\ messages # <<>>
  /\ Head(messages).event = e

\* Accept: a new session at the end of the list.  When there is nothing to
\* accept any more, WSACleanup is called, which ends all sockets.
Accept ==
  /\ Handle("ACCEPT")
  /\ \/ /\ winsock /\ listening /\ backlog # <<>>
        /\ LET n == Head(backlog) IN
             /\ list' = Append(list, n)
             /\ object' = [object EXCEPT ![n] = "live"]
             /\ \E h \in Handles \ {sock[m] : m \in Conn} :
                  sock' = [sock EXCEPT ![n] = h]
        /\ backlog' = Tail(backlog)
        /\ messages' = IF Len(backlog) > 1 THEN PostAccept(Tail(messages)) ELSE Tail(messages)
        /\ UNCHANGED winsock
     \/ /\ ~(winsock /\ listening /\ backlog # <<>>)
        /\ winsock' = FALSE
        /\ backlog' = <<>>
        /\ messages' = Tail(messages)
        /\ UNCHANGED listVars
  /\ UNCHANGED <<peer, listening, starts, stopping, alive, walkVars, through, torn, stale>>

\* ReceiveData: what arrived goes into the session's queue.
ReceiveData ==
  /\ Handle("READ")
  /\ messages' = Tail(messages)
  /\ UNCHANGED <<winsock, backlog, peer, listening, starts, listVars, stopping,
                 alive, walkVars, through, torn, stale>>

\* Fault variant: the handle is not looked at.
Found_First(h) == IF list = <<>> THEN {} ELSE {Head(list)}

\* The session a handle stands for.
Found(h) == {n \in ToSet(list) : sock[n] = h}

\* The place of a session in the list.
Place(n) == CHOOSE i \in 1..Len(list) : list[i] = n

\* Fault variant: the object is deleted with its element, as DeleteObj does.
Erase_Deletes(n) ==
  /\ object' = [object EXCEPT ![n] = "deleted"]
  /\ list' = RemoveAt(list, Place(n))

\* The element is erased; the object stays.
Erase(n) ==
  /\ list' = RemoveAt(list, Place(n))
  /\ UNCHANGED object

\* CloseClient: Server::Close and erase, for the session found.
CloseClient ==
  /\ Handle("CLOSE")
  /\ messages' = Tail(messages)
  /\ \/ /\ Found(Head(messages).handle) = {}
        /\ UNCHANGED <<listVars, through, torn>>
     \/ \E n \in Found(Head(messages).handle) :
          /\ sock' = [sock EXCEPT ![n] = "none"]
          /\ Erase(n)
          /\ through' = through \ {n}
          /\ torn' = (torn \/ item = n)
  /\ UNCHANGED <<winsock, backlog, peer, listening, starts, stopping, alive, walkVars, stale>>

\* Open: a listening socket and a new TCThread.  It fails when socket, bind or
\* listen does, and must when the server listens already, as the port is taken:
\* then m_Socket is not a listening socket any more, WSACleanup ends all sockets,
\* and a TCThread there is runs on.
Start ==
  /\ ~stopping
  /\ starts < MaxStarts
  /\ starts' = starts + 1
  /\ \/ /\ winsock /\ ~listening
        /\ listening' = TRUE
        /\ alive' = TRUE
        /\ tc' = IF tc = "lost" THEN tc ELSE "running"
        /\ UNCHANGED <<winsock, backlog>>
     \/ /\ winsock' = FALSE
        /\ listening' = FALSE
        /\ backlog' = <<>>
        /\ UNCHANGED <<alive, tc>>
  /\ UNCHANGED <<messages, peer, listVars, stopping, units, item, through,
                 visited, torn, stale>>

\* Stop asks nothing either.
Stop ==
  /\ ~stopping
  /\ stopping' = TRUE
  /\ alive' = FALSE
  /\ UNCHANGED <<osVars, listening, starts, listVars, walkVars, through, torn, stale>>

\* Fault variant: Close does not wait for TCThread.
StopReturns_AtOnce ==
  /\ stopping
  /\ stopping' = FALSE
  /\ list' = <<>>
  /\ object' = [n \in Conn |-> IF Contains(list, n) THEN "deleted" ELSE object[n]]
  /\ sock' = [n \in Conn |-> IF Contains(list, n) THEN "none" ELSE sock[n]]
  /\ listening' = FALSE
  /\ backlog' = <<>>
  /\ stale' = (stale \/ \E n \in ToSet(list) : IsWaiting("READ", n) \/ IsWaiting("CLOSE", n))
  /\ UNCHANGED <<winsock, messages, peer, starts, alive, walkVars, through, torn>>

\* Close, once TCThread has ended: RemoveAll closes and deletes each session;
\* then the listening socket goes.  Messages stay in the queue.
StopReturns ==
  /\ stopping
  /\ tc # "running"
  /\ stopping' = FALSE
  /\ list' = <<>>
  /\ object' = [n \in Conn |-> IF Contains(list, n) THEN "deleted" ELSE object[n]]
  /\ sock' = [n \in Conn |-> IF Contains(list, n) THEN "none" ELSE sock[n]]
  /\ listening' = FALSE
  /\ backlog' = <<>>
  /\ stale' = (stale \/ \E n \in ToSet(list) : IsWaiting("READ", n) \/ IsWaiting("CLOSE", n))
  /\ UNCHANGED <<winsock, messages, peer, starts, alive, walkVars, through, torn>>
-----------------------------------------------------------------------------
(* TCThread *)

\* SendVideoLoop, with a frame; that the thread is to end is seen only here.
FrameBegins ==
  /\ tc = "running" /\ units = 0 /\ item = 0
  /\ alive
  /\ list # <<>>
  /\ units' = Units
  /\ UNCHANGED <<osVars, listening, starts, listVars, stopping, alive,
                 tc, item, through, visited, torn, stale>>

\* The walk for the next unit; the list may have become empty.
WalkBegins ==
  /\ tc = "running" /\ units > 0 /\ item = 0
  /\ units' = units - 1
  /\ item' = IF list = <<>> THEN 0 ELSE Head(list)
  /\ visited' = {item'} \ {0}
  /\ through' = ToSet(list)
  /\ UNCHANGED <<osVars, listening, starts, listVars, stopping, alive, tc, torn, stale>>

\* Fault variant: the place in the list is counted, not kept.
After_Counted(n) ==
  LET i == Cardinality(visited) + 1 IN
  IF i <= Len(list) THEN list[i] ELSE 0

\* it++; 0 is end().
After(n) ==
  IF Place(n) < Len(list) THEN list[Place(n) + 1] ELSE 0

\* The item is used (GetStatus, AddVideoPacket, ResendHello), then the iterator
\* moves on.  If its element was erased, this is undefined: the walk may end,
\* go on anywhere in the list, or read what it likes.
WalkGoesOn ==
  /\ tc = "running" /\ item # 0
  /\ \/ /\ Contains(list, item)
        /\ item' = After(item)
        /\ UNCHANGED tc
     \/ /\ ~Contains(list, item)
        /\ \/ item' \in ToSet(list) \union {0} /\ UNCHANGED tc
           \/ item' = 0 /\ tc' = "lost"
  /\ visited' = visited \union ({item'} \ {0})
  /\ UNCHANGED <<osVars, listening, starts, listVars, stopping, alive,
                 units, through, torn, stale>>

ThreadEnds ==
  /\ tc = "running" /\ units = 0 /\ item = 0
  /\ ~alive
  /\ tc' = "ended"
  /\ UNCHANGED <<osVars, listening, starts, listVars, stopping, alive,
                 units, item, through, visited, torn, stale>>
-----------------------------------------------------------------------------
WindowThread == Accept \/ ReceiveData \/ CloseClient \/ StopReturns
TCThread == FrameBegins \/ WalkBegins \/ WalkGoesOn \/ ThreadEnds

Next ==
  \/ ClientConnects \/ ClientSends \/ ClientLeaves \/ PostClose
  \/ WindowThread \/ Start \/ Stop
  \/ TCThread

Spec == Init /\ [][Next]_vars

-----------------------------------------------------------------------------
\* Types; and every session in the list has a handle of its own.
TypeOK ==
  /\ {winsock, listening, stopping, alive, torn, stale} \subseteq BOOLEAN
  /\ starts \in 0..MaxStarts
  /\ backlog \in Seq(Conn) /\ list \in Seq(Conn)
  /\ messages \in Seq([event : {"ACCEPT", "READ", "CLOSE"},
                       handle : Handles \union {"none"}, n : Nat])
  /\ sock \in [Conn -> Handles \union {"none"}]
  /\ object \in [Conn -> {"none", "live", "deleted"}]
  /\ peer \in [Conn -> {"out", "in", "left", "told"}]
  /\ tc \in {"ended", "running", "lost"}
  /\ units \in 0..Units
  /\ item \in Conn \union {0}
  /\ through \subseteq Conn /\ visited \subseteq Conn
  /\ \A n \in ToSet(list) : sock[n] # "none" /\ Found(sock[n]) = {n}

\* TCThread never uses a deleted session, though it walks the list unlocked
\* while sessions leave it: CloseClient keeps the object, and RemoveAll deletes
\* only when the thread has ended.
ObjectsOutliveUse == item # 0 => object[item] = "live"

\* A session that stays in the list during a walk gets the unit, whatever comes
\* and goes around it; only erasing the very element the walk stands on breaks it.
UnitReachesAll == tc = "running" /\ item = 0 /\ ~torn => through \subseteq visited

\* A session is not closed while its client is there, although handles are
\* given out again and messages name nothing but the handle, unless a Stop left
\* messages behind (or Winsock is gone).
KeepsItsClients ==
  winsock /\ ~stale =>
    \A n \in Conn : object[n] = "live" /\ peer[n] = "in" => Contains(list, n)

\* A session whose client has left does not stay in the list for ever: unless
\* Winsock is gone, the message that will remove it is still to come, and it
\* names the session's own handle.
NoneForgotten ==
  winsock =>
    \A n \in ToSet(list) : peer[n] = "told" =>
      \E i \in 1..Len(messages) :
        messages[i].event = "CLOSE" /\ messages[i].handle = sock[n]
=============================================================================
