---------------------------- MODULE VSFClientLife ----------------------------
(***************************************************************************)
(* The life of the client's connections (testVSFClient/ClientCtrl.cpp and  *)
(* Client.cpp): the window thread makes a Client object for each press of  *)
(* Connect and deletes it on Stop and at the end of the program; between,  *)
(* two threads of the object receive and process.  Close waits for both    *)
(* threads, 10 s each, and is also called by the receiving thread itself   *)
(* when the connection is gone: it then waits for itself.                  *)
(*                                                                         *)
(* Objects are numbered in the order they are made.  What a session says   *)
(* is in VSFSession.  Time passes in ticks; what takes no time by itself   *)
(* is done before the next one.  A thread whose object was deleted has no  *)
(* steps here any more: what it does is undefined.                         *)
(***************************************************************************)
EXTENDS Integers

CONSTANTS
  MaxClients,  \* bound: presses of Connect
  Handles,     \* socket handles Winsock gives out, again and again
  SelectTime,  \* ticks in TIMEOUT (3 s)
  WaitTime,    \* ticks in the 10 s of WaitForSingleObject
  MaxTimeouts  \* timeouts of select before the receiver gives up (60)

ASSUME ClientLifeAssumption ==
  /\ MaxClients \in Nat /\ MaxTimeouts \in Nat
  /\ SelectTime \in Nat \ {0} /\ WaitTime \in Nat \ {0}
  /\ SelectTime < WaitTime
  /\ "none" \notin Handles

Clients == 1 .. MaxClients

VARIABLES
  ctrl,      \* ClientCtrl::m_pClient, 0 for none
  made,      \* Client objects made so far
  ui,        \* what the window thread is doing
  uiClient,  \* the object whose Connect or Close it is in
  uiLeft,    \* ticks until its wait times out
  winsock,   \* WSAStartup's calls less WSACleanup's
  opened,    \* Winsock: the object each open socket was made for, 0 for none
  object,    \* "none", "live" or "deleted"
  alive,     \* m_bIsAlive
  sock,      \* m_hSocket, "none" for 0
  rcv,       \* RcvThread
  rcvLeft,   \* ticks until its select or its wait times out
  timeouts,  \* m_iSelectTimeOutCount
  proc,      \* ProcessThread
  leaked,    \* history: objects another Connect replaced
  crossed    \* history: objects both threads were closing (see UIMeetsRcv)

uiVars     == <<ctrl, made, ui, uiClient, uiLeft>>
netVars    == <<winsock, opened>>
objVars    == <<object, alive, sock>>
threadVars == <<rcv, rcvLeft, timeouts, proc>>
vars == <<uiVars, netVars, objVars, threadVars, leaked, crossed>>

\* m_hSocket is 0 only after a Close: a failed socket() leaves INVALID_SOCKET.
SocketValue == Handles \union {"none", "invalid"}

Init ==
  /\ ctrl = 0 /\ made = 0 /\ ui = "idle" /\ uiClient = 0 /\ uiLeft = 0
  /\ winsock = 0
  /\ opened = [h \in Handles |-> 0]
  /\ object = [n \in Clients |-> "none"]
  /\ alive = [n \in Clients |-> FALSE]
  /\ sock = [n \in Clients |-> "none"]
  /\ rcv = [n \in Clients |-> "none"]
  /\ rcvLeft = [n \in Clients |-> 0]
  /\ timeouts = [n \in Clients |-> 0]
  /\ proc = [n \in Clients |-> "none"]
  /\ leaked = {} /\ crossed = {}
-----------------------------------------------------------------------------
(* Winsock *)

Connected(n) == sock[n] \in Handles /\ opened[sock[n]] = n

\* The last WSACleanup ends every socket of the program.
Cleanup(k) ==
  /\ winsock' = IF winsock > k THEN winsock - k ELSE 0
  /\ opened' = IF winsock > k THEN opened ELSE [h \in Handles |-> 0]

CloseSocket(n) ==
  opened' = [h \in Handles |-> IF h = sock[n] THEN 0 ELSE opened[h]]
-----------------------------------------------------------------------------
(* The window thread *)

\* A Close by the window thread and one by RcvThread overlap: RcvThread's began
\* in the same tick, so that either wait may time out first.
UIMeetsRcv(n) == rcv[n] = "joinRcv" /\ rcvLeft[n] = WaitTime

\* ClientCtrl::Connect: a new object, whatever m_pClient held, and Startup.
\* Without a socket Client::Connect returns at once.
Connect ==
  /\ ui = "idle"
  /\ made < MaxClients
  /\ LET n == made + 1 IN
       /\ made' = n
       /\ ctrl' = n
       /\ leaked' = IF ctrl # 0 THEN leaked \union {ctrl} ELSE leaked
       /\ object' = [object EXCEPT ![n] = "live"]
       /\ alive' = [alive EXCEPT ![n] = TRUE]
       /\ \/ \E h \in Handles :
               /\ opened[h] = 0
               /\ opened' = [opened EXCEPT ![h] = n]
               /\ sock' = [sock EXCEPT ![n] = h]
               /\ winsock' = winsock + 1
               /\ ui' = "connecting" /\ uiClient' = n /\ uiLeft' = SelectTime
          \/ /\ sock' = [sock EXCEPT ![n] = "invalid"]
             /\ UNCHANGED <<winsock, opened, ui, uiClient, uiLeft>>
  /\ UNCHANGED <<threadVars, crossed>>

\* The connection is made: both threads are started.
ConnectSucceeds ==
  /\ ui = "connecting" /\ Connected(uiClient)
  /\ rcv' = [rcv EXCEPT ![uiClient] = "loop"]
  /\ proc' = [proc EXCEPT ![uiClient] = "loop"]
  /\ ui' = "idle"
  /\ UNCHANGED <<ctrl, made, uiClient, uiLeft, netVars, objVars, rcvLeft,
                 timeouts, leaked, crossed>>

\* Fault variant: the socket of a failed attempt is not closed.
ConnectFails_KeepsSocket ==
  /\ ui = "connecting"
  /\ ui' = "idle"
  /\ UNCHANGED <<ctrl, made, uiClient, uiLeft, winsock, opened, objVars, threadVars,
                 leaked, crossed>>

\* select timed out or reports an error: the socket is closed, m_hSocket keeps
\* its handle and m_bIsAlive stays true.
ConnectFails ==
  /\ ui = "connecting"
  /\ CloseSocket(uiClient)
  /\ ui' = "idle"
  /\ UNCHANGED <<ctrl, made, uiClient, uiLeft, winsock, objVars, threadVars,
                 leaked, crossed>>

\* connect() fails at once: Client::Close, which waits for thread handles that
\* were never written.
ConnectRefused ==
  /\ ui = "connecting" /\ uiLeft = SelectTime
  /\ alive' = [alive EXCEPT ![uiClient] = FALSE]
  /\ ui' = "refusedJoinRcv"
  /\ uiLeft' = WaitTime
  /\ UNCHANGED <<ctrl, made, uiClient, netVars, object, sock, threadVars,
                 leaked, crossed>>

\* Fault variant: m_pClient is cleared before the object is closed.
StopPressed_ClearsFirst ==
  /\ ui = "idle" /\ ctrl # 0
  /\ ui' = "stopJoinRcv" /\ uiClient' = ctrl /\ uiLeft' = WaitTime
  /\ ctrl' = 0
  /\ alive' = [alive EXCEPT ![ctrl] = FALSE]
  /\ crossed' = IF UIMeetsRcv(ctrl) THEN crossed \union {ctrl} ELSE crossed
  /\ UNCHANGED <<made, netVars, object, sock, threadVars, leaked>>

\* ClientCtrl::Close: Client::Close begins.
StopPressed ==
  /\ ui = "idle" /\ ctrl # 0
  /\ ui' = "stopJoinRcv" /\ uiClient' = ctrl /\ uiLeft' = WaitTime
  /\ alive' = [alive EXCEPT ![ctrl] = FALSE]
  /\ crossed' = IF UIMeetsRcv(ctrl) THEN crossed \union {ctrl} ELSE crossed
  /\ UNCHANGED <<ctrl, made, netVars, object, sock, threadVars, leaked>>

\* ~ClientCtrl at the end of the program: Cleanup closes the object unless its
\* m_hSocket is 0.
Exit ==
  /\ ui = "idle"
  /\ \/ /\ ctrl # 0 /\ sock[ctrl] # "none"
        /\ ui' = "exitJoinRcv" /\ uiClient' = ctrl /\ uiLeft' = WaitTime
        /\ alive' = [alive EXCEPT ![ctrl] = FALSE]
        /\ crossed' = IF UIMeetsRcv(ctrl) THEN crossed \union {ctrl} ELSE crossed
     \/ /\ ctrl # 0 /\ sock[ctrl] = "none"
        /\ ui' = "exitDelete" /\ uiClient' = ctrl
        /\ crossed' = IF rcv[ctrl] \in {"none", "ended"} THEN crossed
                      ELSE crossed \union {ctrl}
        /\ UNCHANGED <<uiLeft, alive>>
     \/ /\ ctrl = 0
        /\ ui' = "gone"
        /\ UNCHANGED <<uiClient, uiLeft, alive, crossed>>
  /\ UNCHANGED <<ctrl, made, netVars, object, sock, threadVars, leaked>>

\* Fault variant: INFINITE instead of 10000.
WaitReturns_Infinite(state, left) == state \in {"none", "ended"}

\* WaitForSingleObject: the thread has ended, or the time is over.  A handle
\* that was never written may stand for anything.
WaitReturns(state, left) == state \in {"none", "ended"} \/ left = 0

UIJoinsRcv ==
  /\ ui \in {"stopJoinRcv", "exitJoinRcv", "refusedJoinRcv"}
  /\ WaitReturns(rcv[uiClient], uiLeft)
  /\ ui' = CASE ui = "stopJoinRcv" -> "stopJoinProc"
             [] ui = "exitJoinRcv" -> "exitJoinProc"
             [] ui = "refusedJoinRcv" -> "refusedJoinProc"
  /\ uiLeft' = WaitTime
  /\ UNCHANGED <<ctrl, made, uiClient, netVars, objVars, threadVars, leaked, crossed>>

\* Fault variant: Close does not wait for ProcessThread.
ProcIsJoined_Unchecked(n, left) == TRUE

ProcIsJoined(n, left) == WaitReturns(proc[n], left)

\* The second wait; then Stop is sent, the socket closed, the queue reset.
UICloses ==
  /\ ui \in {"stopJoinProc", "exitJoinProc", "refusedJoinProc"}
  /\ ProcIsJoined(uiClient, uiLeft)
  /\ CloseSocket(uiClient)
  /\ sock' = [sock EXCEPT ![uiClient] = "none"]
  /\ timeouts' = [timeouts EXCEPT ![uiClient] = 0]
  /\ ui' = CASE ui = "stopJoinProc" -> "stopDelete"
             [] ui = "exitJoinProc" -> "exitDelete"
             [] ui = "refusedJoinProc" -> "idle"
  /\ uiLeft' = 0
  /\ UNCHANGED <<ctrl, made, uiClient, winsock, object, alive, rcv, rcvLeft, proc,
                 leaked, crossed>>

\* ClientCtrl::Close calls Cleanup and then the destructor, which calls it
\* again; the end of the program only the destructor.
UIDeletes ==
  /\ \/ /\ ui = "stopDelete"
        /\ Cleanup(2)
        /\ ui' = "idle"
     \/ /\ ui = "exitDelete"
        /\ Cleanup(1)
        /\ ui' = "gone"
  /\ object' = [object EXCEPT ![uiClient] = "deleted"]
  /\ ctrl' = 0
  /\ UNCHANGED <<made, uiClient, uiLeft, alive, sock, threadVars, leaked, crossed>>
-----------------------------------------------------------------------------
(* RcvThread of object n *)

Runs(n) == object[n] = "live"

\* IsAlive, and then select.
RcvLoop(n) ==
  /\ Runs(n) /\ rcv[n] = "loop"
  /\ rcv' = [rcv EXCEPT ![n] = IF alive[n] THEN "select" ELSE "ended"]
  /\ rcvLeft' = [rcvLeft EXCEPT ![n] = IF alive[n] THEN SelectTime ELSE 0]
  /\ UNCHANGED <<uiVars, netVars, objVars, timeouts, proc, leaked, crossed>>

\* Receive gets data, which go into the queue or are dropped.
RcvData(n) ==
  /\ Runs(n) /\ rcv[n] = "select" /\ Connected(n)
  /\ rcv' = [rcv EXCEPT ![n] = "loop"]
  /\ rcvLeft' = [rcvLeft EXCEPT ![n] = 0]
  /\ UNCHANGED <<uiVars, netVars, objVars, timeouts, proc, leaked, crossed>>

\* Client::Close, called by RcvThread; the first wait is for itself.
RcvBeginsClose(n) ==
  /\ rcv' = [rcv EXCEPT ![n] = "joinRcv"]
  /\ rcvLeft' = [rcvLeft EXCEPT ![n] = WaitTime]
  /\ alive' = [alive EXCEPT ![n] = FALSE]
  /\ crossed' = IF uiClient = n /\ ui \notin {"idle", "connecting", "gone"}
                THEN crossed \union {n} ELSE crossed

\* recv returns nothing or an error: the server has gone, or the socket.
RcvFails(n) ==
  /\ Runs(n) /\ rcv[n] = "select"
  /\ RcvBeginsClose(n)
  /\ UNCHANGED <<uiVars, netVars, object, sock, timeouts, proc, leaked>>

\* Three seconds without data; too many of them, and the client gives up.
RcvTimeout(n) ==
  /\ Runs(n) /\ rcv[n] = "select" /\ rcvLeft[n] = 0
  /\ timeouts' = [timeouts EXCEPT ![n] = timeouts[n] + 1]
  /\ \/ /\ timeouts[n] < MaxTimeouts
        /\ rcv' = [rcv EXCEPT ![n] = "loop"]
        /\ UNCHANGED <<rcvLeft, alive, crossed>>
     \/ /\ timeouts[n] >= MaxTimeouts
        /\ RcvBeginsClose(n)
  /\ UNCHANGED <<uiVars, netVars, object, sock, proc, leaked>>

RcvJoinsRcv(n) ==
  /\ Runs(n) /\ rcv[n] = "joinRcv"
  /\ WaitReturns(rcv[n], rcvLeft[n])
  /\ rcv' = [rcv EXCEPT ![n] = "joinProc"]
  /\ rcvLeft' = [rcvLeft EXCEPT ![n] = WaitTime]
  /\ UNCHANGED <<uiVars, netVars, objVars, timeouts, proc, leaked, crossed>>

RcvCloses(n) ==
  /\ Runs(n) /\ rcv[n] = "joinProc"
  /\ ProcIsJoined(n, rcvLeft[n])
  /\ CloseSocket(n)
  /\ sock' = [sock EXCEPT ![n] = "none"]
  /\ timeouts' = [timeouts EXCEPT ![n] = 0]
  /\ rcv' = [rcv EXCEPT ![n] = "loop"]
  /\ rcvLeft' = [rcvLeft EXCEPT ![n] = 0]
  /\ UNCHANGED <<uiVars, winsock, object, alive, proc, leaked, crossed>>
-----------------------------------------------------------------------------
(* ProcessThread of object n *)

ProcEnds(n) ==
  /\ Runs(n) /\ proc[n] = "loop" /\ ~alive[n]
  /\ proc' = [proc EXCEPT ![n] = "ended"]
  /\ UNCHANGED <<uiVars, netVars, objVars, rcv, rcvLeft, timeouts, leaked, crossed>>

\* LOGIN_RET: ResetRcvStatus.
ProcLoginRet(n) ==
  /\ Runs(n) /\ proc[n] = "loop" /\ alive[n]
  /\ timeouts' = [timeouts EXCEPT ![n] = 0]
  /\ UNCHANGED <<uiVars, netVars, objVars, rcv, rcvLeft, proc, leaked, crossed>>

\* A picture is decoded, and the callback asks m_pClient for its size.
ProcDisplays(n) ==
  /\ Runs(n) /\ proc[n] = "loop" /\ alive[n]
  /\ proc' = [proc EXCEPT ![n] = "display"]
  /\ UNCHANGED <<uiVars, netVars, objVars, rcv, rcvLeft, timeouts, leaked, crossed>>

ProcReturns(n) ==
  /\ Runs(n) /\ proc[n] = "display"
  /\ proc' = [proc EXCEPT ![n] = "loop"]
  /\ UNCHANGED <<uiVars, netVars, objVars, rcv, rcvLeft, timeouts, leaked, crossed>>
-----------------------------------------------------------------------------
(* Time *)

\* Steps that are due now.
UIIsDue ==
  \/ ui \in {"stopDelete", "exitDelete"}
  \/ ui = "connecting" /\ (uiLeft = 0 \/ ~Connected(uiClient))
  \/ ui \in {"stopJoinRcv", "exitJoinRcv"} /\ WaitReturns(rcv[uiClient], uiLeft)
  \/ ui \in {"stopJoinProc", "exitJoinProc"} /\ ProcIsJoined(uiClient, uiLeft)
  \/ ui \in {"refusedJoinRcv", "refusedJoinProc"} /\ uiLeft = 0

ThreadsAreDue(n) ==
  /\ Runs(n)
  /\ \/ proc[n] \in {"loop", "display"} /\ ~alive[n]
     \/ rcv[n] = "loop" /\ ~alive[n]
     \/ rcv[n] = "select" /\ (rcvLeft[n] = 0 \/ ~Connected(n))
     \/ rcv[n] = "joinRcv" /\ WaitReturns(rcv[n], rcvLeft[n])
     \/ rcv[n] = "joinProc" /\ ProcIsJoined(n, rcvLeft[n])

Less(left) == IF left > 0 THEN left - 1 ELSE 0

Tick ==
  /\ ~UIIsDue
  /\ \A n \in Clients : ~ThreadsAreDue(n)
  /\ uiLeft' = Less(uiLeft)
  /\ rcvLeft' = [n \in Clients |-> Less(rcvLeft[n])]
  /\ UNCHANGED <<ctrl, made, ui, uiClient, netVars, objVars, rcv, timeouts, proc,
                 leaked, crossed>>
-----------------------------------------------------------------------------
UIContinues ==
  \/ ConnectSucceeds \/ ConnectFails \/ ConnectRefused
  \/ UIJoinsRcv \/ UICloses \/ UIDeletes

RcvThread(n) ==
  \/ RcvLoop(n) \/ RcvData(n) \/ RcvFails(n) \/ RcvTimeout(n)
  \/ RcvJoinsRcv(n) \/ RcvCloses(n)

ProcessThread(n) ==
  ProcEnds(n) \/ ProcLoginRet(n) \/ ProcDisplays(n) \/ ProcReturns(n)

Next ==
  \/ Connect \/ StopPressed \/ Exit \/ UIContinues
  \/ \E n \in Clients : RcvThread(n) \/ ProcessThread(n)
  \/ Tick

Spec == Init /\ [][Next]_vars

\* Every thread goes on, and time does.  The user need not press anything.
Fairness ==
  /\ WF_vars(UIContinues)
  /\ \A n \in Clients : WF_vars(RcvThread(n)) /\ WF_vars(ProcessThread(n))
  /\ WF_vars(Tick)

FairSpec == Spec /\ Fairness
-----------------------------------------------------------------------------
TypeOK ==
  /\ ctrl \in 0 .. made /\ made \in 0 .. MaxClients /\ uiClient \in 0 .. made
  /\ ui \in {"idle", "connecting", "gone", "stopDelete", "exitDelete",
             "stopJoinRcv", "exitJoinRcv", "refusedJoinRcv",
             "stopJoinProc", "exitJoinProc", "refusedJoinProc"}
  /\ uiLeft \in 0 .. WaitTime
  /\ winsock \in 0 .. made
  /\ opened \in [Handles -> 0 .. made]
  /\ object \in [Clients -> {"none", "live", "deleted"}]
  /\ alive \in [Clients -> BOOLEAN]
  /\ sock \in [Clients -> SocketValue]
  /\ rcv \in [Clients -> {"none", "loop", "select", "joinRcv", "joinProc", "ended"}]
  /\ rcvLeft \in [Clients -> 0 .. WaitTime]
  /\ timeouts \in [Clients -> 0 .. MaxTimeouts + 1]
  /\ proc \in [Clients -> {"none", "loop", "display", "ended"}]
  /\ leaked \subseteq 1 .. made /\ crossed \subseteq 1 .. made

HasEnded(state) == state \in {"none", "ended"}

\* A Client is deleted only when both its threads have ended, although each wait
\* gives up after 10 s and RcvThread may be waiting for itself: if RcvThread was
\* there first, its own wait runs out before the window thread's does.  The one
\* exception is a connection that breaks while the object is being closed, or is
\* deleted at the end of the program.
ObjectOutlivesThreads ==
  \A n \in Clients : object[n] = "deleted" =>
    \/ HasEnded(rcv[n]) /\ HasEnded(proc[n])
    \/ n \in crossed

\* While ProcessThread displays a picture, m_pClient, which it asks for the size
\* without a lock, is its own object, unless a Connect without a Stop came in
\* between.
DisplaysOwnClient ==
  \A n \in Clients : Runs(n) /\ proc[n] = "display" => ctrl = n \/ n \in leaked

\* A socket is open only as long as there is somebody who will close it: the
\* object still has its handle, and the window thread knows the object or
\* RcvThread reads from it; connections that fail leave nothing open.
SocketsAreKept ==
  \A h \in Handles : opened[h] # 0 =>
    LET n == opened[h] IN
      /\ Runs(n) /\ sock[n] = h
      /\ ctrl = n \/ ~HasEnded(rcv[n])

\* The window never hangs: a Connect or a Stop comes to its end, and so does a
\* Close by RcvThread, although that thread waits for itself.
CloseReturns ==
  /\ (ui \notin {"idle", "gone"}) ~> (ui \in {"idle", "gone"})
  /\ \A n \in Clients :
       (rcv[n] = "joinRcv") ~> (rcv[n] = "ended" \/ object[n] = "deleted")
=============================================================================
