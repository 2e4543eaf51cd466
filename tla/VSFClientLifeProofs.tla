------------------------- MODULE VSFClientLifeProofs -------------------------
(* For any number of objects and handles, and any times with a select       *)
(* shorter than a wait: types; which object the threads and the sockets      *)
(* belong to; and that an object is deleted only when its threads have ended.*)
EXTENDS VSFClientLife, TLAPS

Waiting == {"stopJoinRcv", "exitJoinRcv", "refusedJoinRcv",
            "stopJoinProc", "exitJoinProc", "refusedJoinProc"}
Deleting == {"stopDelete", "exitDelete"}
States == {"idle", "connecting", "gone"} \union Waiting \union Deleting

Busy(n) == ui \notin {"idle", "gone"} /\ uiClient = n

\* A receiver that counted MaxTimeouts + 1 timeouts is in its own Close.
TypeInv ==
  /\ TypeOK
  /\ \A n \in Clients :
       rcv[n] \notin {"joinRcv", "joinProc"} => timeouts[n] <= MaxTimeouts

\* Which objects there are, and who knows them.
Ownership ==
  /\ \A n \in Clients : object[n] = "none" <=> n > made
  /\ \A n \in Clients : object[n] = "live" => ctrl = n \/ n \in leaked
  /\ ctrl # 0 => object[ctrl] = "live"
  /\ ui \notin {"idle", "gone"} => uiClient # 0 /\ uiClient = ctrl
  /\ ui \in {"connecting", "refusedJoinRcv", "refusedJoinProc"} => rcv[uiClient] = "none"
  /\ \A n \in Clients : n > made => rcv[n] = "none"
  /\ \A n \in Clients : rcv[n] = "none" <=> proc[n] = "none"

\* What m_bIsAlive says of the threads and of Close.
Aliveness ==
  /\ \A n \in Clients : rcv[n] \in {"joinRcv", "joinProc", "ended"} => ~alive[n]
  /\ \A n \in Clients : proc[n] = "ended" => ~alive[n]
  /\ ui \in Waiting \union Deleting => ~alive[uiClient]
  /\ ui \in Deleting => sock[uiClient] = "none"
  /\ ui = "connecting" => alive[uiClient]
  /\ \A n \in Clients : object[n] = "live" /\ sock[n] = "none" => ~alive[n]
  /\ \A n \in Clients : object[n] = "live" /\ ~alive[n] =>
       rcv[n] \in {"joinRcv", "joinProc"} \/ sock[n] = "none" \/ Busy(n)

\* An open socket belongs to a running receiver or the object being handled.
Sockets ==
  \A h \in Handles : opened[h] # 0 =>
    /\ object[opened[h]] = "live" /\ sock[opened[h]] = h
    /\ ~HasEnded(rcv[opened[h]]) \/ Busy(opened[h])

\* The waits in ticks: no thread is left when the window thread's waits are
\* over.  ProcessThread ends within the tick in which it may; a receiver that
\* is in select or waits for itself is done before the window thread is.
SelectIsShort == \A n \in Clients : rcv[n] = "select" => rcvLeft[n] <= SelectTime

ProcEndsAtOnce ==
  /\ \A n \in Clients : object[n] = "live" /\ rcv[n] = "joinProc" =>
       HasEnded(proc[n]) \/ rcvLeft[n] = WaitTime
  /\ ui \in {"stopJoinProc", "exitJoinProc"} =>
       HasEnded(proc[uiClient]) \/ uiLeft = WaitTime

ProcEndedFirst ==
  \A n \in Clients : object[n] = "live" /\ sock[n] = "none" => HasEnded(proc[n])

WaitIsLonger ==
  ui \in {"stopJoinRcv", "exitJoinRcv"} /\ uiClient \notin crossed =>
    /\ rcv[uiClient] \in {"loop", "joinProc"} => uiLeft > 0
    /\ rcv[uiClient] \in {"select", "joinRcv"} => rcvLeft[uiClient] < uiLeft

RcvEndedFirst ==
  ui \in {"stopJoinProc", "exitJoinProc"} \union Deleting /\ uiClient \notin crossed =>
    HasEnded(rcv[uiClient])

Waits ==
  SelectIsShort /\ ProcEndsAtOnce /\ ProcEndedFirst /\ WaitIsLonger /\ RcvEndedFirst

LEMMA Constants ==
  /\ MaxClients \in Nat /\ MaxTimeouts \in Nat
  /\ SelectTime \in Nat \ {0} /\ WaitTime \in Nat \ {0} /\ SelectTime < WaitTime
  /\ "none" \notin Handles
BY ClientLifeAssumption
-----------------------------------------------------------------------------
LEMMA TypeInit == Init => TypeInv
BY Constants DEF Init, TypeInv, TypeOK, SocketValue, Clients

LEMMA TypeNext == TypeInv /\ Ownership /\ [Next]_vars => TypeInv'
<1>. SUFFICES ASSUME TypeInv, Ownership, [Next]_vars PROVE TypeInv' OBVIOUS
<1>. USE Constants DEF TypeInv, TypeOK, SocketValue, Clients,
         uiVars, netVars, objVars, threadVars
<1>1. CASE Connect
  <2>1. made + 1 \in Clients /\ ctrl \in Int BY <1>1 DEF Connect
  <2>2. /\ made' = made + 1 /\ ctrl' = made + 1
        /\ leaked' \subseteq leaked \union {ctrl} /\ (ctrl = 0 => leaked' = leaked)
        /\ object' = [object EXCEPT ![made + 1] = "live"]
        /\ alive' = [alive EXCEPT ![made + 1] = TRUE]
        /\ UNCHANGED <<rcv, rcvLeft, timeouts, proc, crossed>>
    BY <1>1 DEF Connect
  <2>3. leaked' \subseteq 1 .. made' /\ crossed' \subseteq 1 .. made' BY <2>2
  <2>4. object' \in [Clients -> {"none", "live", "deleted"}] /\ alive' \in [Clients -> BOOLEAN]
    BY <2>2
  <2>5. /\ ui' \in States /\ uiClient' \in 0 .. made' /\ uiLeft' \in 0 .. WaitTime
        /\ winsock' \in 0 .. made' /\ opened' \in [Handles -> 0 .. made']
        /\ sock' \in [Clients -> SocketValue]
    <3>1. CASE UNCHANGED <<winsock, opened, ui, uiClient, uiLeft>>
               /\ sock' = [sock EXCEPT ![made + 1] = "invalid"]
      BY <2>1, <2>2, <3>1 DEF States, Waiting, Deleting
    <3>2. ASSUME NEW h \in Handles,
                 opened' = [opened EXCEPT ![h] = made + 1],
                 sock' = [sock EXCEPT ![made + 1] = h],
                 winsock' = winsock + 1,
                 ui' = "connecting" /\ uiClient' = made + 1 /\ uiLeft' = SelectTime
          PROVE  <2>5!:
      BY <2>1, <2>2, <3>2 DEF States
    <3>. QED BY <1>1, <3>1, <3>2 DEF Connect
  <2>. QED BY <2>1, <2>2, <2>3, <2>4, <2>5 DEF States, Waiting, Deleting
<1>2. CASE ConnectSucceeds
  <2>1. /\ rcv' = [rcv EXCEPT ![uiClient] = "loop"] /\ proc' = [proc EXCEPT ![uiClient] = "loop"]
        /\ ui' = "idle"
        /\ UNCHANGED <<ctrl, made, uiClient, uiLeft, netVars, objVars, rcvLeft, timeouts,
                       leaked, crossed>>
    BY <1>2 DEF ConnectSucceeds
  <2>2. uiClient \in Clients => rcv[uiClient] \notin {"joinRcv", "joinProc"}
    BY <1>2 DEF ConnectSucceeds, Ownership
  <2>3. \A n \in Clients : rcv'[n] \notin {"joinRcv", "joinProc"} =>
          rcv[n] \notin {"joinRcv", "joinProc"}
    BY <2>1, <2>2
  <2>. QED BY <2>1, <2>3
<1>3. CASE ConnectFails BY <1>3 DEF ConnectFails, CloseSocket
<1>4. CASE ConnectRefused
  <2>1. alive' \in [Clients -> BOOLEAN] BY <1>4 DEF ConnectRefused
  <2>2. /\ ui' = "refusedJoinRcv" /\ uiLeft' = WaitTime
        /\ UNCHANGED <<ctrl, made, uiClient, netVars, object, sock, threadVars, leaked, crossed>>
    BY <1>4 DEF ConnectRefused
  <2>. QED BY <2>1, <2>2
<1>5. CASE StopPressed BY <1>5 DEF StopPressed
<1>6. CASE Exit
  <2>1. alive' \in [Clients -> BOOLEAN] BY <1>6 DEF Exit
  <2>2. crossed' \subseteq crossed \union {ctrl} /\ (ctrl = 0 => crossed' = crossed)
    BY <1>6 DEF Exit
  <2>3. ui' \in {"exitJoinRcv", "exitDelete", "gone"} /\ uiClient' \in {ctrl, uiClient}
        /\ uiLeft' \in {WaitTime, uiLeft}
        /\ UNCHANGED <<ctrl, made, netVars, object, sock, threadVars, leaked>>
    BY <1>6 DEF Exit
  <2>4. crossed' \subseteq 1 .. made' BY <2>2, <2>3
  <2>5. uiLeft' \in 0 .. WaitTime /\ uiClient' \in 0 .. made' BY <2>3
  <2>. QED BY <2>1, <2>3, <2>4, <2>5
<1>7. CASE UIJoinsRcv BY <1>7 DEF UIJoinsRcv
<1>8. CASE UICloses
  <2>1. /\ sock' = [sock EXCEPT ![uiClient] = "none"]
        /\ timeouts' = [timeouts EXCEPT ![uiClient] = 0]
    BY <1>8 DEF UICloses
  <2>2. sock' \in [Clients -> SocketValue] BY <2>1
  <2>3. timeouts' \in [Clients -> 0 .. MaxTimeouts + 1]
    <3>1. 0 \in 0 .. MaxTimeouts + 1 OBVIOUS
    <3>2. timeouts \in [Clients -> 0 .. MaxTimeouts + 1] OBVIOUS
    <3>. QED BY <2>1, <3>1, <3>2, Zenon
  <2>4. \A n \in Clients : timeouts'[n] <= timeouts[n] BY <2>1
  <2>5. opened' \in [Handles -> 0 .. made] BY <1>8 DEF UICloses, CloseSocket
  <2>6. /\ ui' \in {"stopDelete", "exitDelete", "idle"} /\ uiLeft' = 0
        /\ UNCHANGED <<ctrl, made, uiClient, winsock, object, alive, rcv, rcvLeft, proc,
                       leaked, crossed>>
    BY <1>8 DEF UICloses
  <2>7. TypeOK' BY <2>2, <2>3, <2>5, <2>6
  <2>8. \A n \in Clients : rcv'[n] \notin {"joinRcv", "joinProc"} => timeouts'[n] <= MaxTimeouts
    BY <2>3, <2>4, <2>6
  <2>. QED BY <2>7, <2>8
<1>9. CASE UIDeletes
  <2>1. winsock' \in 0 .. made BY <1>9 DEF UIDeletes, Cleanup
  <2>2. opened' \in [Handles -> 0 .. made] BY <1>9 DEF UIDeletes, Cleanup
  <2>3. object' \in [Clients -> {"none", "live", "deleted"}] BY <1>9 DEF UIDeletes
  <2>4. /\ ui' \in {"idle", "gone"} /\ ctrl' = 0
        /\ UNCHANGED <<made, uiClient, uiLeft, alive, sock, threadVars, leaked, crossed>>
    BY <1>9 DEF UIDeletes
  <2>. QED BY <2>1, <2>2, <2>3, <2>4
<1>10. ASSUME NEW n \in Clients, RcvThread(n) \/ ProcessThread(n) PROVE TypeInv'
  <2>1. CASE RcvLoop(n)
    <3>1. rcv' = [rcv EXCEPT ![n] = IF alive[n] THEN "select" ELSE "ended"]
          /\ rcvLeft' = [rcvLeft EXCEPT ![n] = IF alive[n] THEN SelectTime ELSE 0]
          /\ rcv[n] = "loop"
          /\ UNCHANGED <<uiVars, netVars, objVars, timeouts, proc, leaked, crossed>>
      BY <2>1 DEF RcvLoop
    <3>2. rcvLeft' \in [Clients -> 0 .. WaitTime] BY <3>1
    <3>. QED BY <3>1, <3>2
  <2>2. CASE RcvData(n) BY <2>2 DEF RcvData
  <2>3. CASE RcvFails(n) BY <2>3 DEF RcvFails, RcvBeginsClose
  <2>4. CASE RcvTimeout(n)
    <3>1. /\ rcv[n] = "select" /\ timeouts' = [timeouts EXCEPT ![n] = timeouts[n] + 1]
          /\ UNCHANGED <<uiVars, netVars, object, sock, proc, leaked>>
      BY <2>4 DEF RcvTimeout
    <3>2. timeouts[n] \in 0 .. MaxTimeouts BY <3>1
    <3>3. timeouts' \in [Clients -> 0 .. MaxTimeouts + 1] BY <3>1, <3>2
    <3>4. CASE timeouts[n] < MaxTimeouts /\ rcv' = [rcv EXCEPT ![n] = "loop"]
               /\ UNCHANGED <<rcvLeft, alive, crossed>>
      BY <3>1, <3>2, <3>3, <3>4
    <3>5. CASE RcvBeginsClose(n)
      <4>1. /\ rcv' = [rcv EXCEPT ![n] = "joinRcv"]
            /\ rcvLeft' = [rcvLeft EXCEPT ![n] = WaitTime]
            /\ alive' = [alive EXCEPT ![n] = FALSE]
            /\ crossed' \subseteq crossed \union (IF uiClient = n THEN {n} ELSE {})
        BY <3>5 DEF RcvBeginsClose
      <4>2. rcvLeft' \in [Clients -> 0 .. WaitTime] /\ alive' \in [Clients -> BOOLEAN]
        BY <4>1
      <4>3. crossed' \subseteq 1 .. made' BY <3>1, <4>1
      <4>. QED BY <3>1, <3>3, <4>1, <4>2, <4>3
    <3>. QED BY <2>4, <3>4, <3>5 DEF RcvTimeout
  <2>5. CASE RcvJoinsRcv(n) BY <2>5 DEF RcvJoinsRcv
  <2>6. CASE RcvCloses(n) BY <2>6 DEF RcvCloses, CloseSocket
  <2>7. CASE ProcEnds(n) BY <2>7 DEF ProcEnds
  <2>8. CASE ProcLoginRet(n) BY <2>8 DEF ProcLoginRet
  <2>9. CASE ProcDisplays(n) BY <2>9 DEF ProcDisplays
  <2>10. CASE ProcReturns(n) BY <2>10 DEF ProcReturns
  <2>. QED BY <1>10, <2>1, <2>2, <2>3, <2>4, <2>5, <2>6, <2>7, <2>8, <2>9, <2>10 DEF RcvThread, ProcessThread
<1>11. CASE Tick BY <1>11 DEF Tick, Less
<1>12. CASE UNCHANGED vars BY <1>12 DEF vars
<1>. QED BY <1>1, <1>2, <1>3, <1>4, <1>5, <1>6, <1>7, <1>8, <1>9, <1>10, <1>11, <1>12
    DEF Next, UIContinues
-----------------------------------------------------------------------------
LEMMA ConnectFacts ==
  ASSUME TypeInv, Ownership, Connect
  PROVE  /\ made + 1 \in Clients /\ object[made + 1] = "none" /\ rcv[made + 1] = "none"
         /\ ui = "idle" /\ made' = made + 1 /\ ctrl' = made + 1
         /\ leaked' = (IF ctrl # 0 THEN leaked \union {ctrl} ELSE leaked)
         /\ object' = [object EXCEPT ![made + 1] = "live"]
         /\ alive' = [alive EXCEPT ![made + 1] = TRUE]
         /\ UNCHANGED <<rcv, rcvLeft, timeouts, proc, crossed>>
         /\ \/ \E h \in Handles : /\ opened[h] = 0
                                 /\ opened' = [opened EXCEPT ![h] = made + 1]
                                 /\ sock' = [sock EXCEPT ![made + 1] = h]
                                 /\ ui' = "connecting" /\ uiClient' = made + 1
            \/ /\ sock' = [sock EXCEPT ![made + 1] = "invalid"]
               /\ UNCHANGED <<opened, ui, uiClient, uiLeft>>
<1>1. made \in 0 .. MaxClients /\ made < MaxClients
  BY DEF Connect, TypeInv, TypeOK
<1>2. made + 1 \in Clients /\ made + 1 > made BY <1>1, Constants DEF Clients
<1>3. object[made + 1] = "none" /\ rcv[made + 1] = "none" BY <1>2 DEF Ownership
<1>. QED BY <1>2, <1>3 DEF Connect, threadVars

LEMMA OwnershipNext == TypeInv /\ Ownership /\ [Next]_vars => Ownership'
<1>. SUFFICES ASSUME TypeInv, Ownership, [Next]_vars PROVE Ownership' OBVIOUS
<1>. USE Constants DEF TypeInv, TypeOK, Ownership, Clients, Runs, Waiting, Deleting, States,
         uiVars, netVars, objVars, threadVars
<1>1. CASE Connect
  <2>. DEFINE m == made + 1
  <2>1. /\ m \in Clients /\ object[m] = "none" /\ rcv[m] = "none" /\ ui = "idle"
        /\ made' = m /\ ctrl' = m
        /\ leaked' = (IF ctrl # 0 THEN leaked \union {ctrl} ELSE leaked)
        /\ object' = [object EXCEPT ![m] = "live"] /\ rcv' = rcv /\ proc' = proc
    BY <1>1, ConnectFacts
  <2>2. \/ ui' = "connecting" /\ uiClient' = m
        \/ ui' = ui
    BY <1>1, ConnectFacts
  <2>3. /\ object \in [Clients -> {"none", "live", "deleted"}] /\ ctrl \in Int
        /\ made \in Int /\ Clients \subseteq Int
    BY Constants DEF TypeInv, TypeOK, Clients
  <2>4. \A n \in Clients : n > made' <=> (n > made /\ n # m) BY <2>1, <2>3
  <2>5. \A n \in Clients : object'[n] = (IF n = m THEN "live" ELSE object[n]) BY <2>1, <2>3
  <2>6. \A n \in Clients : object'[n] = "none" <=> n > made'
    BY <2>4, <2>5, <2>1 DEF Ownership
  <2>7. \A n \in Clients : object'[n] = "live" => ctrl' = n \/ n \in leaked'
    BY <2>5, <2>1 DEF Ownership
  <2>8. ctrl' # 0 => object'[ctrl'] = "live" BY <2>1, <2>5
  <2>9. ui' \notin {"idle", "gone"} => uiClient' # 0 /\ uiClient' = ctrl'
    BY <2>1, <2>2, <2>3, Constants DEF Clients
  <2>10. ui' \in {"connecting", "refusedJoinRcv", "refusedJoinProc"} => rcv'[uiClient'] = "none"
    BY <2>1, <2>2
  <2>11. \A n \in Clients : n > made' => rcv'[n] = "none" BY <2>1, <2>4 DEF Ownership
  <2>12. \A n \in Clients : rcv'[n] = "none" <=> proc'[n] = "none" BY <2>1 DEF Ownership
  <2>. QED BY <2>6, <2>7, <2>8, <2>9, <2>10, <2>11, <2>12 DEF Ownership
<1>2. CASE ConnectSucceeds BY <1>2 DEF ConnectSucceeds
<1>3. CASE ConnectFails BY <1>3 DEF ConnectFails, CloseSocket
<1>4. CASE ConnectRefused BY <1>4 DEF ConnectRefused
<1>5. CASE StopPressed BY <1>5 DEF StopPressed, UIMeetsRcv
<1>6. CASE Exit BY <1>6 DEF Exit, UIMeetsRcv
<1>7. CASE UIJoinsRcv BY <1>7 DEF UIJoinsRcv
<1>8. CASE UICloses BY <1>8 DEF UICloses, CloseSocket
<1>9. CASE UIDeletes BY <1>9 DEF UIDeletes, Cleanup
<1>10. ASSUME NEW n \in Clients, RcvThread(n) \/ ProcessThread(n) PROVE Ownership'
  <2>1. CASE RcvLoop(n) BY <2>1 DEF RcvLoop
  <2>2. CASE RcvData(n) BY <2>2 DEF RcvData
  <2>3. CASE RcvFails(n) BY <2>3 DEF RcvFails, RcvBeginsClose
  <2>4. CASE RcvTimeout(n)
    <3>1. /\ rcv[n] = "select" /\ Runs(n)
          /\ UNCHANGED <<uiVars, netVars, object, sock, proc, leaked>>
      BY <2>4 DEF RcvTimeout
    <3>2. CASE rcv' = [rcv EXCEPT ![n] = "loop"] /\ UNCHANGED <<rcvLeft, alive, crossed>>
      BY <3>1, <3>2
    <3>3. CASE RcvBeginsClose(n) BY <3>1, <3>3 DEF RcvBeginsClose
    <3>. QED BY <2>4, <3>2, <3>3 DEF RcvTimeout
  <2>5. CASE RcvJoinsRcv(n) BY <2>5 DEF RcvJoinsRcv
  <2>6. CASE RcvCloses(n) BY <2>6 DEF RcvCloses, CloseSocket
  <2>7. CASE ProcEnds(n) BY <2>7 DEF ProcEnds
  <2>8. CASE ProcLoginRet(n) BY <2>8 DEF ProcLoginRet
  <2>9. CASE ProcDisplays(n) BY <2>9 DEF ProcDisplays
  <2>10. CASE ProcReturns(n) BY <2>10 DEF ProcReturns
  <2>. QED BY <1>10, <2>1, <2>2, <2>3, <2>4, <2>5, <2>6, <2>7, <2>8, <2>9, <2>10
         DEF RcvThread, ProcessThread
<1>11. CASE Tick BY <1>11 DEF Tick
<1>12. CASE UNCHANGED vars BY <1>12 DEF vars
<1>. QED BY <1>1, <1>2, <1>3, <1>4, <1>5, <1>6, <1>7, <1>8, <1>9, <1>10, <1>11, <1>12
    DEF Next, UIContinues

\* A step of an object's thread: what it has to keep of that object alone.
LEMMA ThreadStepAliveness ==
  ASSUME Aliveness, NEW n \in Clients,
         ui \notin {"idle", "gone"} => uiClient \in Clients,
         ui' = ui, uiClient' = uiClient, object' = object,
         \A k \in Clients : k # n =>
           alive'[k] = alive[k] /\ sock'[k] = sock[k] /\ rcv'[k] = rcv[k] /\ proc'[k] = proc[k],
         ~alive[n] => ~alive'[n],
         sock[n] = "none" => sock'[n] = "none",
         sock'[n] = "none" => sock[n] = "none" \/ ~alive'[n],
         rcv'[n] \in {"joinRcv", "joinProc", "ended"} => ~alive'[n],
         proc'[n] = "ended" => ~alive'[n],
         ui = "connecting" /\ uiClient = n => alive'[n] = alive[n],
         ~alive'[n] => \/ rcv'[n] \in {"joinRcv", "joinProc"} \/ sock'[n] = "none"
                       \/ ~alive[n] /\ rcv[n] \notin {"joinRcv", "joinProc"}
  PROVE  Aliveness'
<1>1. \A k \in Clients : rcv'[k] \in {"joinRcv", "joinProc", "ended"} => ~alive'[k]
  BY DEF Aliveness
<1>2. \A k \in Clients : proc'[k] = "ended" => ~alive'[k]
  BY DEF Aliveness
<1>3. \A k \in Clients : ~alive[k] => ~alive'[k]
  OBVIOUS
<1>4. \A k \in Clients : sock[k] = "none" => sock'[k] = "none"
  OBVIOUS
<1>5. ui' \in Waiting \union Deleting => ~alive'[uiClient']
  BY <1>3 DEF Aliveness, Waiting, Deleting
<1>6. ui' \in Deleting => sock'[uiClient'] = "none"
  BY <1>4 DEF Aliveness, Deleting
<1>7. ui' = "connecting" => alive'[uiClient']
  BY DEF Aliveness
<1>8. \A k \in Clients : object'[k] = "live" /\ sock'[k] = "none" => ~alive'[k]
  BY <1>3 DEF Aliveness
<1>9. \A k \in Clients : object'[k] = "live" /\ ~alive'[k] =>
        rcv'[k] \in {"joinRcv", "joinProc"} \/ sock'[k] = "none" \/ Busy(k)'
  BY <1>4 DEF Aliveness, Busy
<1>. QED BY <1>1, <1>2, <1>5, <1>6, <1>7, <1>8, <1>9 DEF Aliveness

LEMMA ThreadsKeepAliveness ==
  ASSUME TypeInv, Ownership, Aliveness, NEW n \in Clients, RcvThread(n) \/ ProcessThread(n)
  PROVE  Aliveness'
<1>1. /\ alive \in [Clients -> BOOLEAN] /\ sock \in [Clients -> SocketValue]
      /\ rcv \in [Clients -> {"none", "loop", "select", "joinRcv", "joinProc", "ended"}]
      /\ proc \in [Clients -> {"none", "loop", "display", "ended"}]
      /\ ui \notin {"idle", "gone"} => uiClient \in Clients
  BY Constants DEF TypeInv, TypeOK, Ownership, Clients
<1>2. ui = "connecting" => rcv[uiClient] = "none"
  BY DEF Ownership
<1>. USE DEF Runs, uiVars, netVars, objVars, threadVars
<1>3. CASE RcvLoop(n)
  <2>1. /\ rcv' = [rcv EXCEPT ![n] = IF alive[n] THEN "select" ELSE "ended"] /\ rcv[n] = "loop"
        /\ UNCHANGED <<ui, uiClient, object, alive, sock, proc>>
    BY <1>3 DEF RcvLoop
  <2>2. rcv'[n] = (IF alive[n] THEN "select" ELSE "ended") /\ \A k \in Clients : k # n => rcv'[k] = rcv[k]
    BY <2>1, <1>1
  <2>. QED BY <1>1, <2>1, <2>2, ThreadStepAliveness DEF Aliveness
<1>4. CASE RcvData(n)
  <2>1. /\ rcv' = [rcv EXCEPT ![n] = "loop"] /\ rcv[n] = "select"
        /\ UNCHANGED <<ui, uiClient, object, alive, sock, proc>>
    BY <1>4 DEF RcvData
  <2>2. rcv'[n] = "loop" /\ \A k \in Clients : k # n => rcv'[k] = rcv[k]
    BY <2>1, <1>1
  <2>. QED BY <1>1, <2>1, <2>2, ThreadStepAliveness DEF Aliveness
<1>5. CASE rcv[n] = "select" /\ RcvBeginsClose(n) /\ UNCHANGED <<ui, uiClient, object, sock, proc>>
  <2>1. /\ rcv' = [rcv EXCEPT ![n] = "joinRcv"] /\ alive' = [alive EXCEPT ![n] = FALSE]
        /\ UNCHANGED <<ui, uiClient, object, sock, proc>>
    BY <1>5 DEF RcvBeginsClose
  <2>2. /\ rcv'[n] = "joinRcv" /\ alive'[n] = FALSE
        /\ \A k \in Clients : k # n => rcv'[k] = rcv[k] /\ alive'[k] = alive[k]
    BY <2>1, <1>1
  <2>3. ui = "connecting" => uiClient # n
    BY <1>2, <1>5
  <2>. QED BY <1>1, <2>1, <2>2, <2>3, ThreadStepAliveness DEF Aliveness
<1>6. CASE RcvFails(n)
  <2>1. rcv[n] = "select" /\ RcvBeginsClose(n) /\ UNCHANGED <<ui, uiClient, object, sock, proc>>
    BY <1>6 DEF RcvFails
  <2>. QED BY <2>1, <1>5
<1>7. CASE RcvTimeout(n)
  <2>1. /\ rcv[n] = "select" /\ UNCHANGED <<ui, uiClient, object, sock, proc>>
        /\ \/ rcv' = [rcv EXCEPT ![n] = "loop"] /\ UNCHANGED alive
           \/ RcvBeginsClose(n)
    BY <1>7 DEF RcvTimeout
  <2>2. CASE rcv' = [rcv EXCEPT ![n] = "loop"] /\ UNCHANGED alive
    <3>1. rcv'[n] = "loop" /\ \A k \in Clients : k # n => rcv'[k] = rcv[k]
      BY <2>2, <1>1
    <3>. QED BY <1>1, <2>1, <2>2, <3>1, ThreadStepAliveness DEF Aliveness
  <2>. QED BY <2>1, <2>2, <1>5
<1>8. CASE RcvJoinsRcv(n)
  <2>1. /\ rcv' = [rcv EXCEPT ![n] = "joinProc"] /\ rcv[n] = "joinRcv"
        /\ UNCHANGED <<ui, uiClient, object, alive, sock, proc>>
    BY <1>8 DEF RcvJoinsRcv
  <2>2. rcv'[n] = "joinProc" /\ \A k \in Clients : k # n => rcv'[k] = rcv[k]
    BY <2>1, <1>1
  <2>. QED BY <1>1, <2>1, <2>2, ThreadStepAliveness DEF Aliveness
<1>9. CASE RcvCloses(n)
  <2>1. /\ rcv' = [rcv EXCEPT ![n] = "loop"] /\ sock' = [sock EXCEPT ![n] = "none"]
        /\ rcv[n] = "joinProc" /\ UNCHANGED <<ui, uiClient, object, alive, proc>>
    BY <1>9 DEF RcvCloses
  <2>2. /\ rcv'[n] = "loop" /\ sock'[n] = "none"
        /\ \A k \in Clients : k # n => rcv'[k] = rcv[k] /\ sock'[k] = sock[k]
    BY <2>1, <1>1
  <2>. QED BY <1>1, <2>1, <2>2, ThreadStepAliveness DEF Aliveness
<1>10. CASE ProcEnds(n)
  <2>1. /\ proc' = [proc EXCEPT ![n] = "ended"] /\ ~alive[n]
        /\ UNCHANGED <<ui, uiClient, object, alive, sock, rcv>>
    BY <1>10 DEF ProcEnds
  <2>2. proc'[n] = "ended" /\ \A k \in Clients : k # n => proc'[k] = proc[k]
    BY <2>1, <1>1
  <2>. QED BY <1>1, <2>1, <2>2, ThreadStepAliveness DEF Aliveness
<1>11. CASE ProcLoginRet(n) BY <1>11 DEF ProcLoginRet, Aliveness, Busy
<1>12. CASE ProcDisplays(n) \/ ProcReturns(n)
  <2>1. /\ proc' \in {[proc EXCEPT ![n] = "display"], [proc EXCEPT ![n] = "loop"]}
        /\ UNCHANGED <<ui, uiClient, object, alive, sock, rcv>>
    BY <1>12 DEF ProcDisplays, ProcReturns
  <2>2. proc'[n] # "ended" /\ \A k \in Clients : k # n => proc'[k] = proc[k]
    BY <2>1, <1>1
  <2>. QED BY <1>1, <2>1, <2>2, ThreadStepAliveness DEF Aliveness
<1>. QED BY <1>3, <1>4, <1>6, <1>7, <1>8, <1>9, <1>10, <1>11, <1>12 DEF RcvThread, ProcessThread

LEMMA AlivenessNext == TypeInv /\ Ownership /\ Aliveness /\ [Next]_vars => Aliveness'
<1>. SUFFICES ASSUME TypeInv, Ownership, Aliveness, [Next]_vars PROVE Aliveness' OBVIOUS
<1>. USE Constants DEF TypeInv, TypeOK, Ownership, Aliveness, Busy, Clients, Runs, Waiting, Deleting,
         Connected, SocketValue, uiVars, netVars, objVars, threadVars
<1>1. CASE Connect
  <2>. DEFINE m == made + 1
  <2>1. /\ m \in Clients /\ object[m] = "none" /\ rcv[m] = "none" /\ proc[m] = "none"
        /\ ui = "idle" /\ rcv' = rcv /\ proc' = proc
        /\ object' = [object EXCEPT ![m] = "live"] /\ alive' = [alive EXCEPT ![m] = TRUE]
        /\ UNCHANGED proc
    BY <1>1, ConnectFacts DEF Ownership
  <2>2. PICK v \in Handles \union {"invalid"} : sock' = [sock EXCEPT ![m] = v]
    BY <1>1, ConnectFacts
  <2>3. (ui' = "connecting" /\ uiClient' = m) \/ ui' = ui BY <1>1, ConnectFacts
  <2>4. v # "none" BY <2>2, Constants
  <2>5. \A n \in Clients :
          /\ object'[n] = (IF n = m THEN "live" ELSE object[n])
          /\ alive'[n] = (IF n = m THEN TRUE ELSE alive[n])
          /\ sock'[n] = (IF n = m THEN v ELSE sock[n])
    BY <2>1, <2>2 DEF TypeInv, TypeOK
  <2>6. \A n \in Clients : rcv'[n] \in {"joinRcv", "joinProc", "ended"} => ~alive'[n]
    BY <2>1, <2>5 DEF Aliveness
  <2>7. \A n \in Clients : proc'[n] = "ended" => ~alive'[n] BY <2>1, <2>5 DEF Aliveness
  <2>8. ui' = "connecting" => alive'[uiClient'] BY <2>1, <2>3, <2>5
  <2>9. \A n \in Clients : object'[n] = "live" /\ sock'[n] = "none" => ~alive'[n]
    BY <2>1, <2>4, <2>5 DEF Aliveness
  <2>10. \A n \in Clients : object'[n] = "live" /\ ~alive'[n] =>
           rcv'[n] \in {"joinRcv", "joinProc"} \/ sock'[n] = "none" \/ Busy(n)'
    BY <2>1, <2>5 DEF Aliveness, Busy
  <2>11. ui' \notin Waiting \union Deleting BY <2>1, <2>3 DEF Waiting, Deleting
  <2>. QED BY <2>6, <2>7, <2>8, <2>9, <2>10, <2>11 DEF Aliveness, Deleting
<1>2. CASE ConnectSucceeds BY <1>2 DEF ConnectSucceeds
<1>3. CASE ConnectFails BY <1>3 DEF ConnectFails, CloseSocket
<1>4. CASE ConnectRefused BY <1>4 DEF ConnectRefused
<1>5. CASE StopPressed BY <1>5 DEF StopPressed, UIMeetsRcv
<1>6. CASE Exit
  <2>1. /\ ui = "idle" /\ UNCHANGED <<ctrl, object, sock, rcv, proc>>
    BY <1>6 DEF Exit, objVars, threadVars
  <2>2. CASE ctrl # 0 /\ sock[ctrl] # "none"
    <3>1. /\ ui' = "exitJoinRcv" /\ uiClient' = ctrl
          /\ alive' = [alive EXCEPT ![ctrl] = FALSE] /\ ctrl \in Clients
      BY <1>6, <2>2 DEF Exit
    <3>2. \A n \in Clients : alive'[n] = (IF n = ctrl THEN FALSE ELSE alive[n])
      BY <3>1
    <3>. QED BY <2>1, <3>1, <3>2
  <2>3. CASE ctrl # 0 /\ sock[ctrl] = "none"
    <3>1. /\ ui' = "exitDelete" /\ uiClient' = ctrl /\ alive' = alive /\ ctrl \in Clients
      BY <1>6, <2>3 DEF Exit
    <3>. QED BY <2>1, <2>3, <3>1
  <2>4. CASE ctrl = 0
    <3>1. ui' = "gone" /\ uiClient' = uiClient /\ alive' = alive BY <1>6, <2>4 DEF Exit
    <3>. QED BY <2>1, <3>1
  <2>. QED BY <2>2, <2>3, <2>4
<1>7. CASE UIJoinsRcv BY <1>7 DEF UIJoinsRcv
<1>8. CASE UICloses BY <1>8 DEF UICloses, CloseSocket
<1>9. CASE UIDeletes BY <1>9 DEF UIDeletes, Cleanup
<1>10. ASSUME NEW n \in Clients, RcvThread(n) \/ ProcessThread(n) PROVE Aliveness'
  BY <1>10, ThreadsKeepAliveness
<1>11. CASE Tick BY <1>11 DEF Tick
<1>12. CASE UNCHANGED vars BY <1>12 DEF vars
<1>. QED BY <1>1, <1>2, <1>3, <1>4, <1>5, <1>6, <1>7, <1>8, <1>9, <1>10, <1>11, <1>12
    DEF Next, UIContinues

LEMMA SocketsNext == TypeInv /\ Ownership /\ Aliveness /\ Sockets /\ [Next]_vars => Sockets'
<1>. SUFFICES ASSUME TypeInv, Ownership, Aliveness, Sockets, [Next]_vars PROVE Sockets' OBVIOUS
<1>. USE Constants DEF TypeInv, TypeOK, Ownership, Aliveness, Sockets, Busy, HasEnded, Clients, Runs,
         Waiting, Deleting, Connected, uiVars, netVars, objVars, threadVars
<1>1. CASE Connect
  <2>. DEFINE m == made + 1
  <2>1. /\ m \in Clients /\ object[m] = "none" /\ rcv' = rcv /\ ui = "idle"
        /\ object' = [object EXCEPT ![m] = "live"]
    BY <1>1, ConnectFacts
  <2>2. \A h \in Handles : opened[h] # 0 =>
          /\ opened[h] \in Clients /\ opened[h] # m /\ object[opened[h]] = "live"
          /\ sock[opened[h]] = h /\ ~HasEnded(rcv[opened[h]])
    <3>1. \A h \in Handles : opened[h] # 0 => opened[h] \in Clients
      BY Constants DEF TypeInv, TypeOK, Clients
    <3>. QED BY <3>1, <2>1 DEF Sockets, Busy
  <2>3. \A n \in Clients : n # m => object'[n] = object[n] BY <2>1
  <2>4. object'[m] = "live" BY <2>1 DEF TypeInv, TypeOK
  <2>5. ASSUME NEW g \in Handles, opened[g] = 0, opened' = [opened EXCEPT ![g] = m],
               sock' = [sock EXCEPT ![m] = g], ui' = "connecting", uiClient' = m
        PROVE  Sockets'
    <3>1. ASSUME NEW h \in Handles, opened'[h] # 0
          PROVE  /\ object'[opened'[h]] = "live" /\ sock'[opened'[h]] = h
                 /\ \/ ~HasEnded(rcv'[opened'[h]])
                    \/ ui' \notin {"idle", "gone"} /\ uiClient' = opened'[h]
      <4>1. CASE h = g
        <5>1. opened'[h] = m /\ sock'[m] = h BY <2>5, <4>1, <2>1 DEF TypeInv, TypeOK
        <5>. QED BY <5>1, <2>4, <2>5 DEF Busy
      <4>2. CASE h # g
        <5>1. opened'[h] = opened[h] /\ opened[h] # 0 BY <2>5, <3>1, <4>2
        <5>2. opened[h] \in Clients /\ opened[h] # m BY <5>1, <2>2
        <5>3. sock'[opened[h]] = h BY <2>5, <5>1, <5>2, <2>2
        <5>. QED BY <2>1, <2>2, <2>3, <5>1, <5>2, <5>3
      <4>. QED BY <4>1, <4>2
    <3>. QED BY <3>1 DEF Sockets
  <2>6. ASSUME sock' = [sock EXCEPT ![m] = "invalid"], UNCHANGED <<opened, ui, uiClient>>
        PROVE  Sockets'
    <3>1. \A n \in Clients : n # m => sock'[n] = sock[n] BY <2>6
    <3>. QED BY <2>1, <2>2, <2>3, <2>6, <3>1 DEF Sockets
  <2>. QED BY <1>1, <2>5, <2>6, ConnectFacts
<1>2. CASE ConnectSucceeds BY <1>2 DEF ConnectSucceeds
<1>3. CASE ConnectFails BY <1>3 DEF ConnectFails, CloseSocket
<1>4. CASE ConnectRefused BY <1>4 DEF ConnectRefused
<1>5. CASE StopPressed BY <1>5 DEF StopPressed, UIMeetsRcv
<1>6. CASE Exit BY <1>6 DEF Exit, UIMeetsRcv
<1>7. CASE UIJoinsRcv BY <1>7 DEF UIJoinsRcv
<1>8. CASE UICloses BY <1>8 DEF UICloses, CloseSocket
<1>9. CASE UIDeletes
  <2>1. /\ ui \in {"stopDelete", "exitDelete"} /\ ui' \in {"idle", "gone"}
        /\ object' = [object EXCEPT ![uiClient] = "deleted"]
        /\ UNCHANGED <<uiClient, sock, rcv>>
        /\ opened' = opened \/ opened' = [h \in Handles |-> 0]
    BY <1>9 DEF UIDeletes, Cleanup, threadVars
  <2>2. sock[uiClient] = "none" BY <2>1 DEF Aliveness, Deleting
  <2>3. \A h \in Handles : opened[h] # 0 => opened[h] # uiClient
    BY <2>2, Constants DEF Sockets
  <2>4. \A h \in Handles : opened'[h] # 0 => opened'[h] = opened[h] BY <2>1
  <2>5. \A n \in Clients : n # uiClient => object'[n] = object[n] BY <2>1
  <2>6. \A h \in Handles : opened[h] # 0 => opened[h] \in Clients
    BY Constants DEF TypeInv, TypeOK, Clients
  <2>. QED BY <2>1, <2>3, <2>4, <2>5, <2>6 DEF Sockets, Busy
<1>10. ASSUME NEW n \in Clients, RcvThread(n) \/ ProcessThread(n) PROVE Sockets'
  <2>1. CASE RcvLoop(n)
    <3>1. /\ UNCHANGED <<ui, uiClient, opened, object, sock>> /\ rcv[n] = "loop"
          /\ object[n] = "live"
          /\ rcv' = [rcv EXCEPT ![n] = IF alive[n] THEN "select" ELSE "ended"]
      BY <2>1 DEF RcvLoop, Runs
    <3>2. \A h \in Handles : opened[h] # 0 => opened[h] \in Clients
      BY Constants DEF TypeInv, TypeOK, Clients
    <3>3. CASE alive[n]
      <4>1. \A k \in Clients : HasEnded(rcv'[k]) => HasEnded(rcv[k]) BY <3>1, <3>3
      <4>. QED BY <3>1, <3>2, <4>1
    <3>4. CASE ~alive[n]
      <4>1. sock[n] = "none" \/ Busy(n) BY <3>1, <3>4 DEF Aliveness
      <4>2. \A k \in Clients : k # n => rcv'[k] = rcv[k] BY <3>1
      <4>3. (n # 0 /\ sock[n] \notin Handles) \/ Busy(n)
        BY <4>1, Constants DEF Clients
      <4>4. ASSUME NEW h \in Handles, opened[h] = n PROVE Busy(n)
        <5>1. n # 0 BY Constants DEF Clients
        <5>2. opened[h] # 0 BY <4>4, <5>1
        <5>3. sock[n] = h BY <4>4, <5>2 DEF Sockets
        <5>. QED BY <4>3, <5>3 DEF Busy
      <4>5. ASSUME NEW h \in Handles, opened[h] # 0
            PROVE  ~HasEnded(rcv'[opened[h]]) \/ Busy(opened[h])
        <5>1. CASE opened[h] = n BY <4>4, <5>1
        <5>2. CASE opened[h] # n BY <3>2, <4>2, <4>5, <5>2 DEF Sockets
        <5>. QED BY <5>1, <5>2
      <4>. QED BY <3>1, <4>5 DEF Sockets, Busy
    <3>. QED BY <3>3, <3>4
  <2>2. CASE RcvData(n)
    <3>1. /\ UNCHANGED <<ui, uiClient, opened, object, sock>>
          /\ rcv[n] \in {"loop", "select", "joinRcv"}
          /\ \E v \in {"loop", "select", "joinRcv", "joinProc"} : rcv' = [rcv EXCEPT ![n] = v]
      BY <2>2 DEF RcvData, Connected, uiVars, netVars, objVars
    <3>2. \A k \in Clients : HasEnded(rcv'[k]) => HasEnded(rcv[k]) BY <3>1
    <3>3. \A h \in Handles : opened[h] # 0 => opened[h] \in Clients
      BY Constants DEF TypeInv, TypeOK, Clients
    <3>. QED BY <3>1, <3>2, <3>3
  <2>3. CASE RcvFails(n) BY <2>3 DEF RcvFails, RcvBeginsClose
  <2>4. CASE RcvTimeout(n)
    <3>1. /\ UNCHANGED <<ui, uiClient, opened, object, sock>>
          /\ rcv[n] \in {"loop", "select", "joinRcv"}
          /\ \E v \in {"loop", "select", "joinRcv", "joinProc"} : rcv' = [rcv EXCEPT ![n] = v]
      BY <2>4 DEF RcvTimeout, RcvBeginsClose, uiVars, netVars
    <3>2. \A k \in Clients : HasEnded(rcv'[k]) => HasEnded(rcv[k]) BY <3>1
    <3>3. \A h \in Handles : opened[h] # 0 => opened[h] \in Clients
      BY Constants DEF TypeInv, TypeOK, Clients
    <3>. QED BY <3>1, <3>2, <3>3
  <2>5. CASE RcvJoinsRcv(n)
    <3>1. /\ UNCHANGED <<ui, uiClient, opened, object, sock>>
          /\ rcv[n] \in {"loop", "select", "joinRcv"}
          /\ \E v \in {"loop", "select", "joinRcv", "joinProc"} : rcv' = [rcv EXCEPT ![n] = v]
      BY <2>5 DEF RcvJoinsRcv, uiVars, netVars, objVars
    <3>2. \A k \in Clients : HasEnded(rcv'[k]) => HasEnded(rcv[k]) BY <3>1
    <3>3. \A h \in Handles : opened[h] # 0 => opened[h] \in Clients
      BY Constants DEF TypeInv, TypeOK, Clients
    <3>. QED BY <3>1, <3>2, <3>3
  <2>6. CASE RcvCloses(n) BY <2>6 DEF RcvCloses, CloseSocket
  <2>7. CASE ProcEnds(n) BY <2>7 DEF ProcEnds
  <2>8. CASE ProcLoginRet(n) BY <2>8 DEF ProcLoginRet
  <2>9. CASE ProcDisplays(n) BY <2>9 DEF ProcDisplays
  <2>10. CASE ProcReturns(n) BY <2>10 DEF ProcReturns
  <2>. QED BY <1>10, <2>1, <2>2, <2>3, <2>4, <2>5, <2>6, <2>7, <2>8, <2>9, <2>10
         DEF RcvThread, ProcessThread
<1>11. CASE Tick BY <1>11 DEF Tick
<1>12. CASE UNCHANGED vars BY <1>12 DEF vars
<1>. QED BY <1>1, <1>2, <1>3, <1>4, <1>5, <1>6, <1>7, <1>8, <1>9, <1>10, <1>11, <1>12
    DEF Next, UIContinues

LEMMA Ticks ==
  ASSUME TypeInv, Ownership, Aliveness, Waits, Tick
  PROVE  Waits'
<1>. USE Constants DEF Clients, HasEnded
<1>1. /\ UNCHANGED <<ui, uiClient, object, sock, rcv, proc, crossed>>
      /\ uiLeft' = Less(uiLeft)
      /\ \A n \in Clients : rcvLeft'[n] = Less(rcvLeft[n])
      /\ \A n \in Clients : ~ThreadsAreDue(n)
  BY DEF Tick, objVars
<1>2. /\ uiLeft \in 0 .. WaitTime /\ \A n \in Clients : rcvLeft[n] \in 0 .. WaitTime
      /\ \A n \in Clients : rcv[n] \in {"none", "loop", "select", "joinRcv", "joinProc", "ended"}
      /\ \A n \in Clients : proc[n] \in {"none", "loop", "display", "ended"}
  BY DEF TypeInv, TypeOK
<1>3. ui \in Waiting => uiClient \in Clients /\ object[uiClient] = "live" /\ ~alive[uiClient]
  BY DEF Ownership, Aliveness, TypeInv, TypeOK, Waiting
<1>4. \A n \in Clients : object[n] = "live" /\ ~alive[n] => HasEnded(proc[n]) /\ rcv[n] # "loop"
  BY <1>1, <1>2 DEF ThreadsAreDue, Runs
<1>5. \A n \in Clients : object[n] = "live" /\ rcv[n] \in {"select", "joinRcv"} => rcvLeft[n] > 0
  BY <1>1, <1>2 DEF ThreadsAreDue, Runs, WaitReturns
<1>6. \A n \in Clients : object[n] = "live" => rcv[n] # "joinProc"
  BY <1>1, <1>4 DEF ThreadsAreDue, Runs, ProcIsJoined, WaitReturns, Aliveness
<1>7. SelectIsShort' BY <1>1, <1>2 DEF Waits, SelectIsShort, Less
<1>8. ProcEndsAtOnce' BY <1>1, <1>3, <1>4, <1>6 DEF ProcEndsAtOnce, Waiting
<1>9. ProcEndedFirst' BY <1>1 DEF Waits, ProcEndedFirst
<1>10. WaitIsLonger'
  <2>. SUFFICES ASSUME ui \in {"stopJoinRcv", "exitJoinRcv"}, uiClient \notin crossed
                PROVE  /\ rcv[uiClient] \notin {"loop", "joinProc"}
                       /\ rcv[uiClient] \in {"select", "joinRcv"} => rcvLeft'[uiClient] < uiLeft'
    BY <1>1 DEF WaitIsLonger
  <2>1. uiClient \in Clients /\ object[uiClient] = "live" /\ ~alive[uiClient]
    BY <1>3 DEF Waiting
  <2>2. rcv[uiClient] \in {"select", "joinRcv"} =>
          rcvLeft[uiClient] > 0 /\ rcvLeft[uiClient] < uiLeft
    BY <1>5, <2>1 DEF Waits, WaitIsLonger
  <2>. QED BY <1>1, <1>2, <1>4, <1>6, <2>1, <2>2 DEF Less
<1>11. RcvEndedFirst' BY <1>1 DEF Waits, RcvEndedFirst
<1>. QED BY <1>7, <1>8, <1>9, <1>10, <1>11 DEF Waits

LEMMA RcvWaits ==
  ASSUME TypeInv, Ownership, Aliveness, Waits, NEW n \in Clients, RcvThread(n)
  PROVE  Waits'
<1>. USE Constants DEF HasEnded, Waits
<1>1. /\ rcv \in [Clients -> {"none", "loop", "select", "joinRcv", "joinProc", "ended"}]
      /\ rcvLeft \in [Clients -> 0 .. WaitTime] /\ sock \in [Clients -> SocketValue]
      /\ uiLeft \in 0 .. WaitTime /\ proc \in [Clients -> {"none", "loop", "display", "ended"}]
  BY DEF TypeInv, TypeOK
<1>2. UNCHANGED <<ui, uiClient, uiLeft, object, proc>> /\ crossed \subseteq crossed'
  BY DEF RcvThread, RcvLoop, RcvData, RcvFails, RcvTimeout, RcvBeginsClose, RcvJoinsRcv,
         RcvCloses, uiVars, objVars
<1>3. PICK v, l :
        /\ rcv' = [rcv EXCEPT ![n] = v] /\ rcvLeft' = [rcvLeft EXCEPT ![n] = l]
        /\ \/ /\ rcv[n] = "loop" /\ ~alive[n] /\ v = "ended" /\ sock' = sock
           \/ /\ rcv[n] = "loop" /\ alive[n] /\ v = "select" /\ l = SelectTime /\ sock' = sock
           \/ /\ rcv[n] = "select" /\ v = "loop" /\ sock' = sock
           \/ /\ v = "joinRcv" /\ sock' = sock
              /\ uiClient = n /\ ui \notin {"idle", "connecting", "gone"} => n \in crossed'
           \/ /\ rcv[n] = "joinRcv" /\ v = "joinProc" /\ l = WaitTime /\ sock' = sock
           \/ /\ rcv[n] = "joinProc" /\ v = "loop" /\ sock' = [sock EXCEPT ![n] = "none"]
              /\ object[n] = "live" /\ (HasEnded(proc[n]) \/ rcvLeft[n] = 0)
  <2>1. CASE RcvLoop(n) BY <2>1, <1>1 DEF RcvLoop, objVars
  <2>2. CASE RcvData(n) BY <2>2, <1>1 DEF RcvData, objVars
  <2>3. CASE RcvFails(n) BY <2>3, <1>1 DEF RcvFails, RcvBeginsClose
  <2>4. CASE RcvTimeout(n)
    <3>1. CASE rcv' = [rcv EXCEPT ![n] = "loop"] /\ UNCHANGED <<rcvLeft, alive, crossed>>
      <4>1. rcvLeft' = [rcvLeft EXCEPT ![n] = rcvLeft[n]] BY <1>1, <3>1
      <4>. QED BY <2>4, <3>1, <4>1 DEF RcvTimeout
    <3>2. CASE RcvBeginsClose(n) BY <2>4, <3>2 DEF RcvTimeout, RcvBeginsClose
    <3>. QED BY <2>4, <3>1, <3>2 DEF RcvTimeout
  <2>5. CASE RcvJoinsRcv(n) BY <2>5, <1>1 DEF RcvJoinsRcv, objVars
  <2>6. CASE RcvCloses(n)
    BY <2>6, <1>1 DEF RcvCloses, Runs, ProcIsJoined, WaitReturns
  <2>. QED BY <2>1, <2>2, <2>3, <2>4, <2>5, <2>6 DEF RcvThread
<1>4. \A k \in Clients : /\ rcv'[k] = (IF k = n THEN v ELSE rcv[k])
                         /\ rcvLeft'[k] = (IF k = n THEN l ELSE rcvLeft[k])
  BY <1>1, <1>3
<1>5. rcv[n] \in {"loop", "select", "joinRcv", "joinProc"}
  BY DEF RcvThread, RcvLoop, RcvData, RcvFails, RcvTimeout, RcvJoinsRcv, RcvCloses
<1>6. ui \in Waiting \union Deleting => uiClient \in Clients /\ ~alive[uiClient]
  BY DEF Ownership, Aliveness, TypeInv, TypeOK, Waiting, Deleting, Clients
<1>7. SelectIsShort' BY <1>3, <1>4 DEF SelectIsShort
<1>8. ProcEndsAtOnce' BY <1>2, <1>3, <1>4 DEF ProcEndsAtOnce
<1>9. ProcEndedFirst'
  <2>1. CASE sock' = sock BY <1>2, <2>1 DEF ProcEndedFirst
  <2>2. CASE sock' # sock
    <3>1. rcv[n] = "joinProc" /\ sock' = [sock EXCEPT ![n] = "none"] /\ object[n] = "live"
          /\ (HasEnded(proc[n]) \/ rcvLeft[n] = 0)
      BY <1>3, <2>2
    <3>2. HasEnded(proc[n]) BY <3>1 DEF ProcEndsAtOnce
    <3>. QED BY <1>1, <1>2, <3>1, <3>2 DEF ProcEndedFirst
  <2>. QED BY <2>1, <2>2
<1>10. WaitIsLonger'
  <2>1. SUFFICES ASSUME ui \in {"stopJoinRcv", "exitJoinRcv"}, uiClient \notin crossed'
                 PROVE  /\ rcv'[uiClient] \in {"loop", "joinProc"} => uiLeft > 0
                        /\ rcv'[uiClient] \in {"select", "joinRcv"} =>
                             rcvLeft'[uiClient] < uiLeft
    BY <1>2 DEF WaitIsLonger
  <2>2. uiClient \in Clients /\ ~alive[uiClient] BY <1>6, <2>1 DEF Waiting
  <2>3. uiClient \notin crossed BY <1>2, <2>1
  <2>4. CASE uiClient # n BY <1>4, <2>1, <2>2, <2>3, <2>4 DEF WaitIsLonger
  <2>5. CASE uiClient = n
    <3>1. v # "joinRcv" /\ v # "select" BY <1>3, <2>1, <2>2, <2>5
    <3>2. rcv[n] # "loop" => uiLeft > 0
      BY <1>1, <1>5, <2>1, <2>3, <2>5 DEF WaitIsLonger
    <3>3. rcv[n] = "loop" => v = "ended" BY <1>3, <2>1, <2>2, <2>5
    <3>. QED BY <1>4, <2>5, <3>1, <3>2, <3>3
  <2>. QED BY <2>4, <2>5
<1>11. RcvEndedFirst'
  BY <1>2, <1>4, <1>5, <1>6 DEF RcvEndedFirst, Waiting
<1>. QED BY <1>7, <1>8, <1>9, <1>10, <1>11

LEMMA ProcWaits ==
  ASSUME TypeInv, Ownership, Waits, NEW n \in Clients, ProcessThread(n)
  PROVE  Waits'
<1>1. /\ UNCHANGED <<ui, uiClient, uiLeft, object, sock, rcv, rcvLeft, crossed>>
      /\ proc \in [Clients -> {"none", "loop", "display", "ended"}]
      /\ ~HasEnded(proc[n])
      /\ proc' = proc \/ \E v : proc' = [proc EXCEPT ![n] = v]
  BY DEF ProcessThread, ProcEnds, ProcLoginRet, ProcDisplays, ProcReturns, uiVars, objVars,
         TypeInv, TypeOK, HasEnded
<1>2. \A k \in Clients : HasEnded(proc[k]) => HasEnded(proc'[k])
  BY <1>1
<1>3. ui \in {"stopJoinProc", "exitJoinProc"} => uiClient \in Clients
  BY Constants DEF TypeInv, TypeOK, Ownership, Clients
<1>4. SelectIsShort' BY <1>1 DEF Waits, SelectIsShort
<1>5. ProcEndsAtOnce' BY <1>1, <1>2, <1>3 DEF Waits, ProcEndsAtOnce, HasEnded
<1>6. ProcEndedFirst' BY <1>1, <1>2 DEF Waits, ProcEndedFirst
<1>7. WaitIsLonger' BY <1>1 DEF Waits, WaitIsLonger
<1>8. RcvEndedFirst' BY <1>1 DEF Waits, RcvEndedFirst
<1>. QED BY <1>4, <1>5, <1>6, <1>7, <1>8 DEF Waits

LEMMA UIWaits ==
  ASSUME TypeInv, Ownership, Aliveness, Waits,
         Connect \/ StopPressed \/ Exit \/ UIContinues
  PROVE  Waits'
<1>. USE Constants
<1>1. /\ rcv \in [Clients -> {"none", "loop", "select", "joinRcv", "joinProc", "ended"}]
      /\ rcvLeft \in [Clients -> 0 .. WaitTime] /\ sock \in [Clients -> SocketValue]
      /\ object \in [Clients -> {"none", "live", "deleted"}]
      /\ uiLeft \in 0 .. WaitTime /\ proc \in [Clients -> {"none", "loop", "display", "ended"}]
      /\ ctrl \in 0 .. made /\ made \in 0 .. MaxClients
  BY DEF TypeInv, TypeOK
<1>2. CASE Connect
  <2>1. made + 1 \in Clients /\ object[made + 1] = "none" /\ rcv[made + 1] = "none"
        /\ ui' \in {"idle", "connecting"} /\ UNCHANGED <<rcv, rcvLeft, proc>>
    BY <1>2, ConnectFacts
  <2>2. proc[made + 1] = "none" BY <2>1 DEF Ownership
  <2>3. \A n \in Clients : n # made + 1 => object'[n] = object[n] /\ sock'[n] = sock[n]
    BY <1>1, <1>2, ConnectFacts
  <2>4. SelectIsShort' BY <2>1 DEF Waits, SelectIsShort
  <2>5. ProcEndsAtOnce' BY <2>1, <2>3 DEF Waits, ProcEndsAtOnce
  <2>6. ProcEndedFirst' BY <2>1, <2>2, <2>3 DEF Waits, ProcEndedFirst, HasEnded
  <2>7. WaitIsLonger' /\ RcvEndedFirst' BY <2>1 DEF WaitIsLonger, RcvEndedFirst, Deleting
  <2>. QED BY <2>4, <2>5, <2>6, <2>7 DEF Waits
<1>3. CASE ConnectSucceeds
  <2>1. /\ uiClient \in Clients /\ sock[uiClient] # "none"
        /\ rcv' = [rcv EXCEPT ![uiClient] = "loop"] /\ proc' = [proc EXCEPT ![uiClient] = "loop"]
        /\ ui' = "idle" /\ UNCHANGED <<object, sock, rcvLeft>>
    BY <1>3 DEF ConnectSucceeds, Connected, objVars, Ownership, TypeInv, TypeOK, Clients
  <2>2. \A n \in Clients : n # uiClient => rcv'[n] = rcv[n] /\ proc'[n] = proc[n] BY <2>1
  <2>3. rcv'[uiClient] = "loop" BY <1>1, <2>1
  <2>4. SelectIsShort' BY <2>1, <2>2, <2>3 DEF Waits, SelectIsShort
  <2>5. ProcEndsAtOnce' BY <2>1, <2>2, <2>3 DEF Waits, ProcEndsAtOnce, HasEnded
  <2>6. ProcEndedFirst' BY <2>1, <2>2 DEF Waits, ProcEndedFirst, HasEnded
  <2>7. WaitIsLonger' /\ RcvEndedFirst' BY <2>1 DEF WaitIsLonger, RcvEndedFirst, Deleting
  <2>. QED BY <2>4, <2>5, <2>6, <2>7 DEF Waits
<1>4. CASE ConnectFails \/ ConnectRefused
  <2>1. ui' \in {"idle", "refusedJoinRcv"} /\ UNCHANGED <<object, sock, rcv, rcvLeft, proc>>
    BY <1>4 DEF ConnectFails, ConnectRefused, objVars, threadVars
  <2>. QED BY <2>1 DEF Waits, SelectIsShort, ProcEndsAtOnce, ProcEndedFirst, WaitIsLonger,
                       RcvEndedFirst, HasEnded, Deleting
<1>5. CASE StopPressed \/ Exit
  <2>1. /\ UNCHANGED <<ctrl, object, sock, rcv, rcvLeft, proc>>
        /\ \/ /\ ui' \in {"stopJoinRcv", "exitJoinRcv"} /\ uiClient' = ctrl /\ ctrl \in Clients
              /\ uiLeft' = WaitTime /\ (rcv[ctrl] = "joinRcv" /\ rcvLeft[ctrl] = WaitTime
                                          => ctrl \in crossed')
           \/ /\ ui' = "exitDelete" /\ uiClient' = ctrl
              /\ rcv[ctrl] \notin {"none", "ended"} => ctrl \in crossed'
           \/ ui' = "gone"
    BY <1>1, <1>5 DEF StopPressed, Exit, UIMeetsRcv, objVars, threadVars, Clients
  <2>2. SelectIsShort' /\ ProcEndedFirst' BY <2>1 DEF Waits, SelectIsShort, ProcEndedFirst, HasEnded
  <2>3. ProcEndsAtOnce' BY <2>1 DEF Waits, ProcEndsAtOnce, HasEnded
  <2>4. WaitIsLonger' BY <1>1, <2>1 DEF Waits, WaitIsLonger, SelectIsShort
  <2>5. RcvEndedFirst' BY <2>1 DEF RcvEndedFirst, HasEnded, Deleting
  <2>. QED BY <2>2, <2>3, <2>4, <2>5 DEF Waits
<1>6. CASE UIJoinsRcv
  <2>1. /\ UNCHANGED <<uiClient, object, sock, rcv, rcvLeft, proc, crossed>> /\ uiLeft' = WaitTime
        /\ rcv[uiClient] \in {"none", "ended"} \/ uiLeft = 0
        /\ \/ ui \in {"stopJoinRcv", "exitJoinRcv"} /\ ui' \in {"stopJoinProc", "exitJoinProc"}
           \/ ui' = "refusedJoinProc"
    BY <1>6 DEF UIJoinsRcv, WaitReturns, objVars, threadVars
  <2>2. SelectIsShort' /\ ProcEndedFirst' BY <2>1 DEF Waits, SelectIsShort, ProcEndedFirst, HasEnded
  <2>3. ProcEndsAtOnce' BY <2>1 DEF Waits, ProcEndsAtOnce, HasEnded
  <2>4. WaitIsLonger' BY <2>1 DEF WaitIsLonger
  <2>5. ui \in {"stopJoinRcv", "exitJoinRcv"} /\ uiClient \notin crossed => HasEnded(rcv[uiClient])
    <3>1. SUFFICES ASSUME ui \in {"stopJoinRcv", "exitJoinRcv"}, uiClient \notin crossed,
                          uiLeft = 0
                   PROVE  HasEnded(rcv[uiClient])
      BY <2>1 DEF HasEnded
    <3>2. uiClient \in Clients BY <1>1, <3>1 DEF Ownership, Clients
    <3>3. rcv[uiClient] \notin {"loop", "joinProc"} BY <3>1 DEF Waits, WaitIsLonger
    <3>4. rcv[uiClient] \notin {"select", "joinRcv"} BY <1>1, <3>1, <3>2 DEF Waits, WaitIsLonger
    <3>. QED BY <1>1, <3>2, <3>3, <3>4 DEF HasEnded
  <2>6. RcvEndedFirst' BY <2>1, <2>5 DEF RcvEndedFirst, HasEnded, Deleting
  <2>. QED BY <2>2, <2>3, <2>4, <2>6 DEF Waits
<1>7. CASE UICloses
  <2>1. /\ UNCHANGED <<uiClient, object, rcv, rcvLeft, proc, crossed>>
        /\ sock' = [sock EXCEPT ![uiClient] = "none"]
        /\ HasEnded(proc[uiClient]) \/ uiLeft = 0
        /\ \/ ui \in {"stopJoinProc", "exitJoinProc"} /\ ui' \in {"stopDelete", "exitDelete"}
           \/ ui = "refusedJoinProc" /\ ui' = "idle"
    BY <1>7 DEF UICloses, ProcIsJoined, WaitReturns, HasEnded
  <2>2. uiClient \in Clients BY <1>1, <2>1 DEF Ownership, Clients
  <2>3. HasEnded(proc[uiClient])
    BY <2>1, <2>2 DEF Waits, ProcEndsAtOnce, Ownership, HasEnded
  <2>4. \A n \in Clients : n # uiClient => sock'[n] = sock[n] BY <2>1
  <2>5. ProcEndedFirst' BY <2>1, <2>3, <2>4 DEF Waits, ProcEndedFirst, HasEnded
  <2>6. SelectIsShort' BY <2>1 DEF Waits, SelectIsShort
  <2>7. ProcEndsAtOnce' BY <2>1 DEF Waits, ProcEndsAtOnce, HasEnded
  <2>8. WaitIsLonger' BY <2>1 DEF WaitIsLonger
  <2>9. RcvEndedFirst' BY <2>1 DEF Waits, RcvEndedFirst, HasEnded, Deleting
  <2>. QED BY <2>5, <2>6, <2>7, <2>8, <2>9 DEF Waits
<1>8. CASE UIDeletes
  <2>1. /\ UNCHANGED <<uiClient, sock, rcv, rcvLeft, proc>> /\ ui' \in {"idle", "gone"}
        /\ object' = [object EXCEPT ![uiClient] = "deleted"]
    BY <1>8 DEF UIDeletes, threadVars
  <2>2. \A n \in Clients : object'[n] = "live" => object[n] = "live" BY <1>1, <2>1
  <2>. QED BY <2>1, <2>2 DEF Waits, SelectIsShort, ProcEndsAtOnce, ProcEndedFirst,
                             WaitIsLonger, RcvEndedFirst, HasEnded, Deleting
<1>. QED BY <1>2, <1>3, <1>4, <1>5, <1>6, <1>7, <1>8 DEF UIContinues

LEMMA WaitsNext == TypeInv /\ Ownership /\ Aliveness /\ Waits /\ [Next]_vars => Waits'
<1>. SUFFICES ASSUME TypeInv, Ownership, Aliveness, Waits, [Next]_vars PROVE Waits' OBVIOUS
<1>1. CASE Connect \/ StopPressed \/ Exit \/ UIContinues BY <1>1, UIWaits
<1>2. ASSUME NEW n \in Clients, RcvThread(n) PROVE Waits' BY <1>2, RcvWaits
<1>3. ASSUME NEW n \in Clients, ProcessThread(n) PROVE Waits' BY <1>3, ProcWaits
<1>4. CASE Tick BY <1>4, Ticks
<1>5. CASE UNCHANGED vars
  BY <1>5 DEF vars, uiVars, netVars, objVars, threadVars, Waits, SelectIsShort, ProcEndsAtOnce,
     ProcEndedFirst, WaitIsLonger, RcvEndedFirst, HasEnded, Deleting
<1>. QED BY <1>1, <1>2, <1>3, <1>4, <1>5 DEF Next

LEMMA DeletedNext ==
  TypeInv /\ Ownership /\ Aliveness /\ Waits /\ ObjectOutlivesThreads /\ [Next]_vars
    => ObjectOutlivesThreads'
<1>. SUFFICES ASSUME TypeInv, Ownership, Aliveness, Waits, ObjectOutlivesThreads, [Next]_vars
              PROVE  ObjectOutlivesThreads'
  OBVIOUS
<1>1. /\ object \in [Clients -> {"none", "live", "deleted"}]
      /\ \A n \in Clients : object[n] = "none" => rcv[n] = "none" /\ proc[n] = "none"
  BY DEF TypeInv, TypeOK, Ownership
<1>2. crossed \subseteq crossed'
  BY DEF Next, UIContinues, Connect, ConnectSucceeds, ConnectFails, ConnectRefused, StopPressed,
     Exit, UIJoinsRcv, UICloses, UIDeletes, RcvThread, RcvLoop, RcvData, RcvFails, RcvTimeout,
     RcvBeginsClose, RcvJoinsRcv, RcvCloses, ProcessThread, ProcEnds, ProcLoginRet, ProcDisplays,
     ProcReturns, Tick, vars
<1>3. ASSUME UNCHANGED object,
             \A n \in Clients : object[n] = "deleted" => rcv'[n] = rcv[n] /\ proc'[n] = proc[n]
      PROVE  ObjectOutlivesThreads'
  BY <1>2, <1>3 DEF ObjectOutlivesThreads, HasEnded
<1>4. CASE Connect
  <2>1. made + 1 \in Clients /\ object' = [object EXCEPT ![made + 1] = "live"]
        /\ UNCHANGED <<rcv, proc>>
    BY <1>4, ConnectFacts
  <2>2. \A n \in Clients : object'[n] = "deleted" => object[n] = "deleted" BY <1>1, <2>1
  <2>. QED BY <1>2, <2>1, <2>2 DEF ObjectOutlivesThreads, HasEnded
<1>5. CASE ConnectSucceeds
  <2>1. /\ uiClient \in Clients /\ object[uiClient] = "live" /\ UNCHANGED object
        /\ rcv' = [rcv EXCEPT ![uiClient] = "loop"] /\ proc' = [proc EXCEPT ![uiClient] = "loop"]
    BY <1>5, Constants DEF ConnectSucceeds, objVars, Ownership, TypeInv, TypeOK, Clients
  <2>. QED BY <1>3, <2>1
<1>6. CASE ConnectFails \/ ConnectRefused \/ StopPressed \/ Exit \/ UIJoinsRcv \/ UICloses \/ Tick
  BY <1>3, <1>6 DEF ConnectFails, ConnectRefused, StopPressed, Exit, UIJoinsRcv, UICloses, Tick,
     threadVars, objVars
<1>7. CASE UIDeletes
  <2>1. /\ ui \in Deleting /\ object' = [object EXCEPT ![uiClient] = "deleted"]
        /\ UNCHANGED <<rcv, proc, crossed>>
    BY <1>7 DEF UIDeletes, threadVars, Deleting
  <2>2. uiClient \in Clients /\ object[uiClient] = "live" /\ sock[uiClient] = "none"
    BY <2>1, Constants DEF Ownership, Aliveness, TypeInv, TypeOK, Clients, Deleting
  <2>3. HasEnded(proc[uiClient]) BY <2>2 DEF Waits, ProcEndedFirst
  <2>4. uiClient \in crossed \/ HasEnded(rcv[uiClient]) BY <2>1 DEF Waits, RcvEndedFirst
  <2>5. \A n \in Clients : n # uiClient => object'[n] = object[n] BY <2>1
  <2>. QED BY <2>1, <2>3, <2>4, <2>5 DEF ObjectOutlivesThreads, HasEnded
<1>8. ASSUME NEW n \in Clients, RcvThread(n) \/ ProcessThread(n)
      PROVE  ObjectOutlivesThreads'
  <2>1. object[n] = "live" /\ UNCHANGED object
    BY <1>8 DEF RcvThread, RcvLoop, RcvData, RcvFails, RcvTimeout, RcvJoinsRcv, RcvCloses,
       ProcessThread, ProcEnds, ProcLoginRet, ProcDisplays, ProcReturns, Runs, objVars
  <2>2. /\ rcv' = rcv \/ \E v : rcv' = [rcv EXCEPT ![n] = v]
        /\ proc' = proc \/ \E v : proc' = [proc EXCEPT ![n] = v]
    BY <1>8 DEF RcvThread, RcvLoop, RcvData, RcvFails, RcvTimeout, RcvBeginsClose, RcvJoinsRcv,
       RcvCloses, ProcessThread, ProcEnds, ProcLoginRet, ProcDisplays, ProcReturns
  <2>3. \A k \in Clients : k # n => rcv'[k] = rcv[k] /\ proc'[k] = proc[k]
    BY <2>2 DEF TypeInv, TypeOK
  <2>. QED BY <1>3, <2>1, <2>3
<1>9. CASE UNCHANGED vars BY <1>3, <1>9 DEF vars, objVars, threadVars
<1>. QED BY <1>4, <1>5, <1>6, <1>7, <1>8, <1>9 DEF Next, UIContinues
-----------------------------------------------------------------------------
Inv == TypeInv /\ Ownership /\ Aliveness /\ Sockets /\ Waits /\ ObjectOutlivesThreads

LEMMA Starts == Init => Inv
<1>. SUFFICES ASSUME Init PROVE Inv OBVIOUS
<1>1. TypeInv BY TypeInit
<1>2. /\ \A n \in Clients : object[n] = "none" /\ rcv[n] = "none" /\ proc[n] = "none"
      /\ made = 0 /\ ctrl = 0 /\ ui = "idle" /\ \A n \in Clients : n > 0
      /\ \A h \in Handles : opened[h] = 0
  BY Constants DEF Init, Clients
<1>3. Ownership BY <1>2 DEF Ownership
<1>4. Aliveness BY <1>2 DEF Aliveness, Waiting, Deleting
<1>5. Sockets BY <1>2 DEF Sockets
<1>6. Waits
  BY <1>2 DEF Waits, SelectIsShort, ProcEndsAtOnce, ProcEndedFirst, WaitIsLonger, RcvEndedFirst,
     Deleting
<1>7. ObjectOutlivesThreads BY <1>2 DEF ObjectOutlivesThreads
<1>. QED BY <1>1, <1>3, <1>4, <1>5, <1>6, <1>7 DEF Inv

LEMMA Invariance == Spec => []Inv
<1>1. Init => Inv BY Starts
<1>2. Inv /\ [Next]_vars => Inv'
  BY TypeNext, OwnershipNext, AlivenessNext, SocketsNext, WaitsNext, DeletedNext DEF Inv
<1>. QED BY <1>1, <1>2, PTL DEF Spec

\* Every variable keeps its type; in particular m_iSelectTimeOutCount never
\* exceeds the limit by more than one (Client.cpp, Checkioctl).
THEOREM TypeCorrect == Spec => []TypeOK
<1>1. Inv => TypeOK BY DEF Inv, TypeInv
<1>. QED BY <1>1, Invariance, PTL

\* Client::Close deletes no object under a running thread, for any times with a
\* select shorter than a wait, except in the races ObjectOutlivesThreads names.
THEOREM ObjectOutlivesThreadsHolds == Spec => []ObjectOutlivesThreads
<1>1. Inv => ObjectOutlivesThreads BY DEF Inv
<1>. QED BY <1>1, Invariance, PTL

\* The picture callback (ClientCtrl::DisplayVideoFrame) asks its own object,
\* unless a second Connect leaked it.
THEOREM DisplaysOwnClientHolds == Spec => []DisplaysOwnClient
<1>1. Inv => DisplaysOwnClient BY DEF Inv, Ownership, DisplaysOwnClient, Runs
<1>. QED BY <1>1, Invariance, PTL

\* An open socket is in m_hSocket of a live object that the window thread or
\* RcvThread still handles, whichever connections failed before.
THEOREM SocketsAreKeptHolds == Spec => []SocketsAreKept
<1>1. ASSUME Inv, NEW h \in Handles, opened[h] # 0
      PROVE  /\ Runs(opened[h]) /\ sock[opened[h]] = h
             /\ ctrl = opened[h] \/ ~HasEnded(rcv[opened[h]])
  <2>1. /\ object[opened[h]] = "live" /\ sock[opened[h]] = h
        /\ ~HasEnded(rcv[opened[h]]) \/ Busy(opened[h])
    BY <1>1 DEF Inv, Sockets
  <2>2. Busy(opened[h]) => ctrl = opened[h] BY <1>1 DEF Inv, Ownership, Busy
  <2>. QED BY <2>1, <2>2 DEF Runs
<1>2. Inv => SocketsAreKept BY <1>1 DEF SocketsAreKept
<1>. QED BY <1>2, Invariance, PTL
=============================================================================
