------------------------ MODULE VSFServerLifeProofs ------------------------
(* For any number of connections, handles and restarts: TCThread never uses *)
(* a deleted session and comes to all that stay; the messages that close a  *)
(* session close the right one and none is forgotten; the types.            *)
EXTENDS VSFServerLife, TLAPS

\* The part of the types the argument needs.
Types ==
  /\ list \in Seq(Conn)
  /\ backlog \in Seq(Conn)
  /\ object \in [Conn -> {"none", "live", "deleted"}]
  /\ item \in Conn \union {0}

\* What is listed is live.
ListedLive == \A i \in 1..Len(list) : object[list[i]] = "live"

\* Only the running thread stands somewhere in the list.
OnlyWhenRunning == item # 0 => tc = "running"

LInv == Types /\ ListedLive /\ OnlyWhenRunning /\ ObjectsOutliveUse

\* What RemoveAt leaves: the elements behind the place move up by one.
LEMMA RemoveAtIndex ==
  ASSUME NEW S, NEW s \in Seq(S), NEW k \in 1..Len(s)
  PROVE  /\ RemoveAt(s, k) \in Seq(S)
         /\ Len(RemoveAt(s, k)) = Len(s) - 1
         /\ \A i \in 1..(Len(s) - 1) :
              RemoveAt(s, k)[i] = IF i < k THEN s[i] ELSE s[i + 1]
<1> DEFINE a == SubSeq(s, 1, k - 1)
           b == SubSeq(s, k + 1, Len(s))
<1>1. Len(s) \in Nat /\ k \in Nat /\ k >= 1 /\ k <= Len(s)
  OBVIOUS
<1>2. /\ a \in Seq(S)
      /\ Len(a) = k - 1
      /\ \A i \in 1..Len(a) : a[i] = s[i]
  BY <1>1
<1>3. /\ b \in Seq(S)
      /\ Len(b) = Len(s) - k
      /\ \A i \in 1..Len(b) : b[i] = s[k + i]
  BY <1>1
<1>4. RemoveAt(s, k) = a \o b
  BY DEF RemoveAt
<1> HIDE DEF a, b
<1>5. /\ a \o b \in Seq(S)
      /\ Len(a \o b) = Len(a) + Len(b)
      /\ \A i \in 1..Len(a \o b) : (a \o b)[i] = IF i <= Len(a) THEN a[i] ELSE b[i - Len(a)]
  <2>1. a \in Seq(S) /\ b \in Seq(S)
    BY <1>2, <1>3
  <2>2. a \o b \in Seq(S)
    BY <2>1
  <2>3. Len(a \o b) = Len(a) + Len(b)
    BY <2>1
  <2>4. \A i \in 1..Len(a \o b) : (a \o b)[i] = IF i <= Len(a) THEN a[i] ELSE b[i - Len(a)]
    BY <2>1
  <2> QED BY <2>2, <2>3, <2>4
<1>6. Len(a \o b) = Len(s) - 1
  BY <1>1, <1>2, <1>3, <1>5
<1>7. ASSUME NEW i \in 1..(Len(s) - 1)
      PROVE  (a \o b)[i] = IF i < k THEN s[i] ELSE s[i + 1]
  <2>1. CASE i < k
    BY <2>1, <1>1, <1>2, <1>5, <1>6
  <2>2. CASE ~(i < k)
    <3>1. i - (k - 1) \in 1..Len(b)
      BY <2>2, <1>1, <1>3
    <3>2. (a \o b)[i] = b[i - (k - 1)]
      BY <2>2, <1>1, <1>2, <1>5, <1>6
    <3> QED BY <2>2, <3>1, <3>2, <1>1, <1>3
  <2> QED BY <2>1, <2>2
<1> QED BY <1>4, <1>5, <1>6, <1>7

\* Every element of what RemoveAt leaves was there before.
LEMMA RemoveAtElements ==
  ASSUME NEW S, NEW s \in Seq(S), NEW k \in 1..Len(s)
  PROVE  /\ RemoveAt(s, k) \in Seq(S)
         /\ \A i \in 1..Len(RemoveAt(s, k)) :
              \E j \in 1..Len(s) : RemoveAt(s, k)[i] = s[j]
<1> DEFINE r == RemoveAt(s, k)
<1>1. /\ r \in Seq(S) /\ Len(r) = Len(s) - 1
      /\ \A i \in 1..(Len(s) - 1) : r[i] = IF i < k THEN s[i] ELSE s[i + 1]
  BY RemoveAtIndex
<1> HIDE DEF r
<1>2. ASSUME NEW i \in 1..Len(r) PROVE \E j \in 1..Len(s) : r[i] = s[j]
  <2>1. i \in 1..Len(s) /\ i + 1 \in 1..Len(s) /\ (r[i] = s[i] \/ r[i] = s[i + 1])
    BY <1>1
  <2> QED BY <2>1
<1> QED BY <1>1, <1>2 DEF r

\* Of a sequence without repetitions RemoveAt takes that one element.
Distinct(s) == \A i, j \in 1..Len(s) : s[i] = s[j] => i = j

LEMMA RemoveAtDistinct ==
  ASSUME NEW S, NEW s \in Seq(S), NEW k \in 1..Len(s), Distinct(s)
  PROVE  /\ Distinct(RemoveAt(s, k))
         /\ \A m : Contains(RemoveAt(s, k), m) <=> Contains(s, m) /\ m # s[k]
<1> DEFINE r == RemoveAt(s, k)
<1>1. /\ Len(s) \in Nat /\ Len(r) = Len(s) - 1
      /\ \A i \in 1..(Len(s) - 1) : r[i] = IF i < k THEN s[i] ELSE s[i + 1]
  BY RemoveAtIndex
<1> HIDE DEF r
<1>2. Distinct(r)
  BY <1>1 DEF Distinct
<1>3. ASSUME NEW i \in 1..Len(r) PROVE Contains(s, r[i]) /\ r[i] # s[k]
  <2>1. CASE i < k
    <3>1. r[i] = s[i] /\ i \in 1..Len(s) /\ i # k
      BY <2>1, <1>1
    <3> QED BY <3>1 DEF Contains, Distinct
  <2>2. CASE ~(i < k)
    <3>1. r[i] = s[i + 1] /\ i + 1 \in 1..Len(s) /\ i + 1 # k
      BY <2>2, <1>1
    <3> QED BY <3>1 DEF Contains, Distinct
  <2> QED BY <2>1, <2>2
<1>4. ASSUME NEW i \in 1..Len(s), s[i] # s[k] PROVE Contains(r, s[i])
  <2>1. CASE i < k
    <3>1. i \in 1..Len(r) /\ r[i] = s[i]
      BY <2>1, <1>1
    <3> QED BY <3>1 DEF Contains
  <2>2. CASE i > k
    <3>1. i - 1 \in 1..Len(r) /\ r[i - 1] = s[i]
      BY <2>2, <1>1
    <3> QED BY <3>1 DEF Contains
  <2> QED BY <1>4, <2>1, <2>2
<1>5. \A m : Contains(r, m) => Contains(s, m) /\ m # s[k]
  BY <1>3 DEF Contains
<1>6. \A m : Contains(s, m) /\ m # s[k] => Contains(r, m)
  BY <1>4 DEF Contains
<1> QED BY <1>2, <1>5, <1>6 DEF r

\* The place found for a listed session is in the list.
LEMMA PlaceInList ==
  ASSUME NEW n, Contains(list, n)
  PROVE  Place(n) \in 1..Len(list) /\ list[Place(n)] = n
BY DEF Place, Contains

LEMMA InitLInv == Init => LInv
<1> SUFFICES ASSUME Init PROVE LInv
  OBVIOUS
<1>1. Types
  BY DEF Init, Types
<1>2. Len(list) = 0
  BY DEF Init
<1> QED BY <1>1, <1>2 DEF Init, LInv, ListedLive, OnlyWhenRunning, ObjectsOutliveUse

\* A session comes to the list when it becomes live.
LEMMA AcceptKeeps == LInv /\ Accept => LInv'
<1> SUFFICES ASSUME LInv, Accept PROVE LInv'
  OBVIOUS
<1> USE DEF LInv
<1>0. UNCHANGED <<item, tc>>
  BY DEF Accept, walkVars
<1>1. CASE winsock /\ listening /\ backlog # <<>>
  <2> DEFINE n == Head(backlog)
  <2>1. /\ list' = Append(list, n)
        /\ object' = [object EXCEPT ![n] = "live"]
        /\ backlog' = Tail(backlog)
    BY <1>1 DEF Accept
  <2>2. n \in Conn /\ Tail(backlog) \in Seq(Conn)
    BY <1>1 DEF Types
  <2> HIDE DEF n
  <2>3. Types'
    BY <2>1, <2>2, <1>0 DEF Types
  <2>4. \A m \in Conn : object[m] = "live" => object'[m] = "live"
    BY <2>1, <2>2 DEF Types
  <2>5. object'[n] = "live"
    BY <2>1, <2>2 DEF Types
  <2>6. ASSUME NEW i \in 1..Len(list')
        PROVE  object'[list'[i]] = "live"
    <3>1. CASE i \in 1..Len(list)
      <4>1. list'[i] = list[i] /\ list[i] \in Conn
        BY <3>1, <2>1 DEF Types
      <4> QED BY <4>1, <3>1, <2>4 DEF ListedLive
    <3>2. CASE i = Len(list) + 1
      BY <3>2, <2>1, <2>5 DEF Types
    <3> QED BY <3>1, <3>2, <2>1 DEF Types
  <2>7. ListedLive'
    BY <2>6 DEF ListedLive
  <2> QED BY <2>3, <2>4, <2>7, <1>0 DEF OnlyWhenRunning, ObjectsOutliveUse, Types
<1>2. CASE ~(winsock /\ listening /\ backlog # <<>>)
  <2>1. UNCHANGED <<list, object>> /\ backlog' = <<>>
    BY <1>2 DEF Accept, listVars
  <2> QED BY <2>1, <1>0 DEF Types, ListedLive, OnlyWhenRunning, ObjectsOutliveUse
<1> QED BY <1>1, <1>2

\* CloseClient takes an element out of the list and leaves every object.
LEMMA CloseClientKeeps == LInv /\ CloseClient => LInv'
<1> SUFFICES ASSUME LInv, CloseClient PROVE LInv'
  OBVIOUS
<1> USE DEF LInv
<1>0. UNCHANGED <<item, tc, backlog>>
  BY DEF CloseClient, walkVars
<1>1. CASE UNCHANGED listVars
  BY <1>0, <1>1 DEF listVars, Types, ListedLive, OnlyWhenRunning, ObjectsOutliveUse
<1>2. CASE \E n \in Found(Head(messages).handle) : Erase(n)
  <2>1. PICK n \in Found(Head(messages).handle) : Erase(n)
    BY <1>2
  <2>2. Contains(list, n)
    BY DEF Found, ToSet, Contains, Types
  <2>3. Place(n) \in 1..Len(list)
    BY <2>2, PlaceInList
  <2>4. list' = RemoveAt(list, Place(n)) /\ object' = object
    BY <2>1 DEF Erase
  <2>5. list \in Seq(Conn)
    BY DEF Types
  <2>6. /\ list' \in Seq(Conn)
        /\ \A i \in 1..Len(list') : \E j \in 1..Len(list) : list'[i] = list[j]
    BY <2>3, <2>4, <2>5, RemoveAtElements
  <2>7. ListedLive'
    BY <2>4, <2>6 DEF ListedLive
  <2> QED BY <2>4, <2>6, <2>7, <1>0 DEF Types, OnlyWhenRunning, ObjectsOutliveUse
<1> QED BY <1>1, <1>2 DEF CloseClient

\* RemoveAll deletes, but only when the thread stands nowhere.
LEMMA StopReturnsKeeps == LInv /\ StopReturns => LInv'
<1> SUFFICES ASSUME LInv, StopReturns PROVE LInv'
  OBVIOUS
<1> USE DEF LInv
<1>1. item = 0 /\ UNCHANGED <<item, tc>> /\ list' = <<>> /\ backlog' = <<>>
  BY DEF StopReturns, walkVars, OnlyWhenRunning
<1>2. object' \in [Conn -> {"none", "live", "deleted"}]
  BY DEF StopReturns, Types
<1>3. Types'
  BY <1>1, <1>2 DEF Types
<1> QED BY <1>1, <1>3 DEF ListedLive, OnlyWhenRunning, ObjectsOutliveUse

LEMMA WalkBeginsKeeps == LInv /\ WalkBegins => LInv'
<1> SUFFICES ASSUME LInv, WalkBegins PROVE LInv'
  OBVIOUS
<1> USE DEF LInv
<1>0. UNCHANGED <<list, object, backlog, tc>> /\ tc = "running"
  BY DEF WalkBegins, listVars, osVars
<1>1. CASE list = <<>>
  BY <1>0, <1>1 DEF WalkBegins, Types, ListedLive, OnlyWhenRunning, ObjectsOutliveUse
<1>2. CASE list # <<>>
  <2>1. item' = list[1] /\ 1 \in 1..Len(list) /\ list[1] \in Conn
    BY <1>2 DEF WalkBegins, Types
  <2>2. object[item'] = "live"
    BY <2>1 DEF ListedLive
  <2> QED BY <2>1, <2>2, <1>0 DEF Types, ListedLive, OnlyWhenRunning, ObjectsOutliveUse
<1> QED BY <1>1, <1>2

\* Wherever the iterator moves, also after its element was erased, it comes to
\* something listed, or the thread is past knowing.
LEMMA WalkGoesOnKeeps == LInv /\ WalkGoesOn => LInv'
<1> SUFFICES ASSUME LInv, WalkGoesOn PROVE LInv'
  OBVIOUS
<1> USE DEF LInv
<1>0. UNCHANGED <<list, object, backlog>> /\ tc = "running"
  BY DEF WalkGoesOn, listVars, osVars
<1>1. \/ item' = 0
      \/ tc' = tc /\ \E i \in 1..Len(list) : item' = list[i]
  <2>1. CASE Contains(list, item)
    <3>1. Place(item) \in 1..Len(list)
      BY <2>1, PlaceInList
    <3>2. item' = After(item) /\ tc' = tc
      BY <2>1 DEF WalkGoesOn
    <3>3. Place(item) < Len(list) => Place(item) + 1 \in 1..Len(list)
      BY <3>1 DEF Types
    <3> QED BY <3>2, <3>3 DEF After
  <2>2. CASE ~Contains(list, item)
    BY <2>2 DEF WalkGoesOn, ToSet, Types
  <2> QED BY <2>1, <2>2
<1>2. item' = 0 \/ (tc' = "running" /\ item' \in Conn /\ object[item'] = "live")
  BY <1>0, <1>1 DEF Types, ListedLive
<1> QED BY <1>0, <1>2 DEF Types, ListedLive, OnlyWhenRunning, ObjectsOutliveUse

LEMMA NextLInv == LInv /\ [Next]_vars => LInv'
<1> SUFFICES ASSUME LInv, [Next]_vars PROVE LInv'
  OBVIOUS
<1> USE DEF LInv, osVars, listVars, walkVars
<1>1. CASE ClientConnects
  <2>1. backlog' \in Seq(Conn)
    BY <1>1 DEF ClientConnects, Types
  <2> QED BY <2>1, <1>1 DEF ClientConnects, Types, ListedLive, OnlyWhenRunning, ObjectsOutliveUse
<1>2. CASE ClientSends
  BY <1>2 DEF ClientSends, Types, ListedLive, OnlyWhenRunning, ObjectsOutliveUse
<1>3. CASE ClientLeaves
  <2>1. backlog' = backlog \/ \E i \in 1..Len(backlog) : backlog' = RemoveAt(backlog, i)
    BY <1>3 DEF ClientLeaves
  <2>2. backlog \in Seq(Conn)
    BY DEF Types
  <2>3. backlog' \in Seq(Conn)
    BY <2>1, <2>2, RemoveAtElements
  <2> QED BY <2>3, <1>3 DEF ClientLeaves, Types, ListedLive, OnlyWhenRunning, ObjectsOutliveUse
<1>4. CASE PostClose
  BY <1>4 DEF PostClose, Types, ListedLive, OnlyWhenRunning, ObjectsOutliveUse
<1>5. CASE Accept
  BY <1>5, AcceptKeeps
<1>6. CASE ReceiveData
  BY <1>6 DEF ReceiveData, Types, ListedLive, OnlyWhenRunning, ObjectsOutliveUse
<1>7. CASE CloseClient
  BY <1>7, CloseClientKeeps
<1>8. CASE StopReturns
  BY <1>8, StopReturnsKeeps
<1>9. CASE Start
  <2>0. backlog' = backlog \/ backlog' = <<>>
    BY <1>9 DEF Start
  <2>1. backlog' \in Seq(Conn)
    <3>1. CASE backlog' = backlog
      BY <3>1 DEF Types
    <3>2. CASE backlog' = <<>>
      BY <3>2
    <3> QED BY <2>0, <3>1, <3>2
  <2>2. UNCHANGED <<list, object, item>> /\ (tc = "running" => tc' = "running")
    BY <1>9 DEF Start
  <2> QED BY <2>1, <2>2 DEF Types, ListedLive, OnlyWhenRunning, ObjectsOutliveUse
<1>10. CASE Stop
  BY <1>10 DEF Stop, Types, ListedLive, OnlyWhenRunning, ObjectsOutliveUse
<1>11. CASE FrameBegins
  BY <1>11 DEF FrameBegins, Types, ListedLive, OnlyWhenRunning, ObjectsOutliveUse
<1>12. CASE WalkBegins
  BY <1>12, WalkBeginsKeeps
<1>13. CASE WalkGoesOn
  BY <1>13, WalkGoesOnKeeps
<1>14. CASE ThreadEnds
  BY <1>14 DEF ThreadEnds, Types, ListedLive, OnlyWhenRunning, ObjectsOutliveUse
<1>15. CASE UNCHANGED vars
  BY <1>15 DEF vars, Types, ListedLive, OnlyWhenRunning, ObjectsOutliveUse
<1> QED BY <1>1, <1>2, <1>3, <1>4, <1>5, <1>6, <1>7, <1>8, <1>9, <1>10, <1>11,
           <1>12, <1>13, <1>14, <1>15 DEF Next, WindowThread, TCThread

\* ServerManager: TCThread walks m_SocketList unlocked, and yet what it uses was
\* not deleted.
THEOREM OutliveUse == Spec => []ObjectsOutliveUse
BY InitLInv, NextLInv, PTL DEF Spec, LInv
-----------------------------------------------------------------------------
(* The messages that remove a session *)

Msgs == [event : {"ACCEPT", "READ", "CLOSE"}, handle : Handles \union {"none"}, n : Nat]

HTypes ==
  /\ list \in Seq(Conn) /\ backlog \in Seq(Conn)
  /\ messages \in Seq(Msgs)
  /\ starts \in Nat
  /\ sock \in [Conn -> Handles \union {"none"}]
  /\ object \in [Conn -> {"none", "live", "deleted"}]
  /\ peer \in [Conn -> {"out", "in", "left", "told"}]
  /\ winsock \in BOOLEAN /\ stale \in BOOLEAN

\* What waits for accept has no object yet, and its client has not been told off.
Waiting ==
  /\ Distinct(backlog)
  /\ \A n \in Conn : Contains(backlog, n) => peer[n] \in {"in", "left"} /\ object[n] = "none"
  /\ \A n \in Conn : peer[n] = "out" => object[n] = "none"

\* The listed sessions are those that have a handle, each one of its own.
Listed ==
  /\ Distinct(list)
  /\ \A n \in Conn : Contains(list, n) => object[n] = "live"
  /\ \A n \in Conn : sock[n] # "none" <=> Contains(list, n)
  /\ \A n, m \in Conn : sock[n] = sock[m] /\ sock[n] # "none" => n = m

\* Each FD_CLOSE in ms names the handle of the session it was sent for, whose
\* client has left, and there is one for a session at most.
Told(ms, sk, pr) ==
  /\ \A i \in 1..Len(ms) : ms[i].event = "CLOSE" =>
       /\ ms[i].n \in Conn
       /\ sk[ms[i].n] = ms[i].handle /\ ms[i].handle # "none"
       /\ pr[ms[i].n] = "told"
  /\ \A i, j \in 1..Len(ms) :
       ms[i].event = "CLOSE" /\ ms[j].event = "CLOSE" /\ ms[i].n = ms[j].n => i = j

\* An FD_CLOSE for handle h is in ms.
CloseComes(ms, h) == \E i \in 1..Len(ms) : ms[i].event = "CLOSE" /\ ms[i].handle = h

Remembered ==
  winsock => \A n \in Conn : Contains(list, n) /\ peer[n] = "told" => CloseComes(messages, sock[n])

HInv ==
  /\ HTypes /\ Waiting /\ Listed
  /\ ~stale => Told(messages, sock, peer)
  /\ KeepsItsClients
  /\ Remembered

LEMMA HandlesAssumption == "none" \notin Handles /\ MaxConn \in Nat /\ Conn \subseteq Nat
BY LifeAssumption DEF Conn

LEMMA ToSetContains ==
  ASSUME NEW S, NEW s \in Seq(S)
  PROVE  \A m : m \in ToSet(s) <=> Contains(s, m)
BY DEF ToSet, Contains

LEMMA AppendContains ==
  ASSUME NEW S, NEW s \in Seq(S), NEW e \in S
  PROVE  /\ Append(s, e) \in Seq(S)
         /\ Len(Append(s, e)) = Len(s) + 1
         /\ Append(s, e)[Len(s) + 1] = e
         /\ \A i \in 1..Len(s) : Append(s, e)[i] = s[i]
         /\ \A m : Contains(Append(s, e), m) <=> Contains(s, m) \/ m = e
         /\ Distinct(s) /\ ~Contains(s, e) => Distinct(Append(s, e))
<1> DEFINE a == Append(s, e)
<1>1. /\ a \in Seq(S) /\ Len(s) \in Nat /\ Len(a) = Len(s) + 1 /\ a[Len(s) + 1] = e
      /\ \A i \in 1..Len(s) : a[i] = s[i]
  OBVIOUS
<1> HIDE DEF a
<1>2. \A i \in 1..Len(a) : i \in 1..Len(s) \/ i = Len(s) + 1
  BY <1>1
<1>3. \A i \in 1..Len(s) : i \in 1..Len(a)
  BY <1>1
<1>4. Len(s) + 1 \in 1..Len(a)
  BY <1>1
<1>5. \A m : Contains(a, m) <=> Contains(s, m) \/ m = e
  BY <1>1, <1>2, <1>3, <1>4 DEF Contains
<1>6. ASSUME Distinct(s), ~Contains(s, e) PROVE Distinct(a)
  BY <1>1, <1>2, <1>6 DEF Distinct, Contains
<1> QED BY <1>1, <1>5, <1>6 DEF a

LEMMA TailContains ==
  ASSUME NEW S, NEW s \in Seq(S), s # <<>>
  PROVE  /\ Tail(s) \in Seq(S) /\ Head(s) = s[1] /\ Len(s) \in Nat /\ 1 \in 1..Len(s)
         /\ Len(Tail(s)) = Len(s) - 1
         /\ \A i \in 1..(Len(s) - 1) : Tail(s)[i] = s[i + 1]
         /\ Distinct(s) => /\ Distinct(Tail(s))
                           /\ \A m : Contains(Tail(s), m) <=> Contains(s, m) /\ m # Head(s)
<1> DEFINE t == Tail(s)
<1>1. /\ t \in Seq(S) /\ Head(s) = s[1] /\ Len(s) \in Nat /\ 1 \in 1..Len(s)
      /\ Len(t) = Len(s) - 1 /\ \A i \in 1..(Len(s) - 1) : t[i] = s[i + 1]
  OBVIOUS
<1> HIDE DEF t
<1>2. ASSUME Distinct(s) PROVE Distinct(t)
  BY <1>1, <1>2 DEF Distinct
<1>3. ASSUME Distinct(s), NEW i \in 1..Len(t) PROVE Contains(s, t[i]) /\ t[i] # s[1]
  <2>1. t[i] = s[i + 1] /\ i + 1 \in 1..Len(s) /\ i + 1 # 1
    BY <1>1
  <2> QED BY <2>1, <1>1, <1>3 DEF Contains, Distinct
<1>4. ASSUME NEW i \in 1..Len(s), s[i] # s[1] PROVE Contains(t, s[i])
  <2>1. i - 1 \in 1..Len(t) /\ t[i - 1] = s[i]
    BY <1>1, <1>4
  <2> QED BY <2>1 DEF Contains
<1>5. ASSUME Distinct(s) PROVE \A m : Contains(t, m) => Contains(s, m) /\ m # s[1]
  BY <1>3, <1>5 DEF Contains
<1>6. \A m : Contains(s, m) /\ m # s[1] => Contains(t, m)
  BY <1>4 DEF Contains
<1>7. Distinct(s) => \A m : Contains(t, m) <=> Contains(s, m) /\ m # s[1]
  BY <1>5, <1>6
<1>8. Head(s) = s[1]
  BY <1>1
<1>9. Distinct(s) => Distinct(t)
  BY <1>2
<1>10. Distinct(s) => /\ Distinct(t)
                      /\ \A m : Contains(t, m) <=> Contains(s, m) /\ m # Head(s)
  BY <1>7, <1>8, <1>9, Zenon
<1> QED BY <1>1, <1>10 DEF t

\* A message that is handled takes only itself away.
LEMMA ToldTail ==
  ASSUME NEW ms \in Seq(Msgs), ms # <<>>
  PROVE  /\ \A sk, pr : Told(ms, sk, pr) =>
              /\ Told(Tail(ms), sk, pr)
              /\ Head(ms).event = "CLOSE" =>
                   \A i \in 1..Len(Tail(ms)) : Tail(ms)[i].event = "CLOSE" => Tail(ms)[i].n # Head(ms).n
         /\ \A h : CloseComes(ms, h) =>
              CloseComes(Tail(ms), h) \/ (Head(ms).event = "CLOSE" /\ Head(ms).handle = h)
<1> DEFINE t == Tail(ms)
<1>1. /\ Head(ms) = ms[1] /\ Len(ms) \in Nat /\ 1 \in 1..Len(ms)
      /\ Len(t) = Len(ms) - 1 /\ \A i \in 1..(Len(ms) - 1) : t[i] = ms[i + 1]
  BY TailContains
<1> HIDE DEF t
<1>2. \A i \in 1..Len(t) : i + 1 \in 1..Len(ms) /\ i + 1 # 1 /\ t[i] = ms[i + 1]
  BY <1>1
<1>3. \A i \in 1..Len(ms) : i # 1 => i - 1 \in 1..Len(t) /\ t[i - 1] = ms[i]
  BY <1>1
<1>4. ASSUME NEW sk, NEW pr, Told(ms, sk, pr)
      PROVE  /\ Told(t, sk, pr)
             /\ ms[1].event = "CLOSE" =>
                  \A i \in 1..Len(t) : t[i].event = "CLOSE" => t[i].n # ms[1].n
  <2>1. ASSUME NEW i \in 1..Len(t), NEW j \in 1..Len(t),
               t[i].event = "CLOSE", t[j].event = "CLOSE", t[i].n = t[j].n
        PROVE  i = j
    <3>1. i + 1 = j + 1
      BY <1>2, <1>4, <2>1 DEF Told
    <3> QED BY <3>1, <1>1
  <2> QED BY <1>1, <1>2, <1>4, <2>1 DEF Told
<1>5. ASSUME NEW h, CloseComes(ms, h)
      PROVE  CloseComes(t, h) \/ (ms[1].event = "CLOSE" /\ ms[1].handle = h)
  BY <1>3, <1>5 DEF CloseComes
<1> QED BY <1>1, <1>4, <1>5 DEF t

\* A message that is posted leaves the others where they are.
LEMMA ToldAppend ==
  ASSUME NEW ms \in Seq(Msgs), NEW m \in Msgs
  PROVE  /\ m.event # "CLOSE" =>
              \A sk, pr : Told(ms, sk, pr) => Told(Append(ms, m), sk, pr)
         /\ \A h : CloseComes(ms, h) => CloseComes(Append(ms, m), h)
<1> DEFINE a == Append(ms, m)
<1>1. /\ Len(a) = Len(ms) + 1 /\ a[Len(ms) + 1] = m /\ Len(ms) \in Nat
      /\ \A i \in 1..Len(ms) : a[i] = ms[i]
  OBVIOUS
<1> HIDE DEF a
<1>2. \A i \in 1..Len(a) : i \in 1..Len(ms) \/ i = Len(ms) + 1
  BY <1>1
<1>3. \A i \in 1..Len(ms) : i \in 1..Len(a)
  BY <1>1
<1>4. m.event # "CLOSE" => \A i \in 1..Len(a) : a[i].event = "CLOSE" => i \in 1..Len(ms)
  BY <1>1, <1>2
<1> QED BY <1>1, <1>3, <1>4 DEF Told, CloseComes, a

LEMMA ToldPostAccept ==
  ASSUME NEW ms \in Seq(Msgs), starts \in Nat
  PROVE  /\ PostAccept(ms) \in Seq(Msgs)
         /\ \A sk, pr : Told(ms, sk, pr) => Told(PostAccept(ms), sk, pr)
         /\ \A h : CloseComes(ms, h) => CloseComes(PostAccept(ms), h)
<1>1. Message("ACCEPT", "none", starts) \in Msgs /\ Message("ACCEPT", "none", starts).event # "CLOSE"
  BY DEF Message, Msgs
<1> QED BY <1>1, ToldAppend, AppendContains DEF PostAccept

hvars == <<winsock, backlog, messages, peer, starts, list, sock, object, stale>>

LEMMA HInit == Init => HInv
<1> SUFFICES ASSUME Init PROVE HInv
  OBVIOUS
<1>1. Len(backlog) = 0 /\ Len(list) = 0 /\ Len(messages) = 0
  BY DEF Init
<1>2. HTypes
  <2>1. list \in Seq(Conn) /\ backlog \in Seq(Conn) /\ messages \in Seq(Msgs)
    BY DEF Init
  <2>2. /\ sock \in [Conn -> Handles \union {"none"}]
        /\ object \in [Conn -> {"none", "live", "deleted"}]
        /\ peer \in [Conn -> {"out", "in", "left", "told"}]
    BY DEF Init
  <2>3. starts \in Nat /\ winsock \in BOOLEAN /\ stale \in BOOLEAN
    BY DEF Init
  <2> QED BY <2>1, <2>2, <2>3 DEF HTypes
<1>3. Waiting /\ Listed
  BY <1>1 DEF Init, Waiting, Listed, Distinct, Contains
<1>4. Told(messages, sock, peer)
  BY <1>1 DEF Told
<1>5. KeepsItsClients /\ Remembered
  BY <1>1 DEF Init, KeepsItsClients, Remembered, Contains
<1> QED BY <1>2, <1>3, <1>4, <1>5 DEF HInv

LEMMA HUnchanged == HInv /\ UNCHANGED hvars => HInv'
<1> SUFFICES ASSUME HInv, UNCHANGED hvars PROVE HInv'
  OBVIOUS
<1> USE DEF hvars, HInv
<1>1. HTypes' BY DEF HTypes
<1>2. Waiting' BY DEF Waiting
<1>3. Listed' BY DEF Listed
<1>4. ~stale' => Told(messages', sock', peer') OBVIOUS
<1>5. KeepsItsClients' BY DEF KeepsItsClients
<1>6. Remembered' BY DEF Remembered
<1> QED BY <1>1, <1>2, <1>3, <1>4, <1>5, <1>6

LEMMA HClientConnects == HInv /\ ClientConnects => HInv'
<1> SUFFICES ASSUME HInv, ClientConnects PROVE HInv'
  OBVIOUS
<1> USE DEF HInv, HTypes
<1>1. PICK n \in Conn :
        /\ peer[n] = "out" /\ peer' = [peer EXCEPT ![n] = "in"]
        /\ backlog' = Append(backlog, n)
        /\ messages' = PostAccept(messages)
  BY DEF ClientConnects
<1>2. UNCHANGED <<winsock, starts, list, sock, object, stale>>
  BY DEF ClientConnects, listVars
<1>3. /\ backlog' \in Seq(Conn)
      /\ \A m : Contains(backlog', m) <=> Contains(backlog, m) \/ m = n
      /\ ~Contains(backlog, n)
      /\ Distinct(backlog')
  BY <1>1, AppendContains DEF Waiting
<1>4. /\ messages' \in Seq(Msgs)
      /\ \A sk, pr : Told(messages, sk, pr) => Told(messages', sk, pr)
      /\ \A h : CloseComes(messages, h) => CloseComes(messages', h)
  BY <1>1, ToldPostAccept
<1>5. /\ peer' \in [Conn -> {"out", "in", "left", "told"}]
      /\ \A m \in Conn : peer'[m] = IF m = n THEN "in" ELSE peer[m]
  BY <1>1
<1>6. HTypes'
  BY <1>2, <1>3, <1>4, <1>5
<1>7. Waiting'
  BY <1>1, <1>2, <1>3, <1>5 DEF Waiting
<1>8. Listed'
  BY <1>2 DEF Listed
<1>9. ~stale' => Told(messages', sock', peer')
  <2>1. ASSUME Told(messages, sock, peer) PROVE Told(messages, sock, peer')
    BY <2>1, <1>1, <1>5 DEF Told
  <2> QED BY <2>1, <1>2, <1>4
<1>10. KeepsItsClients'
  BY <1>1, <1>2, <1>5 DEF KeepsItsClients, Waiting
<1>11. Remembered'
  BY <1>2, <1>4, <1>5 DEF Remembered
<1> QED BY <1>6, <1>7, <1>8, <1>9, <1>10, <1>11

LEMMA HClientSends == HInv /\ ClientSends => HInv'
<1> SUFFICES ASSUME HInv, ClientSends PROVE HInv'
  OBVIOUS
<1> USE DEF HInv, HTypes
<1>1. PICK n \in Conn : messages' = Append(messages, Message("READ", sock[n], n))
  BY DEF ClientSends
<1>2. UNCHANGED <<winsock, backlog, peer, starts, list, sock, object, stale>>
  BY DEF ClientSends, listVars
<1>3. Message("READ", sock[n], n) \in Msgs /\ Message("READ", sock[n], n).event # "CLOSE"
  BY HandlesAssumption DEF Message, Msgs
<1>4. /\ messages' \in Seq(Msgs)
      /\ Told(messages, sock, peer) => Told(messages', sock, peer)
      /\ \A h : CloseComes(messages, h) => CloseComes(messages', h)
  BY <1>1, <1>3, ToldAppend, AppendContains
<1>5. Waiting' /\ Listed' /\ KeepsItsClients'
  BY <1>2 DEF Waiting, Listed, KeepsItsClients
<1>6. Remembered'
  BY <1>2, <1>4 DEF Remembered
<1> QED BY <1>2, <1>4, <1>5, <1>6

LEMMA HClientLeaves == HInv /\ ClientLeaves => HInv'
<1> SUFFICES ASSUME HInv, ClientLeaves PROVE HInv'
  OBVIOUS
<1> USE DEF HInv, HTypes
<1>0. UNCHANGED <<winsock, messages, starts, list, sock, object, stale>>
  BY DEF ClientLeaves, listVars
<1>1. PICK n \in Conn :
        /\ peer[n] = "in"
        /\ \/ peer' = [peer EXCEPT ![n] = "left"] /\ backlog' = backlog
           \/ /\ peer' = [peer EXCEPT ![n] = "told"]
              /\ \E i \in 1..Len(backlog) : backlog[i] = n /\ backlog' = RemoveAt(backlog, i)
  BY DEF ClientLeaves
<1>2. /\ peer' \in [Conn -> {"out", "in", "left", "told"}]
      /\ \A m \in Conn : m # n => peer'[m] = peer[m]
      /\ peer'[n] \in {"left", "told"}
      /\ peer'[n] = "told" => Contains(backlog, n)
  BY <1>1 DEF Contains
<1>3. /\ backlog' \in Seq(Conn) /\ Distinct(backlog')
      /\ \A m : Contains(backlog', m) => Contains(backlog, m)
      /\ peer'[n] = "told" => ~Contains(backlog', n)
  <2>1. CASE peer' = [peer EXCEPT ![n] = "left"] /\ backlog' = backlog
    BY <2>1, <1>1 DEF Waiting
  <2>2. ASSUME NEW i \in 1..Len(backlog), backlog[i] = n, backlog' = RemoveAt(backlog, i)
        PROVE  /\ backlog' \in Seq(Conn) /\ Distinct(backlog')
               /\ \A m : Contains(backlog', m) => Contains(backlog, m)
               /\ ~Contains(backlog', n)
    BY <2>2, RemoveAtIndex, RemoveAtDistinct DEF Waiting
  <2> QED BY <2>1, <2>2, <1>1
<1>4. HTypes'
  BY <1>0, <1>2, <1>3
<1>5. Waiting'
  BY <1>0, <1>1, <1>2, <1>3 DEF Waiting
<1>6. Listed'
  BY <1>0 DEF Listed
<1>7. ~stale' => Told(messages', sock', peer')
  BY <1>0, <1>1, <1>2 DEF Told
<1>8. KeepsItsClients'
  BY <1>0, <1>2 DEF KeepsItsClients
<1>9. Remembered'
  <2>1. Contains(list, n) => ~Contains(backlog, n)
    BY DEF Waiting, Listed
  <2> QED BY <2>1, <1>0, <1>1, <1>2 DEF Remembered
<1> QED BY <1>4, <1>5, <1>6, <1>7, <1>8, <1>9
LEMMA HPostClose == HInv /\ PostClose => HInv'
<1> SUFFICES ASSUME HInv, PostClose PROVE HInv'
  OBVIOUS
<1> USE DEF HInv, HTypes
<1>0. UNCHANGED <<winsock, backlog, starts, list, sock, object, stale>>
  BY DEF PostClose, listVars
<1>1. PICK n \in Conn :
        /\ sock[n] # "none" /\ peer[n] = "left"
        /\ peer' = [peer EXCEPT ![n] = "told"]
        /\ messages' = Append(messages, Message("CLOSE", sock[n], n))
  BY DEF PostClose
<1> DEFINE m == Message("CLOSE", sock[n], n)
           a == Append(messages, m)
<1>2. m \in Msgs /\ m.event = "CLOSE" /\ m.handle = sock[n] /\ m.n = n
  BY HandlesAssumption DEF Message, Msgs
<1> HIDE DEF m
<1>3. /\ a \in Seq(Msgs) /\ Len(messages) \in Nat /\ Len(a) = Len(messages) + 1
      /\ a[Len(messages) + 1] = m
      /\ \A i \in 1..Len(messages) : a[i] = messages[i]
      /\ \A h : CloseComes(messages, h) => CloseComes(a, h)
  BY <1>2, AppendContains, ToldAppend
<1>4. messages' = a
  BY <1>1 DEF m
<1> HIDE DEF a
<1>5. /\ peer' \in [Conn -> {"out", "in", "left", "told"}]
      /\ \A k \in Conn : peer'[k] = IF k = n THEN "told" ELSE peer[k]
  BY <1>1
<1>6. CloseComes(a, sock[n])
  <2>1. Len(messages) + 1 \in 1..Len(a)
    BY <1>3
  <2> QED BY <2>1, <1>2, <1>3 DEF CloseComes
<1>7. HTypes'
  BY <1>0, <1>3, <1>4, <1>5
<1>8. Waiting'
  <2>1. ~Contains(backlog, n)
    BY <1>1 DEF Waiting, Listed
  <2> QED BY <2>1, <1>0, <1>1, <1>5 DEF Waiting
<1>9. Listed'
  BY <1>0 DEF Listed
<1>10. ASSUME Told(messages, sock, peer) PROVE Told(a, sock, peer')
  <2>1. ASSUME NEW i \in 1..Len(messages), messages[i].event = "CLOSE"
        PROVE  messages[i].n # n
    BY <1>1, <1>10, <2>1 DEF Told
  <2>2. \A i \in 1..Len(a) : i \in 1..Len(messages) \/ i = Len(messages) + 1
    BY <1>3
  <2>3. \A i \in 1..Len(a) : a[i].event = "CLOSE" =>
          /\ a[i].n \in Conn
          /\ sock[a[i].n] = a[i].handle /\ a[i].handle # "none"
          /\ peer'[a[i].n] = "told"
    <3>1. ASSUME NEW i \in 1..Len(messages), a[i].event = "CLOSE"
          PROVE  /\ a[i].n \in Conn
                 /\ sock[a[i].n] = a[i].handle /\ a[i].handle # "none"
                 /\ peer'[a[i].n] = "told"
      <4>1. a[i] = messages[i] /\ messages[i].event = "CLOSE"
        BY <3>1, <1>3
      <4>2. messages[i].n \in Conn /\ peer[messages[i].n] = "told"
        BY <4>1, <1>10 DEF Told
      <4> QED BY <4>1, <4>2, <1>5, <1>10 DEF Told
    <3>2. a[Len(messages) + 1] = m /\ m.n \in Conn /\ peer'[m.n] = "told" /\ sock[m.n] = m.handle /\ m.handle # "none"
      BY <1>1, <1>2, <1>3, <1>5
    <3> QED BY <2>2, <3>1, <3>2
  <2>4. ASSUME NEW i \in 1..Len(a), NEW j \in 1..Len(a),
               a[i].event = "CLOSE", a[j].event = "CLOSE", a[i].n = a[j].n
        PROVE  i = j
    <3>1. CASE i \in 1..Len(messages) /\ j \in 1..Len(messages)
      <4>1. messages[i].event = "CLOSE" /\ messages[j].event = "CLOSE" /\ messages[i].n = messages[j].n
        BY <3>1, <2>4, <1>3
      <4> QED BY <4>1, <3>1, <1>10 DEF Told
    <3>2. CASE i \in 1..Len(messages) /\ j = Len(messages) + 1
      BY <3>2, <2>1, <2>4, <1>2, <1>3
    <3>3. CASE i = Len(messages) + 1 /\ j \in 1..Len(messages)
      BY <3>3, <2>1, <2>4, <1>2, <1>3
    <3> QED BY <3>1, <3>2, <3>3, <2>2
  <2> QED BY <2>3, <2>4 DEF Told
<1>11. ~stale' => Told(messages', sock', peer')
  BY <1>0, <1>4, <1>10
<1>12. KeepsItsClients'
  BY <1>0, <1>5 DEF KeepsItsClients
<1>13. Remembered'
  BY <1>0, <1>3, <1>4, <1>5, <1>6 DEF Remembered
<1> QED BY <1>7, <1>8, <1>9, <1>11, <1>12, <1>13

LEMMA HAccept == HInv /\ Accept => HInv'
<1> SUFFICES ASSUME HInv, Accept PROVE HInv'
  OBVIOUS
<1> USE DEF HInv, HTypes
<1>0. UNCHANGED <<peer, starts, stale>> /\ messages # <<>>
  BY DEF Accept, Handle
<1>1. /\ Tail(messages) \in Seq(Msgs)
      /\ \A sk, pr : Told(messages, sk, pr) => Told(Tail(messages), sk, pr)
      /\ \A h : CloseComes(messages, h) => CloseComes(Tail(messages), h)
  <2>1. Head(messages).event = "ACCEPT"
    BY DEF Accept, Handle
  <2> QED BY <1>0, <2>1, TailContains, ToldTail
<1>2. /\ messages' \in Seq(Msgs)
      /\ \A sk, pr : Told(messages, sk, pr) => Told(messages', sk, pr)
      /\ \A h : CloseComes(messages, h) => CloseComes(messages', h)
  <2>1. messages' = Tail(messages) \/ messages' = PostAccept(Tail(messages))
    BY DEF Accept
  <2>2. CASE messages' = PostAccept(Tail(messages))
    BY <2>2, <1>1, ToldPostAccept
  <2> QED BY <2>1, <2>2, <1>1
<1>3. CASE winsock /\ listening /\ backlog # <<>>
  <2> DEFINE n == Head(backlog)
  <2>1. n \in Conn /\ Contains(backlog, n)
    BY <1>3, TailContains DEF Contains
  <2>2. /\ list' = Append(list, n) /\ object' = [object EXCEPT ![n] = "live"]
        /\ backlog' = Tail(backlog) /\ winsock' = winsock
        /\ \E h \in Handles \ {sock[m] : m \in Conn} : sock' = [sock EXCEPT ![n] = h]
    BY <1>3 DEF Accept
  <2>3. PICK h \in Handles \ {sock[m] : m \in Conn} : sock' = [sock EXCEPT ![n] = h]
    BY <2>2
  <2>4. h # "none" /\ \A m \in Conn : sock[m] # h
    BY HandlesAssumption
  <2>5. /\ backlog' \in Seq(Conn) /\ Distinct(backlog')
        /\ \A m : Contains(backlog', m) <=> Contains(backlog, m) /\ m # n
    BY <1>3, <2>2, TailContains DEF Waiting
  <2> HIDE DEF n
  <2>6. object[n] = "none" /\ peer[n] \in {"in", "left"} /\ ~Contains(list, n) /\ sock[n] = "none"
    BY <2>1 DEF Waiting, Listed
  <2>7. /\ list' \in Seq(Conn) /\ Distinct(list')
        /\ \A m : Contains(list', m) <=> Contains(list, m) \/ m = n
    BY <2>1, <2>2, <2>6, AppendContains DEF Listed
  <2>8. /\ object' \in [Conn -> {"none", "live", "deleted"}]
        /\ \A m \in Conn : object'[m] = IF m = n THEN "live" ELSE object[m]
        /\ sock' \in [Conn -> Handles \union {"none"}]
        /\ \A m \in Conn : sock'[m] = IF m = n THEN h ELSE sock[m]
    BY <2>1, <2>2, <2>3
  <2>9. HTypes'
    BY <1>0, <1>2, <2>2, <2>5, <2>7, <2>8
  <2>10. Waiting'
    BY <1>0, <2>1, <2>5, <2>6, <2>8 DEF Waiting
  <2>11. Listed'
    BY <2>1, <2>4, <2>6, <2>7, <2>8 DEF Listed
  <2>12. ASSUME Told(messages, sock, peer) PROVE Told(messages, sock', peer')
    <3>1. \A i \in 1..Len(messages) : messages[i].event = "CLOSE" => messages[i].n # n
      BY <2>6, <2>12 DEF Told
    <3> QED BY <3>1, <2>8, <2>12, <1>0 DEF Told
  <2>13. ~stale' => Told(messages', sock', peer')
    BY <1>0, <1>2, <2>12
  <2>14. KeepsItsClients'
    BY <1>0, <2>2, <2>7, <2>8 DEF KeepsItsClients
  <2>15. Remembered'
    BY <1>0, <1>2, <2>2, <2>6, <2>7, <2>8 DEF Remembered
  <2> QED BY <2>9, <2>10, <2>11, <2>13, <2>14, <2>15
<1>4. CASE ~(winsock /\ listening /\ backlog # <<>>)
  <2>1. winsock' = FALSE /\ backlog' = <<>> /\ UNCHANGED <<list, object, sock>>
    BY <1>4 DEF Accept, listVars
  <2>2. HTypes'
    <3>1. backlog' \in Seq(Conn)
      BY <2>1
    <3>2. /\ list' \in Seq(Conn)
          /\ sock' \in [Conn -> Handles \union {"none"}]
          /\ object' \in [Conn -> {"none", "live", "deleted"}]
      BY <2>1
    <3>3. starts' \in Nat /\ peer' \in [Conn -> {"out", "in", "left", "told"}] /\ stale' \in BOOLEAN
      BY <1>0
    <3> QED BY <1>2, <2>1, <3>1, <3>2, <3>3
  <2>3. Waiting'
    <3>1. Len(backlog') = 0
      BY <2>1
    <3> QED BY <1>0, <2>1, <3>1 DEF Waiting, Distinct, Contains
  <2>4. Listed'
    BY <2>1 DEF Listed
  <2> QED BY <1>0, <1>2, <2>1, <2>2, <2>3, <2>4 DEF KeepsItsClients, Remembered
<1> QED BY <1>3, <1>4

LEMMA HReceiveData == HInv /\ ReceiveData => HInv'
<1> SUFFICES ASSUME HInv, ReceiveData PROVE HInv'
  OBVIOUS
<1> USE DEF HInv, HTypes
<1>1. /\ messages # <<>> /\ Head(messages).event = "READ"
      /\ messages' = Tail(messages)
      /\ UNCHANGED <<winsock, backlog, peer, starts, list, sock, object, stale>>
  BY DEF ReceiveData, Handle, listVars
<1>2. /\ messages' \in Seq(Msgs)
      /\ Told(messages, sock, peer) => Told(messages', sock, peer)
      /\ \A h : CloseComes(messages, h) => CloseComes(messages', h)
  BY <1>1, TailContains, ToldTail
<1>3. HTypes' /\ Waiting' /\ Listed' /\ KeepsItsClients'
  BY <1>1, <1>2 DEF Waiting, Listed, KeepsItsClients
<1>4. Remembered'
  BY <1>1, <1>2 DEF Remembered
<1> QED BY <1>1, <1>2, <1>3, <1>4

\* The head of the queue removes the session that has its handle: unless
\* messages were left behind, the one it was sent for.
LEMMA HCloseClient == HInv /\ CloseClient => HInv'
<1> SUFFICES ASSUME HInv, CloseClient PROVE HInv'
  OBVIOUS
<1> USE DEF HInv, HTypes
<1> DEFINE g == Head(messages)
<1>1. /\ messages # <<>> /\ g.event = "CLOSE" /\ messages' = Tail(messages)
      /\ UNCHANGED <<winsock, backlog, peer, starts, stale>>
  BY DEF CloseClient, Handle
<1>2. /\ messages' \in Seq(Msgs) /\ g = messages[1] /\ 1 \in 1..Len(messages)
      /\ Told(messages, sock, peer) =>
           /\ Told(messages', sock, peer)
           /\ \A i \in 1..Len(messages') : messages'[i].event = "CLOSE" => messages'[i].n # g.n
      /\ \A h : CloseComes(messages, h) => CloseComes(messages', h) \/ g.handle = h
  BY <1>1, TailContains, ToldTail
<1> HIDE DEF g
<1>3. \A n : n \in Found(g.handle) <=> Contains(list, n) /\ sock[n] = g.handle
  BY ToSetContains DEF Found
<1>4. \A n : Contains(list, n) => n \in Conn
  BY DEF Contains
<1>5. CASE Found(g.handle) = {} /\ UNCHANGED <<list, sock, object>>
  <2>1. HTypes' /\ Waiting' /\ Listed' /\ KeepsItsClients'
    BY <1>1, <1>2, <1>5 DEF Waiting, Listed, KeepsItsClients
  <2>2. ~stale' => Told(messages', sock', peer')
    BY <1>1, <1>2, <1>5
  <2>3. Remembered'
    BY <1>1, <1>2, <1>3, <1>5 DEF Remembered
  <2> QED BY <2>1, <2>2, <2>3
<1>6. ASSUME NEW n \in Found(g.handle), sock' = [sock EXCEPT ![n] = "none"], Erase(n)
      PROVE  HInv'
  <2>1. n \in Conn /\ Contains(list, n) /\ sock[n] = g.handle /\ g.handle # "none" /\ object[n] = "live"
    BY <1>3, <1>4 DEF Listed
  <2>2. /\ list' \in Seq(Conn) /\ Distinct(list') /\ object' = object
        /\ \A m : Contains(list', m) <=> Contains(list, m) /\ m # n
    <3>1. Place(n) \in 1..Len(list) /\ list[Place(n)] = n
      BY <2>1, PlaceInList
    <3>2. list' = RemoveAt(list, Place(n)) /\ object' = object
      BY <1>6 DEF Erase
    <3> QED BY <3>1, <3>2, RemoveAtIndex, RemoveAtDistinct DEF Listed
  <2>3. /\ sock' \in [Conn -> Handles \union {"none"}]
        /\ \A m \in Conn : sock'[m] = IF m = n THEN "none" ELSE sock[m]
    BY <1>6, <2>1
  <2>4. HTypes'
    BY <1>1, <1>2, <2>2, <2>3
  <2>5. Waiting'
    BY <1>1, <2>2 DEF Waiting
  <2>6. Listed'
    BY <2>1, <2>2, <2>3 DEF Listed
  <2>7. ASSUME ~stale PROVE g.n = n /\ peer[n] = "told"
    <3>1. g.n \in Conn /\ sock[g.n] = g.handle /\ peer[g.n] = "told"
      BY <1>1, <1>2, <2>7 DEF Told
    <3> QED BY <3>1, <2>1 DEF Listed
  <2>8. ASSUME ~stale PROVE Told(messages', sock', peer')
    <3>1. Told(messages', sock, peer)
      BY <1>2, <2>8
    <3>2. \A i \in 1..Len(messages') : messages'[i].event = "CLOSE" => messages'[i].n # n
      BY <1>2, <2>7, <2>8
    <3> QED BY <3>1, <3>2, <1>1, <2>3 DEF Told
  <2>9. KeepsItsClients'
    BY <1>1, <2>2, <2>7 DEF KeepsItsClients
  <2>10. Remembered'
    BY <1>1, <1>2, <1>4, <2>1, <2>2, <2>3 DEF Remembered, Listed
  <2> QED BY <1>1, <2>4, <2>5, <2>6, <2>8, <2>9, <2>10
<1> QED BY <1>5, <1>6 DEF CloseClient, listVars, g

\* Stop empties the list; a message left behind names a session that was listed.
LEMMA HStopReturns == HInv /\ StopReturns => HInv'
<1> SUFFICES ASSUME HInv, StopReturns PROVE HInv'
  OBVIOUS
<1> USE DEF HInv, HTypes
<1>1. /\ list' = <<>> /\ backlog' = <<>>
      /\ object' = [n \in Conn |-> IF Contains(list, n) THEN "deleted" ELSE object[n]]
      /\ sock' = [n \in Conn |-> IF Contains(list, n) THEN "none" ELSE sock[n]]
      /\ stale' = (stale \/ \E n \in ToSet(list) : IsWaiting("READ", n) \/ IsWaiting("CLOSE", n))
      /\ UNCHANGED <<winsock, messages, peer, starts>>
  BY DEF StopReturns
<1>2. /\ Len(list') = 0 /\ Len(backlog') = 0
      /\ list' \in Seq(Conn) /\ backlog' \in Seq(Conn)
  BY <1>1
<1>3. \A n \in Conn :
        /\ object'[n] = IF Contains(list, n) THEN "deleted" ELSE object[n]
        /\ sock'[n] = "none"
  BY <1>1 DEF Listed
<1>4. HTypes'
  BY <1>1, <1>2
<1>5. \A n : ~Contains(list', n) /\ ~Contains(backlog', n)
  BY <1>2 DEF Contains
<1>6. Distinct(list') /\ Distinct(backlog')
  BY <1>2 DEF Distinct
<1>7. \A n \in Conn : object'[n] = "live" => object[n] = "live" /\ ~Contains(list, n)
  BY <1>3
<1>8. Waiting'
  BY <1>1, <1>3, <1>5, <1>6 DEF Waiting, Listed
<1>9. Listed'
  BY <1>3, <1>5, <1>6 DEF Listed
<1>10. ASSUME ~stale' PROVE \A i \in 1..Len(messages) : messages[i].event # "CLOSE"
  <2>1. ASSUME NEW i \in 1..Len(messages), messages[i].event = "CLOSE" PROVE FALSE
    <3>1. messages[i].n \in Conn /\ sock[messages[i].n] # "none"
      BY <1>1, <1>10, <2>1 DEF Told
    <3>2. messages[i].n \in ToSet(list)
      BY <3>1, ToSetContains DEF Listed
    <3> QED BY <1>1, <1>10, <2>1, <3>2 DEF IsWaiting
  <2> QED BY <2>1
<1>11. ~stale' => Told(messages', sock', peer')
  BY <1>1, <1>10 DEF Told
<1>12. KeepsItsClients' /\ Remembered'
  BY <1>1, <1>5, <1>7 DEF KeepsItsClients, Remembered
<1> QED BY <1>4, <1>8, <1>9, <1>11, <1>12

LEMMA HStart == HInv /\ Start => HInv'
<1> SUFFICES ASSUME HInv, Start PROVE HInv'
  OBVIOUS
<1> USE DEF HInv
<1>0. UNCHANGED <<messages, peer, list, sock, object, stale>> /\ starts' = starts + 1
  BY DEF Start, listVars
<1>1. CASE UNCHANGED <<winsock, backlog>>
  <2>1. HTypes'
    BY <1>0, <1>1 DEF HTypes
  <2>2. Waiting' /\ Listed'
    BY <1>0, <1>1 DEF Waiting, Listed
  <2>3. KeepsItsClients' /\ Remembered' /\ (~stale' => Told(messages', sock', peer'))
    BY <1>0, <1>1 DEF KeepsItsClients, Remembered
  <2> QED BY <2>1, <2>2, <2>3
<1>2. CASE winsock' = FALSE /\ backlog' = <<>>
  <2>1. backlog' \in Seq(Conn) /\ Len(backlog') = 0
    BY <1>2
  <2>2. HTypes'
    <3> USE DEF HTypes
    <3>1. /\ list' \in Seq(Conn)
          /\ sock' \in [Conn -> Handles \union {"none"}]
          /\ object' \in [Conn -> {"none", "live", "deleted"}]
      BY <1>0
    <3>2. messages' \in Seq(Msgs)
      BY <1>0
    <3>3. starts' \in Nat /\ peer' \in [Conn -> {"out", "in", "left", "told"}] /\ stale' \in BOOLEAN
      BY <1>0
    <3> QED BY <1>2, <2>1, <3>1, <3>2, <3>3
  <2>3. Waiting'
    BY <1>0, <2>1 DEF Waiting, Distinct, Contains
  <2>4. Listed'
    BY <1>0 DEF Listed
  <2>5. KeepsItsClients' /\ Remembered' /\ (~stale' => Told(messages', sock', peer'))
    BY <1>0, <1>2 DEF KeepsItsClients, Remembered
  <2> QED BY <2>2, <2>3, <2>4, <2>5
<1> QED BY <1>1, <1>2 DEF Start

LEMMA HNext == HInv /\ [Next]_vars => HInv'
<1> SUFFICES ASSUME HInv, [Next]_vars PROVE HInv'
  OBVIOUS
<1>1. CASE Stop \/ TCThread
  <2>1. UNCHANGED hvars
    BY <1>1 DEF Stop, TCThread, FrameBegins, WalkBegins, WalkGoesOn, ThreadEnds, hvars, osVars, listVars
  <2> QED BY <2>1, HUnchanged
<1>2. CASE UNCHANGED vars
  <2>1. UNCHANGED hvars
    BY <1>2 DEF vars, hvars, osVars, listVars
  <2> QED BY <2>1, HUnchanged
<1> QED BY <1>1, <1>2, HClientConnects, HClientSends, HClientLeaves, HPostClose, HAccept,
           HReceiveData, HCloseClient, HStopReturns, HStart DEF Next, WindowThread

\* ServerManager::CloseClient finds the session of a message by its handle
\* alone; still, no session is closed while its client is there, unless Stop
\* left messages behind or WSACleanup was called.
THEOREM KeepsItsClientsHolds == Spec => []KeepsItsClients
<1>1. HInv => KeepsItsClients
  BY DEF HInv
<1> QED BY <1>1, HInit, HNext, PTL DEF Spec

\* A session whose client's FD_CLOSE was posted is removed from m_SocketList by a
\* message still in the queue, which names the session's own handle.
THEOREM NoneForgottenHolds == Spec => []NoneForgotten
<1>1. ASSUME HInv PROVE NoneForgotten
  <2>1. \A n : n \in ToSet(list) <=> Contains(list, n)
    BY <1>1, ToSetContains DEF HInv, HTypes
  <2>2. \A n \in ToSet(list) : n \in Conn
    BY <1>1, <2>1 DEF HInv, HTypes, Contains
  <2> QED BY <1>1, <2>1, <2>2 DEF HInv, Remembered, CloseComes, NoneForgotten
<1> QED BY <1>1, HInit, HNext, PTL DEF Spec
-----------------------------------------------------------------------------
(* Types *)

\* What the two invariants above leave open.
OtherTypes ==
  /\ winsock \in BOOLEAN /\ listening \in BOOLEAN /\ stopping \in BOOLEAN /\ alive \in BOOLEAN /\ torn \in BOOLEAN
  /\ starts \in 0..MaxStarts
  /\ tc \in {"ended", "running", "lost"}
  /\ units \in 0..Units
  /\ through \subseteq Conn /\ visited \subseteq Conn

LEMMA OtherTypesInit == Init => OtherTypes
<1> SUFFICES ASSUME Init PROVE OtherTypes
  OBVIOUS
<1>1. 0 \in 0..MaxStarts /\ 0 \in 0..Units
  BY LifeAssumption
<1>2. starts = 0 /\ units = 0 /\ tc = "ended" /\ through = {} /\ visited = {}
  BY DEF Init
<1>3. winsock = TRUE /\ listening = FALSE /\ stopping = FALSE /\ alive = FALSE /\ torn = FALSE
  BY DEF Init
<1> QED BY <1>1, <1>2, <1>3 DEF OtherTypes

LEMMA OtherTypesNext == LInv /\ LInv' /\ OtherTypes /\ [Next]_vars => OtherTypes'
<1> SUFFICES ASSUME LInv, LInv', OtherTypes, [Next]_vars PROVE OtherTypes'
  OBVIOUS
<1> USE DEF OtherTypes, walkVars, osVars
<1>1. item' \in Conn \union {0}
  BY DEF LInv, Types
<1>2. CASE ClientConnects \/ ClientSends \/ ClientLeaves \/ PostClose \/ Accept \/ ReceiveData
  BY <1>2 DEF ClientConnects, ClientSends, ClientLeaves, PostClose, Accept, ReceiveData
<1>3. CASE CloseClient
  BY <1>3 DEF CloseClient
<1>4. CASE StopReturns
  BY <1>4 DEF StopReturns
<1>5. CASE Start
  <2>1. starts' \in 0..MaxStarts
    BY <1>5, LifeAssumption DEF Start
  <2>2. winsock' \in BOOLEAN /\ listening' \in BOOLEAN /\ alive' \in BOOLEAN
    BY <1>5 DEF Start, osVars
  <2>3. tc' \in {"ended", "running", "lost"}
    BY <1>5 DEF Start
  <2> QED BY <2>1, <2>2, <2>3, <1>5 DEF Start
<1>6. CASE Stop
  BY <1>6 DEF Stop
<1>7. CASE FrameBegins
  BY <1>7, LifeAssumption DEF FrameBegins
<1>8. CASE WalkBegins
  <2>1. ToSet(list) \subseteq Conn
    BY DEF LInv, Types, ToSet
  <2>2. units' \in 0..Units
    BY <1>8, LifeAssumption DEF WalkBegins
  <2> QED BY <1>1, <1>8, <2>1, <2>2 DEF WalkBegins
<1>9. CASE WalkGoesOn
  BY <1>1, <1>9 DEF WalkGoesOn
<1>10. CASE ThreadEnds
  BY <1>10 DEF ThreadEnds
<1>11. CASE UNCHANGED vars
  BY <1>11 DEF vars
<1> QED BY <1>2, <1>3, <1>4, <1>5, <1>6, <1>7, <1>8, <1>9, <1>10, <1>11
        DEF Next, WindowThread, TCThread

\* ServerManager: the types; and a listed session's handle is its own, so that
\* CloseClient can find no other by it.
THEOREM TypeCorrect == Spec => []TypeOK
<1>1. ASSUME HInv, LInv, OtherTypes PROVE TypeOK
  <2>1. \A n : n \in ToSet(list) <=> Contains(list, n)
    BY <1>1, ToSetContains DEF HInv, HTypes
  <2>2. \A n \in ToSet(list) : n \in Conn
    BY <1>1, <2>1 DEF HInv, HTypes, Contains
  <2>3. ASSUME NEW n \in ToSet(list) PROVE sock[n] # "none" /\ Found(sock[n]) = {n}
    BY <1>1, <2>1, <2>2 DEF HInv, Listed, Found
  <2>4. /\ {winsock, listening, stopping, alive, torn, stale} \subseteq BOOLEAN
        /\ starts \in 0..MaxStarts
        /\ tc \in {"ended", "running", "lost"} /\ units \in 0..Units
        /\ through \subseteq Conn /\ visited \subseteq Conn
    BY <1>1 DEF HInv, HTypes, OtherTypes
  <2>5. /\ backlog \in Seq(Conn) /\ list \in Seq(Conn)
        /\ sock \in [Conn -> Handles \union {"none"}]
        /\ object \in [Conn -> {"none", "live", "deleted"}]
        /\ peer \in [Conn -> {"out", "in", "left", "told"}]
    BY <1>1 DEF HInv, HTypes
  <2>6. messages \in Seq(Msgs)
    BY <1>1 DEF HInv, HTypes
  <2>7. item \in Conn \union {0}
    BY <1>1 DEF LInv, Types
  <2> QED BY <2>3, <2>4, <2>5, <2>6, <2>7 DEF TypeOK, Msgs
<1> QED BY <1>1, HInit, HNext, InitLInv, NextLInv, OtherTypesInit, OtherTypesNext, PTL DEF Spec
-----------------------------------------------------------------------------
(* The walk *)

\* The walk stands at place p of list l: who was listed when it began and is not
\* visited comes after p.
StandsAt(p, l, it, th, vis) ==
  /\ l[p] = it
  /\ \A n \in th : n \in vis \/ \E q \in 1..Len(l) : q > p /\ l[q] = n

Walk(l, it, th, vis) ==
  IF it = 0 THEN th \subseteq vis
  ELSE \E p \in 1..Len(l) : StandsAt(p, l, it, th, vis)

UInv == ~torn => Walk(list, item, through, visited)

LEMMA WalkInit == Init => UInv
BY DEF Init, UInv, Walk

\* A session that comes stands at the end.
LEMMA WalkAccept == HInv /\ LInv /\ UInv /\ Accept => UInv'
<1> SUFFICES ASSUME HInv, LInv, UInv, Accept, ~torn' PROVE Walk(list', item', through', visited')
  BY DEF UInv
<1>1. UNCHANGED <<item, through, visited, torn>> /\ Walk(list, item, through, visited)
  BY DEF Accept, walkVars, UInv
<1>2. CASE item = 0 \/ list' = list
  BY <1>1, <1>2 DEF Walk
<1>3. ASSUME item # 0, NEW n \in Conn, list' = Append(list, n)
      PROVE  Walk(list', item', through', visited')
  <2>1. PICK p \in 1..Len(list) : StandsAt(p, list, item, through, visited)
    BY <1>1, <1>3 DEF Walk
  <2>2. /\ \A q \in 1..Len(list) : q \in 1..Len(list') /\ list'[q] = list[q]
    BY <1>3, AppendContains DEF HInv, HTypes
  <2>3. StandsAt(p, list', item, through, visited) /\ p \in 1..Len(list')
    BY <2>1, <2>2 DEF StandsAt
  <2> QED BY <1>1, <1>3, <2>3 DEF Walk
<1>4. list' = list \/ \E n \in Conn : list' = Append(list, n)
  <2>1. backlog # <<>> => Head(backlog) \in Conn
    BY DEF HInv, HTypes
  <2> QED BY <2>1 DEF Accept, listVars
<1> QED BY <1>2, <1>3, <1>4

\* A session that goes takes no other's place; the one the walk stands on is
\* another, or the walk is torn.
LEMMA WalkCloseClient == HInv /\ LInv /\ UInv /\ CloseClient => UInv'
<1> SUFFICES ASSUME HInv, LInv, UInv, CloseClient, ~torn' PROVE Walk(list', item', through', visited')
  BY DEF UInv
<1>1. UNCHANGED <<item, visited>>
  BY DEF CloseClient, walkVars
<1>2. CASE UNCHANGED <<list, through, torn>>
  BY <1>1, <1>2 DEF UInv
<1>3. ASSUME NEW n \in Found(Head(messages).handle), Erase(n),
             through' = through \ {n}, torn' = (torn \/ item = n)
      PROVE  Walk(list', item', through', visited')
  <2>1. list \in Seq(Conn) /\ Distinct(list) /\ Len(list) \in Nat
    BY DEF HInv, HTypes, Listed
  <2>2. PICK k \in 1..Len(list) : list[k] = n /\ list' = RemoveAt(list, k)
    <3>1. Contains(list, n)
      BY <2>1, ToSetContains DEF Found
    <3> QED BY <1>3, <3>1, PlaceInList DEF Erase
  <2>3. /\ Len(list') = Len(list) - 1
        /\ \A i \in 1..(Len(list) - 1) : list'[i] = IF i < k THEN list[i] ELSE list[i + 1]
    BY <2>1, <2>2, RemoveAtIndex
  <2>4. item # n /\ Walk(list, item, through, visited)
    BY <1>3 DEF UInv
  <2>5. CASE item = 0
    BY <1>1, <1>3, <2>4, <2>5 DEF Walk
  <2>6. CASE item # 0
    <3>1. PICK p \in 1..Len(list) : StandsAt(p, list, item, through, visited)
      BY <2>4, <2>6 DEF Walk
    <3> DEFINE at(i) == IF i < k THEN i ELSE i - 1
    <3>2. ASSUME NEW i \in 1..Len(list), i # k
          PROVE  at(i) \in 1..Len(list') /\ list'[at(i)] = list[i]
      <4>1. CASE i < k
        BY <2>1, <2>3, <4>1
      <4>2. CASE i > k
        <5>1. i - 1 \in 1..(Len(list) - 1) /\ ~(i - 1 < k) /\ (i - 1) + 1 = i
          BY <2>1, <4>2
        <5> QED BY <2>3, <4>2, <5>1
      <4> QED BY <3>2, <4>1, <4>2
    <3>3. ASSUME NEW i \in 1..Len(list), NEW j \in 1..Len(list), i # k, j # k, i > j
          PROVE  at(i) > at(j)
      BY <3>3
    <3> HIDE DEF at
    <3>4. p # k
      BY <2>2, <2>4, <3>1 DEF StandsAt
    <3>5. ASSUME NEW m \in through', m \notin visited
          PROVE  \E q \in 1..Len(list') : q > at(p) /\ list'[q] = m
      <4>1. PICK q \in 1..Len(list) : q > p /\ list[q] = m
        BY <1>3, <3>1, <3>5 DEF StandsAt
      <4>2. q # k
        BY <1>3, <2>2, <3>5, <4>1
      <4> QED BY <3>2, <3>3, <3>4, <4>1, <4>2
    <3>6. StandsAt(at(p), list', item, through', visited) /\ at(p) \in 1..Len(list')
      BY <3>1, <3>2, <3>4, <3>5 DEF StandsAt
    <3> QED BY <1>1, <2>6, <3>6 DEF Walk
  <2> QED BY <2>5, <2>6
<1> QED BY <1>2, <1>3 DEF CloseClient, listVars

\* A walk begins with who is listed.
LEMMA WalkWalkBegins == HInv /\ LInv /\ UInv /\ WalkBegins => UInv'
<1> SUFFICES ASSUME HInv, LInv, UInv, WalkBegins PROVE Walk(list', item', through', visited')
  BY DEF UInv
<1>1. /\ list' = list /\ item' = (IF list = <<>> THEN 0 ELSE Head(list))
      /\ visited' = {item'} \ {0} /\ through' = ToSet(list)
      /\ list \in Seq(Conn)
  BY DEF WalkBegins, listVars, HInv, HTypes
<1>2. CASE list = <<>>
  <2>1. through' = {}
    BY <1>1, <1>2 DEF ToSet
  <2> QED BY <1>1, <1>2, <2>1 DEF Walk
<1>3. CASE list # <<>>
  <2>1. item' = list[1] /\ 1 \in 1..Len(list) /\ list[1] \in Conn /\ 0 \notin Conn
    <3>1. Head(list) = list[1] /\ 1 \in 1..Len(list)
      BY <1>1, <1>3
    <3>2. 0 \notin Conn
      BY DEF Conn
    <3> QED BY <1>1, <1>3, <3>1, <3>2
  <2>2. visited' = {list[1]} /\ item' # 0
    BY <1>1, <2>1
  <2>3. ASSUME NEW n \in through', n \notin visited'
        PROVE  \E q \in 1..Len(list) : q > 1 /\ list[q] = n
    <3>1. PICK q \in 1..Len(list) : list[q] = n
      BY <1>1, <2>3, ToSetContains DEF Contains
    <3> QED BY <2>2, <2>3, <3>1
  <2>4. StandsAt(1, list', item', through', visited')
    BY <1>1, <2>1, <2>3 DEF StandsAt
  <2> QED BY <1>1, <2>1, <2>2, <2>4 DEF Walk
<1> QED BY <1>2, <1>3

\* It goes on to the next place, or ends behind the last.
LEMMA WalkWalkGoesOn == HInv /\ LInv /\ UInv /\ WalkGoesOn => UInv'
<1> SUFFICES ASSUME HInv, LInv, UInv, WalkGoesOn, ~torn' PROVE Walk(list', item', through', visited')
  BY DEF UInv
<1>1. /\ item # 0 /\ UNCHANGED <<list, through, torn>>
      /\ visited' = visited \union ({item'} \ {0})
      /\ list \in Seq(Conn) /\ Distinct(list) /\ Len(list) \in Nat /\ 0 \notin Conn
  BY DEF WalkGoesOn, listVars, HInv, HTypes, Listed, Conn
<1>2. PICK p \in 1..Len(list) : StandsAt(p, list, item, through, visited)
  BY <1>1 DEF UInv, Walk
<1>3. Contains(list, item) /\ Place(item) = p
  <2>1. Contains(list, item) /\ list[p] = item
    BY <1>2 DEF StandsAt, Contains
  <2> QED BY <1>1, <2>1, PlaceInList DEF Distinct
<1>4. item' = (IF p < Len(list) THEN list[p + 1] ELSE 0)
  BY <1>3 DEF WalkGoesOn, After
<1>5. CASE p < Len(list)
  <2>1. p + 1 \in 1..Len(list) /\ item' = list[p + 1] /\ item' # 0 /\ item' \in visited'
    BY <1>1, <1>4, <1>5
  <2>2. ASSUME NEW n \in through, n \notin visited'
        PROVE  \E q \in 1..Len(list) : q > p + 1 /\ list[q] = n
    <3>1. PICK q \in 1..Len(list) : q > p /\ list[q] = n
      BY <1>1, <1>2, <2>2 DEF StandsAt
    <3>2. q # p + 1
      BY <2>1, <2>2, <3>1
    <3> QED BY <3>1, <3>2
  <2>3. StandsAt(p + 1, list, item', through, visited')
    BY <2>1, <2>2 DEF StandsAt
  <2> QED BY <1>1, <2>1, <2>3 DEF Walk
<1>6. CASE ~(p < Len(list))
  <2>1. \A q \in 1..Len(list) : ~(q > p)
    BY <1>1, <1>6
  <2>2. through \subseteq visited
    BY <1>2, <2>1 DEF StandsAt
  <2> QED BY <1>1, <1>4, <1>6, <2>2 DEF Walk
<1> QED BY <1>5, <1>6

LEMMA WalkNext == HInv /\ LInv /\ UInv /\ [Next]_vars => UInv'
<1> SUFFICES ASSUME HInv, LInv, UInv, [Next]_vars PROVE UInv'
  OBVIOUS
<1> DEFINE same == UNCHANGED <<list, item, through, visited, torn>>
<1>1. CASE same
  BY <1>1 DEF UInv
<1>2. CASE ClientConnects \/ ClientSends \/ ClientLeaves \/ PostClose \/ ReceiveData
  <2>1. same
    BY <1>2 DEF ClientConnects, ClientSends, ClientLeaves, PostClose, ReceiveData, listVars, walkVars
  <2> QED BY <1>1, <2>1
<1>3. CASE Start \/ Stop \/ FrameBegins \/ ThreadEnds \/ UNCHANGED vars
  <2>1. same
    BY <1>3 DEF Start, Stop, FrameBegins, ThreadEnds, vars, listVars, walkVars
  <2> QED BY <1>1, <2>1
<1>4. CASE StopReturns
  <2>1. item = 0 /\ UNCHANGED <<item, through, visited, torn>>
    BY <1>4 DEF StopReturns, walkVars, LInv, OnlyWhenRunning
  <2> QED BY <2>1 DEF UInv, Walk
<1> QED BY <1>2, <1>3, <1>4, WalkAccept, WalkCloseClient, WalkWalkBegins, WalkWalkGoesOn
        DEF Next, WindowThread, TCThread

\* StreamingCtrl's units go to every session that stays in m_SocketList during
\* the walk, though sessions come and go around it with no lock, unless the very
\* element the iterator stands on is erased.
THEOREM UnitReachesAllHolds == Spec => []UnitReachesAll
<1>1. UInv => UnitReachesAll
  BY DEF UInv, Walk, UnitReachesAll
<1> QED BY <1>1, HInit, HNext, InitLInv, NextLInv, WalkInit, WalkNext, PTL DEF Spec
=============================================================================
