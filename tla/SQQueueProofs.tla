--------------------------- MODULE SQQueueProofs ---------------------------
(***************************************************************************)
(* For every capacity: the ring with its two indices and its count keeps   *)
(* its types and implements a bounded first-in first-out queue.  Then, for *)
(* every number of producers too, the same ring as its threads use it      *)
(* (SQQueueThreads): its count is never negative, and it is still a queue  *)
(* while no two calls of Add and no two updates of the count overlap.      *)
(***************************************************************************)
EXTENDS SQQueue, SQQueueThreads, TLAPS

Contents == Packets \union {Nothing}

-----------------------------------------------------------------------------
(* Arithmetic of the ring *)

\* One turn of the ring at most is taken away by % Units.
LEMMA ModOnce ==
  ASSUME NEW a \in Nat, a < 2 * Units
  PROVE  a % Units = (IF a < Units THEN a ELSE a - Units) /\ a % Units \in Slots
<1> USE RingAssumption
<1>1. CASE a < Units
  BY <1>1 DEF Slots
<1>2. CASE Units <= a
  <2>1. a % Units = a - Units
    BY <1>2
  <2> QED
    BY <1>2, <2>1 DEF Slots
<1> QED
  BY <1>1, <1>2

LEMMA FollowingValue ==
  ASSUME NEW i \in Slots
  PROVE  Following(i) = (IF i + 1 = Units THEN 0 ELSE i + 1) /\ Following(i) \in Slots
<1> DEFINE a == i + 1
<1>1. a \in Nat /\ a < 2 * Units /\ a <= Units /\ Units \in Nat
  BY RingAssumption DEF Slots
<1>2. Following(i) = a % Units
  BY DEF Following
<1> HIDE DEF a
<1>3. a % Units = (IF a < Units THEN a ELSE a - Units) /\ a % Units \in Slots
  BY <1>1, ModOnce
<1>4. Following(i) = (IF a = Units THEN 0 ELSE a) /\ Following(i) \in Slots
  BY <1>1, <1>2, <1>3
<1> QED
  BY <1>4 DEF a

LEMMA RingPosition ==
  ASSUME NEW r \in Slots, NEW i \in 0 .. Units
  PROVE  /\ r + i < Units => (r + i) % Units = r + i
         /\ r + i >= Units => (r + i) % Units = (r + i) - Units
         /\ (r + i) % Units \in Slots
<1> DEFINE a == r + i
<1>1. a \in Nat /\ a < 2 * Units /\ Units \in Nat
  BY RingAssumption DEF Slots
<1> HIDE DEF a
<1>2. /\ a < Units => a % Units = a
      /\ a >= Units => a % Units = a - Units
      /\ a % Units \in Slots
  BY <1>1, ModOnce
<1> QED
  BY <1>2, Zenon DEF a

LEMMA SlotValue ==
  ASSUME NEW r \in Slots, NEW i \in 0 .. Units
  PROVE  /\ r + i < Units => Slot(r, i) = r + i
         /\ r + i >= Units => Slot(r, i) = (r + i) - Units
         /\ Slot(r, i) \in Slots
BY RingPosition, Zenon DEF Slot

(***************************************************************************)
(* The inductive invariant: the write index is the read index plus the     *)
(* count, modulo the ring.                                                 *)
(***************************************************************************)
IndicesAgree == writeIndex = Slot(readIndex, frameCount)

IInv == TypeOK /\ IndicesAgree

\* The state after a step is well typed.
LEMMA TypeStep == TypeOK /\ [Next]_vars => TypeOK'
<1> SUFFICES ASSUME TypeOK, [Next]_vars PROVE TypeOK'
  OBVIOUS
<1> USE RingAssumption DEF TypeOK
<1>0. Following(readIndex) \in Slots /\ Following(writeIndex) \in Slots
  BY FollowingValue
<1>1. ASSUME NEW p \in Packets, Add(p) PROVE TypeOK'
  <2>1. CASE IsFull \/ p \notin Fitting
    BY <1>1, <2>1 DEF Add, ringVars
  <2>2. CASE ~IsFull /\ p \in Fitting
    <3>1. frameCount' \in 0 .. Units
      BY <1>1, <2>2 DEF Add, IsFull
    <3>2. items' \in [Slots -> Packets \union {Nothing}] /\ writeIndex' \in Slots
      BY <1>0, <1>1, <2>2 DEF Add
    <3>3. result' = TRUE /\ UNCHANGED <<readIndex, tmp, bufIndex, handed>>
      BY <1>1, <2>2 DEF Add
    <3> QED
      BY <3>1, <3>2, <3>3
  <2> QED
    BY <2>1, <2>2
<1>2. CASE GetNext
  <2>1. frameCount' \in 0 .. Units
    BY <1>2 DEF GetNext, IsEmpty
  <2>2. bufIndex' \in {0, 1}
    BY <1>2 DEF GetNext, OtherBuffer
  <2>3. items[readIndex] \in Packets \union {Nothing}
    OBVIOUS
  <2>4. tmp' \in [{0, 1} -> Packets \union {Nothing}]
    BY <1>2, <2>3 DEF GetNext
  <2>5. readIndex' \in Slots
    BY <1>0, <1>2 DEF GetNext
  <2>6. result' \in Packets \union {Nothing} \union BOOLEAN
    BY <1>2, <2>3 DEF GetNext
  <2>7. handed' = <<tmp'[bufIndex], handed[1]>> /\ UNCHANGED <<items, writeIndex>>
    BY <1>2 DEF GetNext
  <2>8. handed' \in (Packets \union {Nothing}) \X (Packets \union {Nothing})
    BY <2>4, <2>7
  <2> QED
    BY <2>1, <2>2, <2>4, <2>5, <2>6, <2>7, <2>8
<1>3. CASE Reset
  BY <1>3 DEF Reset, Slots
<1>4. CASE UNCHANGED vars
  BY <1>4 DEF vars, ringVars
<1> QED
  BY <1>1, <1>2, <1>3, <1>4 DEF Next

\* The indices stay in step with the count.
LEMMA IndicesStep == TypeOK /\ IndicesAgree /\ [Next]_vars => IndicesAgree'
<1> SUFFICES ASSUME TypeOK, IndicesAgree, [Next]_vars PROVE writeIndex' = Slot(readIndex, frameCount)'
  BY DEF IndicesAgree
<1> USE RingAssumption
<1>0. TypeOK'
  BY TypeStep
<1>d. readIndex' \in Slots /\ frameCount' \in 0 .. Units
  BY <1>0 DEF TypeOK
<1>a. /\ readIndex \in Slots /\ writeIndex \in Slots /\ frameCount \in 0 .. Units
      /\ readIndex' \in Slots /\ frameCount' \in 0 .. Units
      /\ writeIndex = Slot(readIndex, frameCount)
  BY <1>0 DEF TypeOK, IndicesAgree
<1>t. /\ readIndex \in Slots /\ writeIndex \in Slots /\ frameCount \in 0 .. Units
      /\ readIndex' \in Slots /\ frameCount' \in 0 .. Units
  BY <1>0 DEF TypeOK
<1>b. /\ readIndex + frameCount < Units => writeIndex = readIndex + frameCount
      /\ readIndex + frameCount >= Units => writeIndex = (readIndex + frameCount) - Units
  BY <1>a, SlotValue, Zenon
<1>c. /\ readIndex' + frameCount' < Units => Slot(readIndex, frameCount)' = readIndex' + frameCount'
      /\ readIndex' + frameCount' >= Units => Slot(readIndex, frameCount)' = (readIndex' + frameCount') - Units
  BY <1>d, RingPosition, Zenon DEF Slot
<1>1. ASSUME NEW p \in Packets, Add(p) PROVE writeIndex' = Slot(readIndex, frameCount)'
  <2>1. CASE UNCHANGED ringVars
    BY <1>a, <2>1 DEF ringVars, Slot
  <2>2. CASE /\ writeIndex' = Following(writeIndex) /\ frameCount' = frameCount + 1
             /\ readIndex' = readIndex
    <3>1. writeIndex' = (IF writeIndex + 1 = Units THEN 0 ELSE writeIndex + 1)
      BY <1>a, <2>2, FollowingValue
    <3>2. \/ /\ readIndex' + frameCount' < Units
             /\ writeIndex' = readIndex' + frameCount'
          \/ /\ readIndex' + frameCount' >= Units
             /\ writeIndex' = (readIndex' + frameCount') - Units
      BY <1>t, <1>b, <2>2, <3>1, RingAssumption DEF Slots
    <3> QED
      BY <1>c, <3>2, Zenon
  <2> QED
    BY <1>1, <2>1, <2>2 DEF Add
<1>2. CASE GetNext
  <2>1. CASE UNCHANGED <<readIndex, frameCount, writeIndex>>
    BY <1>a, <2>1 DEF Slot
  <2>2. CASE /\ readIndex' = Following(readIndex) /\ frameCount' = frameCount - 1
             /\ writeIndex' = writeIndex
    <3>1. readIndex' = (IF readIndex + 1 = Units THEN 0 ELSE readIndex + 1)
      BY <1>a, <2>2, FollowingValue
    <3>2. \/ /\ readIndex' + frameCount' < Units
             /\ writeIndex' = readIndex' + frameCount'
          \/ /\ readIndex' + frameCount' >= Units
             /\ writeIndex' = (readIndex' + frameCount') - Units
      BY <1>t, <1>b, <2>2, <3>1, RingAssumption DEF Slots
    <3> QED
      BY <1>c, <3>2, Zenon
  <2> QED
    BY <1>2, <2>1, <2>2 DEF GetNext
<1>3. CASE Reset
  <2>1. readIndex' = 0 /\ writeIndex' = 0 /\ frameCount' = 0
    BY <1>3 DEF Reset
  <2> QED
    BY <1>c, <2>1
<1>4. CASE UNCHANGED vars
  BY <1>4, <1>a DEF vars, ringVars, Slot
<1> QED
  BY <1>1, <1>2, <1>3, <1>4 DEF Next
-----------------------------------------------------------------------------
(* The content of the ring *)

\* Two packets of the queue never share a slot.
LEMMA SlotsDiffer ==
  ASSUME NEW r \in Slots, NEW i \in 0 .. Units - 1, NEW j \in 0 .. Units - 1, i # j
  PROVE  Slot(r, i) # Slot(r, j)
<1> DEFINE s == Slot(r, i)
           t == Slot(r, j)
<1>1. i \in 0 .. Units /\ j \in 0 .. Units
  BY RingAssumption
<1>2. /\ r + i < Units => s = r + i
      /\ r + i >= Units => s = (r + i) - Units
      /\ r + j < Units => t = r + j
      /\ r + j >= Units => t = (r + j) - Units
  BY <1>1, SlotValue, Zenon
<1> HIDE DEF s, t
<1>3. s # t
  BY <1>2, RingAssumption DEF Slots
<1> QED
  BY <1>3, Zenon DEF s, t

\* One slot further, the packets after the first one follow.
LEMMA SlotShift ==
  ASSUME NEW r \in Slots, NEW i \in 0 .. Units - 1
  PROVE  Slot(Following(r), i) = Slot(r, i + 1)
<1> DEFINE f == Following(r)
           s == Slot(f, i)
           t == Slot(r, i + 1)
<1>1. f = (IF r + 1 = Units THEN 0 ELSE r + 1) /\ f \in Slots
  BY FollowingValue
<1>2. i \in 0 .. Units /\ i + 1 \in 0 .. Units
  BY RingAssumption
<1> HIDE DEF f
<1>3. /\ f + i < Units => s = f + i
      /\ f + i >= Units => s = (f + i) - Units
      /\ r + (i + 1) < Units => t = r + (i + 1)
      /\ r + (i + 1) >= Units => t = (r + (i + 1)) - Units
  BY <1>1, <1>2, SlotValue, Zenon
<1> HIDE DEF s, t
<1>4. s = t
  BY <1>1, <1>3, RingAssumption DEF Slots
<1> QED
  BY <1>4, Zenon DEF s, t, f

\* The slot after packet i is that of packet i + 1.
LEMMA SlotNext ==
  ASSUME NEW r \in Slots, NEW i \in 0 .. Units - 1
  PROVE  Following(Slot(r, i)) = Slot(r, i + 1)
<1> DEFINE s == Slot(r, i)
           t == Slot(r, i + 1)
<1>1. i \in 0 .. Units /\ i + 1 \in 0 .. Units
  BY RingAssumption
<1>2. /\ r + i < Units => s = r + i
      /\ r + i >= Units => s = (r + i) - Units
      /\ s \in Slots
      /\ r + (i + 1) < Units => t = r + (i + 1)
      /\ r + (i + 1) >= Units => t = (r + (i + 1)) - Units
  BY <1>1, SlotValue, Zenon
<1> HIDE DEF s, t
<1>3. Following(s) = (IF s + 1 = Units THEN 0 ELSE s + 1)
  BY <1>2, FollowingValue
<1>4. Following(s) = t
  BY <1>2, <1>3, RingAssumption DEF Slots
<1> QED
  BY <1>4, Zenon DEF s, t

LEMMA HeldIsSequence ==
  ASSUME NEW its \in [Slots -> Contents], NEW r \in Slots, NEW n \in 0 .. Units
  PROVE  /\ Held(its, r, n) \in Seq(Contents)
         /\ Len(Held(its, r, n)) = n
         /\ \A i \in 1 .. n : Held(its, r, n)[i] = its[Slot(r, i - 1)]
<1>1. ASSUME NEW i \in 1 .. n PROVE its[Slot(r, i - 1)] \in Contents
  <2>1. i - 1 \in 0 .. Units
    BY RingAssumption
  <2>2. Slot(r, i - 1) \in Slots
    BY <2>1, SlotValue, Zenon
  <2> QED
    BY <2>2, Zenon
<1>2. \A i \in 1 .. n : Held(its, r, n)[i] = its[Slot(r, i - 1)]
  BY Zenon DEF Held
<1> DEFINE h == Held(its, r, n)
<1>3. h \in [1 .. n -> Contents]
  BY <1>1, Zenon DEF Held
<1> HIDE DEF h
<1>4. h \in Seq(Contents) /\ Len(h) = n
  BY <1>3, RingAssumption
<1> QED
  BY <1>2, <1>4, Zenon DEF h

\* An accepted packet goes to the end of the queue and moves no other.
LEMMA HeldAppend ==
  ASSUME NEW its \in [Slots -> Contents], NEW r \in Slots,
         NEW n \in 0 .. Units - 1, NEW p \in Contents
  PROVE  Held([its EXCEPT ![Slot(r, n)] = p], r, n + 1) = Append(Held(its, r, n), p)
<1> DEFINE new == [its EXCEPT ![Slot(r, n)] = p]
           h == Held(its, r, n)
           k == Held(new, r, n + 1)
<1>0. n \in 0 .. Units /\ n + 1 \in 0 .. Units /\ n \in Nat
  BY RingAssumption
<1>1. Slot(r, n) \in Slots
  BY <1>0, SlotValue, Zenon
<1>2. new \in [Slots -> Contents] /\ new[Slot(r, n)] = p
  BY <1>1, Zenon
<1> HIDE DEF new
<1>3. /\ h \in Seq(Contents) /\ Len(h) = n
      /\ k \in Seq(Contents) /\ Len(k) = n + 1
  BY <1>0, <1>2, HeldIsSequence, Zenon
<1>4. ASSUME NEW i \in 1 .. n PROVE k[i] = h[i]
  <2>1. i - 1 \in 0 .. Units - 1 /\ i - 1 \in 0 .. Units /\ i - 1 # n /\ i \in 1 .. n + 1
    BY <1>0, RingAssumption
  <2>2. Slot(r, i - 1) # Slot(r, n) /\ Slot(r, i - 1) \in Slots
    BY <2>1, SlotsDiffer, SlotValue, Zenon
  <2>3. new[Slot(r, i - 1)] = its[Slot(r, i - 1)]
    BY <2>2, Zenon DEF new
  <2>4. k[i] = new[Slot(r, i - 1)] /\ h[i] = its[Slot(r, i - 1)]
    BY <1>0, <1>2, <2>1, HeldIsSequence, Zenon
  <2> QED
    BY <2>3, <2>4, Zenon
<1>5. k[n + 1] = p
  <2>1. n + 1 \in 1 .. n + 1 /\ (n + 1) - 1 = n
    BY <1>0
  <2>2. k[n + 1] = new[Slot(r, (n + 1) - 1)]
    BY <1>0, <1>2, <2>1, HeldIsSequence, Zenon
  <2> QED
    BY <1>2, <2>1, <2>2, Zenon
<1> HIDE DEF h, k
<1>6. k = Append(h, p)
  BY <1>0, <1>3, <1>4, <1>5
<1> QED
  BY <1>6, Zenon DEF h, k, new

\* Taking a packet takes the oldest and leaves the rest in order.
LEMMA HeldTail ==
  ASSUME NEW its \in [Slots -> Contents], NEW r \in Slots, NEW n \in 1 .. Units
  PROVE  /\ Head(Held(its, r, n)) = its[r]
         /\ Held(its, Following(r), n - 1) = Tail(Held(its, r, n))
<1> DEFINE f == Following(r)
           h == Held(its, r, n)
           k == Held(its, f, n - 1)
<1>0. n \in 0 .. Units /\ n - 1 \in 0 .. Units /\ n \in Nat /\ 1 \in 1 .. n /\ f \in Slots
  BY RingAssumption, FollowingValue
<1>1. /\ h \in Seq(Contents) /\ Len(h) = n
      /\ k \in Seq(Contents) /\ Len(k) = n - 1
  BY <1>0, HeldIsSequence, Zenon
<1>2. h[1] = its[r]
  <2>1. 1 - 1 = 0 /\ 0 \in 0 .. Units /\ r + 0 < Units /\ r + 0 = r
    BY RingAssumption DEF Slots
  <2>2. Slot(r, 1 - 1) = r
    BY <2>1, SlotValue, Zenon
  <2>3. h[1] = its[Slot(r, 1 - 1)]
    BY <1>0, HeldIsSequence, Zenon
  <2> QED
    BY <2>2, <2>3, Zenon
<1>3. ASSUME NEW i \in 1 .. n - 1 PROVE k[i] = h[i + 1]
  <2>1. /\ i - 1 \in 0 .. Units - 1 /\ (i - 1) + 1 = (i + 1) - 1 /\ i + 1 \in 1 .. n
    BY <1>0, RingAssumption
  <2>2. Slot(f, i - 1) = Slot(r, (i - 1) + 1)
    BY <2>1, SlotShift, Zenon
  <2>3. k[i] = its[Slot(f, i - 1)] /\ h[i + 1] = its[Slot(r, (i + 1) - 1)]
    BY <1>0, <2>1, HeldIsSequence, Zenon
  <2> QED
    BY <2>1, <2>2, <2>3, Zenon
<1> HIDE DEF h, k
<1>4. Head(h) = its[r] /\ k = Tail(h)
  BY <1>0, <1>1, <1>2, <1>3
<1> QED
  BY <1>4, Zenon DEF h, k, f

LEMMA HeldNone ==
  ASSUME NEW its \in [Slots -> Contents], NEW r \in Slots
  PROVE  Held(its, r, 0) = <<>>
<1> DEFINE h == Held(its, r, 0)
<1>1. h \in Seq(Contents) /\ Len(h) = 0
  <2>1. 0 \in 0 .. Units
    BY RingAssumption
  <2> QED
    BY <2>1, HeldIsSequence, Zenon
<1> HIDE DEF h
<1>2. h = <<>>
  BY <1>1
<1> QED
  BY <1>2, Zenon DEF h
-----------------------------------------------------------------------------
(* Theorems *)

LEMMA TypeInit == Init => TypeOK
<1> SUFFICES ASSUME Init PROVE TypeOK
  OBVIOUS
<1>1. 0 \in Slots /\ 0 \in 0 .. Units
  BY RingAssumption DEF Slots
<1> QED
  BY <1>1 DEF Init, RingInit, TypeOK

LEMMA IndicesInit == Init => IndicesAgree
<1> SUFFICES ASSUME Init PROVE IndicesAgree
  OBVIOUS
<1>1. 0 \in Slots /\ 0 \in 0 .. Units /\ 0 + 0 < Units /\ 0 + 0 = 0
  BY RingAssumption DEF Slots
<1>2. Slot(0, 0) = 0
  BY <1>1, SlotValue, Zenon
<1> QED
  BY <1>2, Zenon DEF Init, RingInit, IndicesAgree

\* Whatever is added, taken or forgotten, the indices stay inside the ring and
\* the count between 0 and its size.
THEOREM TypeCorrect == Spec => []TypeOK
BY TypeInit, TypeStep, PTL DEF Spec

LEMMA IInvHolds == Spec => []IInv
<1>1. Init => IInv
  BY TypeInit, IndicesInit DEF IInv
<1>2. IInv /\ [Next]_vars => IInv'
  BY TypeStep, IndicesStep DEF IInv
<1> QED
  BY <1>1, <1>2, PTL DEF Spec

\* Every call of the ring is the same call of the abstract queue.
LEMMA StepRefines == IInv /\ IInv' /\ [Next]_vars => [FIFO!Next]_FIFO!fifoVars
<1> SUFFICES ASSUME IInv, IInv', [Next]_vars PROVE [FIFO!Next]_FIFO!fifoVars
  OBVIOUS
<1>0. /\ items \in [Slots -> Contents] /\ readIndex \in Slots /\ frameCount \in 0 .. Units
      /\ items' \in [Slots -> Contents] /\ readIndex' \in Slots
      /\ writeIndex = Slot(readIndex, frameCount)
  BY Zenon DEF IInv, TypeOK, IndicesAgree, Contents
<1>1. Content \in Seq(Contents) /\ Len(Content) = frameCount
  BY <1>0, HeldIsSequence, Zenon DEF Content
<1>2. ASSUME NEW p \in Packets, Add(p) PROVE FIFO!Add(p)
  <2>1. CASE ~IsFull /\ p \in Fitting
    <3>1. /\ items' = [items EXCEPT ![writeIndex] = p] /\ readIndex' = readIndex
          /\ frameCount' = frameCount + 1 /\ result' = TRUE
      BY <1>2, <2>1 DEF Add
    <3>2. frameCount < Units /\ frameCount \in 0 .. Units - 1 /\ p \in Contents
      BY <1>0, <2>1, RingAssumption DEF IsFull, Contents
    <3>3. Content' = Append(Content, p)
      <4>1. Held([items EXCEPT ![Slot(readIndex, frameCount)] = p], readIndex, frameCount + 1)
              = Append(Held(items, readIndex, frameCount), p)
        BY <1>0, <3>2, HeldAppend, Zenon
      <4>2. Content' = Held([items EXCEPT ![writeIndex] = p], readIndex, frameCount + 1)
        BY <3>1 DEF Content
      <4> QED
        BY <1>0, <4>1, <4>2, Zenon DEF Content
    <3>4. FIFO!Accepts(p)
      BY <1>1, <2>1, <3>2 DEF FIFO!Accepts
    <3> QED
      BY <3>1, <3>3, <3>4, Zenon DEF FIFO!Add
  <2>2. CASE IsFull \/ p \notin Fitting
    <3>1. Content' = Content /\ result' = FALSE
      BY <1>2, <2>2, Zenon DEF Add, ringVars, Content
    <3>2. FIFO!Accepts(p) = FALSE
      BY <1>0, <1>1, <2>2, RingAssumption DEF FIFO!Accepts, IsFull
    <3> QED
      BY <3>1, <3>2, Zenon DEF FIFO!Add
  <2> QED
    BY <2>1, <2>2
<1>3. CASE GetNext
  <2>1. CASE ~IsEmpty
    <3>1. /\ result' = items[readIndex] /\ readIndex' = Following(readIndex)
          /\ frameCount' = frameCount - 1 /\ items' = items
      BY <1>3, <2>1 DEF GetNext
    <3>2. frameCount \in 1 .. Units
      BY <1>0, <2>1, RingAssumption DEF IsEmpty
    <3>3. Head(Content) = items[readIndex] /\ Content' = Tail(Content)
      BY <1>0, <3>1, <3>2, HeldTail, Zenon DEF Content
    <3>4. Content # <<>>
      BY <1>1, <3>2
    <3>5. FIFO!GetNext
      BY <3>1, <3>3, <3>4, Zenon DEF FIFO!GetNext
    <3> QED
      BY <3>5 DEF FIFO!Next
  <2>2. CASE IsEmpty
    <3>1. result' = Nothing /\ Content' = Content
      BY <1>3, <2>2, Zenon DEF GetNext, Content
    <3>2. Content = <<>>
      BY <1>0, <2>2, HeldNone, Zenon DEF IsEmpty, Content
    <3>3. FIFO!GetNext
      BY <3>1, <3>2, Zenon DEF FIFO!GetNext
    <3> QED
      BY <3>3 DEF FIFO!Next
  <2> QED
    BY <2>1, <2>2
<1>4. CASE Reset
  <2>1. frameCount' = 0 /\ result' = result
    BY <1>4 DEF Reset
  <2>2. Content' = <<>>
    BY <1>0, <2>1, HeldNone, Zenon DEF Content
  <2>3. FIFO!Reset
    BY <2>1, <2>2, Zenon DEF FIFO!Reset
  <2> QED
    BY <2>3 DEF FIFO!Next
<1>5. CASE UNCHANGED vars
  <2>1. Content' = Content /\ result' = result
    BY <1>5, Zenon DEF vars, ringVars, Content
  <2> QED
    BY <2>1, Zenon DEF FIFO!fifoVars
<1> QED
  <2>1. ASSUME NEW p \in Packets, Add(p) PROVE FIFO!Next
    BY <1>2, <2>1 DEF FIFO!Next
  <2> QED
    BY <2>1, <1>3, <1>4, <1>5 DEF Next

\* SQQueue is a bounded first-in first-out queue: no packet that was accepted
\* is lost, repeated or overtaken, and a packet is refused exactly when the
\* queue is full or the packet too large.
THEOREM RefinesFIFO == Spec => ImplementsFIFO
<1>1. Init => FIFO!Init
  <2> SUFFICES ASSUME Init PROVE FIFO!Init
    OBVIOUS
  <2>1. items \in [Slots -> Contents] /\ readIndex \in Slots /\ frameCount = 0 /\ result = Nothing
    BY TypeInit, Zenon DEF Init, RingInit, TypeOK, Contents
  <2>2. Content = <<>>
    BY <2>1, HeldNone, Zenon DEF Content
  <2> QED
    BY <2>1, <2>2, Zenon DEF FIFO!Init
<1> QED
  BY <1>1, IInvHolds, StepRefines, PTL DEF Spec, ImplementsFIFO, FIFO!Spec
-----------------------------------------------------------------------------
(* The two temporary buffers *)

LEMMA HandedNext == TypeOK /\ HandedLivesOnce /\ [Next]_vars => HandedLivesOnce'
<1> SUFFICES ASSUME TypeOK, HandedLivesOnce, [Next]_vars PROVE HandedLivesOnce'
  OBVIOUS
<1>1. ASSUME UNCHANGED <<tmp, bufIndex, handed>> PROVE HandedLivesOnce'
  BY <1>1 DEF HandedLivesOnce
<1>2. CASE GetNext
  <2>1. bufIndex \in {0, 1} /\ tmp \in [{0, 1} -> Contents]
    BY DEF TypeOK, Contents
  <2>2. bufIndex' = 1 - bufIndex
    BY <1>2, <2>1 DEF GetNext, OtherBuffer
  <2>3. tmp'[1 - bufIndex] = tmp[1 - bufIndex]
    BY <1>2, <2>1 DEF GetNext
  <2>4. handed' = <<tmp'[bufIndex], handed[1]>>
    BY <1>2 DEF GetNext
  <2>5. 1 - bufIndex' = bufIndex
    BY <2>1, <2>2
  <2> QED
    BY <2>2, <2>3, <2>4, <2>5 DEF HandedLivesOnce
<1> QED
  BY <1>1, <1>2 DEF Next, Add, Reset, vars, ringVars

\* What GetNext hands out by pointer is intact after one more GetNext
\* (SQQueue::GetNext), whatever is added, refused or forgotten in between.
THEOREM HandedLivesOnceHolds == Spec => []HandedLivesOnce
<1>1. Init => HandedLivesOnce
  BY DEF Init, RingInit, HandedLivesOnce
<1> QED
  BY <1>1, HandedNext, TypeCorrect, PTL DEF Spec
-----------------------------------------------------------------------------
(* The same ring as its threads use it *)

LEMMA ThreadsTypeStep == ThreadsTypeOK /\ [ThreadsNext]_threadsVars => ThreadsTypeOK'
<1> SUFFICES ASSUME ThreadsTypeOK, [ThreadsNext]_threadsVars PROVE ThreadsTypeOK'
  OBVIOUS
<1> USE DEF ThreadsTypeOK, AddLabels, TakeLabels, Goto
<1>0. MaxPackets \in Nat
  BY ThreadsAssumption
<1>a. ASSUME NEW i \in Slots PROVE Following(i) \in Slots
  BY FollowingValue DEF Following
<1>1. ASSUME NEW p \in Producers, AddCheck(p) PROVE ThreadsTypeOK'
  <2>1. calls' \in 0 .. MaxPackets /\ calls' \in Nat
    BY <1>0, <1>1 DEF AddCheck
  <2> QED
    BY <1>1, <2>1 DEF AddCheck, ringVars, takeVars
<1>2. ASSUME NEW p \in Producers, AddInsert(p) PROVE ThreadsTypeOK'
  BY <1>2 DEF AddInsert, takeVars
<1>3. ASSUME NEW p \in Producers, AddLoadIndex(p) PROVE ThreadsTypeOK'
  BY <1>0, <1>3 DEF AddLoadIndex, ringVars, takeVars, history, Slots
<1>4. ASSUME NEW p \in Producers, AddStoreIndex(p) PROVE ThreadsTypeOK'
  <2>1. writeIndex' \in Slots
    <3>1. reg[p] \in Int /\ Units \in Nat \ {0}
      BY RingAssumption
    <3>2. (reg[p] + 1) % Units \in 0 .. Units - 1
      BY <3>1
    <3> QED
      BY <1>4, <3>2 DEF AddStoreIndex, Following, Slots
  <2> QED
    BY <1>0, <1>4, <2>1 DEF AddStoreIndex, takeVars, history
<1>5. ASSUME NEW p \in Producers, AddLoadCount(p) PROVE ThreadsTypeOK'
  BY <1>5 DEF AddLoadCount, ringVars, takeVars, history
<1>6. ASSUME NEW p \in Producers, AddStoreCount(p) PROVE ThreadsTypeOK'
  BY <1>6 DEF AddStoreCount, takeVars
<1>7. CASE TakeCheck
  BY <1>7 DEF TakeCheck, ringVars, addVars, history
<1>8. CASE TakeCopy
  <2>1. items[readIndex] \in Nat \union {Nothing}
    OBVIOUS
  <2>2. Append(taken, items[readIndex]) \in Seq(Nat \union {Nothing})
    BY <2>1
  <2>3. taken' \in Seq(Nat \union {Nothing}) /\ takePc' \in TakeLabels
    BY <1>8, <2>2, Zenon DEF TakeCopy
  <2> QED
    BY <1>8, <2>3, Zenon DEF TakeCopy, ringVars, addVars
<1>9. CASE TakeAdvance
  BY <1>0, <1>a, <1>9 DEF TakeAdvance, addVars, history
<1>10. CASE TakeLoadCount
  BY <1>10 DEF TakeLoadCount, ringVars, addVars, history
<1>11. CASE TakeStoreCount
  BY <1>11 DEF TakeStoreCount, addVars
<1>12. CASE UNCHANGED threadsVars
  BY <1>12 DEF threadsVars, ringVars, addVars, takeVars, history
<1> QED
  BY <1>1, <1>2, <1>3, <1>4, <1>5, <1>6, <1>7, <1>8, <1>9, <1>10, <1>11, <1>12
     DEF ThreadsNext, Producer, Consumer

LEMMA ThreadsTypeInit == ThreadsInit => ThreadsTypeOK
<1> SUFFICES ASSUME ThreadsInit PROVE ThreadsTypeOK
  OBVIOUS
<1>1. /\ 0 \in Slots /\ MaxPackets \in Nat
  BY RingAssumption, ThreadsAssumption DEF Slots
<1> QED
  BY <1>1 DEF ThreadsInit, RingInit, ThreadsTypeOK, AddLabels, TakeLabels

\* However many producers there are and however the threads interleave, the
\* indices stay inside the ring (QBufferManagerEx::Add, GetNext).
THEOREM ThreadsTypeCorrect == ThreadsSpec => []ThreadsTypeOK
<1>1. ThreadsInit => ThreadsTypeOK
  BY ThreadsTypeInit
<1>2. ThreadsTypeOK /\ [ThreadsNext]_threadsVars => ThreadsTypeOK'
  BY ThreadsTypeStep
<1> QED
  BY <1>1, <1>2, PTL DEF ThreadsSpec

(***************************************************************************)
(* The count.  Only the consumer counts down, and it loaded a count that   *)
(* was positive: GetNext is entered with a packet in the ring, and the     *)
(* producers, even with a count that is old, store at least 1.             *)
(***************************************************************************)
CountInv ==
  /\ frameCount >= 0
  /\ \A p \in Producers : pc[p] = "store_count" => reg[p] >= 0
  /\ takePc # "idle" => frameCount >= 1
  /\ takePc = "store_count" => takeReg >= 1

LEMMA CountStep == ThreadsTypeOK /\ CountInv /\ [ThreadsNext]_threadsVars => CountInv'
<1> SUFFICES ASSUME ThreadsTypeOK, CountInv, [ThreadsNext]_threadsVars PROVE CountInv'
  OBVIOUS
<1> USE DEF CountInv, Goto
<1>0. /\ frameCount \in Int /\ takeReg \in Int
      /\ pc \in [Producers -> AddLabels] /\ reg \in [Producers -> Int]
  BY DEF ThreadsTypeOK
<1>1. ASSUME NEW p \in Producers, Producer(p) PROVE CountInv'
  <2>1. CASE AddCheck(p)
    BY <1>0, <2>1 DEF AddCheck, ringVars, takeVars
  <2>2. CASE AddInsert(p)
    BY <1>0, <2>2 DEF AddInsert, takeVars
  <2>3. CASE AddLoadIndex(p)
    BY <1>0, <2>3 DEF AddLoadIndex, ringVars, takeVars
  <2>4. CASE AddStoreIndex(p)
    BY <1>0, <2>4 DEF AddStoreIndex, takeVars
  <2>5. CASE AddLoadCount(p)
    BY <1>0, <2>5 DEF AddLoadCount, ringVars, takeVars
  <2>6. CASE AddStoreCount(p)
    BY <1>0, <2>6 DEF AddStoreCount, takeVars
  <2> QED
    BY <1>1, <2>1, <2>2, <2>3, <2>4, <2>5, <2>6 DEF Producer
<1>2. CASE Consumer
  BY <1>0, <1>2 DEF Consumer, TakeCheck, TakeCopy, TakeAdvance,
     TakeLoadCount, TakeStoreCount, ringVars, addVars
<1>3. CASE UNCHANGED threadsVars
  BY <1>3 DEF threadsVars, ringVars, addVars, takeVars
<1> QED
  BY <1>1, <1>2, <1>3 DEF ThreadsNext

\* Updates of m_lFrameCount get lost, but with one consumer it never goes
\* negative, where IsEmpty would take an empty ring for a filled one.
THEOREM CountNeverNegativeHolds == ThreadsSpec => []CountNeverNegative
<1>1. ThreadsInit => CountInv
  BY DEF ThreadsInit, RingInit, CountInv
<1>2. CountInv => CountNeverNegative
  BY DEF CountInv, CountNeverNegative
<1> QED
  BY <1>1, <1>2, CountStep, ThreadsTypeCorrect, PTL DEF ThreadsSpec

(***************************************************************************)
(* The order.  A ring whose oldest packet lies at r and whose next packet  *)
(* goes to w holds what was added and not taken, oldest first.             *)
(***************************************************************************)
Ring(its, r, w, put, got) ==
  /\ Len(put) - Len(got) \in 0 .. Units
  /\ w = Slot(r, Len(put) - Len(got))
  /\ \A i \in 0 .. Len(put) - Len(got) - 1 : its[Slot(r, i)] = put[Len(got) + 1 + i]
  /\ \A i \in 1 .. Len(got) : got[i] = put[i]

LEMMA RingAdd ==
  ASSUME NEW V, NEW its \in [Slots -> V], NEW r \in Slots, NEW w,
         NEW put \in Seq(Nat), NEW got \in Seq(V), NEW x \in Nat, x \in V,
         Ring(its, r, w, put, got), Len(put) - Len(got) < Units
  PROVE  Ring([its EXCEPT ![w] = x], r, Following(w), Append(put, x), got)
<1> DEFINE m == Len(put) - Len(got)
           new == [its EXCEPT ![w] = x]
           all == Append(put, x)
<1>0. m \in 0 .. Units - 1 /\ m \in 0 .. Units /\ m + 1 \in 0 .. Units /\ Len(got) \in Nat /\ Len(put) \in Nat
  BY RingAssumption DEF Ring
<1>1. w = Slot(r, m) /\ w \in Slots
  BY <1>0, SlotValue, Zenon DEF Ring
<1>2. all \in Seq(Nat) /\ Len(all) - Len(got) = m + 1 /\ Len(all) = Len(put) + 1
      /\ (\A i \in 1 .. Len(put) : all[i] = put[i]) /\ all[Len(put) + 1] = x
  OBVIOUS
<1>3. Following(w) = Slot(r, m + 1)
  BY <1>0, <1>1, SlotNext, Zenon
<1>4. ASSUME NEW i \in 0 .. m PROVE new[Slot(r, i)] = all[Len(got) + 1 + i]
  <2>1. CASE i = m
    <3>1. new[Slot(r, i)] = x
      BY <1>1, <2>1, Zenon
    <3>2. Len(got) + 1 + i = Len(put) + 1
      BY <1>0, <2>1
    <3> QED
      BY <1>2, <3>1, <3>2, Zenon
  <2>2. CASE i # m
    <3>1. i \in 0 .. m - 1 /\ i \in 0 .. Units - 1 /\ i \in 0 .. Units
          /\ Len(got) + 1 + i \in 1 .. Len(put)
      BY <1>0, <2>2, RingAssumption
    <3>2. Slot(r, i) # w /\ Slot(r, i) \in Slots
      BY <1>0, <1>1, <2>2, <3>1, SlotsDiffer, SlotValue, Zenon
    <3>3. new[Slot(r, i)] = its[Slot(r, i)]
      BY <3>2, Zenon
    <3>4. its[Slot(r, i)] = put[Len(got) + 1 + i]
      BY <3>1, Zenon DEF Ring
    <3> QED
      BY <1>2, <3>1, <3>3, <3>4, Zenon
  <2> QED
    BY <2>1, <2>2
<1>5. ASSUME NEW i \in 1 .. Len(got) PROVE got[i] = all[i]
  <2>1. i \in 1 .. Len(put)
    BY <1>0
  <2> QED
    BY <1>2, <2>1, Zenon DEF Ring
<1>6. (m + 1) - 1 = m
  BY <1>0
<1> HIDE DEF m, new, all
<1> QED
  <2>1. Ring(new, r, Following(w), all, got)
    BY <1>0, <1>2, <1>3, <1>4, <1>5, <1>6, Zenon DEF Ring
  <2> QED
    BY <2>1, Zenon DEF new, all

LEMMA RingTake ==
  ASSUME NEW V, NEW its \in [Slots -> V], NEW r \in Slots, NEW w,
         NEW put \in Seq(Nat), NEW got \in Seq(V),
         Ring(its, r, w, put, got), Len(put) - Len(got) > 0
  PROVE  /\ its[r] \in Nat
         /\ Ring(its, Following(r), w, put, Append(got, its[r]))
<1> DEFINE m == Len(put) - Len(got)
           all == Append(got, its[r])
<1>0. /\ m \in 1 .. Units /\ m - 1 \in 0 .. Units - 1 /\ m - 1 \in 0 .. Units /\ (m - 1) + 1 = m
      /\ Len(got) \in Nat /\ Len(put) \in Nat
  BY RingAssumption DEF Ring
<1>1. its[r] = put[Len(got) + 1] /\ its[r] \in Nat
  <2>1. Slot(r, 0) = r
    BY RingAssumption, SlotValue DEF Slots
  <2>2. 0 \in 0 .. m - 1 /\ Len(got) + 1 + 0 = Len(got) + 1 /\ Len(got) + 1 \in 1 .. Len(put)
    BY <1>0
  <2>3. its[Slot(r, 0)] = put[Len(got) + 1 + 0]
    BY <2>2, Zenon DEF Ring
  <2>4. put[Len(got) + 1] \in Nat
    BY <2>2
  <2> QED
    BY <2>1, <2>2, <2>3, <2>4, Zenon
<1>2. all \in Seq(V) /\ Len(put) - Len(all) = m - 1 /\ Len(all) = Len(got) + 1
      /\ (\A i \in 1 .. Len(got) : all[i] = got[i]) /\ all[Len(got) + 1] = its[r]
  OBVIOUS
<1> HIDE DEF all
<1>3. w = Slot(Following(r), m - 1)
  BY <1>0, SlotShift, Zenon DEF Ring
<1>4. ASSUME NEW i \in 0 .. (m - 1) - 1
      PROVE  its[Slot(Following(r), i)] = put[Len(all) + 1 + i]
  <2>1. i \in 0 .. Units - 1 /\ i + 1 \in 0 .. m - 1 /\ Len(all) + 1 + i = Len(got) + 1 + (i + 1)
    BY <1>0, <1>2, RingAssumption
  <2>2. Slot(Following(r), i) = Slot(r, i + 1)
    BY <2>1, SlotShift
  <2> QED
    BY <2>1, <2>2, Zenon DEF Ring
<1>5. ASSUME NEW i \in 1 .. Len(all) PROVE all[i] = put[i]
  <2>1. CASE i = Len(got) + 1
    BY <1>1, <1>2, <2>1, Zenon
  <2>2. CASE i # Len(got) + 1
    <3>1. i \in 1 .. Len(got)
      BY <1>0, <1>2, <2>2
    <3> QED
      BY <1>2, <3>1, Zenon DEF Ring
  <2> QED
    BY <2>1, <2>2
<1> HIDE DEF m
<1> QED
  <2>1. Ring(its, Following(r), w, put, all)
    BY <1>0, <1>2, <1>3, <1>4, <1>5, Zenon DEF Ring
  <2> QED
    BY <1>1, <2>1, Zenon DEF all

\* A producer has copied its packet, and has not counted it, or not moved the
\* write index past it.
Uncounted == \E p \in Producers : pc[p] \in {"load_index", "store_index", "load_count", "store_count"}
Unmoved == \E p \in Producers : pc[p] \in {"load_index", "store_index"}

\* The consumer has copied a packet out and has not counted it.
Uncredited == takePc \in {"advance", "load_count", "store_count"}

ReadFrom == IF takePc = "advance" THEN Following(readIndex) ELSE readIndex
WriteTo == IF Unmoved THEN Following(writeIndex) ELSE writeIndex

Alone == \A p, q \in Producers : pc[p] # "idle" /\ pc[q] # "idle" => p = q

Counted ==
  frameCount = Len(added) - Len(taken)
                 - (IF Uncounted THEN 1 ELSE 0) + (IF Uncredited THEN 1 ELSE 0)

Room ==
  /\ frameCount <= Units
  /\ (\E p \in Producers : pc[p] # "idle") => frameCount < Units

\* While the calls do not overlap: one producer at a time, the count is right
\* but for the packets in the two threads' hands, and the ring holds what was
\* added and not taken.
CleanInv ==
  clean => /\ Alone
           /\ \A p \in Producers : pc[p] = "store_index" => reg[p] = writeIndex
           /\ Counted
           /\ Room
           /\ Ring(items, ReadFrom, WriteTo, added, taken)

LEMMA OneProducer ==
  ASSUME Alone, NEW p \in Producers, pc[p] # "idle"
  PROVE  /\ Uncounted <=> pc[p] \in {"load_index", "store_index", "load_count", "store_count"}
         /\ Unmoved <=> pc[p] \in {"load_index", "store_index"}
BY DEF Alone, Uncounted, Unmoved

\* The same after a step of the only producer.
LEMMA OneProducerNext ==
  ASSUME NEW p \in Producers, Alone, pc \in [Producers -> AddLabels],
         pc[p] # "idle", NEW l, pc' = [pc EXCEPT ![p] = l]
  PROVE  /\ Alone'
         /\ \A q \in Producers : q # p => pc'[q] = "idle"
         /\ Uncounted' <=> l \in {"load_index", "store_index", "load_count", "store_count"}
         /\ Unmoved' <=> l \in {"load_index", "store_index"}
         /\ (\E q \in Producers : pc'[q] # "idle") <=> l # "idle"
<1>1. pc'[p] = l /\ \A q \in Producers : q # p => pc'[q] = "idle"
  BY DEF Alone
<1> QED
  BY <1>1 DEF Alone, Uncounted, Unmoved

LEMMA CleanStep ==
  ASSUME ThreadsTypeOK, CountInv, CleanInv, [ThreadsNext]_threadsVars
  PROVE  CleanInv'
<1> SUFFICES ASSUME clean'
    PROVE  /\ Alone'
           /\ \A p \in Producers : pc'[p] = "store_index" => reg'[p] = writeIndex'
           /\ Counted'
           /\ Room'
           /\ Ring(items', ReadFrom', WriteTo', added', taken')
  BY DEF CleanInv, Ring, Slot
<1> DEFINE V == Nat \union {Nothing}
<1>0. /\ items \in [Slots -> V] /\ readIndex \in Slots /\ writeIndex \in Slots
      /\ frameCount \in Int /\ takePc \in TakeLabels
      /\ pc \in [Producers -> AddLabels] /\ reg \in [Producers -> Int]
      /\ packet \in [Producers -> Nat]
      /\ added \in Seq(Nat) /\ taken \in Seq(V) /\ Nothing \notin Nat
      /\ Len(added) \in Nat /\ Len(taken) \in Nat /\ clean \in BOOLEAN
  BY ThreadsAssumption DEF ThreadsTypeOK, Slots
<1>r. ReadFrom \in Slots
  BY <1>0, FollowingValue DEF ReadFrom
<1>m. Units \in Nat \ {0}
  BY RingAssumption
<1>c. clean
  <2>1. [ThreadsNext]_threadsVars => (clean' => clean)
    BY DEF ThreadsNext, Producer, Consumer, AddCheck, AddInsert,
       AddLoadIndex, AddStoreIndex, AddLoadCount, AddStoreCount,
       TakeCheck, TakeCopy, TakeAdvance, TakeLoadCount,
       TakeStoreCount, threadsVars, history
  <2> QED
    BY <2>1
<1>i. /\ Alone /\ Counted /\ Room
      /\ \A p \in Producers : pc[p] = "store_index" => reg[p] = writeIndex
      /\ Ring(items, ReadFrom, WriteTo, added, taken)
  BY <1>c DEF CleanInv
<1>l. Len(added) - Len(taken) \in 0 .. Units
  BY <1>i DEF Ring
<1> HIDE DEF V
\* Add
<1>1. ASSUME NEW p \in Producers, AddCheck(p)
      PROVE  /\ Alone' /\ Counted' /\ Room'
             /\ \A q \in Producers : pc'[q] = "store_index" => reg'[q] = writeIndex'
             /\ Ring(items', ReadFrom', WriteTo', added', taken')
  <2>1. /\ \A q \in Producers : pc[q] = "idle"
        /\ pc' = [pc EXCEPT ![p] = IF frameCount >= Units THEN "idle" ELSE "insert"]
        /\ UNCHANGED <<items, readIndex, writeIndex, frameCount, takePc, added, taken>>
    BY <1>1 DEF AddCheck, Goto, IsFull, ringVars, takeVars
  <2>2. /\ \A q \in Producers : q # p => pc'[q] = "idle"
        /\ pc'[p] \in {"idle", "insert"} /\ (pc'[p] # "idle" => frameCount < Units)
    BY <1>0, <1>m, <2>1
  <2>3. ~Unmoved /\ ~Unmoved' /\ ~Uncounted /\ ~Uncounted' /\ Alone' /\ Room'
    BY <1>i, <2>1, <2>2 DEF Unmoved, Uncounted, Alone, Room
  <2>4. Counted' /\ ReadFrom' = ReadFrom /\ WriteTo' = WriteTo
    BY <1>i, <2>1, <2>3 DEF Counted, Uncredited, ReadFrom, WriteTo, Following
  <2>5. Ring(items', ReadFrom', WriteTo', added', taken')
    BY <1>i, <2>1, <2>4, Zenon
  <2> QED
    BY <2>2, <2>3, <2>4, <2>5
<1>2. ASSUME NEW p \in Producers, AddInsert(p)
      PROVE  /\ Alone' /\ Counted' /\ Room'
             /\ \A q \in Producers : pc'[q] = "store_index" => reg'[q] = writeIndex'
             /\ Ring(items', ReadFrom', WriteTo', added', taken')
  <2>1. /\ pc[p] = "insert" /\ pc' = [pc EXCEPT ![p] = "load_index"]
        /\ items' = [items EXCEPT ![writeIndex] = packet[p]]
        /\ added' = Append(added, packet[p])
        /\ UNCHANGED <<readIndex, writeIndex, frameCount, takePc, taken, reg>>
    BY <1>2 DEF AddInsert, Goto, takeVars
  <2>2. /\ Alone' /\ Uncounted' /\ Unmoved' /\ ~Uncounted /\ ~Unmoved
        /\ \A q \in Producers : pc'[q] # "store_index"
    <3>1. ~Uncounted /\ ~Unmoved
      BY <1>i, <2>1, OneProducer
    <3>2. pc[p] # "idle"
      BY <2>1
    <3>3. Alone' /\ Uncounted' /\ Unmoved' /\ \A q \in Producers : q # p => pc'[q] = "idle"
      BY <1>0, <1>i, <2>1, <3>2, OneProducerNext
    <3>4. pc'[p] = "load_index"
      BY <1>0, <2>1
    <3> QED
      BY <3>1, <3>3, <3>4
  <2>3. frameCount < Units /\ Len(added) - Len(taken) < Units
    BY <1>0, <1>i, <1>m, <2>1, <2>2 DEF Room, Counted
  <2>4. Counted' /\ Room'
    <3>1. Len(added') = Len(added) + 1
      BY <1>0, <2>1
    <3> QED
      BY <1>0, <1>i, <1>m, <2>1, <2>2, <2>3, <3>1 DEF Room, Counted, Uncredited
  <2>5. ReadFrom' = ReadFrom /\ WriteTo = writeIndex /\ WriteTo' = Following(writeIndex)
    BY <2>1, <2>2 DEF ReadFrom, WriteTo, Following
  <2>6. packet[p] \in Nat /\ packet[p] \in V
    BY <1>0 DEF V
  <2>7. Ring([items EXCEPT ![writeIndex] = packet[p]], ReadFrom, Following(writeIndex),
             Append(added, packet[p]), taken)
    BY <1>0, <1>r, <1>i, <2>3, <2>5, <2>6, RingAdd, Zenon
  <2>8. Ring(items', ReadFrom', WriteTo', added', taken')
    BY <2>1, <2>5, <2>7, Zenon
  <2> QED
    BY <2>2, <2>4, <2>8
<1>3. ASSUME NEW p \in Producers, AddLoadIndex(p)
      PROVE  /\ Alone' /\ Counted' /\ Room'
             /\ \A q \in Producers : pc'[q] = "store_index" => reg'[q] = writeIndex'
             /\ Ring(items', ReadFrom', WriteTo', added', taken')
  <2>1. /\ pc[p] = "load_index" /\ pc' = [pc EXCEPT ![p] = "store_index"]
        /\ reg' = [reg EXCEPT ![p] = writeIndex]
        /\ UNCHANGED <<items, readIndex, writeIndex, frameCount, takePc, added, taken>>
    BY <1>3 DEF AddLoadIndex, Goto, ringVars, takeVars, history
  <2>2. /\ Alone' /\ Uncounted' /\ Unmoved' /\ Uncounted /\ Unmoved /\ pc[p] # "idle"
        /\ \A q \in Producers : pc'[q] = "store_index" => q = p
    <3>1. Uncounted /\ Unmoved /\ pc[p] # "idle"
      BY <1>i, <2>1, OneProducer
    <3>3. Alone' /\ Uncounted' /\ Unmoved' /\ \A q \in Producers : q # p => pc'[q] = "idle"
      BY <1>0, <1>i, <2>1, <3>1, OneProducerNext
    <3> QED
      BY <3>1, <3>3
  <2>3. Counted' /\ Room' /\ ReadFrom' = ReadFrom /\ WriteTo' = WriteTo
    BY <1>i, <2>1, <2>2 DEF Counted, Room, Uncredited, ReadFrom, WriteTo, Following
  <2>4. Ring(items', ReadFrom', WriteTo', added', taken')
    BY <1>i, <2>1, <2>3, Zenon
  <2>5. reg'[p] = writeIndex'
    BY <1>0, <2>1
  <2> QED
    BY <2>2, <2>3, <2>4, <2>5
<1>4. ASSUME NEW p \in Producers, AddStoreIndex(p)
      PROVE  /\ Alone' /\ Counted' /\ Room'
             /\ \A q \in Producers : pc'[q] = "store_index" => reg'[q] = writeIndex'
             /\ Ring(items', ReadFrom', WriteTo', added', taken')
  <2>1. /\ pc[p] = "store_index" /\ pc' = [pc EXCEPT ![p] = "load_count"]
        /\ writeIndex' = Following(reg[p])
        /\ UNCHANGED <<items, readIndex, frameCount, takePc, added, taken>>
    BY <1>4 DEF AddStoreIndex, Goto, takeVars, history,
       Following
  <2>2. /\ Alone' /\ Uncounted' /\ ~Unmoved' /\ Uncounted /\ Unmoved /\ pc[p] # "idle"
        /\ \A q \in Producers : pc'[q] # "store_index"
    <3>1. Uncounted /\ Unmoved /\ pc[p] # "idle"
      BY <1>i, <2>1, OneProducer
    <3>2. Alone' /\ \A q \in Producers : q # p => pc'[q] = "idle"
      BY <1>0, <1>i, <2>1, <3>1, OneProducerNext
    <3>3. pc'[p] = "load_count"
      BY <1>0, <2>1
    <3>4. Uncounted' /\ ~Unmoved'
      BY <3>2, <3>3 DEF Uncounted, Unmoved
    <3> QED
      BY <3>1, <3>2, <3>3, <3>4
  <2>3. Counted' /\ Room' /\ ReadFrom' = ReadFrom
    BY <1>i, <2>1, <2>2 DEF Counted, Room, Uncredited, ReadFrom, Following
  <2>4. WriteTo' = WriteTo
    BY <1>i, <2>1, <2>2 DEF WriteTo
  <2>5. Ring(items', ReadFrom', WriteTo', added', taken')
    BY <1>i, <2>1, <2>3, <2>4, Zenon
  <2> QED
    BY <2>2, <2>3, <2>5
<1>5. ASSUME NEW p \in Producers, AddLoadCount(p)
      PROVE  /\ Alone' /\ Counted' /\ Room'
             /\ \A q \in Producers : pc'[q] = "store_index" => reg'[q] = writeIndex'
             /\ Ring(items', ReadFrom', WriteTo', added', taken')
  <2>1. /\ pc[p] = "load_count" /\ pc' = [pc EXCEPT ![p] = "store_count"]
        /\ UNCHANGED <<items, readIndex, writeIndex, frameCount, takePc, added, taken>>
    BY <1>5 DEF AddLoadCount, Goto, ringVars, takeVars, history
  <2>2. /\ Alone' /\ Uncounted' /\ ~Unmoved' /\ Uncounted /\ ~Unmoved /\ pc[p] # "idle"
        /\ \A q \in Producers : pc'[q] # "store_index"
    <3>1. Uncounted /\ ~Unmoved /\ pc[p] # "idle"
      BY <1>i, <2>1, OneProducer
    <3>2. Alone' /\ \A q \in Producers : q # p => pc'[q] = "idle"
      BY <1>0, <1>i, <2>1, <3>1, OneProducerNext
    <3>3. pc'[p] = "store_count"
      BY <1>0, <2>1
    <3>4. Uncounted' /\ ~Unmoved'
      BY <3>2, <3>3 DEF Uncounted, Unmoved
    <3> QED
      BY <3>1, <3>2, <3>3, <3>4
  <2>3. Counted' /\ Room' /\ ReadFrom' = ReadFrom /\ WriteTo' = WriteTo
    BY <1>i, <2>1, <2>2 DEF Counted, Room, Uncredited, ReadFrom, WriteTo, Following
  <2>4. Ring(items', ReadFrom', WriteTo', added', taken')
    BY <1>i, <2>1, <2>3, Zenon
  <2> QED
    BY <2>2, <2>3, <2>4
<1>6. ASSUME NEW p \in Producers, AddStoreCount(p)
      PROVE  /\ Alone' /\ Counted' /\ Room'
             /\ \A q \in Producers : pc'[q] = "store_index" => reg'[q] = writeIndex'
             /\ Ring(items', ReadFrom', WriteTo', added', taken')
  <2>1. /\ pc[p] = "store_count" /\ pc' = [pc EXCEPT ![p] = "idle"]
        /\ frameCount' = reg[p] + 1 /\ frameCount = reg[p]
        /\ UNCHANGED <<items, readIndex, writeIndex, takePc, added, taken>>
    BY <1>6 DEF AddStoreCount, Goto, takeVars
  <2>2. /\ Alone' /\ ~Uncounted' /\ ~Unmoved' /\ Uncounted /\ ~Unmoved /\ pc[p] # "idle"
        /\ \A q \in Producers : pc'[q] = "idle"
    <3>1. Uncounted /\ ~Unmoved /\ pc[p] # "idle"
      BY <1>i, <2>1, OneProducer
    <3>3. Alone' /\ ~Uncounted' /\ ~Unmoved' /\ \A q \in Producers : q # p => pc'[q] = "idle"
      BY <1>0, <1>i, <2>1, <3>1, OneProducerNext
    <3>4. pc'[p] = "idle"
      BY <1>0, <2>1
    <3> QED
      BY <3>1, <3>3, <3>4
  <2>3. Counted' /\ Room'
    BY <1>0, <1>i, <1>m, <2>1, <2>2 DEF Counted, Room, Uncredited
  <2>4. ReadFrom' = ReadFrom /\ WriteTo' = WriteTo
    BY <1>i, <2>1, <2>2 DEF ReadFrom, WriteTo, Following
  <2>5. Ring(items', ReadFrom', WriteTo', added', taken')
    BY <1>i, <2>1, <2>4, Zenon
  <2> QED
    BY <2>2, <2>3, <2>5
\* GetNext
<1>7. ASSUME UNCHANGED <<pc, reg>>, UNCHANGED writeIndex
      PROVE  /\ Alone' /\ Unmoved' = Unmoved /\ Uncounted' = Uncounted /\ WriteTo' = WriteTo
             /\ \A q \in Producers : pc'[q] = "store_index" => reg'[q] = writeIndex'
  BY <1>i, <1>7 DEF Alone, Unmoved, Uncounted, WriteTo, Following
<1>8. CASE TakeCheck
  <2>1. /\ UNCHANGED <<items, readIndex, writeIndex, frameCount, pc, reg, added, taken>>
        /\ takePc = "idle" /\ takePc' = "copy"
    BY <1>8 DEF TakeCheck, ringVars, addVars, history
  <2>2. Counted' /\ Room' /\ ReadFrom' = ReadFrom
    BY <1>i, <1>7, <2>1 DEF Counted, Room, Uncredited, ReadFrom, Following
  <2> QED
    BY <1>i, <1>7, <2>1, <2>2, Zenon
<1>9. CASE TakeCopy
  <2>1. /\ UNCHANGED <<items, readIndex, writeIndex, frameCount, pc, reg, added>>
        /\ takePc = "copy"
        /\ \/ takePc' = "advance" /\ taken' = Append(taken, items[readIndex])
           \/ items[readIndex] = Nothing
    BY <1>9 DEF TakeCopy, ringVars, addVars
  <2>2. Len(added) - Len(taken) > 0 /\ ReadFrom = readIndex
    BY <1>0, <1>i, <2>1 DEF Counted, CountInv, Uncredited, ReadFrom
  <2>3. /\ items[readIndex] \in Nat
        /\ Ring(items, Following(readIndex), WriteTo, added, Append(taken, items[readIndex]))
    BY <1>0, <1>i, <2>2, RingTake, Zenon
  <2>4. takePc' = "advance" /\ taken' = Append(taken, items[readIndex])
    BY <1>0, <2>1, <2>3
  <2>5. Len(taken') = Len(taken) + 1
    BY <1>0, <2>4 DEF V
  <2>6. Counted' /\ Room' /\ ReadFrom' = Following(readIndex)
    BY <1>0, <1>i, <1>7, <2>1, <2>4, <2>5 DEF Counted, Room, Uncredited, ReadFrom, Following
  <2> QED
    BY <1>7, <2>1, <2>3, <2>4, <2>6, Zenon
<1>10. CASE TakeAdvance
  <2>1. /\ UNCHANGED <<items, writeIndex, frameCount, pc, reg, added, taken>>
        /\ takePc = "advance" /\ takePc' = "load_count" /\ readIndex' = Following(readIndex)
    BY <1>10 DEF TakeAdvance, addVars, history, Following
  <2>2. Counted' /\ Room' /\ ReadFrom' = ReadFrom
    BY <1>i, <1>7, <2>1 DEF Counted, Room, Uncredited, ReadFrom
  <2> QED
    BY <1>i, <1>7, <2>1, <2>2, Zenon
<1>11. CASE TakeLoadCount
  <2>1. /\ UNCHANGED <<items, readIndex, writeIndex, frameCount, pc, reg, added, taken>>
        /\ takePc = "load_count" /\ takePc' = "store_count"
    BY <1>11 DEF TakeLoadCount, ringVars, addVars, history
  <2>2. Counted' /\ Room' /\ ReadFrom' = ReadFrom
    BY <1>i, <1>7, <2>1 DEF Counted, Room, Uncredited, ReadFrom, Following
  <2> QED
    BY <1>i, <1>7, <2>1, <2>2, Zenon
<1>12. CASE TakeStoreCount
  <2>1. /\ UNCHANGED <<items, readIndex, writeIndex, pc, reg, added, taken>>
        /\ takePc = "store_count" /\ takePc' = "idle"
        /\ frameCount' = takeReg - 1 /\ frameCount = takeReg
    BY <1>12 DEF TakeStoreCount, addVars
  <2>2. ReadFrom' = ReadFrom /\ Uncredited /\ ~Uncredited' /\ frameCount' = frameCount - 1
    BY <2>1 DEF Uncredited, ReadFrom, Following
  <2>3. Counted'
    BY <1>0, <1>i, <1>7, <2>1, <2>2 DEF Counted
  <2>4. Room'
    BY <1>0, <1>i, <1>m, <2>1, <2>2 DEF Room
  <2> QED
    BY <1>i, <1>7, <2>1, <2>2, <2>3, <2>4, Zenon
<1>13. CASE UNCHANGED threadsVars
  <2>1. UNCHANGED <<items, readIndex, writeIndex, frameCount, pc, reg, takePc, added, taken>>
    BY <1>13 DEF threadsVars, ringVars, addVars, takeVars, history
  <2>2. ReadFrom' = ReadFrom /\ Room'
    BY <1>i, <2>1 DEF Room, ReadFrom, Following
  <2>3. Counted'
    BY <1>i, <1>7, <2>1 DEF Counted, Uncredited
  <2> QED
    BY <1>i, <1>7, <2>1, <2>2, <2>3, Zenon
<1> QED
  BY <1>1, <1>2, <1>3, <1>4, <1>5, <1>6, <1>8, <1>9, <1>10, <1>11, <1>12, <1>13
     DEF ThreadsNext, Producer, Consumer

LEMMA CleanInit == ThreadsInit => CleanInv
<1> SUFFICES ASSUME ThreadsInit PROVE CleanInv
  OBVIOUS
<1>1. /\ Slot(0, 0) = 0 /\ Units \in Nat /\ 0 < Units
  BY RingAssumption, SlotValue DEF Slots
<1>2. /\ ~Uncounted /\ ~Unmoved /\ ~Uncredited /\ Alone
      /\ \A p \in Producers : pc[p] = "idle"
      /\ ReadFrom = 0 /\ WriteTo = 0 /\ added = <<>> /\ taken = <<>> /\ frameCount = 0
  BY DEF ThreadsInit, RingInit, Uncounted, Unmoved, Uncredited, Alone, ReadFrom, WriteTo
<1>3. Ring(items, 0, 0, <<>>, <<>>)
  BY <1>1 DEF Ring
<1> QED
  BY <1>1, <1>2, <1>3 DEF CleanInv, Counted, Room

LEMMA CleanMeansFIFO == ThreadsTypeOK /\ CleanInv => CleanIsFIFO
<1> SUFFICES ASSUME ThreadsTypeOK, CleanInv, clean PROVE CleanIsFIFO
  BY DEF CleanIsFIFO
<1>1. /\ added \in Seq(Nat) /\ taken \in Seq(Nat \union {Nothing}) /\ Units \in Nat
      /\ Len(added) \in Nat /\ Len(taken) \in Nat /\ frameCount \in Int
  BY RingAssumption DEF ThreadsTypeOK
<1>2. /\ Len(added) - Len(taken) \in 0 .. Units
      /\ \A i \in 1 .. Len(taken) : taken[i] = added[i]
      /\ frameCount <= Units
  BY DEF CleanInv, Ring, Room
<1>3. SubSeq(taken, 1, Len(taken)) = SubSeq(added, 1, Len(taken)) /\ Len(taken) <= Len(added)
  BY <1>1, <1>2
<1>4. ASSUME takePc = "idle", \A p \in Producers : pc[p] = "idle"
      PROVE  frameCount = Len(added) - Len(taken)
  <2>1. ~Uncounted /\ ~Uncredited
    BY <1>4 DEF Uncounted, Uncredited
  <2> QED
    BY <1>1, <2>1 DEF CleanInv, Counted
<1> QED
  BY <1>1, <1>2, <1>3, <1>4 DEF CleanIsFIFO, IsPrefix

\* As long as no Add met another Add and no update of the count another one,
\* the ring is a queue in spite of the lock nobody takes: any number of
\* producers and a consumer that copies out while they copy in.
THEOREM CleanIsFIFOHolds == ThreadsSpec => []CleanIsFIFO
<1>1. ThreadsInit => CountInv /\ CleanInv
  BY CleanInit DEF ThreadsInit, RingInit, CountInv
<1>2. CountInv /\ CleanInv /\ ThreadsTypeOK /\ [ThreadsNext]_threadsVars => CountInv' /\ CleanInv'
  BY CountStep, CleanStep
<1> QED
  BY <1>1, <1>2, CleanMeansFIFO, ThreadsTypeCorrect, PTL DEF ThreadsSpec
=============================================================================
