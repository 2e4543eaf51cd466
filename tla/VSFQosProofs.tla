---------------------------- MODULE VSFQosProofs ----------------------------
(* For every window, cap and trip time: without losses, no sample is longer *)
(* than twice the time a frame takes (QInv); the average is that of the     *)
(* slower half of the last samples, and a rate of 0 has a sample of more    *)
(* than a second behind it (AvgInv).                                        *)
EXTENDS VSFQos, FiniteSetTheorems, TLAPS

Types ==
  /\ age \in Nat
  /\ {flag, stamping, half, lost} \subseteq BOOLEAN
  /\ flight \in Seq(Nat)
  /\ values \in Seq(Nat)
  /\ at \in Nat

\* What the age of the stamp is bounded by.  A stamp set since the last answer
\* belongs to a frame that is still in flight.  Otherwise every frame in flight
\* was sent before that answer, when the stamp was at most Trip old.
StampIsRecent ==
  /\ half => Len(flight) > 0
  /\ \A i \in 1..Len(flight) : flight[i] <= Trip
  /\ ~lost => /\ (~flag /\ ~stamping) => Len(flight) > 0 /\ age <= flight[1]
              /\ (flag \/ stamping) => \A i \in 1..Len(flight) : age <= Trip + flight[i]

QInv == Types /\ StampIsRecent /\ MeasuredWithinTwoTrips

-----------------------------------------------------------------------------
LEMMA ConstantsAreNatural ==
  /\ MaxSpend \in Nat /\ MaxSpend > 0
  /\ Trip \in Nat
  /\ Window \in Nat /\ Window > 0
<1>1. MaxSpend \in Nat \ {0} /\ Window \in Nat \ {0} BY QosAssumption
<1>2. Trip \in Nat BY QosAssumption
<1>. QED BY <1>1, <1>2

\* Bounded never adds.
LEMMA BoundedIsLess == ASSUME NEW n \in Nat PROVE Bounded(n) \in Nat /\ Bounded(n) <= n
BY ConstantsAreNatural DEF Bounded

\* The samples of a ring are natural numbers.
LEMMA SamplesAreSequences == ASSUME NEW s \in Samples PROVE s \in Seq(Nat)
<1>1. PICK n \in 0..Window : s \in [1..n -> 1..MaxSpend] BY DEF Samples
<1>2. n \in Nat BY ConstantsAreNatural
<1>3. s \in [1..n -> Nat] BY <1>1, ConstantsAreNatural
<1>. QED BY <1>2, <1>3

\* What is in flight once the oldest frame is answered.
LEMMA TailOfFlight ==
  ASSUME NEW f \in Seq(Nat), Len(f) > 0
  PROVE  /\ Tail(f) \in Seq(Nat)
         /\ Len(Tail(f)) = Len(f) - 1
         /\ \A i \in 1..Len(Tail(f)) : i + 1 \in 1..Len(f) /\ Tail(f)[i] = f[i + 1]
OBVIOUS

\* The ring after a sample d holds old samples and d.
LEMMA RingAfter ==
  ASSUME NEW d \in Nat, values \in Seq(Nat), at \in Nat, Calculate(d)
  PROVE  /\ values' \in Seq(Nat)
         /\ at' \in Nat
         /\ \A i \in 1..Len(values') :
              values'[i] = d \/ (i \in 1..Len(values) /\ values'[i] = values[i])
<1>1. at' \in Nat BY ConstantsAreNatural DEF Calculate
<1>2. CASE Len(values) < Window
  <2>1. values' = Append(values, d) BY <1>2 DEF Calculate
  <2>2. values' \in Seq(Nat) /\ Len(values') = Len(values) + 1 BY <2>1
  <2>3. \A i \in 1..Len(values) : values'[i] = values[i] BY <2>1
  <2>4. values'[Len(values) + 1] = d BY <2>1
  <2>5. \A i \in 1..Len(values') : i \in 1..Len(values) \/ i = Len(values) + 1 BY <2>2
  <2>. QED BY <1>1, <2>2, <2>3, <2>4, <2>5
<1>3. CASE ~(Len(values) < Window)
  <2>1. values' = [values EXCEPT ![at + 1] = d] BY <1>3 DEF Calculate
  <2>2. values' \in Seq(Nat) /\ Len(values') = Len(values)
    <3>1. Len(values) \in Nat /\ values \in [1..Len(values) -> Nat] OBVIOUS
    <3>2. values' \in [1..Len(values) -> Nat] BY <2>1, <3>1, Zenon
    <3>. QED BY <3>1, <3>2
  <2>3. \A i \in 1..Len(values) : values'[i] = d \/ values'[i] = values[i]
    <3>1. DOMAIN values = 1..Len(values) OBVIOUS
    <3>. QED BY <2>1, <3>1, Zenon
  <2>. QED BY <1>1, <2>2, <2>3
<1>. QED BY <1>2, <1>3
-----------------------------------------------------------------------------
\* The bound and what it rests on hold at first.
THEOREM QInvInit == Init => QInv
<1>. SUFFICES ASSUME Init PROVE QInv OBVIOUS
<1>1. Types
  <2>1. age \in Nat /\ at \in Nat BY ConstantsAreNatural DEF Init
  <2>2. flight \in Seq(Nat) /\ values \in Seq(Nat) BY DEF Init
  <2>3. {flag, stamping, half, lost} \subseteq BOOLEAN BY DEF Init
  <2>. QED BY <2>1, <2>2, <2>3 DEF Types
<1>2. StampIsRecent BY DEF Init, StampIsRecent
<1>3. MeasuredWithinTwoTrips BY DEF Init, MeasuredWithinTwoTrips
<1>. QED BY <1>1, <1>2, <1>3 DEF QInv

\* Every step keeps the bound: an answer measures the age of a stamp that a
\* frame in flight or the last answer vouches for.
THEOREM QInvNext == QInv /\ [Next]_vars => QInv'
<1>. SUFFICES ASSUME QInv, [Next]_vars PROVE QInv' OBVIOUS
<1>. USE ConstantsAreNatural
<1>t. Types BY DEF QInv
<1>s. StampIsRecent BY DEF QInv
<1>m. MeasuredWithinTwoTrips BY DEF QInv
<1>1. CASE TakeFrame
  <2>1. UNCHANGED <<flag, stamping, half, lost, age, flight, values, at>>
    BY <1>1 DEF TakeFrame, averageVars
  <2>. QED BY <2>1, <1>t, <1>s, <1>m DEF QInv, Types, StampIsRecent, MeasuredWithinTwoTrips
<1>2. CASE ClearFlag
  <2>1. UNCHANGED <<half, lost, age, flight, values, at>> /\ flag /\ flag' = FALSE /\ stamping' = TRUE
    BY <1>2 DEF ClearFlag, averageVars
  <2>. QED BY <2>1, <1>t, <1>s, <1>m DEF QInv, Types, StampIsRecent, MeasuredWithinTwoTrips
<1>3. CASE SendPacket
  <2>1. /\ UNCHANGED <<flag, lost, values, at>>
        /\ stamping' = FALSE
        /\ stamping \/ ~flag
        /\ age' = IF stamping THEN 0 ELSE age
        /\ half' = ~half
        /\ IF half THEN UNCHANGED flight ELSE flight' = Append(flight, 0)
    BY <1>3 DEF SendPacket, averageVars
  <2>2. Types'
    <3>1. age' \in Nat BY <2>1, <1>t DEF Types
    <3>2. {flag, stamping, half, lost}' \subseteq BOOLEAN BY <2>1, <1>t DEF Types
    <3>3. CASE half BY <3>1, <3>2, <3>3, <2>1, <1>t DEF Types
    <3>4. CASE ~half
      <4>1. flight' = Append(flight, 0) BY <3>4, <2>1
      <4>2. flight' \in Seq(Nat) BY <4>1, <1>t DEF Types
      <4>. QED BY <3>1, <3>2, <4>2, <2>1, <1>t DEF Types
    <3>. QED BY <3>3, <3>4
  <2>3. /\ Len(flight') > 0
        /\ Len(flight) > 0 => flight'[1] = flight[1]
        /\ \A i \in 1..Len(flight') : flight'[i] \in Nat /\ flight'[i] <= Trip
    <3>1. CASE half BY <3>1, <2>1, <1>t, <1>s DEF Types, StampIsRecent
    <3>2. CASE ~half
      <4>1. flight' = Append(flight, 0) BY <3>2, <2>1
      <4>. QED BY <4>1, <1>t, <1>s DEF Types, StampIsRecent
    <3>. QED BY <3>1, <3>2
  <2>4. CASE stamping
    <3>1. age' = 0 BY <2>4, <2>1
    <3>2. StampIsRecent' BY <3>1, <2>3 DEF StampIsRecent
    <3>. QED BY <3>2, <2>2, <2>1, <1>m DEF QInv, MeasuredWithinTwoTrips
  <2>5. CASE ~stamping
    <3>1. age' = age /\ ~flag /\ ~flag' /\ ~stamping' BY <2>5, <2>1
    <3>2. ~lost => age' <= flight'[1] BY <3>1, <2>5, <2>3, <1>s DEF StampIsRecent
    <3>3. StampIsRecent' BY <3>1, <3>2, <2>1, <2>3 DEF StampIsRecent
    <3>. QED BY <3>3, <2>2, <2>1, <1>m DEF QInv, MeasuredWithinTwoTrips
  <2>. QED BY <2>4, <2>5
<1>4. CASE LoseFrame
  <2>1. /\ UNCHANGED <<flag, stamping, half, age, values, at>>
        /\ flight' = Tail(flight) /\ lost' = TRUE /\ Answerable > 0
    BY <1>4 DEF LoseFrame, averageVars, sendVars
  <2>2. Len(flight) > 0 /\ (half => Len(flight) > 1) BY <2>1, <1>t DEF Answerable, Types
  <2>3. /\ flight' \in Seq(Nat) /\ Len(flight') = Len(flight) - 1
        /\ \A i \in 1..Len(flight') : i + 1 \in 1..Len(flight) /\ flight'[i] = flight[i + 1]
    BY <2>1, <2>2, <1>t, TailOfFlight DEF Types
  <2>4. Types' BY <2>1, <2>3, <1>t DEF Types
  <2>5. StampIsRecent'
    <3>1. age \in Nat /\ Trip \in Nat BY <1>t, QosAssumption DEF Types
    <3>. QED BY <3>1, <2>1, <2>2, <2>3, <1>s DEF StampIsRecent
  <2>. QED BY <2>1, <2>4, <2>5 DEF QInv, MeasuredWithinTwoTrips
<1>5. CASE UpdateTimestamp
  <2>1. /\ UNCHANGED <<stamping, half, age, lost>>
        /\ flight' = Tail(flight) /\ flag' = TRUE /\ Answerable > 0
        /\ IF age > 0 THEN Calculate(age) ELSE UNCHANGED <<values, at>>
    BY <1>5 DEF UpdateTimestamp, averageVars, sendVars
  <2>2. Len(flight) > 0 /\ (half => Len(flight) > 1) BY <2>1, <1>t DEF Answerable, Types
  <2>3. /\ flight' \in Seq(Nat) /\ Len(flight') = Len(flight) - 1
        /\ \A i \in 1..Len(flight') : i + 1 \in 1..Len(flight) /\ flight'[i] = flight[i + 1]
    BY <2>1, <2>2, <1>t, TailOfFlight DEF Types
  <2>4. /\ values' \in Seq(Nat) /\ at' \in Nat
        /\ \A i \in 1..Len(values') :
             values'[i] = age \/ (i \in 1..Len(values) /\ values'[i] = values[i])
    <3>1. CASE age > 0 BY <3>1, <2>1, <1>t, RingAfter DEF Types
    <3>2. CASE ~(age > 0) BY <3>2, <2>1, <1>t DEF Types
    <3>. QED BY <3>1, <3>2
  <2>5. Types' BY <2>1, <2>3, <2>4, <1>t DEF Types
  <2>6. \A i \in 1..Len(flight) : flight[i] \in Nat /\ flight[i] <= Trip
    BY <1>t, <1>s DEF Types, StampIsRecent
  <2>7. ~lost => /\ age <= 2 * Trip
                 /\ \A i \in 1..Len(flight) : age <= Trip + flight[i]
    <3>1. CASE ~flag /\ ~stamping BY <3>1, <2>2, <2>6, <1>t, <1>s DEF Types, StampIsRecent
    <3>2. CASE flag \/ stamping BY <3>2, <2>2, <2>6, <1>t, <1>s DEF Types, StampIsRecent
    <3>. QED BY <3>1, <3>2
  <2>8. StampIsRecent' BY <2>1, <2>2, <2>3, <2>6, <2>7 DEF StampIsRecent
  <2>9. MeasuredWithinTwoTrips' BY <2>1, <2>4, <2>7, <1>m DEF MeasuredWithinTwoTrips
  <2>. QED BY <2>5, <2>8, <2>9 DEF QInv
<1>6. CASE Tick
  <2>1. /\ UNCHANGED <<flag, stamping, half, lost, values, at>>
        /\ \A i \in 1..Len(flight) : flight[i] < Trip
        /\ age' = Bounded(age + 1)
        /\ flight' = [i \in 1..Len(flight) |-> flight[i] + 1]
    BY <1>6 DEF Tick, averageVars, sendVars
  <2>2. age' \in Nat /\ age' <= age + 1 BY <2>1, <1>t, BoundedIsLess DEF Types
  <2>3. /\ flight' \in Seq(Nat) /\ Len(flight') = Len(flight)
        /\ \A i \in 1..Len(flight) : flight'[i] = flight[i] + 1 /\ flight[i] \in Nat
    BY <2>1, <1>t DEF Types
  <2>4. Types' BY <2>1, <2>2, <2>3, <1>t DEF Types
  <2>5. StampIsRecent'
    <3>1. age \in Nat /\ Trip \in Nat BY <1>t, QosAssumption DEF Types
    <3>. QED BY <3>1, <2>1, <2>2, <2>3, <1>s DEF StampIsRecent
  <2>. QED BY <2>1, <2>4, <2>5, <1>m DEF QInv, MeasuredWithinTwoTrips
<1>7. CASE CheckFPS
  <2>1. UNCHANGED <<flag, stamping, half, lost, age, flight, values, at>>
    BY <1>7 DEF CheckFPS, averageVars, sendVars
  <2>. QED BY <2>1, <1>t, <1>s, <1>m DEF QInv, Types, StampIsRecent, MeasuredWithinTwoTrips
<1>8. CASE SetFPS
  <2>1. UNCHANGED <<flag, stamping, half, lost, age, flight, values, at>>
    BY <1>8 DEF SetFPS, averageVars, sendVars
  <2>. QED BY <2>1, <1>t, <1>s, <1>m DEF QInv, Types, StampIsRecent, MeasuredWithinTwoTrips
<1>r. ASSUME NEW s \in Samples, Replace(s), lost' \in BOOLEAN, s = <<>> \/ lost'
      PROVE  QInv'
  <2>1. /\ flag' = TRUE /\ stamping' = FALSE /\ half' = FALSE /\ age' = MaxSpend
        /\ flight' = <<>> /\ values' = s /\ at' = Len(s) % Window
    BY <1>r DEF Replace
  <2>2. s \in Seq(Nat) BY SamplesAreSequences
  <2>3. Types'
    <3>1. age' \in Nat BY <2>1
    <3>2. at' \in Nat BY <2>1, <2>2
    <3>3. {flag, stamping, half, lost}' \subseteq BOOLEAN BY <2>1, <1>r
    <3>4. flight' \in Seq(Nat) BY <2>1
    <3>5. values' \in Seq(Nat) BY <2>1, <2>2
    <3>. QED BY <3>1, <3>2, <3>3, <3>4, <3>5 DEF Types
  <2>4. StampIsRecent' BY <2>1 DEF StampIsRecent
  <2>5. MeasuredWithinTwoTrips' BY <2>1, <1>r DEF MeasuredWithinTwoTrips
  <2>. QED BY <2>3, <2>4, <2>5 DEF QInv
<1>e. <<>> \in Samples
  <2>1. <<>> \in [1..0 -> 1..MaxSpend] OBVIOUS
  <2>. QED BY <2>1 DEF Samples
<1>9. CASE Accept
  <2>1. Replace(<<>>) /\ lost' = lost BY <1>9 DEF Accept
  <2>. QED BY <2>1, <1>r, <1>e, <1>t DEF Types
<1>10. CASE CloseClient
  <2>1. CASE Replace(<<>>) /\ lost' = lost BY <2>1, <1>r, <1>e, <1>t DEF Types
  <2>0. Others \subseteq Samples BY QosAssumption DEF Samples
  <2>2. CASE \E s \in Others : Replace(s) /\ lost' = TRUE BY <2>0, <2>2, <1>r
  <2>. QED BY <1>10, <2>1, <2>2 DEF CloseClient
<1>11. CASE UNCHANGED vars
  <2>1. UNCHANGED <<flag, stamping, half, lost, age, flight, values, at>>
    BY <1>11 DEF vars, averageVars, sendVars
  <2>. QED BY <2>1, <1>t, <1>s, <1>m DEF QInv, Types, StampIsRecent, MeasuredWithinTwoTrips
<1>. QED BY <1>1, <1>2, <1>3, <1>4, <1>5, <1>6, <1>7, <1>8, <1>9, <1>10, <1>11 DEF Next

\* Without losses and while index 0 stays the same session, no sample is longer
\* than twice the longest time a frame took from its first packet to its answer.
THEOREM MeasuredHolds == Spec => []MeasuredWithinTwoTrips
<1>1. QInv => MeasuredWithinTwoTrips BY DEF QInv
<1>. QED BY QInvInit, QInvNext, <1>1, PTL DEF Spec
-----------------------------------------------------------------------------
(* Sums: f of IsSum has the sum of every set of places, and every fold that *)
(* takes the places in an order of its own agrees with it.                   *)

\* A set of numbers has a least one.
LEMMA LeastNat ==
  ASSUME NEW T, T \subseteq Nat, T # {}
  PROVE  \E x \in T : \A y \in T : x <= y
<1>1. IsWellFoundedOn(OpToRel(<, Nat), Nat)
  BY NatLessThanWellFounded
<1>2. PICK x \in T : \A y \in T : ~ (<<y, x>> \in OpToRel(<, Nat))
  BY <1>1, WFMin
<1>3. \A y \in T : ~(y < x)
  BY <1>2 DEF OpToRel
<1> QED
  BY <1>3

\* Induction, for a set of numbers.
LEMMA SetInduction ==
  ASSUME NEW T, 0 \in T, \A n \in Nat : n \in T => n + 1 \in T
  PROVE  Nat \subseteq T
<1> SUFFICES ASSUME Nat \ T # {} PROVE FALSE
  OBVIOUS
<1>1. PICK x \in Nat \ T : \A y \in Nat \ T : x <= y
  BY LeastNat
<1>2. x - 1 \in Nat
  BY <1>1
<1>3. x - 1 \in T
  BY <1>1, <1>2
<1> QED
  BY <1>1, <1>2, <1>3

\* f is the sum of g over every subset of the first n places.
IsSum(n, g, f) ==
  /\ f \in [SUBSET (1..n) -> Int]
  /\ f[{}] = 0
  /\ \A T \in SUBSET (1..n) : \A x \in T : f[T] = f[T \ {x}] + g[x]

\* The terms of any g can be summed, one place after the other.
LEMMA SumExists ==
  ASSUME NEW n \in Nat, NEW g \in [1..n -> Int]
  PROVE  \E f : IsSum(n, g, f)
<1> DEFINE T == {k \in Nat : k <= n => \E f : IsSum(k, g, f)}
<1>1. 0 \in T
  <2> DEFINE f == [X \in SUBSET (1..0) |-> 0]
  <2>1. f \in [SUBSET (1..0) -> Int] /\ f[{}] = 0
    OBVIOUS
  <2>2. \A X \in SUBSET (1..0) : \A x \in X : f[X] = f[X \ {x}] + g[x]
    OBVIOUS
  <2> HIDE DEF f
  <2>3. IsSum(0, g, f)
    BY <2>1, <2>2 DEF IsSum
  <2> QED
    BY <2>3, Zenon
<1>2. ASSUME NEW k \in Nat, k \in T PROVE k + 1 \in T
  <2>1. ASSUME k + 1 <= n PROVE \E f : IsSum(k + 1, g, f)
    <3>1. PICK f : IsSum(k, g, f)
      BY <1>2, <2>1
    <3>2. /\ f \in [SUBSET (1..k) -> Int] /\ f[{}] = 0
          /\ \A X \in SUBSET (1..k) : \A x \in X : f[X] = f[X \ {x}] + g[x]
      BY <3>1 DEF IsSum
    <3> DEFINE y == k + 1
               h == [X \in SUBSET (1..y) |-> IF y \in X THEN f[X \ {y}] + g[y] ELSE f[X]]
    <3>3. /\ g[y] \in Int
          /\ \A X \in SUBSET (1..y) : X \ {y} \in SUBSET (1..k)
          /\ \A X \in SUBSET (1..y) : y \notin X => X \in SUBSET (1..k)
          /\ \A x \in 1..y : g[x] \in Int
      BY <2>1
    <3>4. h \in [SUBSET (1..y) -> Int]
      <4>1. ASSUME NEW X \in SUBSET (1..y)
            PROVE  (IF y \in X THEN f[X \ {y}] + g[y] ELSE f[X]) \in Int
        <5> HIDE DEF y
        <5>1. CASE y \in X
          <6>1. f[X \ {y}] \in Int
            BY <3>2, <3>3, Zenon
          <6> QED
            BY <5>1, <6>1, <3>3
        <5>2. CASE y \notin X
          BY <5>2, <3>2, <3>3, Zenon
        <5> QED
          BY <5>1, <5>2
      <4> QED
        BY <4>1, Zenon
    <3>5. h[{}] = 0
      <4>1. {} \in SUBSET (1..y) /\ y \notin {}
        OBVIOUS
      <4> QED
        BY <3>2, <4>1, Zenon
    <3>6. ASSUME NEW X \in SUBSET (1..y), NEW x \in X
          PROVE  h[X] = h[X \ {x}] + g[x]
      <4> HIDE DEF y
      <4>1. X \ {x} \in SUBSET (1..y)
        OBVIOUS
      <4>2. CASE y \notin X
        <5>1. y \notin X \ {x}
          BY <4>2
        <5>2. h[X] = f[X] /\ h[X \ {x}] = f[X \ {x}]
          BY <4>1, <4>2, <5>1, Zenon
        <5> QED
          BY <5>2, <3>2, <3>3, <4>2, Zenon
      <4>3. CASE x = y
        <5>1. y \in X /\ y \notin X \ {x}
          BY <4>3
        <5>2. h[X] = f[X \ {y}] + g[y] /\ h[X \ {x}] = f[X \ {x}]
          BY <4>1, <5>1, Zenon
        <5> QED
          BY <5>2, <4>3, Zenon
      <4>4. CASE y \in X /\ x # y
        <5>1. y \in X \ {x} /\ (X \ {x}) \ {y} = (X \ {y}) \ {x} /\ x \in X \ {y}
          BY <4>4
        <5>2. h[X] = f[X \ {y}] + g[y] /\ h[X \ {x}] = f[(X \ {y}) \ {x}] + g[y]
          BY <4>1, <4>4, <5>1, Zenon
        <5>3. f[X \ {y}] = f[(X \ {y}) \ {x}] + g[x]
          BY <3>2, <3>3, <5>1, Zenon
        <5>4. f[(X \ {y}) \ {x}] \in Int
          <6>1. (X \ {y}) \ {x} \in SUBSET (1..k)
            BY <3>3
          <6> QED
            BY <6>1, <3>2, Zenon
        <5>5. g[x] \in Int /\ g[y] \in Int
          BY <3>3
        <5> HIDE DEF h
        <5> QED
          BY <5>2, <5>3, <5>4, <5>5
      <4> QED
        BY <4>2, <4>3, <4>4
    <3> HIDE DEF h
    <3>7. IsSum(k + 1, g, h)
      BY <3>4, <3>5, <3>6, Zenon DEF IsSum
    <3> QED
      BY <3>7, Zenon
  <2> QED
    BY <2>1
<1> HIDE DEF T
<1>3. Nat \subseteq T
  BY <1>1, <1>2, SetInduction
<1> QED
  BY <1>3 DEF T

\* Sets of places are finite.
LEMMA PlacesAreFinite ==
  \A n \in Nat : \A T \in SUBSET (1..n) : IsFiniteSet(T) /\ Cardinality(T) \in Nat
<1> SUFFICES ASSUME NEW n \in Nat, NEW T \in SUBSET (1..n)
             PROVE  IsFiniteSet(T) /\ Cardinality(T) \in Nat
  OBVIOUS
<1>1. IsFiniteSet(1..n)
  BY FS_Interval
<1>2. IsFiniteSet(T)
  BY <1>1, FS_Subset
<1> QED
  BY <1>2, FS_CardinalityType

\* A set without one of its k + 1 members has k.
LEMMA OneLess ==
  \A T : \A k \in Nat : IsFiniteSet(T) /\ Cardinality(T) = k + 1 =>
    T # {} /\ \A x \in T : Cardinality(T \ {x}) = k
<1> SUFFICES ASSUME NEW T, NEW k \in Nat, IsFiniteSet(T), Cardinality(T) = k + 1
             PROVE  T # {} /\ \A x \in T : Cardinality(T \ {x}) = k
  OBVIOUS
<1>1. T # {}
  BY FS_EmptySet
<1>2. ASSUME NEW x \in T PROVE Cardinality(T \ {x}) = k
  BY FS_RemoveElement
<1> QED
  BY <1>1, <1>2

\* F sums g over the subsets of S too, but takes the place c[T] of T last.
SumsBy(S, g, c, F) ==
  /\ F[{}] = 0
  /\ \A T \in SUBSET S : T # {} => c[T] \in T
  /\ \A T \in SUBSET S : T # {} /\ F[T \ {c[T]}] \in Int
                           => F[T] = F[T \ {c[T]}] + g[c[T]]

\* The sum is the same in any order.
LEMMA AnyOrder ==
  ASSUME NEW n \in Nat, NEW g \in [1..n -> Int], NEW f, IsSum(n, g, f),
         NEW S \in SUBSET (1..n), NEW c, NEW F,
         SumsBy(S, g, c, F)
  PROVE  F[S] = f[S]
<1> DEFINE M == {k \in Nat : \A T \in SUBSET S : Cardinality(T) = k => F[T] = f[T]}
<1>f. \A T \in SUBSET S : IsFiniteSet(T) /\ Cardinality(T) \in Nat
  BY PlacesAreFinite, Zenon
<1>1. 0 \in M
  <2>1. \A T \in SUBSET S : Cardinality(T) = 0 => T = {}
    BY <1>f, FS_EmptySet, Zenon
  <2>2. f[{}] = 0 /\ F[{}] = 0
    BY DEF IsSum, SumsBy
  <2> QED
    BY <2>1, <2>2
<1>2. ASSUME NEW k \in Nat, k \in M PROVE k + 1 \in M
  <2>1. ASSUME NEW T \in SUBSET S, Cardinality(T) = k + 1 PROVE F[T] = f[T]
    <3>1. T # {} /\ \A x \in T : Cardinality(T \ {x}) = k
      BY <1>f, <2>1, OneLess, Zenon
    <3>2. PICK x \in T : x = c[T]
      BY <3>1 DEF SumsBy
    <3>3. Cardinality(T \ {x}) = k
      BY <3>1, Zenon
    <3>4. T \ {x} \in SUBSET S /\ T \in SUBSET (1..n) /\ T \ {x} \in SUBSET (1..n)
      OBVIOUS
    <3>5. F[T \ {x}] = f[T \ {x}]
      BY <1>2, <3>3, <3>4
    <3>6. f[T \ {x}] \in Int /\ f[T] = f[T \ {x}] + g[x]
      BY <3>4, Zenon DEF IsSum
    <3>7. F[T \ {c[T]}] \in Int
      BY <3>2, <3>5, <3>6, Zenon
    <3>8. F[T] = F[T \ {c[T]}] + g[c[T]]
      BY <3>1, <3>7, Zenon DEF SumsBy
    <3> QED
      BY <3>2, <3>5, <3>6, <3>8, Zenon
  <2> QED
    BY <2>1
<1>3. Nat \subseteq M
  <2> HIDE DEF M
  <2> QED
    BY <1>1, <1>2, SetInduction
<1>4. Cardinality(S) \in Nat
  BY <1>f
<1> QED
  BY <1>3, <1>4

\* FoldFunctionOnSet adds in the order of CHOOSE: the sum, all the same.
LEMMA FoldIsSum ==
  ASSUME NEW n \in Nat, NEW g \in [1..n -> Int], NEW f, IsSum(n, g, f),
         NEW S \in SUBSET (1..n)
  PROVE  FoldFunctionOnSet(+, 0, g, S) = f[S]
<1> DEFINE c == [T \in SUBSET S |-> CHOOSE x \in T : TRUE]
           P(F) == F = [T \in SUBSET S |-> IF T = {} THEN 0
                           ELSE g[CHOOSE x \in T : TRUE] + F[T \ {CHOOSE x \in T : TRUE}]]
           h == [T \in SUBSET S |-> f[T]]
<1>1. FoldFunctionOnSet(+, 0, g, S) = (CHOOSE F : P(F))[S]
  BY Zenon DEF FoldFunctionOnSet, MapThenFoldSet
<1>2. \A T \in SUBSET S : T # {} => (CHOOSE x \in T : TRUE) \in T
  OBVIOUS
<1>3. P(h)
  <2>1. ASSUME NEW T \in SUBSET S
        PROVE  f[T] = IF T = {} THEN 0
                      ELSE g[CHOOSE x \in T : TRUE] + h[T \ {CHOOSE x \in T : TRUE}]
    <3>1. CASE T = {}
      BY <3>1 DEF IsSum
    <3>2. CASE T # {}
      <4>1. PICK x \in T : x = CHOOSE y \in T : TRUE
        BY <3>2, <1>2, Zenon
      <4>2. T \ {x} \in SUBSET S /\ T \in SUBSET (1..n) /\ T \ {x} \in SUBSET (1..n) /\ x \in 1..n
        OBVIOUS
      <4>3. f[T] = f[T \ {x}] + g[x] /\ f[T \ {x}] \in Int /\ g[x] \in Int
        BY <4>2, Zenon DEF IsSum
      <4>4. h[T \ {x}] = f[T \ {x}]
        BY <4>2, Zenon
      <4>5. f[T] = g[x] + f[T \ {x}]
        BY <4>3
      <4> QED
        BY <3>2, <4>1, <4>4, <4>5, Zenon
    <3> QED
      BY <3>1, <3>2
  <2> QED
    BY <2>1, Zenon
<1>4. PICK F : F = (CHOOSE G : P(G))
  OBVIOUS
<1>5. P(F)
  <2> HIDE DEF P, h
  <2> QED
    BY <1>3, <1>4, Zenon
<1>6. F[{}] = 0
  <2>1. {} \in SUBSET S
    OBVIOUS
  <2> QED
    BY <2>1, <1>5, Zenon
<1>7. ASSUME NEW T \in SUBSET S, T # {}, F[T \ {c[T]}] \in Int
      PROVE  F[T] = F[T \ {c[T]}] + g[c[T]]
  <2>1. c[T] = CHOOSE x \in T : TRUE
    BY Zenon
  <2>2. F[T] = g[c[T]] + F[T \ {c[T]}]
    BY <1>5, <1>7, <2>1, Zenon
  <2>3. c[T] \in 1..n
    BY <1>7, <1>2, <2>1
  <2>4. g[c[T]] \in Int
    BY <2>3, Zenon
  <2> HIDE DEF c
  <2> QED
    BY <1>7, <2>2, <2>4
<1>8. \A T \in SUBSET S : T # {} => c[T] \in T
  BY <1>2
<1>9. F[S] = f[S]
  <2>1. \A T \in SUBSET S : T # {} /\ F[T \ {c[T]}] \in Int
                                => F[T] = F[T \ {c[T]}] + g[c[T]]
    BY <1>7
  <2> HIDE DEF c, P
  <2>2. SumsBy(S, g, c, F)
    BY <1>6, <2>1, <1>8 DEF SumsBy
  <2> QED
    BY <2>2, AnyOrder
<1> QED
  BY <1>1, <1>4, <1>9, Zenon

\* A set of places has a last one.
LEMMA LastPlace ==
  ASSUME NEW n \in Nat, NEW T \in SUBSET (1..n), T # {}
  PROVE  Max(T) \in T
<1> DEFINE U == {n - x : x \in T}
<1>0. \A x \in T : n - x \in Nat /\ x \in Int
  OBVIOUS
<1>1. U \subseteq Nat /\ U # {}
  BY <1>0
<1>2. PICK u \in U : \A y \in U : u <= y
  <2> HIDE DEF U
  <2> QED
    BY <1>1, LeastNat
<1>3. PICK x \in T : u = n - x
  BY <1>2
<1>4. ASSUME NEW y \in T PROVE x >= y
  <2>1. n - y \in U
    OBVIOUS
  <2>2. n - x <= n - y
    BY <1>2, <1>3, <2>1
  <2> QED
    BY <1>0, <2>2
<1> QED
  BY <1>4, Zenon DEF Max

\* Total adds from the first place to the last.
LEMMA TotalIsSum ==
  ASSUME NEW s, NEW n \in Nat, DOMAIN s = 1..n,
         NEW g \in [1..n -> Int], \A i \in 1..n : g[i] = Rate(s[i]),
         NEW f, IsSum(n, g, f)
  PROVE  Total(s) = f[1..n]
<1> DEFINE S == 1..n
           c == [T \in SUBSET S |-> Max(T)]
           P(F) == F = [T \in SUBSET S |-> IF T = {} THEN 0
                                           ELSE F[T \ {Max(T)}] + Rate(s[Max(T)])]
           h == [T \in SUBSET S |-> f[T]]
<1>1. Total(s) = (CHOOSE F : P(F))[S]
  BY Zenon DEF Total, FoldLeft, MapThenFoldSet
<1>2. \A T \in SUBSET S : T # {} => Max(T) \in T
  BY LastPlace
<1>3. P(h)
  <2>1. ASSUME NEW T \in SUBSET S
        PROVE  f[T] = IF T = {} THEN 0 ELSE h[T \ {Max(T)}] + Rate(s[Max(T)])
    <3>1. CASE T = {}
      BY <3>1 DEF IsSum
    <3>2. CASE T # {}
      <4>1. PICK x \in T : x = Max(T)
        BY <3>2, <1>2, Zenon
      <4>2. T \ {x} \in SUBSET S /\ x \in 1..n
        OBVIOUS
      <4>3. f[T] = f[T \ {x}] + g[x] /\ g[x] = Rate(s[x])
        BY <4>2, Zenon DEF IsSum
      <4>4. h[T \ {x}] = f[T \ {x}]
        BY <4>2, Zenon
      <4> QED
        BY <3>2, <4>1, <4>3, <4>4, Zenon
    <3> QED
      BY <3>1, <3>2
  <2> QED
    BY <2>1, Zenon
<1>4. PICK F : F = (CHOOSE G : P(G))
  OBVIOUS
<1>5. P(F)
  <2> HIDE DEF P, h
  <2> QED
    BY <1>3, <1>4, Zenon
<1>6. F[{}] = 0
  <2>1. {} \in SUBSET S
    OBVIOUS
  <2> QED
    BY <2>1, <1>5, Zenon
<1>7. ASSUME NEW T \in SUBSET S, T # {}, F[T \ {c[T]}] \in Int
      PROVE  F[T] = F[T \ {c[T]}] + g[c[T]]
  <2>1. c[T] = Max(T) /\ Max(T) \in 1..n
    BY <1>2, <1>7, Zenon
  <2>2. F[T] = F[T \ {c[T]}] + Rate(s[c[T]])
    BY <1>5, <1>7, <2>1, Zenon
  <2> QED
    BY <2>1, <2>2, Zenon
<1>8. \A T \in SUBSET S : T # {} => c[T] \in T
  BY <1>2
<1>9. F[S] = f[S]
  <2>1. \A T \in SUBSET S : T # {} /\ F[T \ {c[T]}] \in Int
                                => F[T] = F[T \ {c[T]}] + g[c[T]]
    BY <1>7
  <2> HIDE DEF c, P
  <2>2. SumsBy(S, g, c, F)
    BY <1>6, <2>1, <1>8 DEF SumsBy
  <2> QED
    BY <2>2, AnyOrder
<1> QED
  BY <1>1, <1>4, <1>9, Zenon

\* q lists the members of S, each of them once.
Lists(m, q, S) ==
  /\ q \in [1..m -> S]
  /\ \A j, k \in 1..m : q[j] = q[k] => j = k
  /\ \A x \in S : \E k \in 1..m : q[k] = x

\* The terms of a are those of b in S: term k of a is term q[k] of b.
Moved(m, a, n, b, q, S) ==
  /\ m \in Nat /\ a \in [1..m -> Int]
  /\ n \in Nat /\ b \in [1..n -> Int]
  /\ S \in SUBSET (1..n) /\ Lists(m, q, S)
  /\ \A k \in 1..m : a[k] = b[q[k]]

\* A sum follows its terms when they move.
LEMMA SumMoves ==
  \A m, a, n, b, q, S, e, f :
    Moved(m, a, n, b, q, S) /\ IsSum(m, a, e) /\ IsSum(n, b, f) => e[1..m] = f[S]
<1> SUFFICES ASSUME NEW m, NEW a, NEW n, NEW b, NEW q, NEW S, NEW e, NEW f,
                    Moved(m, a, n, b, q, S), IsSum(m, a, e), IsSum(n, b, f)
             PROVE  e[1..m] = f[S]
  OBVIOUS
<1>m. /\ m \in Nat /\ n \in Nat
      /\ S \in SUBSET (1..n) /\ Lists(m, q, S)
      /\ \A k \in 1..m : a[k] = b[q[k]]
  BY DEF Moved
<1> DEFINE Q(i) == {q[k] : k \in 1..i}
           M == {i \in Nat : i <= m => e[1..i] = f[Q(i)]}
<1>q. /\ \A k \in 1..m : q[k] \in S /\ q[k] \in 1..n
      /\ \A j, k \in 1..m : q[j] = q[k] => j = k
  BY <1>m DEF Lists
<1>1. 0 \in M
  <2>1. 1..0 = {} /\ Q(0) = {}
    OBVIOUS
  <2>2. e[{}] = 0 /\ f[{}] = 0
    BY DEF IsSum
  <2> QED
    BY <2>1, <2>2
<1>2. ASSUME NEW i \in Nat, i \in M PROVE i + 1 \in M
  <2>1. ASSUME i + 1 <= m PROVE e[1..(i + 1)] = f[Q(i + 1)]
    <3>1. e[1..i] = f[Q(i)]
      BY <1>m, <1>2, <2>1
    <3>2. /\ 1..(i + 1) \in SUBSET (1..m) /\ i + 1 \in 1..(i + 1) /\ i + 1 \in 1..m
          /\ (1..(i + 1)) \ {i + 1} = 1..i
      BY <1>m, <2>1
    <3>3. Q(i + 1) \in SUBSET (1..n) /\ q[i + 1] \in Q(i + 1)
      BY <1>m, <1>q, <2>1, <3>2
    <3>4. Q(i + 1) \ {q[i + 1]} = Q(i)
      <4>1. \A k \in 1..(i + 1) : k \in 1..m /\ (k # i + 1 => k \in 1..i)
        BY <1>m, <2>1
      <4>2. \A k \in 1..i : k \in 1..(i + 1) /\ q[k] # q[i + 1]
        BY <1>m, <1>q, <2>1, <3>2
      <4>3. Q(i + 1) \ {q[i + 1]} \subseteq Q(i)
        BY <4>1, Zenon
      <4>4. Q(i) \subseteq Q(i + 1) \ {q[i + 1]}
        BY <4>2, Zenon
      <4> QED
        BY <4>3, <4>4, Zenon
    <3>5. e[1..(i + 1)] = e[1..i] + a[i + 1]
      <4>1. \A T \in SUBSET (1..m) : \A x \in T : e[T] = e[T \ {x}] + a[x]
        BY DEF IsSum
      <4>2. e[1..(i + 1)] = e[(1..(i + 1)) \ {i + 1}] + a[i + 1]
        BY <3>2, <4>1
      <4> QED
        BY <3>2, <4>2
    <3>6. f[Q(i + 1)] = f[Q(i)] + b[q[i + 1]]
      <4>1. \A T \in SUBSET (1..n) : \A x \in T : f[T] = f[T \ {x}] + b[x]
        BY DEF IsSum
      <4> HIDE DEF Q
      <4>2. f[Q(i + 1)] = f[Q(i + 1) \ {q[i + 1]}] + b[q[i + 1]]
        BY <3>3, <4>1
      <4> QED
        BY <3>4, <4>2
    <3> HIDE DEF Q
    <3> QED
      BY <1>m, <3>1, <3>2, <3>5, <3>6, Zenon
  <2> QED
    BY <1>m, <2>1
<1>3. Nat \subseteq M
  <2> HIDE DEF M
  <2> QED
    BY <1>1, <1>2, SetInduction
<1>4. m \in M
  <2> HIDE DEF M
  <2> QED
    BY <1>m, <1>3
<1>5. S = Q(m)
  <2>1. ASSUME NEW x \in S PROVE x \in Q(m)
    <3>1. PICK k \in 1..m : q[k] = x
      BY <1>m DEF Lists
    <3> QED
      BY <3>1
  <2>2. Q(m) \subseteq S
    BY <1>m, <1>q, Zenon
  <2> QED
    BY <2>1, <2>2, Zenon
<1> QED
  BY <1>4, <1>5

\* A sum of n terms, each at least d.
LEMMA SumIsAtLeast ==
  ASSUME NEW n \in Nat, NEW g \in [1..n -> Int], NEW d \in Nat,
         \A i \in 1..n : g[i] >= d, NEW f, IsSum(n, g, f)
  PROVE  f[1..n] \in Int /\ f[1..n] >= d * n
<1> DEFINE M == {i \in Nat : i <= n => f[1..i] \in Int /\ f[1..i] >= d * i}
<1>1. 0 \in M
  <2>1. 1..0 = {} /\ d * 0 = 0
    OBVIOUS
  <2>2. f[{}] = 0
    BY DEF IsSum
  <2> QED
    BY <2>1, <2>2
<1>2. ASSUME NEW i \in Nat, i \in M PROVE i + 1 \in M
  <2>1. ASSUME i + 1 <= n PROVE f[1..(i + 1)] \in Int /\ f[1..(i + 1)] >= d * (i + 1)
    <3>1. f[1..i] \in Int /\ f[1..i] >= d * i
      BY <1>2, <2>1
    <3>2. /\ 1..(i + 1) \in SUBSET (1..n) /\ i + 1 \in 1..(i + 1) /\ i + 1 \in 1..n
          /\ (1..(i + 1)) \ {i + 1} = 1..i
      BY <2>1
    <3>3. f[1..(i + 1)] = f[1..i] + g[i + 1]
      <4>1. \A T \in SUBSET (1..n) : \A x \in T : f[T] = f[T \ {x}] + g[x]
        BY DEF IsSum
      <4>2. f[1..(i + 1)] = f[(1..(i + 1)) \ {i + 1}] + g[i + 1]
        BY <3>2, <4>1
      <4> QED
        BY <3>2, <4>2
    <3>4. d * (i + 1) = d * i + d /\ d * i \in Int
      OBVIOUS
    <3>5. g[i + 1] \in Int /\ g[i + 1] >= d
      BY <3>2
    <3> QED
      BY <3>1, <3>3, <3>4, <3>5
  <2> QED
    BY <2>1
<1>3. Nat \subseteq M
  <2> HIDE DEF M
  <2> QED
    BY <1>1, <1>2, SetInduction
<1> QED
  BY <1>3
-----------------------------------------------------------------------------
(* Sort: each round leaves the same samples, in another order, and one more *)
(* of them in its place.                                                    *)
Times == 1..MaxSpend

\* t is s in another order: place k of t is place p[k] of s.
Reordered(s, t, p) ==
  LET n == Len(s) IN
  /\ t \in Seq(Times) /\ Len(t) = n
  /\ p \in [1..n -> 1..n]
  /\ \A j, k \in 1..n : p[j] = p[k] => j = k
  /\ \A j \in 1..n : \E k \in 1..n : p[k] = j
  /\ \A k \in 1..n : t[k] = s[p[k]]

\* The first i places are in their order, and before all others.
Ordered(t, i) == \A k, l \in 1..Len(t) : k <= i /\ k < l => t[k] >= t[l]

\* What QosAssumption says of the times.
LEMMA TimesAreNatural == MaxSpend \in Nat /\ MaxSpend > 0 /\ \A d \in Times : d \in Nat /\ d > 0
BY QosAssumption DEF Times

\* Longest finds a place, and the longest time from there on.
LEMMA LongestIs ==
  ASSUME NEW t \in Seq(Times), NEW i \in 1..Len(t)
  PROVE  Longest(t, i) \in i..Len(t) /\ \A k \in i..Len(t) : t[k] <= t[Longest(t, i)]
<1> DEFINE U == {MaxSpend - t[k] : k \in i..Len(t)}
<1>0. \A k \in i..Len(t) : t[k] \in Int /\ t[k] <= MaxSpend
  BY TimesAreNatural DEF Times
<1>1. U \subseteq Nat /\ U # {}
  <2>1. i \in i..Len(t)
    OBVIOUS
  <2> QED
    BY <1>0, <2>1, TimesAreNatural
<1>2. PICK u \in U : \A y \in U : u <= y
  <2> HIDE DEF U
  <2> QED
    BY <1>1, LeastNat
<1>3. PICK j \in i..Len(t) : u = MaxSpend - t[j]
  BY <1>2
<1>4. ASSUME NEW k \in i..Len(t) PROVE t[k] <= t[j]
  <2>1. MaxSpend - t[k] \in U
    OBVIOUS
  <2>2. MaxSpend - t[j] <= MaxSpend - t[k]
    BY <1>2, <1>3, <2>1
  <2>3. t[j] \in Int /\ t[k] \in Int /\ MaxSpend \in Int
    BY <1>0, TimesAreNatural
  <2> QED
    BY <2>2, <2>3
<1> QED
  BY <1>4, Zenon DEF Longest

\* A round orders one place more.
LEMMA RoundOrders ==
  ASSUME NEW s \in Seq(Times), NEW t, NEW p, Reordered(s, t, p),
         NEW i \in 1..Len(s), Ordered(t, i - 1)
  PROVE  /\ \E q : Reordered(s, Select(i)[t], q)
         /\ Ordered(Select(i)[t], i)
<1> DEFINE n == Len(s)
           L == Longest(t, i)
<1>n. n \in Nat /\ i \in 1..n
  OBVIOUS
<1>1. /\ t \in Seq(Times) /\ Len(t) = n /\ t \in [1..n -> Times]
      /\ p \in [1..n -> 1..n]
      /\ \A j, k \in 1..n : p[j] = p[k] => j = k
      /\ \A j \in 1..n : \E k \in 1..n : p[k] = j
      /\ \A k \in 1..n : t[k] = s[p[k]]
  <2>1. /\ t \in Seq(Times) /\ Len(t) = n
        /\ p \in [1..n -> 1..n]
        /\ \A j, k \in 1..n : p[j] = p[k] => j = k
        /\ \A j \in 1..n : \E k \in 1..n : p[k] = j
        /\ \A k \in 1..n : t[k] = s[p[k]]
    BY Zenon DEF Reordered
  <2>2. t \in [1..n -> Times]
    BY <2>1
  <2> QED
    BY <2>1, <2>2, Zenon
<1>2. PICK j \in i..n : j = L /\ \A k \in i..n : t[k] <= t[j]
  BY <1>1, LongestIs
<1>3. j \in 1..n
  BY <1>n
<1>4. PICK u : u = Select(i)[t]
  OBVIOUS
<1>5. u = [t EXCEPT ![i] = t[j], ![j] = t[i]]
  <2>1. t \in Seq(Nat)
    BY <1>1, TimesAreNatural
  <2> QED
    BY <1>2, <1>4, <2>1, Zenon DEF Select
<1>6. PICK q : q = [p EXCEPT ![i] = p[j], ![j] = p[i]]
  OBVIOUS
<1> HIDE DEF L, n
<1>7. u \in [1..n -> Times]
  BY <1>1, <1>3, <1>5, <1>n, Zenon
<1>8. \A k \in 1..n : u[k] = IF k = j THEN t[i] ELSE IF k = i THEN t[j] ELSE t[k]
  BY <1>1, <1>3, <1>5, <1>n
<1>9. \A k \in 1..n : q[k] = IF k = j THEN p[i] ELSE IF k = i THEN p[j] ELSE p[k]
  BY <1>1, <1>3, <1>6, <1>n
<1>10. u \in Seq(Times) /\ Len(u) = n
  BY <1>7, <1>n
<1>11. Reordered(s, u, q)
  <2>1. q \in [1..n -> 1..n]
    BY <1>1, <1>3, <1>6, <1>n, Zenon
  <2> DEFINE w(k) == IF k = j THEN i ELSE IF k = i THEN j ELSE k
  <2>w. /\ \A k \in 1..n : w(k) \in 1..n /\ u[k] = t[w(k)] /\ q[k] = p[w(k)]
        /\ \A k, l \in 1..n : w(k) = w(l) => k = l
    BY <1>3, <1>8, <1>9, <1>n
  <2> HIDE DEF w
  <2>2. ASSUME NEW k \in 1..n PROVE u[k] = s[q[k]]
    <3>1. u[k] = t[w(k)] /\ q[k] = p[w(k)] /\ t[w(k)] = s[p[w(k)]]
      BY <1>1, <2>w, Zenon
    <3> QED
      BY <3>1, Zenon
  <2>3. ASSUME NEW k \in 1..n, NEW l \in 1..n, q[k] = q[l] PROVE k = l
    <3>1. p[w(k)] = p[w(l)] /\ w(k) \in 1..n /\ w(l) \in 1..n
      BY <2>w, <2>3, Zenon
    <3>2. w(k) = w(l)
      BY <1>1, <3>1, Zenon
    <3> QED
      BY <2>w, <3>2, Zenon
  <2>4. ASSUME NEW m \in 1..n PROVE \E k \in 1..n : q[k] = m
    <3>1. PICK k \in 1..n : p[k] = m
      BY <1>1
    <3>2. CASE k = i
      BY <1>3, <1>9, <3>1, <3>2
    <3>3. CASE k = j /\ k # i
      BY <1>9, <1>n, <3>1, <3>3
    <3>4. CASE k # j /\ k # i
      BY <1>9, <3>1, <3>4
    <3> QED
      BY <3>2, <3>3, <3>4
  <2> QED
    BY <1>10, <2>1, <2>2, <2>3, <2>4 DEF Reordered, n
<1>12. Ordered(u, i)
  <2>1. ASSUME NEW k \in 1..n, NEW l \in 1..n, k <= i, k < l PROVE u[k] >= u[l]
    <3>0. i \in Int /\ j \in Int /\ k \in Int /\ l \in Int /\ i <= j /\ n \in Int /\ j <= n /\ l <= n
      BY <1>n, <1>3, <1>2
    <3>1. \A m \in 1..n : t[m] \in Int
      BY <1>1, TimesAreNatural
    <3>2. \A a, b \in 1..n : a <= i - 1 /\ a < b => t[a] >= t[b]
      BY <1>1 DEF Ordered
    <3>3. \A a \in i..n : t[a] <= t[j]
      BY <1>2
    <3>4. CASE k = i
      <4>1. u[k] = t[j]
        BY <3>4, <1>8, <1>3
      <4>2. u[l] = t[i] \/ u[l] = t[l]
        BY <3>4, <1>8, <2>1
      <4>3. t[i] <= t[j] /\ t[l] <= t[j]
        BY <3>0, <3>3, <3>4, <2>1
      <4> QED
        BY <4>1, <4>2, <4>3, <3>1, <1>3, <1>n
    <3>5. CASE k < i
      <4>1. u[k] = t[k]
        BY <3>5, <1>8, <3>0
      <4>2. u[l] = t[i] \/ u[l] = t[j] \/ u[l] = t[l]
        BY <1>8
      <4>3. t[k] >= t[i] /\ t[k] >= t[j] /\ t[k] >= t[l]
        BY <3>0, <3>2, <3>5, <2>1, <1>3, <1>n
      <4> QED
        BY <4>1, <4>2, <4>3
    <3> QED
      BY <2>1, <3>0, <3>4, <3>5
  <2> QED
    BY <1>10, <2>1 DEF Ordered
<1> QED
  BY <1>4, <1>11, <1>12

\* Rounds is the loop it is written as: each round works on the one before.
LEMMA RoundsAre ==
  ASSUME NEW s \in Seq(Times)
  PROVE  /\ Rounds(s)[0] = s
         /\ \A i \in 1..Len(s) : Rounds(s)[i] = Select(i)[Rounds(s)[i - 1]]
<1> DEFINE R(n, h) == h = [i \in 0..n |-> IF i = 0 THEN s ELSE Select(i)[h[i - 1]]]
           T == {n \in Nat : \E h : R(n, h)}
<1>1. 0 \in T
  <2> DEFINE h == [i \in 0..0 |-> s]
  <2>1. R(0, h)
    OBVIOUS
  <2> QED
    BY <2>1, Zenon
<1>2. ASSUME NEW n \in Nat, n \in T PROVE n + 1 \in T
  <2>1. PICK g : R(n, g)
    BY <1>2
  <2> DEFINE h == [i \in 0..(n + 1) |-> IF i = n + 1 THEN Select(n + 1)[g[n]] ELSE g[i]]
  <2>2. ASSUME NEW i \in 0..(n + 1)
        PROVE  h[i] = IF i = 0 THEN s ELSE Select(i)[h[i - 1]]
    <3>0. g = [k \in 0..n |-> IF k = 0 THEN s ELSE Select(k)[g[k - 1]]]
      BY <2>1
    <3>1. CASE i = n + 1
      <4>1. i # 0 /\ i - 1 = n /\ n \in 0..(n + 1) /\ n # n + 1
        BY <3>1
      <4>2. h[i] = Select(n + 1)[g[n]] /\ h[n] = g[n]
        BY <3>1, <4>1, Zenon
      <4> QED
        BY <3>1, <4>1, <4>2, Zenon
    <3>2. CASE i = 0
      <4>1. i # n + 1 /\ i \in 0..n
        BY <3>2
      <4>2. h[i] = g[i] /\ g[i] = s
        BY <3>0, <3>2, <4>1, Zenon
      <4> QED
        BY <3>2, <4>2, Zenon
    <3>3. CASE i # 0 /\ i # n + 1
      <4>1. i \in 0..n /\ i - 1 \in 0..(n + 1) /\ i - 1 # n + 1
        BY <3>3
      <4>2. h[i] = g[i] /\ g[i] = Select(i)[g[i - 1]] /\ h[i - 1] = g[i - 1]
        BY <3>0, <3>3, <4>1, Zenon
      <4> QED
        BY <3>3, <4>2, Zenon
    <3> QED
      BY <3>1, <3>2, <3>3
  <2>3. R(n + 1, h)
    BY <2>2, Zenon
  <2> HIDE DEF h, R
  <2> QED
    BY <2>3
<1>3. Nat \subseteq T
  <2> HIDE DEF T
  <2> QED
    BY <1>1, <1>2, SetInduction
<1>4. \E h : R(Len(s), h)
  <2>1. Len(s) \in T
    BY <1>3
  <2> QED
    BY <2>1
<1>5. Rounds(s) = CHOOSE h : R(Len(s), h)
  BY Zenon DEF Rounds
<1>6. R(Len(s), Rounds(s))
  <2> HIDE DEF R
  <2> QED
    BY <1>4, <1>5, Zenon
<1>7. \A i \in 0..Len(s) : Rounds(s)[i] = IF i = 0 THEN s ELSE Select(i)[Rounds(s)[i - 1]]
  BY <1>6, Zenon
<1>8. 0 \in 0..Len(s) /\ \A i \in 1..Len(s) : i \in 0..Len(s) /\ i # 0
  OBVIOUS
<1> QED
  BY <1>7, <1>8, Zenon

\* What Sort returns: the same samples, the longest first.
LEMMA SortIs ==
  ASSUME NEW s \in Seq(Times), s # <<>>
  PROVE  /\ \E p : Reordered(s, Sort(s), p)
         /\ \A k, l \in 1..Len(s) : k < l => Sort(s)[k] >= Sort(s)[l]
<1> DEFINE n == Len(s)
           r == Rounds(s)
           T == {i \in Nat : i <= n => (\E p : Reordered(s, r[i], p)) /\ Ordered(r[i], i)}
<1>1. 0 \in T
  <2> DEFINE p == [k \in 1..n |-> k]
  <2>1. Reordered(s, s, p)
    BY DEF Reordered
  <2>2. Ordered(s, 0)
    BY DEF Ordered
  <2>3. r[0] = s
    BY RoundsAre
  <2> HIDE DEF r, p
  <2> QED
    BY <2>1, <2>2, <2>3
<1>2. ASSUME NEW i \in Nat, i \in T PROVE i + 1 \in T
  <2>1. ASSUME i + 1 <= n PROVE (\E p : Reordered(s, r[i + 1], p)) /\ Ordered(r[i + 1], i + 1)
    <3>1. i + 1 \in 1..Len(s) /\ (i + 1) - 1 = i
      BY <2>1
    <3>2. r[i + 1] = Select(i + 1)[r[i]]
      BY <3>1, RoundsAre
    <3> HIDE DEF r
    <3>3. PICK p : Reordered(s, r[i], p)
      BY <1>2, <2>1
    <3>4. Ordered(r[i], (i + 1) - 1)
      BY <1>2, <2>1, <3>1
    <3>5. (\E q : Reordered(s, Select(i + 1)[r[i]], q)) /\ Ordered(Select(i + 1)[r[i]], i + 1)
      BY <3>1, <3>3, <3>4, RoundOrders
    <3> QED
      BY <3>2, <3>5
  <2> QED
    BY <2>1
<1>3. Nat \subseteq T
  <2> HIDE DEF T
  <2> QED
    BY <1>1, <1>2, SetInduction
<1>4. n - 1 \in Nat
  OBVIOUS
<1>5. (\E p : Reordered(s, Sort(s), p)) /\ Ordered(Sort(s), n - 1)
  <2>1. n - 1 \in T /\ n - 1 <= n
    BY <1>3, <1>4
  <2> HIDE DEF r
  <2>2. (\E p : Reordered(s, r[n - 1], p)) /\ Ordered(r[n - 1], n - 1)
    BY <2>1
  <2> QED
    BY <2>2, Zenon DEF Sort, r
<1>6. Len(Sort(s)) = n
  BY <1>5 DEF Reordered
<1>7. ASSUME NEW k \in 1..n, NEW l \in 1..n, k < l PROVE Sort(s)[k] >= Sort(s)[l]
  <2>1. k <= n - 1
    BY <1>4, <1>7
  <2> QED
    BY <1>5, <1>6, <1>7, <2>1, Zenon DEF Ordered
<1> QED
  BY <1>5, <1>7
-----------------------------------------------------------------------------
(***************************************************************************)
(* The ring holds the last samples: the place behind the last one written  *)
(* has the oldest, and recent has them from the oldest on.                 *)
(***************************************************************************)
Back(j) == IF j > at THEN j - at ELSE (j - at) + Len(values)

RingInv ==
  /\ values \in Seq(Times) /\ recent \in Seq(Times)
  /\ Len(recent) = Len(values) /\ Len(values) <= Window
  /\ at \in 0..(Window - 1)
  /\ Len(values) < Window => at = Len(values)
  /\ \A j \in 1..Len(values) : values[j] = recent[Back(j)]

\* What QosAssumption says of the window and the rates.
LEMMA ScalesAreNatural ==
  /\ Window \in Nat /\ Window > 0 /\ Second \in Nat /\ Second > 0
  /\ MaxFPS \in Nat /\ MaxFPS > 0 /\ Scale \in Nat /\ Scale > 0
BY QosAssumption

\* A rate is a number.
LEMMA RateIsNatural == \A d \in Times : Rate(d) \in Int
<1> SUFFICES ASSUME NEW d \in Times PROVE Rate(d) \in Int
  OBVIOUS
<1>1. d \in Nat /\ d > 0
  BY TimesAreNatural
<1>2. PICK x \in Int : x = Second * Scale
  BY ScalesAreNatural
<1> QED
  BY <1>1, <1>2 DEF Rate

\* A sample of at most a second is a rate of at least 1.
LEMMA FastRate == \A d \in Times : d <= Second => Rate(d) >= Scale
<1> SUFFICES ASSUME NEW d \in Times, d <= Second PROVE Rate(d) >= Scale
  OBVIOUS
<1>1. d \in Nat /\ d > 0
  BY TimesAreNatural
<1>2. PICK e \in Nat : Second = d + e
  <2>1. Second - d \in Nat /\ Second = d + (Second - d)
    BY <1>1, ScalesAreNatural
  <2> QED
    BY <2>1
<1>3. PICK x \in Int : x = Second * Scale
  BY ScalesAreNatural
<1>4. x >= d * Scale
  <2>1. Second * Scale = d * Scale + e * Scale /\ e * Scale \in Nat /\ d * Scale \in Nat
    BY <1>1, <1>2, ScalesAreNatural
  <2> QED
    BY <1>3, <2>1
<1>5. x \div d >= Scale
  BY <1>1, <1>4, ScalesAreNatural
<1> QED
  BY <1>3, <1>5 DEF Rate

\* Every place of the ring is one place of recent.
LEMMA BackIsOneToOne ==
  ASSUME RingInv
  PROVE  LET n == Len(values) IN
         /\ \A j \in 1..n : Back(j) \in 1..n
         /\ \A j, k \in 1..n : Back(j) = Back(k) => j = k
         /\ \A i \in 1..n : \E j \in 1..n : Back(j) = i
<1> DEFINE n == Len(values)
<1>1. n \in Nat /\ at \in Nat /\ at <= n
  BY ScalesAreNatural DEF RingInv
<1> HIDE DEF n
<1>2. \A j \in 1..n : Back(j) = IF j > at THEN j - at ELSE (j - at) + n
  BY DEF Back, n
<1>3. ASSUME NEW i \in 1..n PROVE \E j \in 1..n : Back(j) = i
  <2>1. CASE i + at <= n
    <3>1. i + at \in 1..n /\ i + at > at
      BY <1>1, <2>1
    <3>2. Back(i + at) = i
      BY <1>1, <1>2, <3>1
    <3> QED
      BY <3>1, <3>2
  <2>2. CASE i + at > n
    <3>1. (i + at) - n \in 1..n /\ ~((i + at) - n > at)
      BY <1>1, <2>2
    <3>2. Back((i + at) - n) = i
      BY <1>1, <1>2, <3>1
    <3> QED
      BY <3>1, <3>2
  <2> QED
    BY <1>1, <2>1, <2>2
<1>4. \A j \in 1..n : Back(j) \in 1..n
  BY <1>1, <1>2
<1>5. \A j, k \in 1..n : Back(j) = Back(k) => j = k
  BY <1>1, <1>2
<1> QED
  BY <1>3, <1>4, <1>5 DEF n

\* A set has as many members as a list of them.
LEMMA CountListed == \A m \in Nat : \A q, S : Lists(m, q, S) => Cardinality(S) = m
<1> SUFFICES ASSUME NEW m \in Nat, NEW q, NEW S, Lists(m, q, S)
             PROVE  Cardinality(S) = m
  OBVIOUS
<1>1. q \in Bijection(1..m, S)
  <2>1. DOMAIN q = 1..m
    BY DEF Lists
  <2> QED
    BY <2>1, Zenon DEF Lists, Bijection, Injection, Surjection, IsInjective
<1>2. ExistsBijection(1..m, S)
  BY <1>1, Zenon DEF ExistsBijection
<1> QED
  BY <1>2, FS_CountingElements, Zenon

\* The samples of the ring and of recent are the same, so Sort and Total see
\* the slower half of recent.
LEMMA RingIsAverage == RingInv => AverageIsOfRecent
<1> SUFFICES ASSUME RingInv, Len(recent) > 0
             PROVE  \E S \in SUBSET (1..Len(recent)) :
                      /\ Cardinality(S) = Len(recent) \div 2
                      /\ \A i \in S, j \in (1..Len(recent)) \ S : recent[i] >= recent[j]
                      /\ Average(values).sum = FoldFunctionOnSet(+, 0,
                             [i \in 1..Len(recent) |-> Rate(recent[i])], S)
                      /\ Average(values).by = Len(recent) \div 2
  BY Zenon DEF AverageIsOfRecent
<1> DEFINE n == Len(recent)
           h == n \div 2
           t == Sort(values)
           g == [i \in 1..n |-> Rate(recent[i])]
<1>1. /\ values \in Seq(Times) /\ recent \in Seq(Times)
      /\ Len(values) = n /\ n \in Nat /\ n > 0 /\ values # <<>>
      /\ \A j \in 1..n : values[j] = recent[Back(j)]
  BY DEF RingInv
<1>2. h \in Nat /\ h <= n
  BY <1>1
<1>3. PICK p : Reordered(values, t, p)
  BY <1>1, SortIs
<1>4. \A k, l \in 1..n : k < l => t[k] >= t[l]
  BY <1>1, SortIs
<1>5. /\ t \in Seq(Times) /\ Len(t) = n
      /\ p \in [1..n -> 1..n]
      /\ \A j, k \in 1..n : p[j] = p[k] => j = k
      /\ \A j \in 1..n : \E k \in 1..n : p[k] = j
      /\ \A k \in 1..n : t[k] = values[p[k]]
  BY <1>1, <1>3, Zenon DEF Reordered
<1>6. /\ \A j \in 1..n : Back(j) \in 1..n
      /\ \A j, k \in 1..n : Back(j) = Back(k) => j = k
      /\ \A i \in 1..n : \E j \in 1..n : Back(j) = i
  BY <1>1, BackIsOneToOne, Zenon
<1>7. PICK q : q = [k \in 1..n |-> Back(p[k])]
  OBVIOUS
<1> HIDE DEF n, h, t
<1>8. /\ \A k \in 1..n : q[k] \in 1..n /\ t[k] = recent[q[k]]
      /\ \A j, k \in 1..n : q[j] = q[k] => j = k
      /\ \A i \in 1..n : \E k \in 1..n : q[k] = i
  <2>1. ASSUME NEW k \in 1..n PROVE q[k] \in 1..n /\ t[k] = recent[q[k]]
    <3>1. PICK j \in 1..n : j = p[k]
      BY <1>5, Zenon
    <3>2. q[k] = Back(j)
      BY <1>7, <3>1, Zenon
    <3>3. t[k] = values[j]
      BY <1>5, <3>1, Zenon
    <3>4. values[j] = recent[Back(j)]
      BY <1>1, Zenon
    <3>5. Back(j) \in 1..n
      BY <1>6, Zenon
    <3> QED
      BY <3>2, <3>3, <3>4, <3>5, Zenon
  <2>2. ASSUME NEW j \in 1..n, NEW k \in 1..n, q[j] = q[k] PROVE j = k
    <3>1. p[k] \in 1..n /\ q[k] = Back(p[k]) /\ p[j] \in 1..n /\ q[j] = Back(p[j])
      BY <1>5, <1>7, Zenon
    <3>2. Back(p[j]) = Back(p[k])
      BY <2>2, <3>1, Zenon
    <3>3. p[j] = p[k]
      BY <1>6, <3>1, <3>2, Zenon
    <3> QED
      BY <1>5, <3>3, Zenon
  <2>3. ASSUME NEW i \in 1..n PROVE \E k \in 1..n : q[k] = i
    <3>1. PICK j \in 1..n : Back(j) = i
      BY <1>6
    <3>2. PICK k \in 1..n : p[k] = j
      BY <1>5
    <3>3. q[k] = i
      BY <1>7, <3>1, <3>2, Zenon
    <3> QED
      BY <3>3
  <2> QED
    BY <2>1, <2>2, <2>3, Zenon
<1>9. PICK u : u = [k \in 1..h |-> q[k]]
  OBVIOUS
<1>10. /\ \A k \in 1..h : k \in 1..n
       /\ u \in [1..h -> 1..n]
       /\ \A j, k \in 1..h : u[j] = u[k] => j = k
       /\ \A k \in 1..h : u[k] = q[k]
  <2>1. \A k \in 1..h : k \in 1..n
    BY <1>1, <1>2 DEF n
  <2> QED
    BY <1>8, <1>9, <2>1, Zenon
<1>11. PICK S : S = {u[k] : k \in 1..h}
  OBVIOUS
<1>12. S \in SUBSET (1..n) /\ Lists(h, u, S) /\ Cardinality(S) = h
  <2>1. S \in SUBSET (1..n)
    BY <1>10, <1>11, Zenon
  <2>2. \A k \in 1..h : u[k] \in S
    BY <1>11, Zenon
  <2>3. \A x \in S : \E k \in 1..h : u[k] = x
    BY <1>11, Zenon
  <2>4. u \in [1..h -> S]
    BY <1>9, <1>10, <2>2, Zenon
  <2>5. Lists(h, u, S)
    BY <1>10, <2>3, <2>4, Zenon DEF Lists
  <2> QED
    BY <1>2, <2>1, <2>5, CountListed, Zenon
<1>13. ASSUME NEW i \in S, NEW j \in (1..n) \ S PROVE recent[i] >= recent[j]
  <2>1. PICK k \in 1..h : i = q[k]
    BY <1>10, <1>11
  <2>2. PICK l \in 1..n : j = q[l]
    BY <1>8
  <2>3. ~(l \in 1..h)
    BY <1>10, <1>11, <2>2, Zenon
  <2>4. k < l /\ k \in 1..n
    BY <1>1, <1>2, <1>10, <2>3
  <2>5. t[k] >= t[l]
    BY <1>4, <2>4, Zenon
  <2>6. t[k] = recent[i] /\ t[l] = recent[j]
    BY <1>8, <2>1, <2>2, <2>4, Zenon
  <2> QED
    BY <2>5, <2>6, Zenon
<1>14. g \in [1..n -> Int] /\ \A i \in 1..n : g[i] = Rate(recent[i])
  <2>1. \A i \in 1..n : recent[i] \in Times
    BY <1>1 DEF n
  <2> QED
    BY <2>1, RateIsNatural, Zenon
<1>15. PICK f : IsSum(n, g, f)
  <2> HIDE DEF g
  <2> QED
    BY <1>1, <1>14, SumExists
<1>16. PICK v : v = SubSeq(t, 1, h)
  OBVIOUS
<1>17. DOMAIN v = 1..h /\ \A k \in 1..h : v[k] = t[k]
  BY <1>1, <1>2, <1>5, <1>16
<1>18. PICK a : a = [k \in 1..h |-> Rate(t[k])]
  OBVIOUS
<1>19. /\ a \in [1..h -> Int]
       /\ \A k \in 1..h : a[k] = Rate(v[k]) /\ a[k] = g[u[k]]
  <2>1. \A k \in 1..h : t[k] \in Times
    <3>1. \A k \in 1..n : t[k] \in Times
      BY <1>5
    <3> QED
      BY <1>10, <3>1, Zenon
  <2>2. a \in [1..h -> Int]
    BY <1>18, <2>1, RateIsNatural, Zenon
  <2>3. \A k \in 1..h : a[k] = Rate(t[k])
    BY <1>18, Zenon
  <2> HIDE DEF g
  <2>4. \A k \in 1..h : g[u[k]] = Rate(recent[q[k]]) /\ t[k] = recent[q[k]]
    BY <1>8, <1>10, <1>14, Zenon
  <2> QED
    BY <1>17, <2>2, <2>3, <2>4, Zenon
<1>20. PICK e : IsSum(h, a, e)
  BY <1>2, <1>19, SumExists
<1> HIDE DEF g
<1>21. Total(v) = e[1..h]
  BY <1>2, <1>17, <1>19, <1>20, TotalIsSum
<1>22. e[1..h] = f[S]
  <2>1. \A k \in 1..h : a[k] = g[u[k]]
    BY <1>19
  <2>2. n \in Nat /\ h \in Nat /\ a \in [1..h -> Int] /\ g \in [1..n -> Int]
    BY <1>1, <1>2, <1>14, <1>19
  <2>3. S \in SUBSET (1..n) /\ Lists(h, u, S)
    BY <1>12
  <2>4. Moved(h, a, n, g, u, S)
    BY <2>1, <2>2, <2>3, Zenon DEF Moved
  <2> QED
    BY <2>4, <1>15, <1>20, SumMoves
<1>23. f[S] = FoldFunctionOnSet(+, 0, g, S)
  <2>1. S \in SUBSET (1..n) /\ n \in Nat /\ g \in [1..n -> Int]
    BY <1>1, <1>12, <1>14
  <2> QED
    BY <2>1, <1>15, FoldIsSum, Zenon
<1>24. Average(values) = [sum |-> Total(v), by |-> h]
  BY <1>1, <1>16, Zenon DEF Average, t, h
<1>25. Average(values).sum = Total(v) /\ Average(values).by = h
  BY <1>24
<1>26. Average(values).sum = FoldFunctionOnSet(+, 0, g, S)
  BY <1>21, <1>22, <1>23, <1>25, Zenon
<1> QED
  BY <1>12, <1>13, <1>25, <1>26, Zenon DEF n, h, g

\* No sample of more than a second, no rate of 0.
PaceInv ==
  /\ age \in 0..MaxSpend
  /\ slow \in BOOLEAN
  /\ ~slow => \A i \in 1..Len(recent) : recent[i] <= Second
  /\ fps \in Nat
  /\ ZeroMeansSlow

AvgInv == RingInv /\ PaceInv

\* What Append does to a sequence.
LEMMA AppendIs ==
  ASSUME NEW R, NEW s \in Seq(R), NEW d \in R
  PROVE  /\ Append(s, d) \in Seq(R) /\ Len(Append(s, d)) = Len(s) + 1
         /\ \A j \in 1..Len(s) : Append(s, d)[j] = s[j]
         /\ Append(s, d)[Len(s) + 1] = d
OBVIOUS

\* A sample goes over the oldest one.
LEMMA RingStep ==
  ASSUME RingInv, NEW d \in Times, Calculate(d),
         recent' = Append(IF Len(recent) < Window THEN recent ELSE Tail(recent), d)
  PROVE  /\ RingInv'
         /\ \A i \in 1..Len(recent') :
              recent'[i] = d \/ \E k \in 1..Len(recent) : recent'[i] = recent[k]
<1> DEFINE n == Len(values)
<1>0. /\ values \in Seq(Times) /\ recent \in Seq(Times)
      /\ Len(recent) = n /\ n \in Nat /\ n <= Window
      /\ at \in 0..(Window - 1) /\ (n < Window => at = n)
      /\ \A j \in 1..n : values[j] = recent[IF j > at THEN j - at ELSE (j - at) + n]
  BY DEF RingInv, Back
<1>w. Window \in Nat /\ Window > 0
  BY ScalesAreNatural
<1>a. at' = IF at + 1 = Window THEN 0 ELSE at + 1
  <2>1. at' = (at + 1) % Window
    BY DEF Calculate
  <2>2. CASE at + 1 = Window
    <3>1. Window % Window = 0
      BY <1>w
    <3> QED
      BY <2>1, <2>2, <3>1
  <2>3. CASE at + 1 < Window
    <3>1. \A x \in Nat : x < Window => x % Window = x
      BY <1>w
    <3> QED
      BY <1>0, <2>1, <2>3, <3>1
  <2> QED
    BY <1>0, <1>w, <2>2, <2>3
<1>1. CASE n < Window
  <2>1. values' = Append(values, d) /\ recent' = Append(recent, d) /\ at = n
    BY <1>0, <1>1 DEF Calculate
  <2>2. /\ values' \in Seq(Times) /\ Len(values') = n + 1
        /\ \A j \in 1..n : values'[j] = values[j]
        /\ values'[n + 1] = d
    BY <1>0, <2>1
  <2>3. /\ recent' \in Seq(Times) /\ Len(recent') = n + 1
        /\ \A j \in 1..n : recent'[j] = recent[j]
        /\ recent'[n + 1] = d
    <3>1. recent \in Seq(Times) /\ Len(recent) = n /\ d \in Times /\ recent' = Append(recent, d)
      BY <1>0, <2>1
    <3>2. /\ recent' \in Seq(Times) /\ Len(recent') = Len(recent) + 1
          /\ \A j \in 1..Len(recent) : recent'[j] = recent[j]
          /\ recent'[Len(recent) + 1] = d
      <4>1. PICK r \in Seq(Times) : r = recent
        BY <3>1
      <4>2. /\ Append(r, d) \in Seq(Times) /\ Len(Append(r, d)) = Len(r) + 1
            /\ \A j \in 1..Len(r) : Append(r, d)[j] = r[j]
            /\ Append(r, d)[Len(r) + 1] = d
        BY AppendIs
      <4>3. Append(r, d) = recent'
        BY <3>1, <4>1, Zenon
      <4> QED
        BY <4>1, <4>2, <4>3, Zenon
    <3> HIDE DEF n
    <3> QED
      BY <3>1, <3>2
  <2> HIDE DEF n
  <2>4. \A j \in 1..(n + 1) : values'[j] = recent'[j]
    <3>1. ASSUME NEW j \in 1..(n + 1) PROVE values'[j] = recent'[j]
      <4>1. CASE j \in 1..n
        <5>1. (IF j > at THEN j - at ELSE (j - at) + n) = j
          BY <1>0, <2>1, <4>1
        <5>2. values[j] = recent[j]
          BY <1>0, <4>1, <5>1, Zenon
        <5> QED
          BY <2>2, <2>3, <4>1, <5>2, Zenon
      <4>2. CASE j = n + 1
        BY <2>2, <2>3, <4>2, Zenon
      <4>3. j \in 1..n \/ j = n + 1
        BY <1>0
      <4> QED
        BY <4>1, <4>2, <4>3, Zenon
    <3> QED
      BY <3>1
  <2>5. \A j \in 1..(n + 1) : (IF j > at' THEN j - at' ELSE (j - at') + (n + 1)) = j
    BY <1>0, <1>1, <1>w, <1>a, <2>1
  <2>6. at' \in 0..(Window - 1) /\ n + 1 <= Window /\ (n + 1 < Window => at' = n + 1)
    BY <1>0, <1>1, <1>w, <1>a, <2>1
  <2>7. RingInv'
    BY <2>2, <2>3, <2>4, <2>5, <2>6 DEF RingInv, Back
  <2>8. \A i \in 1..Len(recent') : recent'[i] = d \/ \E k \in 1..Len(recent) : recent'[i] = recent[k]
    <3>1. \A i \in 1..(n + 1) : i \in 1..n \/ i = n + 1
      BY <1>0
    <3> QED
      BY <1>0, <2>3, <3>1
  <2> QED
    BY <2>7, <2>8
<1>2. CASE n = Window
  <2>1. values' = [values EXCEPT ![at + 1] = d] /\ recent' = Append(Tail(recent), d)
    BY <1>0, <1>2, <1>w DEF Calculate
  <2>2. /\ values' \in Seq(Times) /\ Len(values') = n
        /\ \A j \in 1..n : values'[j] = IF j = at + 1 THEN d ELSE values[j]
    <3>1. values \in [1..n -> Times]
      BY <1>0
    <3>2. values' \in [1..n -> Times]
      BY <2>1, <3>1, Zenon
    <3>3. \A j \in 1..n : values'[j] = IF j = at + 1 THEN d ELSE values[j]
      BY <2>1, <3>1, Zenon
    <3> HIDE DEF n
    <3> QED
      BY <1>0, <3>2, <3>3
  <2>3. /\ recent' \in Seq(Times) /\ Len(recent') = n
        /\ \A j \in 1..(n - 1) : recent'[j] = recent[j + 1]
        /\ recent'[n] = d
    <3>1. Len(recent) > 0
      BY <1>0, <1>2, <1>w
    <3>2. /\ Tail(recent) \in Seq(Times) /\ Len(Tail(recent)) = Len(recent) - 1
          /\ \A j \in 1..(Len(recent) - 1) : Tail(recent)[j] = recent[j + 1]
      BY <1>0, <3>1
    <3> QED
      BY <1>0, <2>1, <3>2
  <2> HIDE DEF n
  <2>4. ASSUME NEW j \in 1..n
        PROVE  values'[j] = recent'[IF j > at' THEN j - at' ELSE (j - at') + n]
    <3> DEFINE i == IF j > at THEN j - at ELSE (j - at) + n
               k == IF j > at' THEN j - at' ELSE (j - at') + n
    <3>1. CASE j = at + 1
      <4>1. k = n
        BY <1>0, <1>2, <1>w, <1>a, <3>1
      <4> QED
        BY <2>2, <2>3, <3>1, <4>1
    <3>2. CASE j # at + 1
      <4>1. k \in 1..(n - 1) /\ k + 1 = i
        BY <1>0, <1>2, <1>w, <1>a, <3>2
      <4>2. values'[j] = values[j] /\ values[j] = recent[i]
        BY <1>0, <2>2, <3>2
      <4> HIDE DEF i, k
      <4>3. recent'[k] = recent[k + 1]
        BY <2>3, <4>1
      <4>4. values'[j] = recent'[k]
        BY <4>1, <4>2, <4>3
      <4> QED
        BY <4>4 DEF k
    <3> QED
      BY <3>1, <3>2
  <2>5. at' \in 0..(Window - 1)
    BY <1>0, <1>w, <1>a
  <2>6. RingInv'
    <3>1. Len(recent') = Len(values') /\ Len(values') <= Window /\ ~(Len(values') < Window)
      BY <1>2, <1>w, <2>2, <2>3
    <3>2. \A j \in 1..Len(values') : values'[j] = recent'[IF j > at' THEN j - at' ELSE (j - at') + Len(values')]
      BY <2>2, <2>4
    <3> QED
      BY <2>2, <2>3, <2>5, <3>1, <3>2, Zenon DEF RingInv, Back
  <2>7. \A i \in 1..Len(recent') : recent'[i] = d \/ \E k \in 1..Len(recent) : recent'[i] = recent[k]
    <3>1. \A i \in 1..n : i = n \/ (i \in 1..(n - 1) /\ i + 1 \in 1..n)
      BY <1>0
    <3> QED
      BY <1>0, <2>3, <3>1
  <2> QED
    BY <2>6, <2>7
<1> QED
  BY <1>0, <1>1, <1>2, <1>w

\* The average is a number, and at least the rate d if each of the samples is.
LEMMA AverageIsAtLeast ==
  ASSUME RingInv, values # <<>>, NEW d \in Nat,
         \A i \in 1..Len(values) : Rate(values[i]) >= d
  PROVE  LET avg == Average(values) IN
         /\ avg.by \in Nat
         /\ avg.sum \in Int
         /\ avg.sum >= d * avg.by
<1> DEFINE h == Len(values) \div 2
           t == Sort(values)
           a == [k \in 1..h |-> Rate(t[k])]
<1>1. values \in Seq(Times) /\ h \in Nat /\ h <= Len(values)
  BY DEF RingInv
<1>2. PICK p : Reordered(values, t, p)
  BY <1>1, SortIs
<1>3. /\ t \in Seq(Times) /\ Len(t) = Len(values)
      /\ \A k \in 1..Len(values) : p[k] \in 1..Len(values) /\ t[k] = values[p[k]]
  BY <1>2, Zenon DEF Reordered
<1> HIDE DEF h, t
<1>4. \A k \in 1..h : k \in 1..Len(values)
  BY <1>1
<1>5. \A k \in 1..h : t[k] \in Times /\ Rate(t[k]) >= d
  <2>1. \A k \in 1..Len(values) : t[k] \in Times
    BY <1>3
  <2>2. \A k \in 1..Len(values) : Rate(t[k]) >= d
    BY <1>3, Zenon
  <2> QED
    BY <1>4, <2>1, <2>2, Zenon
<1>6. a \in [1..h -> Int] /\ \A k \in 1..h : a[k] = Rate(t[k]) /\ a[k] >= d
  BY <1>5, RateIsNatural, Zenon
<1>7. PICK e : IsSum(h, a, e)
  <2> HIDE DEF a
  <2> QED
    BY <1>1, <1>6, SumExists
<1>8. PICK v : v = SubSeq(t, 1, h)
  OBVIOUS
<1>9. DOMAIN v = 1..h /\ \A k \in 1..h : v[k] = t[k]
  BY <1>1, <1>3, <1>8
<1> HIDE DEF a
<1>10. \A k \in 1..h : a[k] = Rate(v[k])
  BY <1>6, <1>9, Zenon
<1>11. Total(v) = e[1..h]
  BY <1>1, <1>6, <1>7, <1>9, <1>10, TotalIsSum
<1>12. e[1..h] \in Int /\ e[1..h] >= d * h
  BY <1>1, <1>6, <1>7, SumIsAtLeast
<1>13. Average(values) = [sum |-> Total(v), by |-> h]
  BY <1>8, Zenon DEF Average, t, h
<1>14. Average(values).sum = Total(v) /\ Average(values).by = h
  BY <1>13
<1> QED
  BY <1>1, <1>11, <1>12, <1>14

\* Whatever the samples, the average is a pair of numbers.
LEMMA AverageIsNumber ==
  ASSUME RingInv, values # <<>>
  PROVE  Average(values).by \in Nat /\ Average(values).sum \in Int
<1>1. \A i \in 1..Len(values) : Rate(values[i]) >= 0
  <2>1. ASSUME NEW d \in Times PROVE Rate(d) >= 0
    <3>1. PICK x \in Nat : x = Second * Scale
      BY ScalesAreNatural
    <3>2. d \in Nat /\ d > 0
      BY TimesAreNatural
    <3>3. x \div d >= 0
      BY <3>2
    <3> QED
      BY <3>1, <3>3 DEF Rate
  <2>2. \A i \in 1..Len(values) : values[i] \in Times
    BY DEF RingInv
  <2> QED
    BY <2>1, <2>2, Zenon
<1> QED
  BY <1>1, AverageIsAtLeast

\* Samples of at most a second make a rate of at least 1.
LEMMA FastAverage ==
  ASSUME RingInv, values # <<>>, \A i \in 1..Len(values) : values[i] <= Second
  PROVE  Average(values).sum >= Scale * Average(values).by
<1>1. \A i \in 1..Len(values) : values[i] \in Times
  BY DEF RingInv
<1>2. \A i \in 1..Len(values) : Rate(values[i]) >= Scale
  BY <1>1, FastRate, Zenon
<1> QED
  BY <1>2, AverageIsAtLeast, ScalesAreNatural

\* Both parts hold of no sample and the first rate.
THEOREM AvgInvInit == Init => AvgInv
<1> SUFFICES ASSUME Init PROVE AvgInv
  OBVIOUS
<1>1. RingInv
  <2>1. values = <<>> /\ recent = <<>> /\ at = 0
    BY DEF Init
  <2> QED
    BY <2>1, ScalesAreNatural DEF RingInv
<1>2. PaceInv
  <2>1. /\ age = MaxSpend /\ fps = StartFPS /\ slow = FALSE /\ recent = <<>>
        /\ StartFPS \in Nat /\ StartFPS > 0
    BY QosAssumption DEF Init
  <2>2. \A i \in 1..Len(recent) : recent[i] <= Second
    BY <2>1
  <2>3. age \in 0..MaxSpend /\ fps \in Nat /\ fps > 0
    BY <2>1, TimesAreNatural
  <2>4. slow \in BOOLEAN
    BY <2>1
  <2> QED
    BY <2>2, <2>3, <2>4 DEF PaceInv, ZeroMeansSlow
<1> QED
  BY <1>1, <1>2 DEF AvgInv

\* CheckFPS sets no 0 while no sample was slow.
LEMMA CheckedRate ==
  ASSUME AvgInv, CheckFPS
  PROVE  fps' \in Nat /\ (fps' = 0 => slow)
<1>1. PICK avg \in {Average(values)} :
        /\ avg.by # 0 /\ avg.sum > 0
        /\ fps' = IF avg.sum > MaxFPS * Scale * avg.by THEN MaxFPS
                  ELSE avg.sum \div (Scale * avg.by)
  BY DEF CheckFPS
<1>2. avg = Average(values)
  BY <1>1
<1>3. values # <<>>
  <2>1. ASSUME values = <<>> PROVE Average(values).sum = 0
    BY <2>1 DEF Average
  <2> QED
    BY <1>1, <1>2, <2>1
<1>4. avg.by \in Nat /\ avg.sum \in Int
  BY <1>2, <1>3, AverageIsNumber DEF AvgInv
<1>5. PICK x \in Int, k \in Nat : x = avg.sum /\ k = Scale * avg.by /\ k > 0
  <2>1. Scale * avg.by \in Nat /\ Scale * avg.by > 0
    BY <1>1, <1>4, ScalesAreNatural
  <2> QED
    BY <1>4, <2>1
<1>6. x > 0 /\ (fps' = MaxFPS \/ fps' = x \div k)
  BY <1>1, <1>5, Zenon
<1>7. fps' \in Nat
  <2>1. x \div k \in Nat
    BY <1>5, <1>6
  <2> QED
    BY <1>6, <2>1, ScalesAreNatural
<1>8. ASSUME ~slow PROVE fps' # 0
  <2>1. \A i \in 1..Len(values) : values[i] <= Second
    <3>1. \A i \in 1..Len(recent) : recent[i] <= Second
      BY <1>8 DEF AvgInv, PaceInv
    <3>2. /\ \A j \in 1..Len(values) : values[j] = recent[Back(j)]
          /\ Len(recent) = Len(values)
      BY DEF AvgInv, RingInv
    <3>3. \A j \in 1..Len(values) : Back(j) \in 1..Len(values)
      BY BackIsOneToOne DEF AvgInv
    <3> QED
      BY <3>1, <3>2, <3>3, Zenon
  <2>2. x >= k
    BY <1>2, <1>3, <1>5, <2>1, FastAverage DEF AvgInv
  <2>3. x \div k >= 1
    BY <1>5, <2>2
  <2> QED
    BY <1>6, <2>3, ScalesAreNatural
<1> QED
  BY <1>7, <1>8, <1>5 DEF AvgInv, PaceInv

\* Another session's samples are in their order.
LEMMA RingOfOthers ==
  ASSUME NEW s \in Samples, Replace(s)
  PROVE  RingInv'
<1>1. PICK n \in 0..Window : s \in [1..n -> Times]
  BY DEF Samples, Times
<1>2. n \in Nat /\ n <= Window /\ Window \in Nat /\ Window > 0
  BY ScalesAreNatural
<1>3. s \in Seq(Times) /\ Len(s) = n
  BY <1>1, <1>2
<1>4. values' = s /\ recent' = s /\ at' = n % Window
  BY <1>3 DEF Replace
<1>5. at' = IF n = Window THEN 0 ELSE n
  <2>1. CASE n = Window
    <3>1. Window % Window = 0
      BY <1>2
    <3> QED
      BY <1>4, <2>1, <3>1
  <2>2. CASE n < Window
    <3>1. \A x \in Nat : x < Window => x % Window = x
      BY <1>2
    <3> QED
      BY <1>2, <1>4, <2>2, <3>1
  <2> QED
    BY <1>2, <2>1, <2>2
<1>6. \A j \in 1..n : (IF j > at' THEN j - at' ELSE (j - at') + n) = j
  BY <1>2, <1>5
<1>7. at' \in 0..(Window - 1) /\ (n < Window => at' = n)
  BY <1>2, <1>5
<1>8. /\ Len(values') = n /\ Len(recent') = n
      /\ values' \in Seq(Times) /\ recent' \in Seq(Times)
  BY <1>3, <1>4
<1>9. \A j \in 1..n : values'[j] = recent'[IF j > at' THEN j - at' ELSE (j - at') + n]
  BY <1>4, <1>6, Zenon
<1> QED
  BY <1>2, <1>7, <1>8, <1>9 DEF RingInv, Back


\* Every step keeps them: only an answer writes the ring, only CheckFPS sets a
\* rate that nobody offered.
THEOREM AvgInvNext == AvgInv /\ [Next]_vars => AvgInv'
<1> SUFFICES ASSUME AvgInv, [Next]_vars PROVE AvgInv'
  OBVIOUS
<1>r. RingInv
  BY DEF AvgInv
<1>p. /\ age \in 0..MaxSpend /\ slow \in BOOLEAN
      /\ ~slow => \A i \in 1..Len(recent) : recent[i] <= Second
      /\ fps \in Nat /\ (fps = 0 => slow)
  BY DEF AvgInv, PaceInv, ZeroMeansSlow
<1>k. ASSUME UNCHANGED averageVars, age' \in 0..MaxSpend, fps' \in Nat, fps' = 0 => slow
      PROVE  AvgInv'
  <2>1. values' = values /\ at' = at /\ recent' = recent /\ slow' = slow
    BY <1>k DEF averageVars
  <2>2. RingInv'
    BY <1>r, <2>1 DEF RingInv, Back
  <2>3. PaceInv'
    BY <1>k, <1>p, <2>1 DEF PaceInv, ZeroMeansSlow
  <2> QED
    BY <2>2, <2>3 DEF AvgInv
<1>1. CASE TakeFrame
  BY <1>1, <1>k, <1>p DEF TakeFrame
<1>2. CASE ClearFlag
  BY <1>2, <1>k, <1>p DEF ClearFlag
<1>3. CASE SendPacket
  <2>1. age' \in 0..MaxSpend
    BY <1>3, <1>p, TimesAreNatural DEF SendPacket
  <2> QED
    BY <1>3, <1>k, <1>p, <2>1 DEF SendPacket
<1>4. CASE LoseFrame
  BY <1>4, <1>k, <1>p DEF LoseFrame
<1>5. CASE UpdateTimestamp
  <2>1. CASE age > 0
    <3>1. /\ Calculate(age)
          /\ recent' = Append(IF Len(recent) < Window THEN recent ELSE Tail(recent), age)
          /\ slow' = (slow \/ age > Second) /\ age' = age /\ fps' = fps
      BY <1>5, <2>1 DEF UpdateTimestamp
    <3>2. age \in Times
      BY <1>p, <2>1, TimesAreNatural DEF Times
    <3>3. /\ RingInv'
          /\ \A i \in 1..Len(recent') :
               recent'[i] = age \/ \E k \in 1..Len(recent) : recent'[i] = recent[k]
      BY <1>r, <3>1, <3>2, RingStep
    <3>4. ASSUME ~slow', NEW i \in 1..Len(recent') PROVE recent'[i] <= Second
      <4>0. ~slow /\ ~(age > Second)
        BY <3>1, <3>4, Zenon
      <4>1. ~slow /\ age <= Second
        BY <1>p, <4>0, ScalesAreNatural
      <4> QED
        BY <1>p, <3>3, <4>1
    <3>5. PaceInv'
      BY <1>p, <3>1, <3>4 DEF PaceInv, ZeroMeansSlow
    <3> QED
      BY <3>3, <3>5 DEF AvgInv
  <2>2. CASE ~(age > 0)
    BY <1>5, <1>k, <1>p, <2>2 DEF UpdateTimestamp
  <2> QED
    BY <2>1, <2>2
<1>6. CASE Tick
  <2>1. age' \in 0..MaxSpend
    BY <1>6, <1>p, TimesAreNatural DEF Tick, Bounded
  <2> QED
    BY <1>6, <1>k, <1>p, <2>1 DEF Tick
<1>7. CASE CheckFPS
  <2>1. fps' \in Nat /\ (fps' = 0 => slow)
    BY <1>7, CheckedRate
  <2>2. UNCHANGED averageVars /\ age' = age
    BY <1>7 DEF CheckFPS
  <2> QED
    BY <1>k, <1>p, <2>1, <2>2
<1>8. CASE SetFPS
  <2>1. fps' \in Nat /\ fps' > 0
    BY <1>8, QosAssumption DEF SetFPS
  <2> QED
    BY <1>8, <1>k, <1>p, <2>1 DEF SetFPS
<1>o. ASSUME NEW s \in Samples, Replace(s), slow' \in BOOLEAN,
             slow' = (slow \/ \E i \in 1..Len(s) : s[i] > Second)
      PROVE  AvgInv'
  <2>1. RingInv'
    BY <1>o, RingOfOthers
  <2>2. age' = MaxSpend /\ fps' = fps /\ recent' = s
    BY <1>o DEF Replace
  <2>3. s \in Seq(Times)
    BY <2>1, <2>2 DEF RingInv
  <2>4. ASSUME ~slow', NEW i \in 1..Len(s) PROVE s[i] <= Second
    <3>0. ~(s[i] > Second)
      BY <1>o, <2>4, Zenon
    <3>1. s[i] \in Int /\ ~(s[i] > Second)
      BY <2>3, <3>0, TimesAreNatural
    <3> QED
      BY <3>1, ScalesAreNatural
  <2>5. PaceInv'
    BY <1>o, <1>p, <2>2, <2>4, TimesAreNatural DEF PaceInv, ZeroMeansSlow
  <2> QED
    BY <2>1, <2>5 DEF AvgInv
<1>e. <<>> \in Samples /\ Others \subseteq Samples
  <2>1. <<>> \in [1..0 -> 1..MaxSpend] /\ 0 \in 0..Window
    BY ScalesAreNatural
  <2> QED
    BY <2>1, QosAssumption DEF Samples
<1>c. ASSUME Replace(<<>>), slow' = slow PROVE AvgInv'
  <2>1. slow' = (slow \/ \E i \in 1..Len(<<>>) : <<>>[i] > Second)
    BY <1>c, <1>p
  <2> QED
    BY <1>c, <1>e, <1>o, <1>p, <2>1
<1>9. CASE Accept
  BY <1>9, <1>c DEF Accept
<1>10. CASE CloseClient
  <2>1. CASE Replace(<<>>) /\ slow' = slow
    BY <1>c, <2>1
  <2>2. CASE \E s \in Others : Replace(s) /\ slow' = (slow \/ \E i \in 1..Len(s) : s[i] > Second)
    BY <1>e, <1>o, <1>p, <2>2
  <2> QED
    BY <1>10, <2>1, <2>2 DEF CloseClient
<1>11. CASE UNCHANGED vars
  BY <1>11, <1>k, <1>p DEF vars
<1> QED
  BY <1>1, <1>2, <1>3, <1>4, <1>5, <1>6, <1>7, <1>8, <1>9, <1>10, <1>11 DEF Next

\* GetAverage is the mean of the slower half of the last Window samples,
\* for every window and whatever the ring and the sort do to their order.
THEOREM AverageIsOfRecentHolds == Spec => []AverageIsOfRecent
<1>1. AvgInv => AverageIsOfRecent
  BY RingIsAverage DEF AvgInv
<1> QED
  BY AvgInvInit, AvgInvNext, <1>1, PTL DEF Spec

\* The rate is 0 only if a sample of more than a second was measured.
THEOREM ZeroMeansSlowHolds == Spec => []ZeroMeansSlow
<1>1. AvgInv => ZeroMeansSlow
  BY DEF AvgInv, PaceInv
<1> QED
  BY AvgInvInit, AvgInvNext, <1>1, PTL DEF Spec
=============================================================================
