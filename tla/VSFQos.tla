------------------------------- MODULE VSFQos -------------------------------
(***************************************************************************)
(* The control of the frame rate.  The server stamps the time at which it  *)
(* sends a packet, the client acknowledges each frame it has decoded, and  *)
(* the acknowledgement is turned into a rate; the slower half of the last  *)
(* Window rates is averaged and becomes the rate at which frames are taken *)
(* from the application's queue (AverageIf, Server::UpdateTimestamp and    *)
(* SendPacket, StreamingCtrl::CheckFPS).                                   *)
(*                                                                         *)
(* CheckFPS asks for the session at index 0 of the list only, so the model *)
(* has that session: the variables from flag to recent are its fields, and *)
(* they change as a whole when the list changes.  A frame is two packets,  *)
(* the first and the marked one, or any two groups of packets.             *)
(*                                                                         *)
(* Time passes in ticks, Second of them a second.  A sample is kept as the *)
(* ticks it took; its rate, 1000.0 / lSpendTime, is computed in multiples  *)
(* of 1 / Scale.  Rounding of floats is left out.                          *)
(***************************************************************************)
EXTENDS Integers, FiniteSets, SequencesExt

CONSTANTS
  Window,      \* samples kept: m_FPSAvg.SetMax (12)
  Second,      \* ticks in a second (1000)
  MaxFPS,      \* the cap in CheckFPS (30)
  StartFPS,    \* m_iFPS at first (10)
  Offered,     \* what the application passes to SetFPS (1..30)
  Trip,        \* environment: ticks from a frame's first packet to its answer
  MaxSpend,    \* bound: longer times are not told apart
  Scale,       \* a common multiple of 1..MaxSpend
  MaxWaiting,  \* bound: frames in m_pMsgQueue
  MaxFlight,   \* bound: frames sent and not answered
  Others       \* bound: the samples a session that comes to index 0 may have

ASSUME QosAssumption ==
  /\ {Window, Second, MaxFPS, MaxSpend, Scale} \subseteq Nat \ {0}
  /\ StartFPS \in 1..MaxFPS
  /\ Offered \subseteq 1..MaxFPS
  /\ {Trip, MaxWaiting, MaxFlight} \subseteq Nat
  /\ \A d \in 1..MaxSpend : Scale % d = 0
  /\ Others \subseteq UNION {[1..n -> 1..MaxSpend] : n \in 0..Window}

VARIABLES
  fps,       \* StreamingCtrl::m_iFPS
  listed,    \* there is a session in m_SocketList
  flag,      \* Server::m_bUpdateTimestamp
  stamping,  \* SendMsgThread has cleared flag and is about to set the stamp
  age,       \* ticks since m_ulLastTimestamp
  values,    \* AverageIf::m_fValue, the first m_iTotalOfItems of it
  at,        \* m_ulCount % m_iMax
  waiting,   \* frames in m_pMsgQueue, not begun
  half,      \* the frame begun last is not sent to its end
  flight,    \* frames begun and not answered, as the ticks since they began
  recent,    \* history: the last samples, the oldest first
  slow,      \* history: a sample of more than a second was measured
  lost       \* history: a frame or its answer was lost, or index 0 changed

sendVars    == <<stamping, waiting, half>>
averageVars == <<values, at, recent, slow>>
vars == <<fps, listed, flag, age, sendVars, averageVars, flight, lost>>

Bounded(n) == IF n < MaxSpend THEN n ELSE MaxSpend

Init ==
  /\ fps = StartFPS
  /\ listed = FALSE
  /\ flag = TRUE
  /\ stamping = FALSE
  /\ age = MaxSpend
  /\ values = <<>> /\ at = 0 /\ recent = <<>>
  /\ waiting = 0 /\ half = FALSE /\ flight = <<>>
  /\ slow = FALSE
  /\ lost = FALSE
-----------------------------------------------------------------------------
(* AverageIf with the condition ACT_LOW *)

\* The place of the lowest rate, the longest time, from place i on.
Longest(t, i) == CHOOSE j \in i..Len(t) : \A k \in i..Len(t) : t[k] <= t[j]

\* One round of Sort: that sample is swapped to place i.
Select(i) ==
  [t \in Seq(Nat) |-> [t EXCEPT ![i] = t[Longest(t, i)], ![Longest(t, i)] = t[i]]]

\* The selection sort of a copy.
Rounds(s) ==
  LET round[i \in 0..Len(s)] == IF i = 0 THEN s ELSE Select(i)[round[i - 1]]
  IN  round

Sort(s) == Rounds(s)[Len(s) - 1]

Rate(d) == (Second * Scale) \div d

Total(s) == FoldLeft(LAMBDA sum, d : sum + Rate(d), 0, s)

\* The sum of the lower half and the number it is divided by.  One sample
\* gives 0 / 0; 0.0 is what there is without a sample.
Average(s) ==
  IF s = <<>> THEN [sum |-> 0, by |-> 1]
  ELSE [sum |-> Total(SubSeq(Sort(s), 1, Len(s) \div 2)), by |-> Len(s) \div 2]

\* Fault variant: the samples themselves are sorted, and lose their order.
Calculate_InPlace(d) ==
  /\ values' = Sort(IF Len(values) < Window THEN Append(values, d)
                    ELSE [values EXCEPT ![at + 1] = d])
  /\ at' = (at + 1) % Window

\* Fault variant: m_ulCount is counted only while the window fills.
Calculate_StopsCounting(d) ==
  IF Len(values) < Window THEN /\ values' = Append(values, d)
                               /\ at' = (at + 1) % Window
  ELSE /\ values' = [values EXCEPT ![at + 1] = d]
       /\ UNCHANGED at

\* Calculate: the sample overwrites the oldest one once the window is full.
Calculate(d) ==
  /\ values' = IF Len(values) < Window THEN Append(values, d)
               ELSE [values EXCEPT ![at + 1] = d]
  /\ at' = (at + 1) % Window
-----------------------------------------------------------------------------
(* Sending and measuring *)

\* UpdateVideo3 and SendVideoLoop bring a frame into the session's queue, at
\* any time: VSFPacing has the part the rate plays in it.
TakeFrame ==
  /\ listed
  /\ waiting < MaxWaiting
  /\ waiting' = waiting + 1
  /\ UNCHANGED <<fps, listed, flag, age, stamping, half, averageVars, flight, lost>>

HasPacket == half \/ (waiting > 0 /\ Len(flight) < MaxFlight)

\* SendPacket, "if (m_bUpdateTimestamp)": the flag goes first.
ClearFlag ==
  /\ HasPacket
  /\ flag
  /\ ~stamping
  /\ flag' = FALSE
  /\ stamping' = TRUE
  /\ UNCHANGED <<fps, listed, age, waiting, half, averageVars, flight, lost>>

\* The stamp, if one is due, and the packet is sent.
SendPacket ==
  /\ HasPacket
  /\ stamping \/ ~flag
  /\ stamping' = FALSE
  /\ age' = IF stamping THEN 0 ELSE age
  /\ half' = ~half
  /\ IF half THEN UNCHANGED <<waiting, flight>>
     ELSE /\ waiting' = waiting - 1
          /\ flight' = Append(flight, 0)
  /\ UNCHANGED <<fps, listed, flag, averageVars, lost>>

\* Frames that were sent to their end, the oldest first.
Answerable == IF half THEN Len(flight) - 1 ELSE Len(flight)

\* The marked packet or the answer meets a full queue on its way.
LoseFrame ==
  /\ Answerable > 0
  /\ flight' = Tail(flight)
  /\ lost' = TRUE
  /\ UNCHANGED <<fps, listed, flag, age, sendVars, averageVars>>

\* Fault variant: the next stamp is not asked for when nothing was measured.
UpdateTimestamp_Early ==
  /\ Answerable > 0
  /\ flight' = Tail(flight)
  /\ IF age > 0
     THEN /\ Calculate(age)
          /\ recent' = Append(IF Len(recent) < Window THEN recent ELSE Tail(recent), age)
          /\ slow' = (slow \/ age > Second)
          /\ flag' = TRUE
     ELSE UNCHANGED <<averageVars, flag>>
  /\ UNCHANGED <<fps, listed, age, sendVars, lost>>

\* The client's answer to its oldest frame: a sample, unless no time has
\* passed, and the next packet is to be stamped.
UpdateTimestamp ==
  /\ Answerable > 0
  /\ flight' = Tail(flight)
  /\ IF age > 0
     THEN /\ Calculate(age)
          /\ recent' = Append(IF Len(recent) < Window THEN recent ELSE Tail(recent), age)
          /\ slow' = (slow \/ age > Second)
     ELSE UNCHANGED averageVars
  /\ flag' = TRUE
  /\ UNCHANGED <<fps, listed, age, sendVars, lost>>

\* Environment: while no frame is late, time may pass.
Tick ==
  /\ \A i \in 1..Len(flight) : flight[i] < Trip
  /\ age' = Bounded(age + 1)
  /\ flight' = [i \in 1..Len(flight) |-> flight[i] + 1]
  /\ UNCHANGED <<fps, listed, flag, sendVars, averageVars, lost>>
-----------------------------------------------------------------------------
(* The rate and the list of sessions *)

\* Fault variant: any average is taken; 0 / 0 converts to an int as 0 here.
CheckFPS_Unchecked ==
  \E avg \in {Average(values)} :
    /\ fps' = IF avg.by = 0 THEN 0
              ELSE IF avg.sum > MaxFPS * Scale * avg.by THEN MaxFPS
              ELSE avg.sum \div (Scale * avg.by)
    /\ UNCHANGED <<listed, flag, age, sendVars, averageVars, flight, lost>>

\* CheckFPS, from the application's timer.  Neither 0.0 nor 0/0 is > 0.
CheckFPS ==
  \E avg \in {Average(values)} :
    /\ listed
    /\ avg.by # 0 /\ avg.sum > 0
    /\ fps' = IF avg.sum > MaxFPS * Scale * avg.by THEN MaxFPS
              ELSE avg.sum \div (Scale * avg.by)
    /\ UNCHANGED <<listed, flag, age, sendVars, averageVars, flight, lost>>

SetFPS ==
  /\ fps' \in Offered
  /\ UNCHANGED <<listed, flag, age, sendVars, averageVars, flight, lost>>

Samples == UNION {[1..n -> 1..MaxSpend] : n \in 0..Window}

\* Another session comes to index 0, with the samples s.
Replace(s) ==
  /\ flag' = TRUE
  /\ stamping' = FALSE
  /\ age' = MaxSpend
  /\ values' = s
  /\ at' = Len(s) % Window
  /\ recent' = s
  /\ waiting' = 0 /\ half' = FALSE /\ flight' = <<>>
  /\ UNCHANGED fps

\* Accept: the list was empty.
Accept ==
  /\ ~listed
  /\ listed' = TRUE
  /\ Replace(<<>>)
  /\ UNCHANGED <<slow, lost>>

\* CloseClient for index 0, with or without a session behind it.
CloseClient ==
  /\ listed
  /\ \/ /\ listed' = FALSE
        /\ Replace(<<>>)
        /\ UNCHANGED <<slow, lost>>
     \/ \E s \in Others :
        /\ Replace(s)
        /\ slow' = (slow \/ \E i \in 1..Len(s) : s[i] > Second)
        /\ lost' = TRUE
        /\ UNCHANGED listed
-----------------------------------------------------------------------------
Next ==
  \/ TakeFrame
  \/ ClearFlag \/ SendPacket
  \/ LoseFrame
  \/ UpdateTimestamp
  \/ Tick
  \/ CheckFPS \/ SetFPS
  \/ Accept \/ CloseClient

\* The application's timer runs every 10 ms.
Spec == Init /\ [][Next]_vars
FairSpec == Spec /\ WF_vars(CheckFPS)
-----------------------------------------------------------------------------
TypeOK ==
  /\ fps \in 0..MaxFPS
  /\ {listed, flag, stamping, half, slow, lost} \subseteq BOOLEAN
  /\ age \in 0..MaxSpend
  /\ values \in Samples
  /\ at \in 0..(Window - 1)
  /\ recent \in Samples
  /\ waiting \in 0..MaxWaiting
  /\ flight \in Seq(0..Trip) /\ Len(flight) <= MaxFlight

\* GetAverage is the mean rate of the slower half of the last Window samples,
\* in whatever order the ring and the sorted copy hold them.
AverageIsOfRecent ==
  LET n == Len(recent)
      avg == Average(values)
  IN  n > 0 => \E S \in SUBSET (1..n) :
        /\ Cardinality(S) = n \div 2
        /\ \A i \in S, j \in (1..n) \ S : recent[i] >= recent[j]
        /\ avg.sum = FoldFunctionOnSet(+, 0, [i \in 1..n |-> Rate(recent[i])], S)
        /\ avg.by = n \div 2

\* The rate becomes 0, by which UpdateVideo3 divides, only after a sample of
\* more than a second: not by an empty list, a session without a sample or
\* with a single one.
ZeroMeansSlow == fps = 0 => slow

\* A sample is measured from a stamp that may belong to an earlier frame than
\* the one answered, as answers and packets overlap.  Without losses it is
\* still at most twice the time any frame took.
MeasuredWithinTwoTrips ==
  ~lost => \A i \in 1..Len(values) : values[i] <= 2 * Trip

\* After any congestion: once a session stays at index 0, and its samples are
\* short and keep coming, the rate goes back to the highest, also after SetFPS
\* has lowered it.  That they come is a premise: at a rate of 0 it is up to the
\* undefined conversion in UpdateVideo3 whether a frame is taken at all.
RateRecovers ==
  /\ <>[][~CloseClient]_vars
  /\ <>[](recent # <<>> /\ Last(recent) = 1)
  /\ []<><<UpdateTimestamp /\ age > 0>>_vars
  => []<>(fps = MaxFPS)

\* The server program offers the rates 1 to 30 (testVSFServerDlg.cpp:136).
RateIsOffered == fps \in 1..MaxFPS
=============================================================================
