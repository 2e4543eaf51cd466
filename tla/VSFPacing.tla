------------------------------ MODULE VSFPacing ------------------------------
(***************************************************************************)
(* The clock arithmetic of StreamingCtrl::UpdateVideo3: ImageThread polls, *)
(* and lets a frame pass when timeGetTime has reached m_dwLastTime plus    *)
(* the wait that m_iFPS asks for.  timeGetTime, m_dwLastTime and their sum *)
(* are DWORDs: they wrap (after 49.7 days), and are compared as they are.  *)
(* 0 in m_dwLastTime stands for "not set".                                 *)
(*                                                                         *)
(* Other threads change the rate at any time (CheckFPS, SetFPS).  A poll   *)
(* comes at least every Poll ticks: Sleep(1) and the encoder decide on it. *)
(***************************************************************************)
EXTENDS Integers

CONSTANTS
  Wrap,    \* values of a DWORD (2^32)
  Second,  \* ticks in a second (1000)
  Rates,   \* values of m_iFPS: 0..30, see VSFQos
  Poll     \* environment: ticks between two polls at most

ASSUME PacingAssumption ==
  /\ Wrap \in Nat /\ Second \in Nat /\ Poll \in Nat
  /\ 0 < Second /\ Second < Wrap \div 2 /\ 0 < Poll
  /\ Rates \subseteq Nat

VARIABLES
  now,    \* timeGetTime()
  last,   \* StreamingCtrl::m_dwLastTime
  fps,    \* StreamingCtrl::m_iFPS
  since,  \* ticks since the last poll
  zero    \* history: fps has been 0 since last was set

vars == <<now, last, fps, since, zero>>

Init ==
  /\ now \in 0..(Wrap - 1)
  /\ last = 0
  /\ fps \in Rates \ {0}
  /\ since = 0
  /\ zero = FALSE

\* iWaitTime = 1000.0 / m_iFPS.  Infinity does not convert to an int: the
\* processor gives 0x80000000, and 0 where it converts to 64 bits first.
Waits(f) == IF f = 0 THEN {Wrap \div 2, 0} ELSE {Second \div f}

\* Fault variant: a frame must be later than its time.
IsTime_Later(w) == now > (last + w) % Wrap

\* dwCurTime >= m_dwLastTime + iWaitTime
IsTime(w) == now >= (last + w) % Wrap

\* Without a last time there is no frame, but one is due from now on.
FirstPoll ==
  /\ last = 0
  /\ last' = now
  /\ zero' = (fps = 0)
  /\ since' = 0
  /\ UNCHANGED <<now, fps>>

\* The time of a frame has come.
FrameIsDue ==
  /\ last # 0
  /\ \E w \in Waits(fps) : IsTime(w)
  /\ last' = now
  /\ zero' = (fps = 0)
  /\ since' = 0
  /\ UNCHANGED <<now, fps>>

FrameIsEarly ==
  /\ last # 0
  /\ \E w \in Waits(fps) : ~IsTime(w)
  /\ since' = 0
  /\ UNCHANGED <<now, last, fps, zero>>

\* UpdateVideo3, as far as the clock goes.
UpdateVideo3 == FirstPoll \/ FrameIsDue \/ FrameIsEarly

\* CheckFPS, SetFPS
SetRate ==
  /\ fps' \in Rates
  /\ zero' = (zero \/ fps' = 0)
  /\ UNCHANGED <<now, last, since>>

\* Fault variant: the clock is taken to grow for ever.
Tick_Wider ==
  /\ since < Poll
  /\ now' = now + 1
  /\ since' = since + 1
  /\ UNCHANGED <<last, fps, zero>>

Tick ==
  /\ since < Poll
  /\ now' = (now + 1) % Wrap
  /\ since' = since + 1
  /\ UNCHANGED <<last, fps, zero>>

Next == UpdateVideo3 \/ SetRate \/ Tick

Spec == Init /\ [][Next]_vars
-----------------------------------------------------------------------------
TypeOK ==
  /\ now \in 0..(Wrap - 1)
  /\ last \in 0..(Wrap - 1)
  /\ fps \in Rates
  /\ since \in 0..Poll
  /\ zero \in BOOLEAN

\* The stream does not stand still for more than a second and a poll, whatever
\* the rate changes to and however the sum of time and wait wraps.  The two
\* exceptions are real: a rate of 0, and a clock that wrapped before a poll
\* found the time reached; then now is less than last until it comes round.
NeverStandsStill ==
  last # 0 /\ ~zero /\ now >= last => now - last < Second + Poll
=============================================================================
