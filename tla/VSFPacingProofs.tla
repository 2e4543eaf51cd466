-------------------------- MODULE VSFPacingProofs --------------------------
(* For every width of the clock, second, set of rates and polling interval: *)
(* the stream does not stand still while the rate is positive and the clock *)
(* has not wrapped since the last frame.  The streaming of VSFStreaming      *)
(* implements it, and its own invariants follow: the sizes of frames, the    *)
(* wait of a frame in the queue, and the picture two threads share.          *)
EXTENDS VSFStreaming, TLAPS

\* NeverStandsStill counts from the last poll; that the rate is not 0 is what
\* keeps the wait within a second.
PacingInv ==
  /\ TypeOK
  /\ last # 0 /\ ~zero => fps # 0
  /\ last # 0 /\ ~zero /\ now >= last => now - last < Second + since

LEMMA Constants ==
  /\ Wrap \in Nat /\ Second \in Nat /\ Poll \in Nat
  /\ 0 < Second /\ Second < Wrap /\ 0 < Poll
  /\ Rates \subseteq Nat
BY PacingAssumption

\* With a positive rate the wait is at most a second.
LEMMA WaitIsShort ==
  ASSUME NEW f \in Nat \ {0}, NEW w \in Waits(f) PROVE w \in Nat /\ w <= Second
BY Constants DEF Waits

\* A wrapped sum is behind the last time, so a clock that has not wrapped is
\* never before it.
LEMMA NotYet ==
  ASSUME NEW n \in 0..(Wrap - 1), NEW l \in 0..(Wrap - 1), NEW w \in Nat,
         w <= Second, l <= n, ~(n >= (l + w) % Wrap)
  PROVE  n - l < Second
<1>1. CASE l + w < Wrap
  <2>1. (l + w) % Wrap = l + w BY <1>1, Constants
  <2>. QED BY <2>1, Constants
<1>2. CASE l + w >= Wrap
  <2>1. l + w < 2 * Wrap BY Constants
  <2>2. (l + w) % Wrap = (l + w) - Wrap BY <1>2, <2>1, Constants
  <2>. QED BY <2>2, Constants
<1>. QED BY <1>1, <1>2, Constants

LEMMA PacingInit == Init => PacingInv
<1>. SUFFICES ASSUME Init PROVE PacingInv OBVIOUS
<1>1. TypeOK
  <2>1. now \in 0..(Wrap - 1) /\ last \in 0..(Wrap - 1) BY Constants DEF Init
  <2>2. since \in 0..Poll BY Constants DEF Init
  <2>3. fps \in Rates /\ zero \in BOOLEAN BY DEF Init
  <2>. QED BY <2>1, <2>2, <2>3 DEF TypeOK
<1>2. last = 0 BY DEF Init
<1>. QED BY <1>1, <1>2 DEF PacingInv

LEMMA PacingNext == PacingInv /\ [Next]_vars => PacingInv'
<1>. SUFFICES ASSUME PacingInv, [Next]_vars PROVE PacingInv' OBVIOUS
<1>t. TypeOK BY DEF PacingInv
<1>1. CASE FirstPoll \/ FrameIsDue
  <2>1. /\ now' = now /\ fps' = fps /\ since' = 0
        /\ last' = now /\ zero' = (fps = 0)
    BY <1>1 DEF FirstPoll, FrameIsDue
  <2>2. TypeOK' BY <2>1, <1>t, Constants DEF TypeOK
  <2>3. ~zero' => fps' # 0 BY <2>1
  <2>4. now' - last' < Second + since' BY <2>1, <1>t, Constants DEF TypeOK
  <2>. QED BY <2>2, <2>3, <2>4 DEF PacingInv
<1>5. CASE FrameIsEarly
  <2>0. now' = now /\ fps' = fps /\ since' = 0 BY <1>5 DEF FrameIsEarly
  <2>1. PICK w \in Waits(fps) : ~IsTime(w) BY <1>5 DEF FrameIsEarly
  <2>2. last # 0 /\ UNCHANGED <<last, zero>> BY <1>5 DEF FrameIsEarly
  <2>3. TypeOK' BY <2>0, <2>2, <1>t, Constants DEF TypeOK
  <2>4. (last' # 0 /\ ~zero') => fps' # 0 BY <2>0, <2>2 DEF PacingInv
  <2>5. ASSUME ~zero, now >= last PROVE now - last < Second
    <3>1. fps \in Nat \ {0} BY <2>2, <2>5, <1>t, Constants DEF PacingInv, TypeOK
    <3>2. w \in Nat /\ w <= Second BY <3>1, <2>1, WaitIsShort
    <3>3. now \in 0..(Wrap - 1) /\ last \in 0..(Wrap - 1) /\ last <= now
      BY <2>5, <1>t, Constants DEF TypeOK
    <3>4. ~(now >= (last + w) % Wrap) BY <2>1 DEF IsTime
    <3>. QED BY <3>2, <3>3, <3>4, NotYet
  <2>6. (last' # 0 /\ ~zero' /\ now' >= last') => now' - last' < Second + since'
    BY <2>5, <2>0, <2>2, Constants
  <2>. QED BY <2>3, <2>4, <2>6 DEF PacingInv
<1>2. CASE SetRate
  <2>1. TypeOK' BY <1>2, <1>t DEF SetRate, TypeOK
  <2>2. ~zero' => fps' # 0 /\ ~zero BY <1>2 DEF SetRate
  <2>3. UNCHANGED <<now, last, since>> BY <1>2 DEF SetRate
  <2>. QED BY <2>1, <2>2, <2>3 DEF PacingInv
<1>3. CASE Tick
  <2>1. /\ UNCHANGED <<last, fps, zero>> /\ since < Poll
        /\ now' = (now + 1) % Wrap /\ since' = since + 1
    BY <1>3 DEF Tick
  <2>2. now' = 0 \/ now' = now + 1 BY <2>1, <1>t, Constants DEF TypeOK
  <2>3. TypeOK'
    <3>1. now' \in 0..(Wrap - 1) BY <2>1, <1>t, Constants DEF TypeOK
    <3>. QED BY <3>1, <2>1, <1>t, Constants DEF TypeOK
  <2>4. (last' # 0 /\ ~zero' /\ now' >= last') => now' - last' < Second + since'
    BY <2>1, <2>2, <1>t, Constants DEF PacingInv, TypeOK
  <2>. QED BY <2>1, <2>3, <2>4 DEF PacingInv
<1>4. CASE UNCHANGED vars
  BY <1>4 DEF PacingInv, TypeOK, vars
<1>. QED BY <1>1, <1>2, <1>3, <1>4, <1>5 DEF Next, UpdateVideo3

\* The clock, the last time and the polling interval stay in their ranges.
THEOREM TypeCorrect == Spec => []TypeOK
<1>1. PacingInv => TypeOK BY DEF PacingInv
<1>. QED BY PacingInit, PacingNext, <1>1, PTL DEF Spec

\* A positive rate and a clock that has not wrapped since the last frame let
\* the next one pass within a second and a poll.
THEOREM StreamsOn == Spec => []NeverStandsStill
<1>1. PacingInv => NeverStandsStill
  BY Constants DEF PacingInv, TypeOK, NeverStandsStill
<1>. QED BY PacingInit, PacingNext, <1>1, PTL DEF Spec
-----------------------------------------------------------------------------
(* VSFStreaming *)

LEMMA StreamingStep == [SNext]_svars => [Next]_vars
<1>. SUFFICES ASSUME [SNext]_svars PROVE [Next]_vars OBVIOUS
<1>1. CASE \E s \in Sizes : InputVideo(s) BY <1>1 DEF InputVideo
<1>2. CASE AddFrame BY <1>2 DEF AddFrame
<1>3. CASE StartDrawing BY <1>3 DEF StartDrawing
<1>4. CASE EndDrawing BY <1>4 DEF EndDrawing
<1>5. CASE ChangeRate BY <1>5 DEF ChangeRate, Next
<1>6. CASE PollInVain BY <1>6 DEF PollInVain, Next, UpdateVideo3
<1>7. CASE TakeFrame BY <1>7 DEF TakeFrame, Next, UpdateVideo3
<1>8. CASE EncodeFrame BY <1>8 DEF EncodeFrame
<1>9. CASE CopyPicture BY <1>9 DEF CopyPicture
<1>10. CASE EndCopy BY <1>10 DEF EndCopy
<1>11. CASE Time BY <1>11 DEF Time, Next
<1>12. CASE UNCHANGED svars BY <1>12 DEF svars
<1>. QED BY <1>1, <1>2, <1>3, <1>4, <1>5, <1>6, <1>7, <1>8, <1>9, <1>10, <1>11,
            <1>12 DEF SNext

\* Streaming keeps to the clock arithmetic: whatever the threads do with the
\* frames, polls, rates and time are those of VSFPacing.
THEOREM StreamingRefinesPacing == SSpec => Spec
<1>1. SInit => Init BY DEF SInit
<1>. QED BY <1>1, StreamingStep, PTL DEF SSpec, Spec

\* A picture drawn torn is drawn again: the flag goes up after the copy, and
\* down before the drawing.
THEOREM TornIsReplacedHolds == SSpec => []TornIsReplaced
<1>1. SInit => TornIsReplaced BY DEF SInit, TornIsReplaced
<1>2. TornIsReplaced /\ [SNext]_svars => TornIsReplaced'
  <2>. SUFFICES ASSUME TornIsReplaced, [SNext]_svars PROVE TornIsReplaced' OBVIOUS
  <2>. USE DEF TornIsReplaced
  <2>1. CASE \E s \in Sizes : InputVideo(s) BY <2>1 DEF InputVideo, imageVars
  <2>2. CASE AddFrame BY <2>2 DEF AddFrame, imageVars
  <2>3. CASE StartDrawing BY <2>3 DEF StartDrawing, imageVars
  <2>4. CASE EndDrawing BY <2>4 DEF EndDrawing, imageVars
  <2>5. CASE ChangeRate BY <2>5 DEF ChangeRate, imageVars
  <2>6. CASE PollInVain BY <2>6 DEF PollInVain, imageVars
  <2>7. CASE TakeFrame BY <2>7 DEF TakeFrame
  <2>8. CASE EncodeFrame BY <2>8 DEF EncodeFrame
  <2>9. CASE CopyPicture BY <2>9 DEF CopyPicture
  <2>10. CASE EndCopy BY <2>10 DEF EndCopy
  <2>11. CASE Time BY <2>11 DEF Time, imageVars
  <2>12. CASE UNCHANGED svars BY <2>12 DEF svars, imageVars
  <2>. QED BY <2>1, <2>2, <2>3, <2>4, <2>5, <2>6, <2>7, <2>8, <2>9, <2>10, <2>11,
              <2>12 DEF SNext
<1>. QED BY <1>1, <1>2, PTL DEF SSpec
-----------------------------------------------------------------------------
(* The wait of the first frame in the queue *)

WaitInv ==
  /\ waited \in 0..(Second + Poll)
  /\ raw = <<>> \/ last = 0 => waited = 0
  /\ last # 0 /\ now >= last => waited <= now - last

LEMMA WaitNext == TypeOK /\ TypeOK' /\ WaitInv /\ [SNext]_svars => WaitInv'
<1>. SUFFICES ASSUME TypeOK, TypeOK', WaitInv, [SNext]_svars PROVE WaitInv' OBVIOUS
<1>t. /\ now \in Int /\ last \in Int /\ waited \in Int
      /\ now' \in Int /\ last' \in Int /\ Second \in Nat /\ Poll \in Nat
  BY Constants DEF TypeOK, WaitInv
<1>1. CASE UNCHANGED <<vars, raw, waited>> BY <1>1 DEF vars, WaitInv
<1>2. CASE AddFrame
  <2>1. raw' # <<>> \/ UNCHANGED raw BY <1>2 DEF AddFrame
  <2>2. UNCHANGED <<now, last, waited>> BY <1>2 DEF AddFrame, vars
  <2>. QED BY <2>1, <2>2 DEF WaitInv
<1>3. CASE ChangeRate BY <1>3 DEF ChangeRate, SetRate, sizeVars, WaitInv
<1>4. CASE PollInVain
  <2>1. UNCHANGED <<raw, waited, now>> BY <1>4
    DEF PollInVain, sizeVars, FirstPoll, FrameIsEarly, FrameIsDue
  <2>2. CASE FirstPoll
    <3>1. last = 0 /\ last' = now BY <2>2 DEF FirstPoll
    <3>. QED BY <2>1, <3>1, <1>t DEF WaitInv
  <2>3. CASE FrameIsEarly
    <3>1. UNCHANGED last BY <2>3 DEF FrameIsEarly
    <3>. QED BY <2>1, <3>1 DEF WaitInv
  <2>4. CASE FrameIsDue /\ raw = <<>>
    <3>1. last' = now BY <2>4 DEF FrameIsDue
    <3>. QED BY <2>1, <2>4, <3>1, <1>t DEF WaitInv
  <2>. QED BY <1>4, <2>2, <2>3, <2>4 DEF PollInVain
<1>5. CASE TakeFrame
  <2>1. waited' = 0 /\ last' = now /\ now' = now BY <1>5 DEF TakeFrame, FrameIsDue
  <2>. QED BY <2>1, <1>t DEF WaitInv
<1>6. CASE Time
  <2>1. /\ UNCHANGED <<raw, last>>
        /\ now' = (now + 1) % Wrap
        /\ waited' = IF raw = <<>> \/ last = 0 \/ now' <= last THEN 0
                     ELSE IF waited < Second + Poll THEN waited + 1 ELSE waited
    BY <1>6 DEF Time, Tick
  <2>2. now' = 0 \/ now' = now + 1 BY <2>1, Constants DEF TypeOK
  <2>3. waited' \in 0..(Second + Poll) BY <2>1, <1>t DEF WaitInv
  <2>4. raw' = <<>> \/ last' = 0 => waited' = 0 BY <2>1
  <2>5. ASSUME last' # 0, now' >= last' PROVE waited' <= now' - last'
    <3>1. last \in 0..(Wrap - 1) BY DEF TypeOK
    <3>2. CASE now' <= last BY <3>2, <2>1, <2>5, <1>t
    <3>3. CASE now' > last
      <4>1. now' = now + 1 /\ now >= last
        BY <3>3, <3>1, <2>1, <2>2, <2>5, <1>t, Constants
      <4>2. waited <= now - last BY <4>1, <2>1, <2>5 DEF WaitInv
      <4>3. waited' <= waited + 1 BY <2>1, <1>t DEF WaitInv
      <4>4. waited' \in Int BY <2>3, <1>t
      <4>. QED BY <4>1, <4>2, <4>3, <4>4, <2>1, <1>t
    <3>. QED BY <3>2, <3>3, <2>1, <1>t
  <2>. QED BY <2>3, <2>4, <2>5 DEF WaitInv
<1>7. CASE UNCHANGED svars BY <1>7, <1>1 DEF svars, sizeVars
<1>8. CASE \E s \in Sizes : InputVideo(s) BY <1>8, <1>1 DEF InputVideo
<1>9. CASE StartDrawing BY <1>9, <1>1 DEF StartDrawing, sizeVars
<1>10. CASE EndDrawing BY <1>10, <1>1 DEF EndDrawing, sizeVars
<1>11. CASE EncodeFrame BY <1>11, <1>1 DEF EncodeFrame, sizeVars
<1>12. CASE CopyPicture BY <1>12, <1>1 DEF CopyPicture, sizeVars
<1>13. CASE EndCopy BY <1>13, <1>1 DEF EndCopy, sizeVars
<1>. QED BY <1>2, <1>3, <1>4, <1>5, <1>6, <1>7, <1>8, <1>9, <1>10, <1>11, <1>12,
            <1>13 DEF SNext

\* A frame in the queue waits for less than a second and a poll.
THEOREM FrameIsTakenHolds == SSpec => []FrameIsTaken
<1>1. SInit => WaitInv
  BY Constants DEF SInit, Init, WaitInv
<1>2. PacingInv => TypeOK BY DEF PacingInv
<1>3. PacingInv /\ WaitInv => FrameIsTaken
  <2>. SUFFICES ASSUME PacingInv, WaitInv, last # 0, ~zero, now >= last
                PROVE  waited < Second + Poll
    BY DEF FrameIsTaken
  <2>1. now - last < Second + since /\ waited <= now - last
    BY DEF PacingInv, WaitInv
  <2>2. /\ now \in Int /\ last \in Int /\ waited \in Int /\ since \in 0..Poll
        /\ Second \in Nat /\ Poll \in Nat
    BY Constants DEF PacingInv, TypeOK, WaitInv
  <2>. QED BY <2>1, <2>2
<1>4. SSpec => []PacingInv
  BY StreamingRefinesPacing, PacingInit, PacingNext, PTL DEF Spec
<1>. QED BY <1>1, <1>2, <1>3, <1>4, WaitNext, PTL DEF SSpec
-----------------------------------------------------------------------------
(* Types, and the sizes of frames *)

STypes ==
  /\ app \in {"idle", "sizing", "drawing"}
  /\ image \in {"sleeping", "encoding", "showing", "copying"}
  /\ {input, taken} \subseteq Sizes \cup {None}
  /\ app = "sizing" => input \in Sizes
  /\ width \in Widths /\ height \in Heights
  /\ {encoder, picture} \subseteq Widths \X Heights
  /\ raw \in Seq(Sizes) /\ Len(raw) <= RawLimit
  /\ app = "sizing" => Len(raw) < RawLimit
  /\ {update, torn, resized} \subseteq BOOLEAN

LEMMA SizeOf ==
  ASSUME NEW s \in Sizes
  PROVE  /\ s = <<s[1], s[2]>> /\ s[1] \in Nat \ {0} /\ s[2] \in Nat \ {0}
         /\ s[1] \in Widths /\ s[2] \in Heights
BY StreamingAssumption DEF Widths, Heights

LEMMA NonEmpty ==
  ASSUME NEW S, NEW s \in Seq(S)
  PROVE  /\ Len(s) \in Nat
         /\ s = <<>> <=> Len(s) = 0
         /\ s = <<>> \/ Len(s) = 1 \/ Len(s) > 1
<1>1. Len(s) \in Nat OBVIOUS
<1>2. s = <<>> <=> Len(s) = 0 OBVIOUS
<1>3. \A n \in Nat : n = 0 \/ n = 1 \/ n > 1 OBVIOUS
<1>4. Len(s) = 0 \/ Len(s) = 1 \/ Len(s) > 1 BY <1>1, <1>3, Zenon
<1>. QED BY <1>1, <1>2, <1>4, Zenon

LEMMA SizeIsPair == STypes => Size \in Widths \X Heights
BY DEF STypes, Size

LEMMA STypesInit == SInit => STypes
<1>. SUFFICES ASSUME SInit PROVE STypes OBVIOUS
<1>1. None \in Widths \X Heights BY DEF None, Widths, Heights
<1>2. raw \in Seq(Sizes) /\ Len(raw) = 0 BY DEF SInit
<1>3. 0 \in Widths /\ 0 \in Heights BY DEF Widths, Heights
<1>4. Len(raw) <= RawLimit BY <1>2, StreamingAssumption
<1>5. /\ app = "idle" /\ image = "sleeping" /\ input = None /\ taken = None
      /\ width = 0 /\ height = 0 /\ encoder = None /\ picture = None
      /\ update = FALSE /\ torn = FALSE /\ resized = FALSE
  BY DEF SInit
<1>. QED BY <1>1, <1>2, <1>3, <1>4, <1>5 DEF STypes

LEMMA STypesNext == STypes /\ [SNext]_svars => STypes'
<1>. SUFFICES ASSUME STypes, [SNext]_svars PROVE STypes' OBVIOUS
<1>. USE DEF STypes
<1>1. ASSUME NEW s \in Sizes, InputVideo(s) PROVE STypes'
  <2>1. s[1] \in Widths BY SizeOf
  <2>2. /\ UNCHANGED <<height, raw, image, taken, encoder, picture, update, torn>>
        /\ width' = s[1] /\ app' = "sizing" /\ input' = s /\ Len(raw) < RawLimit
    BY <1>1 DEF InputVideo, imageVars
  <2>3. resized' \in BOOLEAN BY <1>1 DEF InputVideo
  <2>. QED BY <2>1, <2>2, <2>3
<1>2. CASE AddFrame
  <2>1. /\ app' = "idle" /\ height' = input[2] /\ raw' = Append(raw, input)
        /\ input \in Sizes /\ Len(raw) < RawLimit
        /\ UNCHANGED <<width, input, resized, image, taken, encoder, picture, update, torn>>
    BY <1>2 DEF AddFrame, imageVars
  <2>2. height' \in Heights BY <2>1, SizeOf
  <2>3. raw' \in Seq(Sizes) /\ Len(raw') = Len(raw) + 1 BY <2>1
  <2>4. Len(raw') <= RawLimit
    <3>1. Len(raw) \in Nat OBVIOUS
    <3>. QED BY <2>1, <2>3, <3>1, StreamingAssumption
  <2>. QED BY <2>1, <2>2, <2>3, <2>4
<1>3. CASE StartDrawing BY <1>3 DEF StartDrawing, sizeVars, imageVars
<1>4. CASE EndDrawing BY <1>4 DEF EndDrawing, sizeVars, imageVars
<1>5. CASE ChangeRate BY <1>5 DEF ChangeRate, sizeVars, imageVars
<1>6. CASE PollInVain BY <1>6 DEF PollInVain, sizeVars, imageVars
<1>7. CASE TakeFrame
  <2>1. /\ taken' = Head(raw) /\ raw' = Tail(raw) /\ image' = "encoding" /\ raw # <<>>
        /\ UNCHANGED <<app, width, height, input, resized, encoder, picture, update, torn>>
    BY <1>7 DEF TakeFrame
  <2>2. raw' \in Seq(Sizes) /\ Len(raw') = Len(raw) - 1 /\ taken' \in Sizes BY <2>1
  <2>3. Len(raw') <= RawLimit /\ Len(raw') < Len(raw)
    BY <2>2, StreamingAssumption
  <2>4. app' = "sizing" => Len(raw') < RawLimit
    <3>1. Len(raw) \in Nat /\ Len(raw') \in Nat BY <2>2
    <3>. QED BY <2>1, <2>3, <3>1, StreamingAssumption
  <2>. QED BY <2>1, <2>2, <2>3, <2>4
<1>8. CASE EncodeFrame BY <1>8, SizeIsPair DEF EncodeFrame, sizeVars
<1>9. CASE CopyPicture BY <1>9, SizeIsPair DEF CopyPicture, sizeVars
<1>10. CASE EndCopy BY <1>10 DEF EndCopy, sizeVars
<1>11. CASE Time BY <1>11 DEF Time, imageVars
<1>12. CASE UNCHANGED svars BY <1>12 DEF svars, sizeVars, imageVars
<1>. QED BY <1>1, <1>2, <1>3, <1>4, <1>5, <1>6, <1>7, <1>8, <1>9, <1>10, <1>11,
            <1>12 DEF SNext

\* Types of all variables, and the limit of the queue, for any sizes.
THEOREM StreamingTypeCorrect == SSpec => []STypeOK
<1>1. SInit => WaitInv BY Constants DEF SInit, Init, WaitInv
<1>2. PacingInv => TypeOK BY DEF PacingInv
<1>3. TypeOK /\ WaitInv /\ STypes => STypeOK
  BY SizeIsPair DEF STypeOK, WaitInv, STypes
<1>4. SSpec => []PacingInv
  BY StreamingRefinesPacing, PacingInit, PacingNext, PTL DEF Spec
<1>. QED BY <1>1, <1>2, <1>3, <1>4, WaitNext, STypesInit, STypesNext, PTL DEF SSpec

\* In the middle of InputVideo the width is that of the frame handed in.
NewestInv ==
  /\ app = "sizing" => width = input[1]
  /\ SizeIsOfNewest

\* The pair m_iWidth, m_iHeight belongs to the newest frame, for any sizes.
THEOREM SizeIsOfNewestHolds == SSpec => []SizeIsOfNewest
<1>1. SInit => NewestInv BY DEF SInit, NewestInv, SizeIsOfNewest
<1>2. STypes /\ NewestInv /\ [SNext]_svars => NewestInv'
  <2>. SUFFICES ASSUME STypes, NewestInv, [SNext]_svars PROVE NewestInv' OBVIOUS
  <2>. USE DEF NewestInv, SizeIsOfNewest, Size
  <2>1. CASE \E s \in Sizes : InputVideo(s) BY <2>1 DEF InputVideo
  <2>2. CASE AddFrame
    <3>1. /\ raw' = Append(raw, input) /\ app' = "idle" /\ height' = input[2]
          /\ width' = width /\ width = input[1] /\ input \in Sizes
          /\ raw \in Seq(Sizes)
      BY <2>2 DEF AddFrame, STypes
    <3>2. Last(raw') = input BY <3>1 DEF Last
    <3>3. raw' # <<>> BY <3>1
    <3>4. Size' = input BY <3>1, SizeOf
    <3>. QED BY <3>1, <3>2, <3>3, <3>4
  <2>3. CASE StartDrawing BY <2>3 DEF StartDrawing, sizeVars, imageVars
  <2>4. CASE EndDrawing BY <2>4 DEF EndDrawing, sizeVars, imageVars
  <2>5. CASE ChangeRate BY <2>5 DEF ChangeRate, sizeVars, imageVars
  <2>6. CASE PollInVain BY <2>6 DEF PollInVain, sizeVars, imageVars
  <2>7. CASE TakeFrame
    <3>1. /\ raw # <<>> /\ taken' = Head(raw) /\ raw' = Tail(raw)
          /\ UNCHANGED <<app, width, height, input>> /\ raw \in Seq(Sizes)
      BY <2>7 DEF TakeFrame, STypes
    <3>2. CASE Len(raw) = 1
      <4>1. raw' = <<>> BY <3>1, <3>2
      <4>2. Last(raw) = Head(raw) BY <3>1, <3>2 DEF Last
      <4>. QED BY <3>1, <4>1, <4>2
    <3>3. CASE Len(raw) # 1
      <4>1. Len(raw) \in Nat /\ Len(raw) > 1 BY <3>1, <3>3, NonEmpty
      <4>2. raw' # <<>>
        <5>1. raw' \in Seq(Sizes) /\ Len(raw') = Len(raw) - 1 BY <3>1, <4>1
        <5>. QED BY <5>1, <4>1, NonEmpty
      <4>3. Last(raw') = Last(raw) BY <3>1, <4>1 DEF Last
      <4>. QED BY <3>1, <4>2, <4>3
    <3>. QED BY <3>2, <3>3
  <2>8. CASE EncodeFrame BY <2>8 DEF EncodeFrame, sizeVars
  <2>9. CASE CopyPicture BY <2>9 DEF CopyPicture, sizeVars
  <2>10. CASE EndCopy BY <2>10 DEF EndCopy, sizeVars
  <2>11. CASE Time BY <2>11 DEF Time, imageVars
  <2>12. CASE UNCHANGED svars BY <2>12 DEF svars, sizeVars, imageVars
  <2>. QED BY <2>1, <2>2, <2>3, <2>4, <2>5, <2>6, <2>7, <2>8, <2>9, <2>10, <2>11,
              <2>12 DEF SNext
<1>3. NewestInv => SizeIsOfNewest BY DEF NewestInv
<1>. QED BY <1>1, <1>2, <1>3, STypesInit, STypesNext, PTL DEF SSpec

\* With one size in use, all frames under way have it: none before the first
\* frame is complete, and the pair itself afterwards.
SteadyInv ==
  ~resized =>
    \/ /\ height = 0 /\ raw = <<>> /\ image = "sleeping" /\ encoder = None
       /\ width = IF app = "sizing" THEN input[1] ELSE 0
    \/ /\ height # 0
       /\ app = "sizing" => Size = input
       /\ \A i \in 1..Len(raw) : raw[i] = Size
       /\ image # "sleeping" => taken = Size
       /\ encoder \in {None, Size}
       /\ image \in {"showing", "copying"} => encoder = Size
       /\ image = "copying" => picture = Size

\* An application that keeps to one size has its frames encoded and shown at it.
THEOREM SteadySizeHolds == SSpec => []SteadySize
<1>1. SInit => SteadyInv BY DEF SInit, SteadyInv
<1>2. STypes /\ SteadyInv /\ [SNext]_svars => SteadyInv'
  <2>. SUFFICES ASSUME STypes, SteadyInv, [SNext]_svars PROVE SteadyInv' OBVIOUS
  <2>. USE DEF SteadyInv
  <2>1. ASSUME NEW s \in Sizes, InputVideo(s) PROVE SteadyInv'
    <3>. SUFFICES ASSUME ~resized' PROVE SteadyInv' OBVIOUS
    <3>1. /\ UNCHANGED <<height, raw, image, taken, encoder, picture>>
          /\ width' = s[1] /\ app' = "sizing" /\ input' = s /\ app = "idle"
          /\ ~resized /\ (Size = None \/ Size = s)
      BY <2>1 DEF InputVideo, imageVars
    <3>2. CASE height = 0
      BY <3>1, <3>2
    <3>3. CASE height # 0
      <4>1. Size = s BY <3>1, <3>3 DEF Size, None
      <4>2. Size' = Size BY <3>1, <4>1 DEF Size
      <4>. QED BY <3>1, <3>3, <4>1, <4>2
    <3>. QED BY <3>2, <3>3
  <2>2. CASE AddFrame
    <3>. SUFFICES ASSUME ~resized' PROVE SteadyInv' OBVIOUS
    <3>1. /\ app' = "idle" /\ height' = input[2] /\ raw' = Append(raw, input)
          /\ input \in Sizes /\ raw \in Seq(Sizes) /\ app = "sizing"
          /\ UNCHANGED <<width, input, resized, image, taken, encoder, picture>>
      BY <2>2 DEF AddFrame, imageVars, STypes
    <3>2. width = input[1] /\ Size' = input /\ height' # 0
      <4>1. width = input[1] BY <3>1 DEF Size
      <4>. QED BY <3>1, <4>1, SizeOf DEF Size
    <3>3. CASE height = 0
      <4>1. raw = <<>> /\ image = "sleeping" /\ encoder = None BY <3>1, <3>3
      <4>2. \A i \in 1..Len(raw') : raw'[i] = input BY <3>1, <4>1
      <4>. QED BY <3>1, <3>2, <4>1, <4>2
    <3>4. CASE height # 0
      <4>1. Size = input /\ \A i \in 1..Len(raw) : raw[i] = input BY <3>1, <3>4
      <4>2. \A i \in 1..Len(raw') : raw'[i] = input BY <3>1, <4>1
      <4>. QED BY <3>1, <3>2, <3>4, <4>1, <4>2
    <3>. QED BY <3>3, <3>4
  <2>3. CASE StartDrawing BY <2>3 DEF StartDrawing, sizeVars, imageVars, Size
  <2>4. CASE EndDrawing BY <2>4 DEF EndDrawing, sizeVars, imageVars, Size
  <2>5. CASE ChangeRate BY <2>5 DEF ChangeRate, sizeVars, imageVars, Size
  <2>6. CASE PollInVain BY <2>6 DEF PollInVain, sizeVars, imageVars, Size
  <2>7. CASE TakeFrame
    <3>. SUFFICES ASSUME ~resized' PROVE SteadyInv' OBVIOUS
    <3>1. /\ raw # <<>> /\ taken' = Head(raw) /\ raw' = Tail(raw)
          /\ image = "sleeping" /\ image' = "encoding" /\ raw \in Seq(Sizes)
          /\ UNCHANGED <<app, width, height, input, resized, encoder>>
      BY <2>7 DEF TakeFrame, STypes
    <3>2. height # 0 /\ \A i \in 1..Len(raw) : raw[i] = Size BY <3>1
    <3>3. taken' = Size BY <3>1, <3>2
    <3>4. \A i \in 1..Len(raw') : raw'[i] = Size BY <3>1, <3>2
    <3>5. Size' = Size BY <3>1 DEF Size
    <3>. QED BY <3>1, <3>2, <3>3, <3>4, <3>5
  <2>8. CASE EncodeFrame BY <2>8 DEF EncodeFrame, sizeVars, Size
  <2>9. CASE CopyPicture BY <2>9 DEF CopyPicture, sizeVars, Size
  <2>10. CASE EndCopy BY <2>10 DEF EndCopy, sizeVars, Size
  <2>11. CASE Time BY <2>11 DEF Time, imageVars, Size
  <2>12. CASE UNCHANGED svars BY <2>12 DEF svars, sizeVars, imageVars, Size
  <2>. QED BY <2>1, <2>2, <2>3, <2>4, <2>5, <2>6, <2>7, <2>8, <2>9, <2>10, <2>11,
              <2>12 DEF SNext
<1>3. SteadyInv => SteadySize BY DEF SteadyInv, SteadySize
<1>. QED BY <1>1, <1>2, <1>3, STypesInit, STypesNext, PTL DEF SSpec
=============================================================================
