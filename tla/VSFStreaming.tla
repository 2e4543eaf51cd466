----------------------------- MODULE VSFStreaming -----------------------------
(***************************************************************************)
(* StreamingCtrl with its clock: how a frame of the application is sized,  *)
(* taken, encoded and shown.  Two threads meet here without a lock.        *)
(*                                                                         *)
(*  - The application's timer hands a frame in (InputVideo) and then lets  *)
(*    the renderer draw (TimeEvent).  InputVideo keeps the frame's size in *)
(*    m_iWidth and m_iHeight, one pair for all frames in the queue.        *)
(*  - ImageThread takes a frame when it is due (VSFPacing), encodes it and *)
(*    copies it for the renderer; it reads the pair twice on the way.      *)
(*                                                                         *)
(* The encoder keeps the size it is opened with, that of the first frame   *)
(* encoded.  The renderer's m_pBuf keeps its size too: what a larger       *)
(* picture destroys behind it is left out, see SteadySize.  The encoder's  *)
(* output and its way to the clients are in VSFPipeline.                   *)
(***************************************************************************)
EXTENDS VSFPacing, SequencesExt

CONSTANTS
  Sizes,     \* the sizes of frames, pairs of width and height
  RawLimit   \* frames that m_pVideoQueue takes

ASSUME StreamingAssumption ==
  /\ Sizes \subseteq (Nat \ {0}) \X (Nat \ {0})
  /\ RawLimit \in Nat \ {0}

VARIABLES
  app,      \* the application's thread: "idle", "sizing", "drawing"
  input,    \* the size of the frame that InputVideo is handing in
  width,    \* StreamingCtrl::m_iWidth, 0 before the first frame
  height,   \* StreamingCtrl::m_iHeight
  raw,      \* m_pVideoQueue: the frames' own sizes
  image,    \* ImageThread: "sleeping", "encoding", "showing", "copying"
  taken,    \* the own size of the frame that ImageThread has taken last
  encoder,  \* the size the encoder is opened with
  picture,  \* the size of what is, or is to be, in m_pBuf: m_iW and m_iH
  update,   \* glRender::m_bUpdate
  torn,     \* what is drawn or was drawn last was copied while it was read
  resized,  \* history: two different sizes were handed in
  waited    \* history: ticks the first frame in raw has waited, from last on

sizeVars  == <<width, height, raw, input, resized, waited>>
imageVars == <<image, taken, encoder, picture>>
svars == <<vars, app, sizeVars, imageVars, update, torn>>

None == <<0, 0>>
Size == <<width, height>>

SInit ==
  /\ Init
  /\ app = "idle" /\ input = None
  /\ width = 0 /\ height = 0 /\ raw = <<>>
  /\ image = "sleeping" /\ taken = None
  /\ encoder = None /\ picture = None
  /\ update = FALSE /\ torn = FALSE
  /\ resized = FALSE /\ waited = 0
-----------------------------------------------------------------------------
(* The application's thread *)

\* Fault variant: the width is written before the queue is looked at.
InputVideo_SizeFirst(s) ==
  /\ app = "idle"
  /\ width' = s[1]
  /\ IF Len(raw) < RawLimit THEN app' = "sizing" ELSE UNCHANGED app
  /\ input' = s
  /\ resized' = (resized \/ (Size # None /\ Size # s))
  /\ UNCHANGED <<vars, height, raw, waited, imageVars, update, torn>>

\* InputVideo up to m_iWidth, unless the queue is full (-1).  A frame larger
\* than the queue's units is refused (-2), which changes nothing.
InputVideo(s) ==
  /\ app = "idle"
  /\ Len(raw) < RawLimit
  /\ width' = s[1]
  /\ app' = "sizing"
  /\ input' = s
  /\ resized' = (resized \/ (Size # None /\ Size # s))
  /\ UNCHANGED <<vars, height, raw, waited, imageVars, update, torn>>

\* Fault variant: the height is never written.
AddFrame_WidthOnly ==
  /\ app = "sizing"
  /\ raw' = Append(raw, input)
  /\ app' = "idle"
  /\ UNCHANGED <<vars, width, height, input, resized, waited, imageVars, update, torn>>

\* m_iHeight, SetFrameSize and Add.
AddFrame ==
  /\ app = "sizing"
  /\ height' = input[2]
  /\ raw' = Append(raw, input)
  /\ app' = "idle"
  /\ UNCHANGED <<vars, width, input, resized, waited, imageVars, update, torn>>

\* TimeEvent, glRender::Update: the flag goes, and Make begins to read m_pBuf.
StartDrawing ==
  /\ app = "idle"
  /\ update
  /\ update' = FALSE
  /\ app' = "drawing"
  /\ torn' = (image = "copying")
  /\ UNCHANGED <<vars, sizeVars, imageVars>>

\* Fault variant: the flag is taken back when the picture has been drawn.
EndDrawing_ClearsFlag ==
  /\ app = "drawing"
  /\ app' = "idle"
  /\ update' = FALSE
  /\ UNCHANGED <<vars, sizeVars, imageVars, torn>>

\* The end of Make, and Draw.
EndDrawing ==
  /\ app = "drawing"
  /\ app' = "idle"
  /\ UNCHANGED <<vars, sizeVars, imageVars, update, torn>>

\* CheckFPS, the last call of TimeEvent, or SetFPS.
ChangeRate ==
  /\ app = "idle"
  /\ SetRate
  /\ UNCHANGED <<app, sizeVars, imageVars, update, torn>>
-----------------------------------------------------------------------------
(* ImageThread *)

\* UpdateVideo3 finds no frame due, or none in the queue.
PollInVain ==
  /\ image = "sleeping"
  /\ \/ FirstPoll
     \/ FrameIsEarly
     \/ FrameIsDue /\ raw = <<>>
  /\ UNCHANGED <<app, sizeVars, imageVars, update, torn>>

\* UpdateVideo3, GetNext.
TakeFrame ==
  /\ image = "sleeping"
  /\ raw # <<>>
  /\ FrameIsDue
  /\ taken' = Head(raw)
  /\ raw' = Tail(raw)
  /\ waited' = 0
  /\ image' = "encoding"
  /\ UNCHANGED <<app, width, height, input, resized, encoder, picture, update, torn>>

\* ServerManager::UpdateVideo: refused when SendVideoLoop has left its queue full;
\* else the encoder is open from now on, and a frame it encodes is shown.
EncodeFrame ==
  /\ image = "encoding"
  /\ \/ /\ image' = "sleeping"
        /\ UNCHANGED encoder
     \/ /\ encoder' = IF encoder = None THEN Size ELSE encoder
        /\ image' \in {"showing", "sleeping"}
  /\ UNCHANGED <<vars, app, sizeVars, taken, picture, update, torn>>

\* glRender::UpdateTexture, with the size as it is now.
CopyPicture ==
  /\ image = "showing"
  /\ picture' = Size
  /\ image' = "copying"
  /\ torn' = (torn \/ app = "drawing")
  /\ UNCHANGED <<vars, app, sizeVars, taken, encoder, update>>

\* The end of UpdateTexture: m_bUpdate comes last.
EndCopy ==
  /\ image = "copying"
  /\ update' = TRUE
  /\ image' = "sleeping"
  /\ UNCHANGED <<vars, app, sizeVars, taken, encoder, picture, torn>>

\* Environment: time passes, during all of this.
Time ==
  /\ Tick
  /\ waited' = IF raw = <<>> \/ last = 0 \/ now' <= last THEN 0
               ELSE IF waited < Second + Poll THEN waited + 1 ELSE waited
  /\ UNCHANGED <<app, width, height, raw, input, resized, imageVars, update, torn>>
-----------------------------------------------------------------------------
SNext ==
  \/ \E s \in Sizes : InputVideo(s)
  \/ AddFrame
  \/ StartDrawing \/ EndDrawing
  \/ ChangeRate
  \/ PollInVain \/ TakeFrame \/ EncodeFrame
  \/ CopyPicture \/ EndCopy
  \/ Time

SSpec == SInit /\ [][SNext]_svars

-----------------------------------------------------------------------------
Widths  == {0} \cup {s[1] : s \in Sizes}
Heights == {0} \cup {s[2] : s \in Sizes}

STypeOK ==
  /\ TypeOK
  /\ app \in {"idle", "sizing", "drawing"}
  /\ image \in {"sleeping", "encoding", "showing", "copying"}
  /\ {input, taken} \subseteq Sizes \cup {None}
  /\ {Size, encoder, picture} \subseteq Widths \X Heights
  /\ raw \in Seq(Sizes) /\ Len(raw) <= RawLimit
  /\ {update, torn, resized} \subseteq BOOLEAN
  /\ waited \in 0..(Second + Poll)

\* A frame that may be taken is taken within a second and a poll, whatever the
\* rate changes to, whatever the poll found before the frame was there, and
\* however the sum of time and wait wraps.  The exceptions are those of
\* NeverStandsStill; and ImageThread polls (Poll), so the server is not stopped.
FrameIsTaken ==
  raw # <<>> /\ last # 0 /\ ~zero /\ now >= last => waited < Second + Poll

\* As long as the application keeps to one size, a frame is encoded and shown
\* at its own size, although the size is read without a lock, twice, and long
\* after the frame was queued.  When it changes the size this is not so: the
\* encoder keeps the first one, and m_pBuf may be too small.
SteadySize ==
  ~resized => /\ image \in {"showing", "copying"} => encoder = taken
              /\ image = "copying" => picture = taken

\* While no frame is being handed in, the pair is the size of the newest frame
\* in the program, however many were refused: a frame is encoded with the size
\* of another one only if that one was accepted, and is yet to come.
SizeIsOfNewest ==
  app # "sizing" =>
    /\ raw # <<>> => Size = Last(raw)
    /\ raw = <<>> /\ image # "sleeping" => Size = taken

\* The two threads share m_pBuf without a lock, so half of one picture and
\* half of the next may be drawn.  It does not stay: the flag is up, or will
\* be when the copy ends, and the next TimeEvent draws again.  What it draws may
\* be torn by yet another copy, and is then not the last one either.
TornIsReplaced == torn => update \/ image = "copying"
=============================================================================
