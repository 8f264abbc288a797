------------------------------ MODULE FrameProofs ------------------------------
(***************************************************************************)
(* What a frame passes on its way from the screen to the network.          *)
(*                                                                         *)
(* The devices, which are the capture backends and the codec wrappers, for *)
(* any number of modes, attempts, init() calls, pictures and faults: what  *)
(* a device handed out is given back, and what is used is what was set up  *)
(* last.  The pixels, for any rectangles and tiles: RectMerger loses no    *)
(* dirty rectangle, TileCodec gives a LOSSLESS tile back.                  *)
(***************************************************************************)
EXTENDS DxgiCapture, X11Capture, VaapiEncoder, MfCodec, RectMerger, TileCodec, RansProofs

---------------------------------------------------------------------------
(* Media Foundation: MfInv is inductive as it stands.                      *)

LEMMA OneValue == One(TRUE) = 1 /\ One(FALSE) = 0
BY DEF One

LEMMA OneRange == ASSUME NEW b \in BOOLEAN PROVE One(b) = 0 \/ One(b) = 1
BY DEF One

\* The pictures in the transform.
LEMMA HeldTypes ==
    ASSUME NEW s \in Seq(BOOLEAN)
    PROVE  /\ Len(s) \in Nat
           /\ \A b \in BOOLEAN : /\ Append(s, b) \in Seq(BOOLEAN)
                                 /\ Len(Append(s, b)) = Len(s) + 1
           /\ Len(s) > 0 => /\ Tail(s) \in Seq(BOOLEAN)
                            /\ Len(Tail(s)) = Len(s) - 1
OBVIOUS

LEMMA NothingHeld == <<>> \in Seq(BOOLEAN) /\ Len(<<>>) = 0
OBVIOUS

LEMMA MfInitially == MfInit => MfInv
<1> SUFFICES ASSUME MfInit PROVE MfInv
  OBVIOUS
<1> USE MfAssumption DEF MfInit
<1>1. MfTypeOK
  <2>1. mfHeld \in Seq(BOOLEAN)
    BY NothingHeld
  <2>2. mfStarts \in Nat /\ mfInits \in 0..MaxMfInits
    OBVIOUS
  <2>3. mfFaults \in 0..MaxFaults /\ mfStuck \in Nat
    OBVIOUS
  <2> QED
    BY <2>1, <2>2, <2>3 DEF MfTypeOK
<1>2. StaysStarted
  <2>1. One(encInit) = 0 /\ One(decInit) = 0
    BY OneValue
  <2> QED
    BY <2>1 DEF StaysStarted
<1>3. NothingPilesUp
  <2>1. One(mf = "output") = 0
    BY DEF One
  <2>2. Len(mfHeld) = 0
    BY NothingHeld
  <2> QED
    BY <2>1, <2>2 DEF NothingPilesUp
<1> QED
  BY <1>1, <1>2, <1>3 DEF MfInv

\* No init() or destroy() of one object takes the start of the other.
LEMMA MfStartsKept ==
    ASSUME MfInv, EncoderInitFails \/ EncoderInit \/ EncoderDestroy
                    \/ DecoderInit \/ DecoderDestroy
    PROVE  mfStarts' \in Nat /\ StaysStarted'
<1>1. mfStarts \in Nat /\ mfStarts >= One(encInit) + One(decInit)
  BY DEF MfInv, MfTypeOK, StaysStarted
<1>2. One(encInit) \in {0, 1} /\ One(decInit) \in {0, 1}
  BY OneRange DEF MfInv, MfTypeOK
<1>3. SUFFICES mfStarts' \in Nat /\ mfStarts' >= One(encInit') + One(decInit')
  BY DEF StaysStarted, One
<1>4. CASE EncoderInitFails
  <2>1. One(decInit') = One(decInit)
    BY <1>4 DEF EncoderInitFails
  <2>2. CASE EncoderNotStarted
    <3>1. mfStarts' = mfStarts /\ One(encInit') = One(encInit)
      BY <2>2 DEF EncoderNotStarted
    <3> QED
      BY <1>1, <1>2, <2>1, <3>1
  <2>3. CASE EncoderNotFound
    <3>1. mfStarts' = mfStarts + 1 /\ One(encInit') = One(encInit)
      BY <2>3 DEF EncoderNotFound
    <3> QED
      BY <1>1, <1>2, <2>1, <3>1
  <2>4. CASE EncoderNotConfigured
    <3>1. mfStarts' = 1 + (mfStarts - One(encInit)) /\ One(encInit') = 0
      BY <2>4, OneValue DEF EncoderNotConfigured, Destroyed
    <3> QED
      BY <1>1, <1>2, <2>1, <3>1
  <2> QED
    BY <1>4, <2>2, <2>3, <2>4 DEF EncoderInitFails
<1>5. CASE EncoderInit
  <2>1. /\ mfStarts' = mfStarts + 1
        /\ One(encInit') = 1 /\ One(decInit') = One(decInit)
    BY <1>5, OneValue DEF EncoderInit
  <2> QED
    BY <1>1, <1>2, <2>1
<1>6. CASE EncoderDestroy
  <2>1. /\ mfStarts' = mfStarts - One(encInit)
        /\ One(encInit') = 0 /\ One(decInit') = One(decInit)
    BY <1>6, OneValue DEF EncoderDestroy, Destroyed
  <2> QED
    BY <1>1, <1>2, <2>1
<1>7. CASE DecoderInit
  <2>1. One(encInit') = One(encInit)
    BY <1>7 DEF DecoderInit
  <2>2. \/ mfStarts' = mfStarts /\ One(decInit') = One(decInit)
        \/ mfStarts' = mfStarts + 1 /\ One(decInit') = One(decInit)
        \/ mfStarts' = 1 + (mfStarts - One(decInit)) /\ One(decInit') = 0
        \/ mfStarts' = mfStarts + 1 /\ One(decInit') = 1
    BY <1>7, OneValue DEF DecoderInit, Destroyed
  <2> QED
    BY <1>1, <1>2, <2>1, <2>2
<1>8. CASE DecoderDestroy
  <2>1. /\ mfStarts' = mfStarts - One(decInit)
        /\ One(decInit') = 0 /\ One(encInit') = One(encInit)
    BY <1>8, OneValue DEF DecoderDestroy, Destroyed
  <2> QED
    BY <1>1, <1>2, <2>1
<1> QED
  BY <1>4, <1>5, <1>6, <1>7, <1>8

LEMMA MfObjectSteps ==
    ASSUME MfInv, EncoderInitFails \/ EncoderInit \/ EncoderDestroy
                    \/ DecoderInit \/ DecoderDestroy
    PROVE  MfInv'
<1>1. mfStarts' \in Nat /\ StaysStarted'
  BY MfStartsKept
<1>2. mfInits' \in 0..MaxMfInits
  <2>1. mfInits' = mfInits \/ CountInit
    BY DEF EncoderInitFails, EncoderNotStarted, EncoderNotFound, EncoderNotConfigured,
       EncoderInit, EncoderDestroy, DecoderInit, DecoderDestroy
  <2>2. mfInits \in 0..MaxMfInits
    BY DEF MfInv, MfTypeOK
  <2> QED
    BY <2>1, <2>2, MfAssumption DEF CountInit
<1>3. encInit' \in BOOLEAN /\ encTransform' \in BOOLEAN
  BY DEF MfInv, MfTypeOK, EncoderInitFails, EncoderNotStarted,
     EncoderNotFound, EncoderNotConfigured, EncoderInit, EncoderDestroy,
     DecoderInit, DecoderDestroy
<1>4. decInit' \in BOOLEAN /\ decTransform' \in BOOLEAN
  BY DEF MfInv, MfTypeOK, EncoderInitFails, EncoderInit, EncoderDestroy,
     DecoderInit, DecoderDestroy
<1>5. mf' = mf /\ (EncoderInitFails \/ EncoderInit \/ EncoderDestroy => mf = "idle")
  BY DEF EncoderInitFails, EncoderNotStarted, EncoderNotFound, EncoderNotConfigured,
     EncoderInit, EncoderDestroy, DecoderInit, DecoderDestroy
<1>6. mf' \in {"sample", "output"} => encInit' /\ encTransform'
  BY <1>5 DEF MfInv, DecoderInit, DecoderDestroy
<1>7. mfRequested' \in BOOLEAN /\ mfForces' \in BOOLEAN /\ mfForced' \in BOOLEAN
  BY DEF MfInv, MfTypeOK, EncoderInitFails, EncoderInit, EncoderDestroy,
     DecoderInit, DecoderDestroy
<1>8. \/ EncoderInit
      \/ UNCHANGED mfStream
  BY DEF EncoderInitFails, EncoderDestroy, DecoderInit, DecoderDestroy
<1>9. /\ mfHeld' \in Seq(BOOLEAN) /\ mfFaults' \in 0..MaxFaults /\ mfStuck' \in Nat
      /\ mfOut' \in {"none", "key", "delta", "lost"}
  <2>1. CASE EncoderInit
    <3>1. mfHeld' = <<>> /\ mfStuck' = 0 /\ mfOut' = "none" /\ mfFaults' = mfFaults
      BY <2>1 DEF EncoderInit
    <3> QED
      BY <3>1, NothingHeld DEF MfInv, MfTypeOK
  <2>2. CASE UNCHANGED mfStream
    BY <2>2 DEF MfInv, MfTypeOK, mfStream
  <2> QED
    BY <1>8, <2>1, <2>2
<1>10. NothingPilesUp'
  <2>1. CASE EncoderInit
    <3>1. Len(mfHeld') = 0 /\ mfStuck' = 0
      BY <2>1 DEF EncoderInit
    <3>2. One(mf' = "output") \in {0, 1}
      BY OneRange
    <3> QED
      BY <3>1, <3>2, MfAssumption DEF NothingPilesUp
  <2>2. CASE UNCHANGED mfStream
    BY <1>5, <2>2 DEF MfInv, NothingPilesUp, mfStream, One
  <2> QED
    BY <1>8, <2>1, <2>2
<1>11. MfTypeOK'
  BY <1>1, <1>2, <1>3, <1>4, <1>5, <1>7, <1>9 DEF MfInv, MfTypeOK
<1> QED
  BY <1>1, <1>6, <1>10, <1>11 DEF MfInv

\* A step of encode() leaves no more pictures than were stuck before.
LEMMA MfEncodeSteps ==
    ASSUME MfInv, MfRequest \/ MfEncode
    PROVE  MfInv'
<1> USE MfAssumption
<1>1. /\ Len(mfHeld) <= MfDelay + mfStuck + One(mf = "output")
      /\ mfHeld \in Seq(BOOLEAN) /\ mfStuck \in Nat /\ Len(mfHeld) \in Nat
  BY DEF MfInv, MfTypeOK, NothingPilesUp
<1>2. UNCHANGED mfObjects
  BY DEF MfRequest, MfEncode, TakeRequest, ProcessInput, InputRefused,
     NeedMoreInput, ProcessOutput, OutputFails
<1>3. StaysStarted'
  BY <1>2 DEF MfInv, StaysStarted, mfObjects, One
<1>4. mf' \in {"sample", "output"} => encInit' /\ encTransform'
  BY <1>2 DEF MfInv, mfObjects, MfRequest, MfEncode, TakeRequest, ProcessInput,
     InputRefused, NeedMoreInput, ProcessOutput, OutputFails
<1>5. MfTypeOK'
  <2> USE DEF MfInv, MfTypeOK, mfObjects, mfStream, Fault
  <2>1. CASE MfRequest
    BY <2>1 DEF MfRequest
  <2>2. CASE TakeRequest
    BY <2>2 DEF TakeRequest
  <2>3. CASE ProcessInput
    <3>1. mfHeld' \in Seq(BOOLEAN)
      BY <2>3, HeldTypes DEF ProcessInput
    <3> QED
      BY <2>3, <3>1 DEF ProcessInput
  <2>4. CASE InputRefused
    BY <2>4 DEF InputRefused
  <2>5. CASE NeedMoreInput
    BY <2>5 DEF NeedMoreInput
  <2>6. CASE ProcessOutput
    <3>1. Len(mfHeld) > 0
      <4>1. Len(mfHeld) > MfDelay
        BY <2>6 DEF ProcessOutput
      <4> QED
        BY <1>1, <4>1
    <3>2. mfHeld' \in Seq(BOOLEAN)
      BY <2>6, <3>1, HeldTypes DEF ProcessOutput
    <3>3. mfOut' \in {"key", "delta"}
      BY <2>6 DEF ProcessOutput
    <3> QED
      BY <2>6, <3>2, <3>3 DEF ProcessOutput
  <2>7. CASE OutputFails
    <3>1. Len(mfHeld) > 0
      BY <1>1, <2>7 DEF OutputFails
    <3>2. mfHeld' \in Seq(BOOLEAN)
      BY <2>7, <3>1, HeldTypes DEF OutputFails
    <3> QED
      BY <2>7, <3>2 DEF OutputFails
  <2> QED
    BY <2>1, <2>2, <2>3, <2>4, <2>5, <2>6, <2>7 DEF MfEncode
<1>6. Len(mfHeld') <= MfDelay + mfStuck' + One(mf' = "output")
  <2>1. CASE MfRequest \/ TakeRequest \/ InputRefused
    <3>1. /\ mfHeld' = mfHeld /\ mfStuck' = mfStuck
          /\ mf # "output" \/ mf' = mf
      BY <2>1 DEF MfRequest, TakeRequest, InputRefused, mfStream
    <3>2. One(mf' = "output") >= One(mf = "output")
      BY <3>1 DEF One
    <3>3. One(mf' = "output") \in {0, 1} /\ One(mf = "output") \in {0, 1}
      BY OneRange
    <3> QED
      BY <1>1, <3>1, <3>2, <3>3
  <2>2. CASE ProcessInput
    <3>1. mfHeld' = Append(mfHeld, mfForced) /\ mfStuck' = mfStuck
      BY <2>2 DEF ProcessInput
    <3>2. One(mf = "output") = 0 /\ One(mf' = "output") = 1
      BY <2>2 DEF ProcessInput, One
    <3>3. Len(mfHeld') = Len(mfHeld) + 1
      BY <1>1, <3>1, HeldTypes DEF MfInv, MfTypeOK
    <3> QED
      BY <1>1, <3>1, <3>2, <3>3
  <2>3. CASE NeedMoreInput
    <3>1. Len(mfHeld') <= MfDelay /\ mfStuck' = mfStuck
      BY <2>3 DEF NeedMoreInput, mfStream
    <3>2. One(mf' = "output") \in {0, 1}
      BY OneRange
    <3> QED
      BY <1>1, <2>3, <3>1, <3>2 DEF NeedMoreInput, mfStream
  <2>4. CASE ProcessOutput \/ OutputFails
    <3>1. One(mf = "output") = 1 /\ One(mf' = "output") = 0
      BY <2>4 DEF ProcessOutput, OutputFails, One
    <3>2. Len(mfHeld) > MfDelay
      BY <2>4 DEF ProcessOutput, OutputFails
    <3>3. Len(Tail(mfHeld)) = Len(mfHeld) - 1
      BY <1>1, <3>2, HeldTypes
    <3>4. CASE mfHeld' = Tail(mfHeld) /\ mfStuck' = mfStuck
      BY <1>1, <3>1, <3>3, <3>4
    <3>5. CASE mfHeld' = mfHeld /\ mfStuck' = mfStuck + 1
      BY <1>1, <3>1, <3>5
    <3> QED
      BY <2>4, <3>4, <3>5 DEF ProcessOutput, OutputFails
  <2> QED
    BY <2>1, <2>2, <2>3, <2>4 DEF MfEncode
<1> QED
  BY <1>3, <1>4, <1>5, <1>6 DEF MfInv, NothingPilesUp, One

\* Media Foundation is up as long as an object needs it, and the transform holds
\* only what it delays and what ProcessOutput() failed to take.
THEOREM MfInvariant == MfSpec => []MfInv
<1>1. MfInv /\ [MfNext]_mfVars => MfInv'
  <2> SUFFICES ASSUME MfInv, [MfNext]_mfVars PROVE MfInv'
    OBVIOUS
  <2>1. CASE MfNext
    BY <2>1, MfObjectSteps, MfEncodeSteps DEF MfNext
  <2>2. CASE UNCHANGED mfVars
    BY <2>2 DEF mfVars, mfObjects, mfStream, MfInv, MfTypeOK, StaysStarted,
                NothingPilesUp, One
  <2> QED
    BY <2>1, <2>2
<1> QED
  BY <1>1, MfInitially, PTL DEF MfSpec

---------------------------------------------------------------------------
(* Windows: the duplication, the staging texture and the pointer's shape.  *)

\* What captureFrame() will find when it is next called, or tries again.
DxgiReady ==
    /\ grabber = "idle" /\ ~needReinit => duplication # 0 /\ staging = duplication
    /\ grabber = "retry" => needReinit /\ ~held

DxgiIInv == DxgiInv /\ DxgiReady

LEMMA DxgiInitially == DxgiInit => DxgiIInv
<1> SUFFICES ASSUME DxgiInit PROVE DxgiIInv
  OBVIOUS
<1> USE DxgiAssumption DEF DxgiInit
<1>1. switches \in 0..MaxSwitches /\ tries \in 0..(Retries - 1)
  OBVIOUS
<1>2. cachedCursor \in Int
  OBVIOUS
<1>3. desktop \in [mode : Modes, available : BOOLEAN]
  OBVIOUS
<1>4. pointer \in [shape : Nat, visible : BOOLEAN, news : BOOLEAN]
  OBVIOUS
<1>5. DxgiTypeOK
  BY <1>1, <1>2, <1>3, <1>4 DEF DxgiTypeOK
<1>6. CopyFits /\ ReleasedBeforeAcquired /\ DxgiReady
  BY DEF CopyFits, ReleasedBeforeAcquired, DxgiReady
<1>7. CursorIsCurrent
  BY DEF CursorIsCurrent
<1> QED
  BY <1>5, <1>6, <1>7 DEF DxgiIInv, DxgiInv

\* No step but Process disturbs what is known of the pointer, unless it brings
\* news of it.
LEMMA CursorStaysCurrent ==
    ASSUME DxgiTypeOK, CursorIsCurrent, DxgiNext
    PROVE  CursorIsCurrent' /\ pointer' \in [shape : Nat, visible : BOOLEAN, news : BOOLEAN]
           /\ cachedCursor' \in Int /\ skipped' \in BOOLEAN
<1> USE DEF DxgiTypeOK, CursorIsCurrent, screenSide, cursor
<1>1. CASE DesktopChanges
  BY <1>1 DEF DesktopChanges
<1>2. CASE PointerChanges
  <2>1. UNCHANGED <<cachedCursor, skipped>>
    BY <1>2 DEF PointerChanges
  <2>2. CASE pointer' = [pointer EXCEPT !.visible = ~@]
    <3>1. /\ pointer' \in [shape : Nat, visible : BOOLEAN, news : BOOLEAN]
          /\ pointer'.shape = pointer.shape /\ pointer'.news = pointer.news
      BY <2>2
    <3> QED
      BY <2>1, <3>1
  <2>3. CASE pointer' = [shape |-> pointer.shape + 1, news |-> TRUE,
                         visible |-> pointer.visible]
    BY <2>1, <2>3
  <2> QED
    BY <1>2, <2>2, <2>3 DEF PointerChanges
<1>3. CASE Start
  BY <1>3 DEF Start, Duplicated
<1>4. CASE Enter
  BY <1>4 DEF Enter
<1>5. CASE Retry
  BY <1>5 DEF Retry, Duplicated, NotDuplicated
<1>6. CASE Acquire
  BY <1>6 DEF Acquire
<1>7. CASE Process
  <2>1. /\ pointer' \in [shape : Nat, visible : BOOLEAN, news : BOOLEAN]
        /\ pointer'.shape = pointer.shape
    BY <1>7 DEF Process, ReadPointer
  <2>2. \/ cachedCursor' = pointer.shape /\ skipped' = FALSE
        \/ cachedCursor' = cachedCursor /\ skipped' = (skipped \/ pointer.news)
    BY <1>7 DEF Process, ReadPointer
  <2>3. cachedCursor' \in Int
    BY <2>2
  <2>4. skipped' \in BOOLEAN
    BY <2>2
  <2> QED
    BY <2>1, <2>2, <2>3, <2>4
<1>8. CASE DxgiRelease
  BY <1>8 DEF DxgiRelease
<1> QED
  BY <1>1, <1>2, <1>3, <1>4, <1>5, <1>6, <1>7, <1>8 DEF DxgiNext, CaptureFrame

LEMMA DxgiTypesKept ==
    ASSUME DxgiTypeOK, CursorIsCurrent, DxgiNext
    PROVE  DxgiTypeOK'
<1>1. /\ pointer' \in [shape : Nat, visible : BOOLEAN, news : BOOLEAN]
      /\ cachedCursor' \in Int /\ skipped' \in BOOLEAN
  BY CursorStaysCurrent
<1>2. desktop' \in [mode : Modes, available : BOOLEAN]
  BY DEF DxgiTypeOK, DxgiNext, CaptureFrame, DesktopChanges, PointerChanges, Start,
     Enter, Retry, Acquire, Process, DxgiRelease, screenSide
<1>3. switches' \in 0..MaxSwitches
  <2>1. switches' = switches \/ (switches < MaxSwitches /\ switches' = switches + 1)
    BY DEF DxgiNext, CaptureFrame, DesktopChanges, PointerChanges, Start,
       Enter, Retry, Acquire, Process, DxgiRelease, screenSide
  <2>2. switches \in 0..MaxSwitches
    BY DEF DxgiTypeOK
  <2> QED
    BY <2>1, <2>2, DxgiAssumption
<1>4. tries' \in 0..(Retries - 1)
  <2>1. \/ tries' = tries \/ tries' = 0
        \/ tries + 1 < Retries /\ tries' = tries + 1
    BY DEF DxgiNext, CaptureFrame, DesktopChanges, PointerChanges, Start,
       Enter, Retry, Acquire, Process, DxgiRelease
  <2>2. tries \in 0..(Retries - 1)
    BY DEF DxgiTypeOK
  <2> QED
    BY <2>1, <2>2, DxgiAssumption
<1>5. duplication' \in Modes \cup {0} /\ staging' \in Modes \cup {0}
      /\ grabbed' \in Modes \cup {0}
  <2>1. /\ duplication' \in {duplication, 0, desktop.mode}
        /\ staging' \in {staging, 0, desktop.mode}
        /\ grabbed' \in {grabbed, staging, 0}
    <3>1. CASE DesktopChanges \/ PointerChanges
      BY <3>1 DEF DesktopChanges, PointerChanges
    <3>2. CASE Start \/ DxgiRelease
      BY <3>2 DEF Start, DxgiRelease, Duplicated, ReleaseDuplication
    <3>3. CASE Enter
      BY <3>3 DEF Enter, ReleaseDuplication
    <3>4. CASE Retry
      BY <3>4 DEF Retry, Duplicated, NotDuplicated
    <3>5. CASE Acquire \/ Process
      BY <3>5 DEF Acquire, Process, CopyFrame
    <3> QED
      BY <3>1, <3>2, <3>3, <3>4, <3>5 DEF DxgiNext, CaptureFrame
  <2>2. /\ duplication \in Modes \cup {0} /\ staging \in Modes \cup {0}
        /\ grabbed \in Modes \cup {0} /\ desktop.mode \in Modes
    BY DEF DxgiTypeOK
  <2> QED
    BY <2>1, <2>2
<1>6. grabber' \in {"off", "idle", "retry", "acquire", "process", "error"}
  BY DEF DxgiTypeOK, DxgiNext, CaptureFrame, DesktopChanges, PointerChanges, Start,
     Enter, Retry, Acquire, Process, DxgiRelease
<1>7. lost' \in BOOLEAN /\ held' \in BOOLEAN /\ needReinit' \in BOOLEAN
  BY DEF DxgiTypeOK, DxgiNext, CaptureFrame, DesktopChanges, PointerChanges, Start,
     Enter, Retry, Acquire, Process, DxgiRelease, Duplicated, NotDuplicated,
     ReleaseDuplication
<1> QED
  BY <1>1, <1>2, <1>3, <1>4, <1>5, <1>6, <1>7 DEF DxgiTypeOK

LEMMA DxgiFits ==
    ASSUME DxgiIInv, DxgiNext
    PROVE  (CopyFits /\ ReleasedBeforeAcquired /\ DxgiReady)'
<1> USE DxgiAssumption DEF DxgiIInv, DxgiInv, DxgiTypeOK, CopyFits,
        ReleasedBeforeAcquired, DxgiReady, screenSide, Duplicated, NotDuplicated,
        ReleaseDuplication
<1>1. CASE DesktopChanges
  BY <1>1 DEF DesktopChanges
<1>2. CASE PointerChanges
  BY <1>2 DEF PointerChanges
<1>3. CASE Start
  BY <1>3 DEF Start
<1>4. CASE Enter
  BY <1>4 DEF Enter
<1>5. CASE Retry
  BY <1>5 DEF Retry
<1>6. CASE Acquire
  BY <1>6 DEF Acquire
<1>7. CASE Process
  BY <1>7 DEF Process
<1>8. CASE DxgiRelease
  BY <1>8 DEF DxgiRelease
<1> QED
  BY <1>1, <1>2, <1>3, <1>4, <1>5, <1>6, <1>7, <1>8 DEF DxgiNext, CaptureFrame

\* The capture thread copies only from a duplication into a texture of its size,
\* acquires only what it released, and its cached pointer is the current one.
THEOREM DxgiInvariant == DxgiSpec => []DxgiInv
<1>1. DxgiIInv /\ [DxgiNext]_dxgiVars => DxgiIInv'
  <2> SUFFICES ASSUME DxgiIInv, [DxgiNext]_dxgiVars PROVE DxgiIInv'
    OBVIOUS
  <2>1. CASE DxgiNext
    BY <2>1, CursorStaysCurrent, DxgiTypesKept, DxgiFits DEF DxgiIInv, DxgiInv
  <2>2. CASE UNCHANGED dxgiVars
    BY <2>2 DEF dxgiVars, screenSide, cursor, DxgiIInv, DxgiInv, DxgiTypeOK, CopyFits,
                ReleasedBeforeAcquired, CursorIsCurrent, DxgiReady
  <2> QED
    BY <2>1, <2>2
<1>2. DxgiIInv => DxgiInv
  BY DEF DxgiIInv
<1> QED
  BY <1>1, <1>2, DxgiInitially, PTL DEF DxgiSpec

---------------------------------------------------------------------------
(* X11: the resources of init(), and the damage.                           *)

\* What init() has acquired so far, and that damage is only waited for while the
\* server keeps it.
X11Holds ==
    /\ x11 = "init" => owned = {"display"}
    /\ x11 \in {"idle", "fetch", "grab"} =>
          "segment" \notin owned /\ (damageActive => "damage" \in owned)

X11IInv == X11Inv /\ X11Holds

LEMMA X11Initially == X11Init => X11IInv
<1> SUFFICES ASSUME X11Init PROVE X11IInv
  OBVIOUS
<1> USE X11Assumption DEF X11Init
<1>1. drawn \in 0..MaxDrawings /\ captured \in -1..MaxDrawings
  OBVIOUS
<1>2. X11TypeOK
  BY <1>1 DEF X11TypeOK
<1>3. NothingLeftBehind /\ ChangesAreMarked /\ X11Holds
  BY DEF NothingLeftBehind, ChangesAreMarked, X11Holds
<1> QED
  BY <1>2, <1>3 DEF X11IInv, X11Inv

\* An initShm() that fails at any step gives back what came before it.
LEMMA NothingStays ==
    ASSUME NEW step \in 1..Len(ShmSteps)
    PROVE  (({"display"} \cup {ShmSteps[i] : i \in 1..(step - 1)}) \ ShmCleanup(step))
              \ {"damage", "attached", "mapping", "image", "display"} = {}
<1>1. step \in 1..4
  BY DEF ShmSteps
<1>2. \A i \in 1..(step - 1) : ShmSteps[i] \in {"image", "segment", "mapping"}
  BY <1>1 DEF ShmSteps
<1>3. CASE step = 1
  BY <1>3
<1>4. CASE step # 1
  <2>1. ShmCleanup(step) = {"image", "segment", "mapping"}
    BY <1>4 DEF ShmCleanup
  <2> QED
    BY <1>2, <2>1
<1> QED
  BY <1>3, <1>4

LEMMA X11Steps ==
    ASSUME X11IInv, X11Next
    PROVE  X11IInv'
<1> USE X11Assumption DEF X11IInv, X11Inv, X11TypeOK, NothingLeftBehind,
        ChangesAreMarked, X11Holds, grabState
<1>1. CASE Draw
  BY <1>1 DEF Draw
<1>2. CASE OpenDisplay
  BY <1>2 DEF OpenDisplay
<1>3. CASE InitFails
  <2>1. owned' = {}
    BY <1>3, NothingStays DEF InitFails, X11Release
  <2> QED
    BY <1>3, <2>1 DEF InitFails, X11Release
<1>4. CASE InitSucceeds
  <2>1. captured' \in -1..MaxDrawings
    BY <1>4 DEF InitSucceeds
  <2>2. "segment" \notin owned' /\ (damageActive' => "damage" \in owned')
        /\ damageActive' \in BOOLEAN
        /\ owned' \subseteq {"display", "image", "segment", "mapping", "attached",
                            "damage"}
    BY <1>4 DEF InitSucceeds
  <2> QED
    BY <1>4, <2>1, <2>2 DEF InitSucceeds
<1>5. CASE Stop
  <2>1. owned' = {}
    BY <1>5 DEF Stop, X11Release
  <2> QED
    BY <1>5, <2>1 DEF Stop, X11Release
<1>6. CASE Look
  BY <1>6 DEF Look
<1>7. CASE FetchDamageRects
  BY <1>7 DEF FetchDamageRects
<1>8. CASE Grab
  <2>1. captured' \in -1..MaxDrawings /\ captured' = drawn'
    BY <1>8 DEF Grab
  <2> QED
    BY <1>8, <2>1 DEF Grab
<1>9. CASE GrabFails
  BY <1>9 DEF GrabFails
<1> QED
  BY <1>1, <1>2, <1>3, <1>4, <1>5, <1>6, <1>7, <1>8, <1>9 DEF X11Next, Capture

\* Nothing of the X server or of the system is left behind, and no change of the
\* screen is forgotten.
THEOREM X11Invariant == X11Spec => []X11Inv
<1>1. X11IInv /\ [X11Next]_x11Vars => X11IInv'
  <2> SUFFICES ASSUME X11IInv, [X11Next]_x11Vars PROVE X11IInv'
    OBVIOUS
  <2>1. CASE X11Next
    BY <2>1, X11Steps
  <2>2. CASE UNCHANGED x11Vars
    BY <2>2 DEF x11Vars, grabState, X11IInv, X11Inv, X11TypeOK, NothingLeftBehind,
                ChangesAreMarked, X11Holds
  <2> QED
    BY <2>1, <2>2
<1>2. X11IInv => X11Inv
  BY DEF X11IInv
<1> QED
  BY <1>1, <1>2, X11Initially, PTL DEF X11Spec

---------------------------------------------------------------------------
(* VAAPI: the references of P pictures, and the driver's objects.          *)

\* encode() has delivered a key frame before it makes a P picture, and the
\* reference surface holds what was delivered last.
VaReferences ==
    /\ refSurface = vaDelivered
    /\ vaIndex # 0 => vaDelivered # 0
    /\ vaapi \in {"flag", "render"} /\ ~vaIdr => vaDelivered # 0
    /\ vaapi = "extract" => reconSurface # 0

\* Every object of the last init() is one that destroy() will find.
VaOwns ==
    /\ \A o \in vaObjects : o[2] <= vaInits
    /\ vaapi # "closed" =>
          \A o \in vaObjects :
             o[2] < vaInits \/ (o[2] = vaHandle[o[1]] /\ o[2] = vaHandle["display"])

VaIInv == VaInv /\ VaReferences /\ VaOwns

LEMMA VaKindsAre ==
    /\ VaKinds = {"display", "config", "surfaces", "context", "coded"}
    /\ Made(Len(VaSteps)) = VaKinds
    /\ \A n \in 1..(Len(VaSteps) - 1) : "display" \in Made(n) /\ Made(n) \subseteq VaKinds
<1>1. Len(VaSteps) = 5 /\ VaSteps[1] = "display" /\ VaSteps[2] = "config"
      /\ VaSteps[3] = "surfaces" /\ VaSteps[4] = "context" /\ VaSteps[5] = "coded"
  BY DEF VaSteps
<1>2. 1..Len(VaSteps) = {1, 2, 3, 4, 5}
  BY <1>1
<1>3. VaKinds = {"display", "config", "surfaces", "context", "coded"}
  BY <1>1, <1>2 DEF VaKinds
<1>4. Made(Len(VaSteps)) = VaKinds
  BY DEF Made, VaKinds
<1>5. ASSUME NEW n \in 1..(Len(VaSteps) - 1)
      PROVE  "display" \in Made(n) /\ Made(n) \subseteq VaKinds
  <2>1. 1 \in 1..n /\ 1..n \subseteq 1..Len(VaSteps)
    BY <1>1, <1>5
  <2> QED
    BY <1>1, <2>1 DEF Made, VaKinds
<1> QED
  BY <1>3, <1>4, <1>5

\* The handles after destroy().
LEMMA DisplayClosed ==
    ASSUME NEW handles \in [VaKinds -> 0..MaxInits]
    PROVE  [handles EXCEPT !["display"] = 0] \in [VaKinds -> 0..MaxInits]
<1>1. 0 \in 0..MaxInits
  BY VaapiAssumption
<1> DEFINE N == 0..MaxInits
<1> HIDE DEF N
<1>2. ASSUME NEW h \in [VaKinds -> N], 0 \in N
      PROVE  [h EXCEPT !["display"] = 0] \in [VaKinds -> N]
  BY <1>2
<1> QED
  BY <1>1, <1>2 DEF N

LEMMA VaInitially == VaapiInit => VaIInv
<1> SUFFICES ASSUME VaapiInit PROVE VaIInv
  OBVIOUS
<1> USE VaapiAssumption DEF VaapiInit
<1>1. vaInits \in 0..MaxInits /\ vaIndex \in 0..(IdrPeriod - 1)
  OBVIOUS
<1>2. vaHandle \in [VaKinds -> 0..MaxInits]
  OBVIOUS
<1>3. VaTypeOK
  <2>1. {refSurface, reconSurface, vaReference, vaDelivered} \subseteq 0..3
    OBVIOUS
  <2>2. vaObjects \subseteq VaKinds \X (1..MaxInits)
    OBVIOUS
  <2>3. vaRequested \in BOOLEAN /\ vaIdr \in BOOLEAN
    OBVIOUS
  <2> QED
    BY <1>1, <1>2, <2>1, <2>2, <2>3, Zenon DEF VaTypeOK
<1>4. RefersToDelivered /\ NothingInDriver /\ VaReferences /\ VaOwns /\ UsesItsOwn
  BY DEF RefersToDelivered, NothingInDriver, VaReferences, VaOwns, UsesItsOwn
<1> QED
  BY <1>3, <1>4 DEF VaIInv, VaInv

\* The objects after init() and destroy().
LEMMA VaObjectSteps ==
    ASSUME VaIInv, VaStart \/ VaStartFails \/ NoDevice \/ VaStop
    PROVE  VaIInv'
<1>1. /\ vaInits \in 0..MaxInits /\ vaObjects \subseteq VaKinds \X (1..MaxInits)
      /\ vaHandle \in [VaKinds -> 0..MaxInits] /\ "display" \in VaKinds
      /\ \A o \in vaObjects : o[1] \in VaKinds /\ o[2] \in 1..MaxInits
                                /\ o[2] <= vaInits
  BY VaKindsAre DEF VaIInv, VaInv, VaTypeOK, VaOwns
<1>2. CASE VaStart
  <2>1. vaInits' = vaInits + 1 /\ vaInits + 1 \in 1..MaxInits
    BY <1>1, <1>2, VaapiAssumption DEF VaStart
  <2>2. vaObjects' = vaObjects \cup (VaKinds \X {vaInits + 1})
    BY <1>2, VaKindsAre DEF VaStart, VaCreate
  <2>3. vaHandle' = [k \in VaKinds |-> vaInits + 1]
    BY <1>2, VaKindsAre DEF VaStart, Handles
  <2>4. vaObjects' \subseteq VaKinds \X (1..MaxInits)
        /\ vaHandle' \in [VaKinds -> 0..MaxInits] /\ vaInits' \in 0..MaxInits
    BY <1>1, <2>1, <2>2, <2>3
  <2>5. \A o \in vaObjects' : o[2] < vaInits' \/ (/\ o[2] = vaHandle'[o[1]]
                                                 /\ o[2] = vaHandle'["display"]
                                                 /\ o[2] = vaInits')
    BY <1>1, <2>1, <2>2, <2>3
  <2>6. VaOwns' /\ NothingInDriver'
    <3>1. \A o \in vaObjects' : o[2] <= vaInits'
      BY <1>1, <2>1, <2>2
    <3>2. vaapi' = "idle"
      BY <1>2 DEF VaStart
    <3> QED
      BY <2>5, <3>1, <3>2 DEF VaOwns, NothingInDriver
  <2>7. VaTypeOK'
    BY <1>2, <2>4, VaapiAssumption DEF VaIInv, VaInv, VaTypeOK, VaStart
  <2>8. VaReferences' /\ RefersToDelivered'
    BY <1>2 DEF VaReferences, RefersToDelivered, VaStart
  <2>9. ASSUME NEW k \in VaKinds
        PROVE  vaHandle'[k] = vaHandle'["display"] /\ <<k, vaHandle'[k]>> \in vaObjects'
    BY <1>1, <2>2, <2>3
  <2>10. UsesItsOwn'
    BY <2>9 DEF UsesItsOwn
  <2> QED
    BY <2>6, <2>7, <2>8, <2>10 DEF VaIInv, VaInv
<1>3. CASE VaStartFails
  <2>1. vaInits' = vaInits + 1 /\ vaInits + 1 \in 1..MaxInits
    BY <1>1, <1>3, VaapiAssumption DEF VaStartFails
  <2>2. PICK n \in 1..(Len(VaSteps) - 1) :
          /\ vaHandle' = [Handles(n, vaInits + 1) EXCEPT !["display"] = 0]
          /\ vaObjects' = VaDestroy(VaCreate(n, vaInits + 1), Handles(n, vaInits + 1))
    BY <1>3 DEF VaStartFails
  <2>3. "display" \in Made(n) /\ Made(n) \subseteq VaKinds
    BY VaKindsAre
  <2>4. Handles(n, vaInits + 1) \in [VaKinds -> 0..MaxInits]
    BY <1>1, <2>1 DEF Handles
  <2>5. vaHandle' \in [VaKinds -> 0..MaxInits]
    BY <2>2, <2>4, DisplayClosed
  <2>6. VaCreate(n, vaInits + 1) \subseteq VaKinds \X (1..MaxInits)
    BY <1>1, <2>1, <2>3 DEF VaCreate
  <2>7. \A o \in VaCreate(n, vaInits + 1) :
           o \in vaObjects \/ (o[1] \in Made(n) /\ o[2] = vaInits + 1)
    BY DEF VaCreate
  <2>8. ASSUME NEW o \in vaObjects' PROVE o[2] < vaInits'
    <3>1. /\ o \in VaCreate(n, vaInits + 1)
          /\ ~(/\ o[2] = Handles(n, vaInits + 1)[o[1]]
               /\ o[2] = Handles(n, vaInits + 1)["display"])
      BY <2>2, <2>8 DEF VaDestroy
    <3>2. CASE o \in vaObjects
      BY <1>1, <2>1, <3>2
    <3>3. CASE o[1] \in Made(n) /\ o[2] = vaInits + 1
      BY <1>1, <2>3, <3>1, <3>3 DEF Handles
    <3> QED
      BY <2>7, <3>1, <3>2, <3>3
  <2>9. vaObjects' \subseteq VaKinds \X (1..MaxInits)
    BY <2>2, <2>6 DEF VaDestroy
  <2>10. vaapi' = "closed" /\ UNCHANGED <<vaRequested, vaIdr, vaFrames>>
    BY <1>3 DEF VaStartFails
  <2>11. VaTypeOK'
    BY <2>1, <2>5, <2>9, <2>10 DEF VaIInv, VaInv, VaTypeOK, vaFrames
  <2>12. VaOwns' /\ NothingInDriver'
    BY <1>1, <2>1, <2>8, <2>9, <2>10 DEF VaOwns, NothingInDriver
  <2>13. VaReferences' /\ RefersToDelivered'
    BY <2>10 DEF VaIInv, VaReferences, RefersToDelivered, vaFrames
  <2>14. UsesItsOwn'
    BY <2>10 DEF UsesItsOwn
  <2> QED
    BY <2>11, <2>12, <2>13, <2>14 DEF VaIInv, VaInv
<1>4. CASE NoDevice
  <2>1. vaInits' = vaInits + 1 /\ vaInits' \in 0..MaxInits /\ vaInits + 1 \in 1..MaxInits
        /\ UNCHANGED <<vaapi, vaObjects, vaRequested, vaIdr, vaFrames>>
    BY <1>1, <1>4, VaapiAssumption DEF NoDevice
  <2>2. PICK display \in {vaHandle["display"], 0, vaInits + 1} :
           vaHandle' = [vaHandle EXCEPT !["display"] = display]
    BY <1>4 DEF NoDevice
  <2>3. display \in 0..MaxInits
    BY <1>1, <2>1, VaapiAssumption
  <2>4. vaHandle' \in [VaKinds -> 0..MaxInits] /\ vaHandle'["display"] = display
    BY <1>1, <2>2, <2>3
  <2>5. VaTypeOK'
    BY <2>1, <2>4 DEF VaIInv, VaInv, VaTypeOK, vaFrames
  <2>6. \A o \in vaObjects' : o[2] < vaInits'
    BY <1>1, <2>1
  <2>7. VaOwns' /\ NothingInDriver'
    BY <1>1, <2>1, <2>6 DEF VaOwns, NothingInDriver
  <2>8. VaReferences' /\ RefersToDelivered'
    BY <2>1 DEF VaIInv, VaInv, VaReferences, RefersToDelivered, vaFrames
  <2>9. CASE display = vaHandle["display"]
    <3>1. vaHandle' = vaHandle
      BY <1>1, <2>2, <2>9
    <3> QED
      BY <2>1, <2>5, <2>7, <2>8, <3>1 DEF VaIInv, VaInv, UsesItsOwn, DisplayLives
  <2>10. CASE display \in {0, vaInits + 1}
    <3>1. <<"display", display>> \notin vaObjects
      BY <1>1, <2>10
    <3>2. ~DisplayLives'
      BY <2>1, <2>4, <3>1 DEF DisplayLives
    <3> QED
      BY <2>5, <2>7, <2>8, <3>2 DEF VaIInv, VaInv, UsesItsOwn
  <2> QED
    BY <2>9, <2>10
<1>5. CASE VaStop
  <2>1. /\ vaapi # "closed" /\ vaapi' = "closed"
        /\ vaObjects' = VaDestroy(vaObjects, vaHandle)
        /\ vaHandle' = [vaHandle EXCEPT !["display"] = 0]
        /\ UNCHANGED <<vaInits, vaRequested, vaIdr, vaFrames>>
    BY <1>5 DEF VaStop
  <2>2. vaObjects' \subseteq vaObjects
    BY <2>1 DEF VaDestroy
  <2>3. vaHandle' \in [VaKinds -> 0..MaxInits]
    BY <1>1, <2>1, DisplayClosed
  <2>4. VaTypeOK'
    BY <1>1, <2>1, <2>2, <2>3 DEF VaIInv, VaInv, VaTypeOK, vaFrames
  <2>5. \A o \in vaObjects' : o[2] < vaInits'
    BY <2>1, <2>2 DEF VaDestroy, VaIInv, VaOwns
  <2>6. VaOwns' /\ NothingInDriver'
    BY <1>1, <2>1, <2>2, <2>5 DEF VaOwns, NothingInDriver
  <2>7. VaReferences' /\ RefersToDelivered'
    BY <2>1 DEF VaIInv, VaInv, VaReferences, RefersToDelivered, vaFrames
  <2>8. UsesItsOwn'
    BY <2>1 DEF UsesItsOwn
  <2> QED
    BY <2>4, <2>6, <2>7, <2>8 DEF VaIInv, VaInv
<1> QED
  BY <1>2, <1>3, <1>4, <1>5

\* The steps of encode() and a request leave the driver's objects alone.
LEMMA VaEncodeSteps ==
    ASSUME VaIInv, VaRequest \/ VaEncode \/ VaFail
    PROVE  VaIInv'
<1>1. UNCHANGED vaState /\ (vaapi = "closed" <=> vaapi' = "closed")
  BY DEF VaRequest, VaEncode, VaFail, VaReadFlag, VaClearFlag, VaRender, VaDeliver
<1>2. VaOwns' /\ NothingInDriver' /\ UsesItsOwn'
  BY <1>1 DEF VaIInv, VaInv, VaOwns, NothingInDriver, UsesItsOwn, DisplayLives, vaState
<1>3. vaapi' \in {"closed", "idle", "flag", "render", "extract", "sent"}
  BY DEF VaIInv, VaInv, VaTypeOK, VaRequest, VaEncode, VaFail, VaReadFlag, VaClearFlag,
     VaRender, VaDeliver
<1>4. vaRequested' \in BOOLEAN /\ vaIdr' \in BOOLEAN
  BY DEF VaIInv, VaInv, VaTypeOK, VaRequest, VaEncode, VaFail, VaReadFlag, VaClearFlag,
     VaRender, VaDeliver
<1>5. vaIndex' \in 0..(IdrPeriod - 1)
  <2>1. vaIndex' = vaIndex \/ vaIndex' = (vaIndex + 1) % IdrPeriod
    BY DEF VaRequest, VaEncode, VaFail, VaReadFlag, VaClearFlag, VaRender, VaDeliver,
       vaFrames
  <2>2. vaIndex \in 0..(IdrPeriod - 1) /\ IdrPeriod \in Nat \ {0}
    BY VaapiAssumption DEF VaIInv, VaInv, VaTypeOK
  <2>3. (vaIndex + 1) % IdrPeriod \in 0..(IdrPeriod - 1)
    BY <2>2
  <2> QED
    BY <2>1, <2>2, <2>3
<1>6. {refSurface', reconSurface', vaReference', vaDelivered'} \subseteq 0..3
  BY DEF VaIInv, VaInv, VaTypeOK, VaRequest, VaEncode, VaFail, VaReadFlag, VaClearFlag,
     VaRender, VaDeliver, vaFrames, NextPicture
<1>7. VaTypeOK'
  BY <1>1, <1>3, <1>4, <1>5, <1>6 DEF VaIInv, VaInv, VaTypeOK, vaState
<1>8. VaReferences' /\ RefersToDelivered'
  <2> USE DEF VaIInv, VaInv, VaTypeOK, VaReferences, RefersToDelivered, vaFrames
  <2>1. CASE VaRequest
    BY <2>1 DEF VaRequest
  <2>2. CASE VaReadFlag
    BY <2>2 DEF VaReadFlag
  <2>3. CASE VaClearFlag
    BY <2>3 DEF VaClearFlag
  <2>4. CASE VaRender
    BY <2>4 DEF VaRender, NextPicture
  <2>5. CASE VaDeliver
    BY <2>5 DEF VaDeliver
  <2>6. CASE VaFail
    BY <2>6 DEF VaFail
  <2> QED
    BY <2>1, <2>2, <2>3, <2>4, <2>5, <2>6 DEF VaEncode
<1> QED
  BY <1>2, <1>7, <1>8 DEF VaIInv, VaInv

\* Every P picture refers to the last one delivered; while its display lives, an
\* encoder uses objects of one init(), which all exist; and a closed one has left
\* nothing of its last init() in the driver.
THEOREM VaInvariant == VaapiSpec => []VaInv
<1>1. VaIInv /\ [VaapiNext]_vaapiVars => VaIInv'
  <2> SUFFICES ASSUME VaIInv, [VaapiNext]_vaapiVars PROVE VaIInv'
    OBVIOUS
  <2>1. CASE VaapiNext
    BY <2>1, VaObjectSteps, VaEncodeSteps DEF VaapiNext
  <2>2. CASE UNCHANGED vaapiVars
    BY <2>2 DEF vaapiVars, vaState, vaFrames, VaIInv, VaInv, VaTypeOK, RefersToDelivered,
                NothingInDriver, UsesItsOwn, DisplayLives, VaReferences, VaOwns
  <2> QED
    BY <2>1, <2>2
<1>2. VaIInv => VaInv
  BY DEF VaIInv
<1> QED
  BY <1>1, <1>2, VaInitially, PTL DEF VaapiSpec

---------------------------------------------------------------------------
(* RectMerger.                                                             *)

KeptAfter(rects, kept, n) ==
    IF n = 0 THEN <<>>
    ELSE IF IsEmpty(rects[n]) THEN kept[n - 1]
    ELSE Append(kept[n - 1], rects[n])

LEMMA KeptExists ==
    ASSUME NEW rects, Len(rects) \in Nat
    PROVE  \E kept : kept = [n \in 0..Len(rects) |-> KeptAfter(rects, kept, n)]
<1> DEFINE S == {m \in Nat : \E kept : kept = [n \in 0..m |-> KeptAfter(rects, kept, n)]}
<1>1. 0 \in S
  <2> DEFINE kept == [n \in 0..0 |-> <<>>]
  <2>1. kept = [n \in 0..0 |-> KeptAfter(rects, kept, n)]
    BY DEF KeptAfter
  <2> QED
    BY <2>1
<1>2. ASSUME NEW m \in Nat, m \in S PROVE m + 1 \in S
  <2>1. PICK kept : kept = [n \in 0..m |-> KeptAfter(rects, kept, n)]
    BY <1>2
  <2> DEFINE more == [n \in 0..(m + 1) |->
                        IF n <= m THEN kept[n] ELSE KeptAfter(rects, kept, n)]
  <2>2. ASSUME NEW n \in 0..(m + 1) PROVE more[n] = KeptAfter(rects, more, n)
    <3>1. n = 0 \/ (n - 1 \in 0..m /\ more[n - 1] = kept[n - 1])
      OBVIOUS
    <3>2. KeptAfter(rects, more, n) = KeptAfter(rects, kept, n)
      BY <3>1 DEF KeptAfter
    <3>3. n <= m => n \in 0..m
      OBVIOUS
    <3>4. more[n] = KeptAfter(rects, kept, n)
      BY <2>1, <3>3
    <3> QED
      BY <3>2, <3>4
  <2> HIDE DEF more
  <2>3. more = [n \in 0..(m + 1) |-> KeptAfter(rects, more, n)]
    BY <2>2 DEF more
  <2> QED
    BY <2>3
<1> HIDE DEF S
<1>3. Len(rects) \in S
  BY <1>1, <1>2, SetInduction
<1> QED
  BY <1>3 DEF S

LEMMA KeptDefinition ==
    ASSUME NEW rects, Len(rects) \in Nat, NEW n \in 0..Len(rects)
    PROVE  Kept(rects)[n] = KeptAfter(rects, Kept(rects), n)
<1>1. Kept(rects) = CHOOSE kept : kept = [m \in 0..Len(rects) |-> KeptAfter(rects, kept, m)]
  BY DEF Kept, KeptAfter
<1>2. Kept(rects) = [m \in 0..Len(rects) |-> KeptAfter(rects, Kept(rects), m)]
  BY <1>1, KeptExists
<1> QED
  BY <1>2

---------------------------------------------------------------------------
Boxes == Rects \cup [x : Int, y : Int, width : Nat, height : Nat]

LEMMA BoxTypes ==
    ASSUME NEW r \in Boxes
    PROVE  r.x \in Int /\ r.y \in Int /\ r.width \in Nat /\ r.height \in Nat
BY RectsAssumption DEF Boxes

\* Every rectangle that is not empty is kept.
LEMMA KeptCovers ==
    ASSUME NEW rects \in Seq(Rects)
    PROVE  /\ Kept(rects)[Len(rects)] \in Seq(Boxes)
           /\ \A i \in 1..Len(rects) : ~IsEmpty(rects[i]) =>
                 \E k \in DOMAIN Kept(rects)[Len(rects)] :
                    Kept(rects)[Len(rects)][k] = rects[i]
<1> DEFINE Covers(n, s) ==
              /\ s \in Seq(Boxes)
              /\ \A i \in 1..n : ~IsEmpty(rects[i]) => \E k \in DOMAIN s : s[k] = rects[i]
           S == {n \in Nat : n <= Len(rects) => Covers(n, Kept(rects)[n])}
<1>1. Len(rects) \in Nat
  OBVIOUS
<1>2. 0 \in S
  <2>1. Kept(rects)[0] = <<>>
    BY <1>1, KeptDefinition DEF KeptAfter
  <2>2. <<>> \in Seq(Boxes) /\ \A i \in 1..0 : FALSE
    OBVIOUS
  <2>3. Covers(0, Kept(rects)[0])
    BY <2>1, <2>2
  <2> QED
    BY <2>3
<1>3. ASSUME NEW n \in Nat, n \in S PROVE n + 1 \in S
  <2> SUFFICES ASSUME n + 1 <= Len(rects) PROVE Covers(n + 1, Kept(rects)[n + 1])
    OBVIOUS
  <2> DEFINE s == Kept(rects)[n]
             r == rects[n + 1]
  <2>1. Covers(n, s)
    BY <1>1, <1>3
  <2>2. Kept(rects)[n + 1] = IF IsEmpty(r) THEN s ELSE Append(s, r)
    BY <1>1, KeptDefinition DEF KeptAfter
  <2>3. r \in Boxes
    BY <1>1 DEF Boxes
  <2>4. ASSUME NEW i \in 1..(n + 1) PROVE i \in 1..n \/ i = n + 1
    OBVIOUS
  <2> HIDE DEF s, r
  <2>5. CASE IsEmpty(r)
    BY <2>1, <2>2, <2>4, <2>5 DEF r
  <2>6. CASE ~IsEmpty(r)
    <3>1. Append(s, r) \in Seq(Boxes)
      BY <2>1, <2>3
    <3>2. /\ DOMAIN s = 1..Len(s) /\ Len(s) \in Nat
          /\ DOMAIN Append(s, r) = 1..(Len(s) + 1)
          /\ Append(s, r)[Len(s) + 1] = r
          /\ \A k \in DOMAIN s : Append(s, r)[k] = s[k] /\ k \in 1..(Len(s) + 1)
      BY <2>1, <2>3
    <3>3. ASSUME NEW i \in 1..(n + 1), ~IsEmpty(rects[i])
          PROVE  \E k \in DOMAIN Append(s, r) : Append(s, r)[k] = rects[i]
      BY <2>1, <2>4, <3>2, <3>3 DEF r
    <3> QED
      BY <2>2, <2>6, <3>1, <3>3
  <2> QED
    BY <2>5, <2>6
<1> HIDE DEF S
<1>4. Len(rects) \in S
  BY <1>1, <1>2, <1>3, SetInduction
<1> QED
  BY <1>1, <1>4 DEF S

---------------------------------------------------------------------------
LEMMA Removing ==
    ASSUME NEW T, NEW s \in Seq(T), NEW j \in 1..Len(s)
    PROVE  /\ RemoveAt(s, j) \in Seq(T)
           /\ Len(RemoveAt(s, j)) = Len(s) - 1
           /\ \A k \in 1..(Len(s) - 1) :
                 RemoveAt(s, j)[k] = IF k < j THEN s[k] ELSE s[k + 1]
<1>1. /\ SubSeq(s, 1, j - 1) \in Seq(T) /\ Len(SubSeq(s, 1, j - 1)) = j - 1
      /\ \A k \in 1..(j - 1) : SubSeq(s, 1, j - 1)[k] = s[k]
  OBVIOUS
<1>2. /\ SubSeq(s, j + 1, Len(s)) \in Seq(T)
      /\ Len(SubSeq(s, j + 1, Len(s))) = Len(s) - j
      /\ \A k \in 1..(Len(s) - j) : SubSeq(s, j + 1, Len(s))[k] = s[j + k]
  OBVIOUS
<1> DEFINE a == SubSeq(s, 1, j - 1)
           b == SubSeq(s, j + 1, Len(s))
<1>3. RemoveAt(s, j) = a \o b
  BY DEF RemoveAt
<1> HIDE DEF a, b
<1>4. /\ a \o b \in Seq(T) /\ Len(a \o b) = Len(s) - 1
      /\ \A k \in 1..(Len(s) - 1) :
            (a \o b)[k] = IF k < j THEN a[k] ELSE b[k - (j - 1)]
  <2>1. a \in Seq(T) /\ b \in Seq(T) /\ Len(a) = j - 1 /\ Len(b) = Len(s) - j
    BY <1>1, <1>2 DEF a, b
  <2>2. a \o b \in Seq(T) /\ Len(a \o b) = Len(s) - 1
    BY <2>1
  <2>3. ASSUME NEW k \in 1..(Len(s) - 1)
        PROVE  (a \o b)[k] = IF k < j THEN a[k] ELSE b[k - (j - 1)]
    <3>1. k < j => k \in 1..Len(a)
      BY <2>1
    <3>2. (a \o b)[k] = IF k <= Len(a) THEN a[k] ELSE b[k - Len(a)]
      BY <2>1, ConcatProperties
    <3> QED
      BY <2>1, <3>1, <3>2
  <2> QED
    BY <2>2, <2>3
<1>5. ASSUME NEW k \in 1..(Len(s) - 1)
      PROVE  (a \o b)[k] = IF k < j THEN s[k] ELSE s[k + 1]
  <2>1. CASE k < j
    BY <1>1, <1>4, <2>1 DEF a
  <2>2. CASE ~(k < j)
    <3>1. k - (j - 1) \in 1..(Len(s) - j) /\ j + (k - (j - 1)) = k + 1
      BY <2>2
    <3> QED
      BY <1>2, <1>4, <2>2, <3>1 DEF b
  <2> QED
    BY <2>1, <2>2
<1> QED
  BY <1>3, <1>4, <1>5

\* Of a rectangle in a sequence from which another was erased.
LEMMA Remaining ==
    ASSUME NEW T, NEW s \in Seq(T), NEW j \in 1..Len(s), NEW k \in 1..Len(s), k # j
    PROVE  \E m \in DOMAIN RemoveAt(s, j) : RemoveAt(s, j)[m] = s[k]
<1>1. DOMAIN RemoveAt(s, j) = 1..(Len(s) - 1)
  BY Removing
<1>2. CASE k < j
  <2>1. k \in 1..(Len(s) - 1)
    BY <1>2
  <2> QED
    BY <1>1, <1>2, <2>1, Removing
<1>3. CASE k > j
  <2>1. k - 1 \in 1..(Len(s) - 1) /\ ~(k - 1 < j) /\ (k - 1) + 1 = k
    BY <1>3
  <2> QED
    BY <1>1, <2>1, Removing
<1> QED
  BY <1>2, <1>3

---------------------------------------------------------------------------
LEMMA UnitedEncloses ==
    ASSUME NEW a \in Boxes, NEW b \in Boxes
    PROVE  United(a, b) \in Boxes /\ Inside(a, United(a, b)) /\ Inside(b, United(a, b))
<1> DEFINE left == Smaller(a.x, b.x)
           top == Smaller(a.y, b.y)
           right == Larger(Right(a), Right(b))
           bottom == Larger(Bottom(a), Bottom(b))
<1>1. /\ left \in Int /\ right \in Int /\ left <= a.x /\ left <= b.x
      /\ Right(a) <= right /\ Right(b) <= right /\ left <= right
  BY BoxTypes DEF Smaller, Larger, Right
<1>2. /\ top \in Int /\ bottom \in Int /\ top <= a.y /\ top <= b.y
      /\ Bottom(a) <= bottom /\ Bottom(b) <= bottom /\ top <= bottom
  BY BoxTypes DEF Smaller, Larger, Bottom
<1>3. United(a, b) = [x |-> left, y |-> top, width |-> right - left, height |-> bottom - top]
  BY DEF United
<1> HIDE DEF left, top, right, bottom
<1>4. United(a, b) \in Boxes
  BY <1>1, <1>2, <1>3 DEF Boxes
<1>5. Right(United(a, b)) = right /\ Bottom(United(a, b)) = bottom
  BY <1>1, <1>2, <1>3 DEF Right, Bottom
<1> QED
  BY <1>1, <1>2, <1>3, <1>4, <1>5 DEF Inside

LEMMA InsideInside ==
    ASSUME NEW a \in Boxes, NEW b \in Boxes, NEW c \in Boxes, Inside(a, b), Inside(b, c)
    PROVE  Inside(a, c)
BY BoxTypes DEF Inside, Right, Bottom

\* Whichever two are united, what was inside one of the rectangles still is.
LEMMA UnionCovers ==
    ASSUME working \in Seq(Boxes), NEW p \in Pairs, NEW r \in Boxes,
           NEW k \in DOMAIN working, Inside(r, working[k])
    PROVE  \E m \in DOMAIN WithUnion(p) : Inside(r, WithUnion(p)[m])
<1> DEFINE i == p[1]
           j == p[2]
           u == United(working[i], working[j])
           w == [working EXCEPT ![i] = u]
<1>1. /\ i \in 1..Len(working) /\ j \in 1..Len(working) /\ i # j
      /\ k \in 1..Len(working) /\ Len(working) \in Nat
  BY DEF Pairs
<1>2. WithUnion(p) = RemoveAt(w, j)
  BY DEF WithUnion
<1>3. /\ u \in Boxes /\ Inside(working[i], u) /\ Inside(working[j], u)
      /\ working[i] \in Boxes /\ working[j] \in Boxes /\ working[k] \in Boxes
  BY <1>1, UnitedEncloses
<1> HIDE DEF i, j, u
<1>4. w \in Seq(Boxes) /\ Len(w) = Len(working)
  BY <1>1, <1>3
<1>5. w[i] = u /\ \A n \in 1..Len(working) : n # i => w[n] = working[n]
  BY <1>1
<1> HIDE DEF w
<1>6. CASE k = i \/ k = j
  <2>1. Inside(r, u)
    BY <1>3, <1>6, InsideInside
  <2>2. \E m \in DOMAIN RemoveAt(w, j) : RemoveAt(w, j)[m] = w[i]
    BY <1>1, <1>4, Remaining
  <2> QED
    BY <1>2, <1>5, <2>1, <2>2
<1>7. CASE k # i /\ k # j
  <2>1. \E m \in DOMAIN RemoveAt(w, j) : RemoveAt(w, j)[m] = w[k]
    BY <1>1, <1>4, <1>7, Remaining
  <2> QED
    BY <1>1, <1>2, <1>5, <1>7, <2>1
<1> QED
  BY <1>6, <1>7

LEMMA UnionTypes ==
    ASSUME working \in Seq(Boxes), NEW p \in Pairs
    PROVE  WithUnion(p) \in Seq(Boxes)
<1>1. /\ p[1] \in 1..Len(working) /\ p[2] \in 1..Len(working)
      /\ working[p[1]] \in Boxes /\ working[p[2]] \in Boxes
  BY DEF Pairs
<1>2. United(working[p[1]], working[p[2]]) \in Boxes
  BY <1>1, UnitedEncloses
<1> DEFINE w == [working EXCEPT ![p[1]] = United(@, working[p[2]])]
<1>3. w \in Seq(Boxes) /\ Len(w) = Len(working)
  BY <1>1, <1>2
<1> HIDE DEF w
<1>4. RemoveAt(w, p[2]) \in Seq(Boxes)
  BY <1>1, <1>3, Removing
<1> QED
  BY <1>4 DEF WithUnion, w

---------------------------------------------------------------------------
MergeTypes ==
    /\ dirty \in Seq(Rects) /\ working \in Seq(Boxes)
    /\ limit \in Nat \ {0} /\ merging \in {"overlapping", "reducing", "done"}

MergeInv == MergeTypes /\ MergedCovers

LEMMA MergeInitially == MergeInit => MergeInv
<1> SUFFICES ASSUME MergeInit PROVE MergeInv
  OBVIOUS
<1>1. dirty \in Seq(Rects)
  <2>1. PICK n \in 0..MaxDirty : dirty \in [1..n -> Rects]
    BY DEF MergeInit
  <2>2. n \in Nat
    BY RectsAssumption
  <2> QED
    BY <2>1, <2>2
<1>2. working = Kept(dirty)[Len(dirty)]
  BY DEF MergeInit
<1>3. \A r \in Boxes : Inside(r, r)
  BY BoxTypes DEF Inside, Right, Bottom
<1>4. ASSUME NEW i \in DOMAIN dirty, ~IsEmpty(dirty[i])
      PROVE  \E k \in DOMAIN working : Inside(dirty[i], working[k])
  <2>1. i \in 1..Len(dirty) /\ dirty[i] \in Boxes
    BY <1>1 DEF Boxes
  <2>2. PICK k \in DOMAIN working : working[k] = dirty[i]
    BY <1>1, <1>2, <1>4, <2>1, KeptCovers
  <2> QED
    BY <1>3, <2>1, <2>2
<1>5. MergedCovers
  BY <1>4 DEF MergedCovers, MergeInit
<1>6. MergeTypes
  BY <1>1, <1>2, KeptCovers, RectsAssumption DEF MergeTypes, MergeInit
<1> QED
  BY <1>5, <1>6 DEF MergeInv

LEMMA MergeNextKeeps == MergeInv /\ [MergeNext]_mergeVars => MergeInv'
<1> SUFFICES ASSUME MergeInv, [MergeNext]_mergeVars PROVE MergeInv'
  OBVIOUS
<1>1. dirty \in Seq(Rects) /\ working \in Seq(Boxes) /\ \A i \in DOMAIN dirty : dirty[i] \in Boxes
  BY DEF MergeInv, MergeTypes, Boxes
<1>2. ASSUME NEW p \in Pairs, working' = WithUnion(p), UNCHANGED <<merging, dirty, limit>>,
             merging # "done"
      PROVE  MergeInv'
  <2>1. working' \in Seq(Boxes)
    BY <1>1, <1>2, UnionTypes
  <2>2. ASSUME NEW i \in DOMAIN dirty, ~IsEmpty(dirty[i])
        PROVE  \E m \in DOMAIN working' : Inside(dirty[i], working'[m])
    <3>1. PICK k \in DOMAIN working : Inside(dirty[i], working[k])
      BY <2>2 DEF MergeInv, MergedCovers
    <3> QED
      BY <1>1, <1>2, <3>1, UnionCovers
  <2> QED
    BY <1>2, <2>1, <2>2 DEF MergeInv, MergeTypes, MergedCovers
<1>3. CASE MergeOverlapping
  <2>1. PICK p \in Overlapping : working' = WithUnion(p)
    BY <1>3 DEF MergeOverlapping
  <2>2. p \in Pairs
    BY DEF Overlapping
  <2> QED
    BY <1>2, <1>3, <2>1, <2>2 DEF MergeOverlapping
<1>4. CASE OverlappingDone
  BY <1>4 DEF OverlappingDone, MergeInv, MergeTypes, MergedCovers
<1>5. CASE Reduce
  BY <1>2, <1>5 DEF Reduce
<1>6. CASE ReduceDone
  BY <1>6 DEF ReduceDone, MergeInv, MergeTypes, MergedCovers
<1>7. CASE UNCHANGED mergeVars
  BY <1>7 DEF mergeVars, MergeInv, MergeTypes, MergedCovers
<1> QED
  BY <1>3, <1>4, <1>5, <1>6, <1>7 DEF MergeNext

\* Of any dirty rectangles, in any number, none is lost, whichever pairs are
\* united, and no more than the limit come out.
THEOREM NothingDirtyLost == MergeSpec => []MergedCovers
<1>1. MergeInv => MergedCovers
  BY DEF MergeInv
<1> QED
  BY <1>1, MergeInitially, MergeNextKeeps, PTL DEF MergeSpec

---------------------------------------------------------------------------
(* Colours and symbols.                                                    *)

\* YCoCg-R is reversible for all integers: the halves that ToYCoCg rounds away
\* are those that FromYCoCg adds.
THEOREM ColoursReturn ==
    ASSUME NEW p \in [b : Int, g : Int, r : Int]
    PROVE  FromYCoCg(ToYCoCg(p)) = p
<1> DEFINE co == p.r - p.b
           t == p.b + co \div 2
           cg == p.g - t
           y == t + cg \div 2
<1>1. p.b \in Int /\ p.g \in Int /\ p.r \in Int
  OBVIOUS
<1>2. co \in Int /\ co \div 2 \in Int
  BY <1>1
<1>3. t \in Int /\ cg \in Int /\ cg \div 2 \in Int
  BY <1>1, <1>2
<1>4. ToYCoCg(p) = [y |-> y, co |-> co, cg |-> cg]
  BY DEF ToYCoCg
<1>5. y - cg \div 2 = t
  BY <1>3
<1>6. t - co \div 2 = p.b /\ cg + t = p.g /\ co + p.b = p.r
  BY <1>1, <1>2, <1>3
<1>7. FromYCoCg(ToYCoCg(p)) = [b |-> p.b, g |-> p.g, r |-> p.r]
  BY <1>4, <1>5, <1>6 DEF FromYCoCg
<1> QED
  BY <1>7

\* A residual that fits a byte comes back from one byte; one that fits a word
\* from two.
THEOREM ByteReturns ==
    ASSUME NEW v \in (-Half)..(Half - 1)
    PROVE  FromSymbols(ToSymbols(v, TRUE), TRUE) = v
<1>1. ByteValues \in Nat /\ ByteValues = 2 * Half /\ Half \in Nat /\ Half > 0
  BY TileAssumption DEF Half
<1>2. CASE v >= 0
  <2>1. v % ByteValues = v
    BY <1>1, <1>2
  <2> QED
    BY <1>1, <1>2, <2>1 DEF FromSymbols, ToSymbols
<1>3. CASE v < 0
  <2>1. v % ByteValues = v + ByteValues
    BY <1>1, <1>3
  <2> QED
    BY <1>1, <1>3, <2>1 DEF FromSymbols, ToSymbols
<1>4. v >= 0 \/ v < 0
  BY <1>1
<1> QED
  BY <1>2, <1>3, <1>4, Zenon

LEMMA Halved == ASSUME NEW a \in Int PROVE a \div 2 \in Int /\ 2 * (a \div 2) <= a /\ a < 2 * (a \div 2) + 2
OBVIOUS

LEMMA HalfOfByte ==
    /\ ByteValues = 2 * Half /\ Half \in Nat /\ Half >= 2
    /\ Word \in Nat /\ Word = 4 * (Half * Half) /\ Word \div 2 = 2 * (Half * Half)
    /\ 2 * ByteValues <= Word \div 2
<1>1. ByteValues \in Nat /\ ByteValues >= 4 /\ ByteValues % 2 = 0
  BY TileAssumption
<1>2. ByteValues = 2 * Half /\ Half \in Nat /\ Half >= 2
  BY <1>1 DEF Half
<1>3. Word = 4 * (Half * Half)
  BY <1>2 DEF Word
<1>4. Half * Half \in Nat /\ 2 * Half <= Half * Half
  BY <1>2
<1>5. (4 * (Half * Half)) \div 2 = 2 * (Half * Half)
  BY <1>4
<1> QED
  BY <1>2, <1>3, <1>4, <1>5

\* The colour transform makes the components at most one bit wider.
LEMMA ColoursFit ==
    ASSUME NEW p \in Pixels
    PROVE  \A plane \in Planes :
              ToYCoCg(p)[plane] \in (-(ByteValues - 1))..(ByteValues - 1)
<1> DEFINE co == p.r - p.b
           t == p.b + co \div 2
           cg == p.g - t
           y == t + cg \div 2
<1>1. ByteValues \in Nat /\ p.b \in 0..(ByteValues - 1) /\ p.g \in 0..(ByteValues - 1)
      /\ p.r \in 0..(ByteValues - 1)
  BY TileAssumption DEF Pixels
<1>2. co \in (-(ByteValues - 1))..(ByteValues - 1)
  BY <1>1
<1>3. t \in 0..(ByteValues - 1)
  <2>1. 2 * (co \div 2) <= co /\ co < 2 * (co \div 2) + 2 /\ co \div 2 \in Int
    BY <1>2, Halved
  <2> QED
    BY <1>1, <2>1
<1> HIDE DEF t
<1>4. cg \in (-(ByteValues - 1))..(ByteValues - 1)
  BY <1>1, <1>3
<1>5. y \in 0..(ByteValues - 1)
  <2>1. 2 * (cg \div 2) <= cg /\ cg < 2 * (cg \div 2) + 2 /\ cg \div 2 \in Int
    BY <1>4, Halved
  <2> QED
    BY <1>1, <1>3, <2>1
<1>6. ToYCoCg(p) = [y |-> y, co |-> co, cg |-> cg]
  BY DEF ToYCoCg, t
<1> HIDE DEF co, cg, y
<1> QED
  BY <1>1, <1>2, <1>4, <1>5, <1>6 DEF Planes

LEMMA ChannelFits ==
    ASSUME source \in Tiles, NEW plane \in Planes
    PROVE  \A i \in Cells :
              Channel(plane)[i] \in (-(ByteValues - 1))..(ByteValues - 1)
<1>1. \A i \in Cells : source[i] \in Pixels
  BY TileAssumption
<1> QED
  BY <1>1, ColoursFit DEF Channel

---------------------------------------------------------------------------
LEMMA SplitByte ==
    ASSUME NEW q \in Int, NEW r \in 0..(ByteValues - 1)
    PROVE  (ByteValues * q + r) % ByteValues = r
<1>1. ByteValues \in Nat \ {0}
  BY TileAssumption
<1> DEFINE a == ByteValues * q + r
           k == a \div ByteValues
<1>2. a \in Int /\ k \in Int /\ a % ByteValues = a - ByteValues * k
      /\ a % ByteValues \in 0..(ByteValues - 1)
  BY <1>1
<1> HIDE DEF k
<1>3. k = q
  <2>1. ByteValues * (k - q) < ByteValues /\ ByteValues * (q - k) < ByteValues
    BY <1>1, <1>2
  <2>2. ASSUME NEW d \in Int, ByteValues * d < ByteValues * 1 PROVE d <= 0
    BY <1>1, <2>2, Cancelled
  <2> QED
    BY <1>1, <1>2, <2>1, <2>2
<1> QED
  BY <1>1, <1>2, <1>3

THEOREM WordReturns ==
    ASSUME NEW v \in (-(Word \div 2))..(Word \div 2 - 1)
    PROVE  FromSymbols(ToSymbols(v, FALSE), FALSE) = v
<1> DEFINE u == v % Word
           low == v % ByteValues
           high == u \div ByteValues
<1>1. ByteValues \in Nat \ {0} /\ Word \in Nat /\ Word = 2 * (Word \div 2) /\ Word \div 2 \in Nat
      /\ Word = ByteValues * ByteValues /\ v \in Int
  BY HalfOfByte DEF Word
<1>2. u = IF v >= 0 THEN v ELSE v + Word
  <2>1. CASE v >= 0
    BY <1>1, <2>1
  <2>2. CASE v < 0
    BY <1>1, <2>2
  <2> QED
    BY <1>1, <2>1, <2>2
<1> HIDE DEF u
<1>3. u \in Nat /\ (u >= Word \div 2 <=> v < 0)
  BY <1>1, <1>2
<1>4. high \in Nat /\ ByteValues * high <= u /\ u < ByteValues * high + ByteValues
  BY <1>1, <1>3, Dividing
<1> HIDE DEF high
<1>5. low = u - ByteValues * high
  <2>1. u - ByteValues * high \in 0..(ByteValues - 1)
    BY <1>1, <1>3, <1>4
  <2>2. CASE v >= 0
    <3>1. v = ByteValues * high + (u - ByteValues * high)
      BY <1>1, <1>2, <1>3, <1>4, <2>2
    <3> QED
      BY <1>4, <2>1, <3>1, SplitByte
  <2>3. CASE v < 0
    <3>1. v = ByteValues * (high - ByteValues) + (u - ByteValues * high)
      BY <1>1, <1>2, <1>3, <1>4, <2>3
    <3>2. high - ByteValues \in Int
      BY <1>1, <1>4
    <3> QED
      BY <2>1, <3>1, <3>2, SplitByte
  <2> QED
    BY <1>1, <2>2, <2>3
<1>6. ToSymbols(v, FALSE) = <<low, high>>
  BY DEF ToSymbols, high, u
<1>7. low + high * ByteValues = u
  BY <1>1, <1>3, <1>4, <1>5
<1> HIDE DEF low
<1> DEFINE read == FromSymbols(<<low, high>>, FALSE)
<1>8. read = IF u >= Word \div 2 THEN u - Word ELSE u
  BY <1>7 DEF FromSymbols
<1> HIDE DEF read
<1>9. read = v
  <2>1. CASE v >= 0
    BY <1>1, <1>2, <1>3, <1>8, <2>1
  <2>2. CASE v < 0
    BY <1>1, <1>2, <1>3, <1>8, <2>2
  <2> QED
    BY <1>1, <2>1, <2>2
<1> QED
  BY <1>6, <1>9 DEF read

\* What is written is read, if it fits a word.
LEMMA ValuesReturn ==
    ASSUME NEW modes, NEW step, NEW values, stream = Written(modes, step, values),
           NEW plane \in Planes, NEW i \in Cells,
           values[plane][i] \in (-(Word \div 2))..(Word \div 2 - 1)
    PROVE  ValuesRead(plane)[i] = values[plane][i]
<1> DEFINE single == FitsByte(values)
           v == values[plane][i]
<1>1. ValuesRead(plane)[i] = FromSymbols(ToSymbols(v, single), single)
  BY DEF ValuesRead, Written
<1>2. CASE single
  <2>1. v \in (-Half)..(Half - 1)
    BY <1>2 DEF FitsByte
  <2>2. single = TRUE
    BY <1>2 DEF FitsByte
  <2> QED
    BY <1>1, <2>1, <2>2, ByteReturns
<1>3. CASE ~single
  <2>1. single = FALSE
    BY <1>3
  <2> QED
    BY <1>1, <2>1, WordReturns
<1> QED
  BY <1>2, <1>3

---------------------------------------------------------------------------
LEMMA CellsAreNatural == TileWidth \in Nat \ {0} /\ Cells \subseteq Nat
<1>1. TileWidth \in Nat \ {0} /\ TileHeight \in Nat \ {0}
  BY TileAssumption
<1>2. TileWidth * TileHeight \in Nat
  BY <1>1
<1> QED
  BY <1>1, <1>2 DEF Cells

LEMMA PreviousIsEarlier ==
    ASSUME NEW i \in Cells, i # 0
    PROVE  Previous(i) \in Cells /\ Previous(i) < i
<1>1. TileWidth \in Nat \ {0} /\ i \in Nat /\ TileWidth * TileHeight \in Int
  BY CellsAreNatural, TileAssumption
<1>2. i < TileWidth => i % TileWidth = i
  BY <1>1
<1>3. i % TileWidth \in Nat
  BY <1>1
<1>4. ~(i % TileWidth > 0) => i >= TileWidth
  BY <1>1, <1>2, <1>3
<1> QED
  BY <1>1, <1>3, <1>4 DEF Previous, Cells

\* LEFT_PIXEL gives every channel back, for a tile of any size.
THEOREM PredictionReturns ==
    ASSUME NEW channel, \A i \in Cells : channel[i] \in Int
    PROVE  \A i \in Cells : InverseLeftPixel(LeftPixel(channel))[i] = channel[i]
<1> DEFINE residual == LeftPixel(channel)
           Sums(out) == [i \in Cells |-> residual[i] + (IF i = 0 THEN 0 ELSE out[Previous(i)])]
           same == [i \in Cells |-> channel[i]]
           out == InverseLeftPixel(residual)
<1>1. out = CHOOSE f : f = Sums(f)
  BY DEF InverseLeftPixel
<1>2. \A i \in Cells : i # 0 => Previous(i) \in Cells
  BY PreviousIsEarlier
<1>3. \A i \in Cells : residual[i] = IF i = 0 THEN channel[0] ELSE channel[i] - channel[Previous(i)]
  BY DEF LeftPixel
<1> HIDE DEF residual
<1>4. same = Sums(same)
  <2>1. ASSUME NEW i \in Cells PROVE Sums(same)[i] = channel[i]
    <3>1. CASE i = 0
      BY <1>3, <3>1
    <3>2. CASE i # 0
      <4>1. channel[i] \in Int /\ channel[Previous(i)] \in Int /\ same[Previous(i)] = channel[Previous(i)]
        BY <1>2, <3>2
      <4> QED
        BY <1>3, <3>2, <4>1
    <3> QED
      BY <3>1, <3>2
  <2> QED
    BY <2>1
<1> HIDE DEF same
<1>5. out = Sums(out)
  BY <1>1, <1>4
<1> HIDE DEF out
<1> DEFINE S == {n \in Nat : \A i \in Cells : i < n => out[i] = channel[i]}
<1>6. 0 \in S
  BY CellsAreNatural
<1>7. ASSUME NEW n \in Nat, n \in S PROVE n + 1 \in S
  <2> SUFFICES ASSUME NEW i \in Cells, i < n + 1 PROVE out[i] = channel[i]
    OBVIOUS
  <2>1. i \in Nat
    BY CellsAreNatural
  <2>2. out[i] = residual[i] + (IF i = 0 THEN 0 ELSE out[Previous(i)])
    BY <1>5
  <2>3. CASE i = 0
    BY <1>3, <2>2, <2>3
  <2>4. CASE i # 0
    <3>1. Previous(i) \in Cells /\ Previous(i) < n
      <4>1. Previous(i) \in Cells /\ Previous(i) < i
        BY <2>4, PreviousIsEarlier
      <4>2. Previous(i) \in Nat
        BY <4>1, CellsAreNatural
      <4> QED
        BY <2>1, <4>1, <4>2
    <3>2. out[Previous(i)] = channel[Previous(i)]
      BY <1>7, <3>1
    <3>3. channel[i] \in Int /\ channel[Previous(i)] \in Int
      BY <3>1
    <3> QED
      BY <1>3, <2>2, <2>4, <3>2, <3>3
  <2> QED
    BY <2>3, <2>4
<1> HIDE DEF S
<1>8. Nat \subseteq S
  BY <1>6, <1>7, SetInduction
<1>9. ASSUME NEW i \in Cells PROVE out[i] = channel[i]
  <2>1. i \in Nat /\ i + 1 \in S
    BY <1>8, CellsAreNatural
  <2> QED
    BY <2>1 DEF S
<1> QED
  BY <1>9 DEF out, residual

---------------------------------------------------------------------------
(* A tile.                                                                 *)

\* What EncodeTile writes of a LOSSLESS tile, and EncodeLossy.
WritesLossless ==
    stream = Written([plane \in Planes |-> PredictsLeft(Channel(plane))], 1,
               [plane \in Planes |->
                   [i \in Cells |-> Quantised(Residual(Channel(plane))[i], 1)]])

WritesLossy ==
    \E blocks \in Transforms :
        stream = Written(<<>>, 1, Transformed([plane \in Planes |-> Channel(plane)], blocks))

PlanesRestored ==
    \A plane \in Planes, i \in Cells : Restored(plane)[i] = Channel(plane)[i]

RestRead ==
    \A plane \in Planes, i \in Cells :
        ~InBlock(i) => ValuesRead(plane)[i] = Channel(plane)[i]

\* On the way: the residuals stand for the planes of a LOSSLESS tile, and the
\* symbols for what no block of a LOSSY tile covers.
Carried ==
    tileStep = "encoded" =>
        /\ tileMode = "LOSSLESS" => PlanesRestored
        /\ tileMode = "LOSSY" => RestRead

TileInv ==
    /\ tileStep \in {"source", "encoded", "shown"}
    /\ source \in Tiles /\ avx2 \in BOOLEAN
    /\ Carried /\ PixelPerfect

LEMMA StepOfOne == ASSUME NEW v \in Int PROVE Quantised(v, 1) = v
<1>1. 1 \div 2 = 0 /\ (v + 0) \div 1 = v /\ (-v + 0) \div 1 = -v /\ -(-v) = v
  OBVIOUS
<1> QED
  BY <1>1 DEF Quantised

LEMMA ResidualFits ==
    ASSUME source \in Tiles, NEW plane \in Planes, NEW i \in Cells
    PROVE  /\ Residual(Channel(plane))[i] \in (-(Word \div 2))..(Word \div 2 - 1)
           /\ Channel(plane)[i] \in (-(Word \div 2))..(Word \div 2 - 1)
<1> DEFINE c == Channel(plane)
           l == LeftPixel(c)
<1>1. ByteValues \in Nat /\ Word \div 2 \in Nat /\ 2 * ByteValues <= Word \div 2
  BY HalfOfByte
<1>2. \A j \in Cells : c[j] \in Int /\ -(ByteValues - 1) <= c[j] /\ c[j] <= ByteValues - 1
  BY ChannelFits, <1>1
<1>3. l[i] = IF i = 0 THEN c[0] ELSE c[i] - c[Previous(i)]
  BY DEF LeftPixel
<1>4. i # 0 => Previous(i) \in Cells
  BY PreviousIsEarlier
<1>5. Residual(c) = l \/ Residual(c) = c
  BY DEF Residual
<1> HIDE DEF c, l
<1>6. c[i] \in (-(Word \div 2))..(Word \div 2 - 1)
  BY <1>1, <1>2
<1>7. l[i] \in (-(Word \div 2))..(Word \div 2 - 1)
  BY <1>1, <1>2, <1>3, <1>4
<1> QED
  BY <1>5, <1>6, <1>7 DEF c

\* What the host writes of a LOSSLESS tile restores its planes.
LEMMA LosslessCarried ==
    source \in Tiles /\ WritesLossless => PlanesRestored
<1> SUFFICES ASSUME source \in Tiles, WritesLossless, NEW plane \in Planes
             PROVE  \A i \in Cells : Restored(plane)[i] = Channel(plane)[i]
  BY DEF PlanesRestored
<1> DEFINE modes == [k \in Planes |-> PredictsLeft(Channel(k))]
           values == [k \in Planes |-> [i \in Cells |-> Quantised(Residual(Channel(k))[i], 1)]]
           c == Channel(plane)
           residual == [i \in Cells |-> ValuesRead(plane)[i] * stream.step]
<1>1. stream = Written(modes, 1, values)
  BY DEF WritesLossless
<1>2. stream.step = 1 /\ stream.modes[plane] = PredictsLeft(c)
  BY <1>1 DEF Written
<1>3. ASSUME NEW i \in Cells PROVE residual[i] = Residual(c)[i] /\ c[i] \in Int
  <2>1. /\ Residual(c)[i] \in (-(Word \div 2))..(Word \div 2 - 1)
        /\ c[i] \in (-(Word \div 2))..(Word \div 2 - 1)
    BY ResidualFits
  <2>2. Residual(c)[i] \in Int /\ c[i] \in Int
    BY <2>1, HalfOfByte
  <2>3. values[plane][i] = Residual(c)[i]
    BY <2>2, StepOfOne
  <2> HIDE DEF modes, values
  <2>4. ValuesRead(plane)[i] = Residual(c)[i]
    BY <1>1, <2>1, <2>3, ValuesReturn
  <2> QED
    BY <1>2, <2>2, <2>4
<1> HIDE DEF modes, values
<1>4. Restored(plane) = IF stream.modes[plane] THEN InverseLeftPixel(residual) ELSE residual
  BY DEF Restored
<1> HIDE DEF residual, c
<1>5. CASE PredictsLeft(c)
  <2>1. Residual(c) = LeftPixel(c)
    BY <1>5 DEF Residual
  <2>2. residual = LeftPixel(c)
    <3>1. residual = [i \in Cells |-> residual[i]]
      BY DEF residual
    <3>2. LeftPixel(c) = [i \in Cells |-> LeftPixel(c)[i]]
      BY DEF LeftPixel
    <3> QED
      BY <1>3, <2>1, <3>1, <3>2
  <2>3. Restored(plane) = InverseLeftPixel(LeftPixel(c))
    BY <1>2, <1>4, <1>5, <2>2
  <2> QED
    BY <1>3, <2>3, PredictionReturns DEF c
<1>6. CASE ~PredictsLeft(c)
  <2>1. Residual(c) = c
    BY <1>6 DEF Residual
  <2>2. Restored(plane) = residual
    BY <1>2, <1>4, <1>6
  <2> QED
    BY <1>3, <2>1, <2>2 DEF c
<1> QED
  BY <1>5, <1>6

LEMMA LossyCarried ==
    source \in Tiles /\ WritesLossy => RestRead
<1> SUFFICES ASSUME source \in Tiles, WritesLossy,
                    NEW plane \in Planes, NEW i \in Cells, ~InBlock(i)
             PROVE  ValuesRead(plane)[i] = Channel(plane)[i]
  BY DEF RestRead
<1>1. PICK blocks \in Transforms :
         stream = Written(<<>>, 1, Transformed([k \in Planes |-> Channel(k)], blocks))
  BY DEF WritesLossy
<1> DEFINE values == Transformed([k \in Planes |-> Channel(k)], blocks)
<1>2. values[plane][i] = Channel(plane)[i]
  BY DEF Transformed
<1>3. stream = Written(<<>>, 1, values)
  BY <1>1
<1> HIDE DEF values
<1> QED
  BY <1>2, <1>3, ResidualFits, ValuesReturn

\* A pixel whose components arrive is shown as it was.
LEMMA PixelReturns ==
    ASSUME source \in Tiles, NEW i \in Cells, NEW channels,
           \A plane \in Planes : channels[plane][i] = Channel(plane)[i]
    PROVE  Pixel([y |-> channels["y"][i], co |-> channels["co"][i],
                  cg |-> channels["cg"][i]], i) = source[i]
<1> DEFINE p == source[i]
<1>1. p \in Pixels
  BY TileAssumption
<1>2. /\ channels["y"][i] = ToYCoCg(p).y /\ channels["co"][i] = ToYCoCg(p).co
      /\ channels["cg"][i] = ToYCoCg(p).cg
  <2>1. \A plane \in Planes : channels[plane][i] = ToYCoCg(p)[plane]
    BY DEF Channel
  <2> QED
    BY <2>1 DEF Planes
<1>3. ToYCoCg(p) = [y |-> ToYCoCg(p).y, co |-> ToYCoCg(p).co, cg |-> ToYCoCg(p).cg]
  BY DEF ToYCoCg
<1>4. FromYCoCg(ToYCoCg(p)) = p
  <2>1. p \in [b : Int, g : Int, r : Int]
    BY <1>1, TileAssumption DEF Pixels
  <2> QED
    BY <2>1, ColoursReturn
<1>5. ASSUME NEW v \in 0..(ByteValues - 1) PROVE ToByte(v, i) = v
  <2>1. ByteValues \in Nat
    BY TileAssumption
  <2>2. v % ByteValues = v /\ ~(v < 0) /\ ~(v >= ByteValues)
    BY <2>1
  <2> QED
    BY <2>2 DEF ToByte
<1>6. /\ p.b \in 0..(ByteValues - 1) /\ p.g \in 0..(ByteValues - 1) /\ p.r \in 0..(ByteValues - 1)
      /\ p = [b |-> p.b, g |-> p.g, r |-> p.r]
  BY <1>1 DEF Pixels
<1>7. ToByte(p.b, i) = p.b /\ ToByte(p.g, i) = p.g /\ ToByte(p.r, i) = p.r
  BY <1>5, <1>6
<1>8. Pixel(ToYCoCg(p), i) = p
  BY <1>4, <1>6, <1>7 DEF Pixel
<1> QED
  BY <1>2, <1>3, <1>8

LEMMA TileInitially == TileInit => TileInv
BY DEF TileInit, TileInv, Carried, PixelPerfect

LEMMA CarriedAfter ==
    /\ (source \in Tiles /\ WritesLossless)' => PlanesRestored'
    /\ (source \in Tiles /\ WritesLossy)' => RestRead'
BY LosslessCarried, LossyCarried, PTL

LEMMA TileNextKeeps == TileInv /\ [TileNext]_tileVars => TileInv'
<1> SUFFICES ASSUME TileInv, [TileNext]_tileVars PROVE TileInv'
  OBVIOUS
<1>1. source \in Tiles /\ avx2 \in BOOLEAN
  BY DEF TileInv
<1>2. CASE EncodeTile
  <2>1. /\ tileStep' = "encoded" /\ source' = source /\ tileMode' = tileMode
        /\ avx2' = avx2 /\ tileMode \in {"LOSSLESS", "NEAR_LOSSLESS"}
    BY <1>2 DEF EncodeTile
  <2>2. ASSUME tileMode' = "LOSSLESS" PROVE PlanesRestored'
    <3>1. WritesLossless'
      BY <1>2, <2>1, <2>2 DEF EncodeTile, WritesLossless, Channel
    <3> QED
      BY <1>1, <2>1, <3>1, CarriedAfter
  <2>3. Carried'
    BY <2>1, <2>2 DEF Carried
  <2> QED
    BY <1>1, <2>1, <2>3 DEF TileInv, PixelPerfect
<1>3. CASE EncodeLossy
  <2>1. /\ tileStep' = "encoded" /\ source' = source /\ tileMode' = tileMode
        /\ avx2' = avx2 /\ tileMode = "LOSSY"
    BY <1>3 DEF EncodeLossy
  <2>2. WritesLossy'
    BY <1>3, <2>1 DEF EncodeLossy, WritesLossy, Channel
  <2>3. Carried'
    BY <1>1, <2>1, <2>2, CarriedAfter DEF Carried
  <2> QED
    BY <1>1, <2>1, <2>3 DEF TileInv, PixelPerfect
<1>4. CASE DecodeTile
  <2> DEFINE channels == [plane \in Planes |-> Restored(plane)]
  <2>1. /\ tileStep = "encoded" /\ tileStep' = "shown" /\ source' = source
        /\ tileMode' = tileMode /\ avx2' = avx2 /\ tileMode # "LOSSY"
    BY <1>4 DEF DecodeTile
  <2>2. shown' = [i \in Cells |-> Pixel([y |-> channels["y"][i], co |-> channels["co"][i],
                                         cg |-> channels["cg"][i]], i)]
    BY <1>4 DEF DecodeTile, Show
  <2>3. ASSUME tileMode = "LOSSLESS", NEW i \in Cells PROVE shown'[i] = source[i]
    <3>1. \A plane \in Planes : channels[plane][i] = Channel(plane)[i]
      BY <2>1, <2>3 DEF TileInv, Carried, PlanesRestored
    <3> HIDE DEF channels
    <3> QED
      BY <1>1, <2>2, <3>1, PixelReturns
  <2>4. PixelPerfect'
    BY <2>1, <2>3 DEF PixelPerfect
  <2> QED
    BY <1>1, <2>1, <2>4 DEF TileInv, Carried
<1>5. CASE DecodeLossy
  <2>1. /\ tileStep = "encoded" /\ tileStep' = "shown" /\ source' = source
        /\ tileMode' = tileMode /\ avx2' = avx2 /\ tileMode = "LOSSY"
    BY <1>5 DEF DecodeLossy
  <2> PICK blocks \in Transforms :
          Show(Transformed([plane \in Planes |-> ValuesRead(plane)], blocks))
    BY <1>5 DEF DecodeLossy
  <2> DEFINE channels == Transformed([plane \in Planes |-> ValuesRead(plane)], blocks)
  <2>2. shown' = [i \in Cells |-> Pixel([y |-> channels["y"][i], co |-> channels["co"][i],
                                         cg |-> channels["cg"][i]], i)]
    BY DEF Show
  <2>3. ASSUME NEW i \in Cells, ~InBlock(i) PROVE shown'[i] = source[i]
    <3>1. ASSUME NEW plane \in Planes PROVE channels[plane][i] = Channel(plane)[i]
      <4>1. ValuesRead(plane)[i] = Channel(plane)[i]
        BY <2>1, <2>3 DEF TileInv, Carried, RestRead
      <4> QED
        BY <2>3, <4>1 DEF Transformed
    <3> HIDE DEF channels
    <3> QED
      BY <1>1, <2>2, <3>1, PixelReturns
  <2>4. PixelPerfect'
    BY <2>1, <2>3 DEF PixelPerfect, InBlock
  <2> QED
    BY <1>1, <2>1, <2>4 DEF TileInv, Carried
<1>6. CASE UNCHANGED tileVars
  BY <1>6 DEF tileVars, TileInv, Carried, PlanesRestored, RestRead, PixelPerfect, Restored,
              ValuesRead, Channel
<1> QED
  BY <1>2, <1>3, <1>4, <1>5, <1>6 DEF TileNext

\* Every LOSSLESS tile of any size and content is shown as it was captured, with
\* either conversion, and so is what no block of a LOSSY tile covers.
THEOREM LosslessReturns == TileSpec => []PixelPerfect
<1>1. TileInv => PixelPerfect
  BY DEF TileInv
<1> QED
  BY <1>1, TileInitially, TileNextKeeps, PTL DEF TileSpec

=============================================================================
