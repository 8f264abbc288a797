------------------------------- MODULE MCFrames -------------------------------
(***************************************************************************)
(* The stations of a frame that can be checked on their own, in one model: *)
(* a behaviour picks one, runs it as its module says, and leaves the       *)
(* others in an initial state.                                             *)
(***************************************************************************)
EXTENDS DxgiCapture, X11Capture, RectMerger, AdaptiveQuality, TileCodec, RansCodec,
        VaapiEncoder, MfCodec, OpenH264Codec

VARIABLE station

Stations == {"dxgi", "x11", "rects", "quality", "tile", "rans", "vaapi", "mf", "h264"}

Runs(s) == station = s

---------------------------------------------------------------------------
(* The small instances that a cfg cannot write.                            *)

R(x, y, width, height) == [x |-> x, y |-> y, width |-> width, height |-> height]
SomeRects == {R(0, 0, 1, 1), R(2, 0, 1, 1), R(4, 0, 1, 1), R(0, 3, 1, 2),
              R(1, 1, 2, 1), R(2, 3, 3, 1), R(4, 4, 0, 1)}

P(b, g, r) == [b |-> b, g |-> g, r |-> r]
SomeColours == {P(1, 1, 1), P(2, 2, 2), P(3, 3, 3), P(7, 0, 3)}

\* Two colours in stripes, in a corner, a pixel in a block and one beside it, and
\* all four colours in turn.
SomePatterns ==
    {Cells, {i \in Cells : Column(i) % 2 = 0}, {i \in Cells : Row(i) % 2 = 0},
     {i \in Cells : Row(i) < 2 /\ Column(i) < 3}, {6}, {9}}
SomeTiles ==
    {[i \in Cells |-> IF i \in s THEN p ELSE q] :
        s \in SomePatterns, p \in SomeColours, q \in SomeColours}
    \cup {[i \in Cells |-> CASE (i + n) % 4 = 0 -> P(1, 1, 1)
                              [] (i + n) % 4 = 1 -> P(7, 0, 3)
                              [] (i + n) % 4 = 2 -> P(0, 7, 1)
                              [] OTHER -> P(3, 2, 7)] : n \in 0..3}

\* Blocks whose coefficients all fit a byte, and with one that does not.
SomeTransforms ==
    {[plane \in Planes |-> [i \in Cells |-> 0]],
     [plane \in Planes |-> [i \in Cells |-> IF plane = "y" /\ i = 0 THEN Half ELSE 1]]}

\* Tiles of 1 to 5 symbols, and those whose frequencies have to be trimmed.
SomeMessages ==
    UNION {[1..n -> 0..3] : n \in 1..5}
        \cup {m \in [1..8 -> 0..3] :
                 Count(m, 0) = 3 /\ Count(m, 1) = 3 /\ Count(m, 2) = 1}

---------------------------------------------------------------------------
qualityVars == <<quality, streak>>
framesVars == <<station, dxgiVars, x11Vars, mergeVars, qualityVars, tileVars,
                ransVars, vaapiVars, mfVars, h264Vars>>

\* Where a station has several initial states, one is enough while it does not run.
OneInitialState ==
    /\ IF Runs("dxgi") THEN TRUE
       ELSE desktop = [mode |-> CHOOSE m \in Modes : TRUE, available |-> TRUE]
    /\ IF Runs("rects") THEN TRUE
       ELSE dirty = <<>> /\ limit = CHOOSE n \in Limits : TRUE
    /\ IF Runs("tile") THEN TRUE
       ELSE /\ tileMode = "LOSSLESS" /\ avx2 = TRUE
            /\ source = CHOOSE t \in Tiles : TRUE
    /\ IF Runs("rans") THEN TRUE ELSE message = CHOOSE m \in Messages : TRUE
    /\ IF Runs("h264") THEN TRUE ELSE library = "none"

FramesInit ==
    /\ station \in Stations
    /\ OneInitialState
    /\ DxgiInit /\ X11Init /\ MergeInit /\ QualityInit /\ TileInit /\ RansInit
    /\ VaapiInit /\ MfInit /\ H264Init

OthersIdle ==
    /\ UNCHANGED station
    /\ IF Runs("dxgi") THEN TRUE ELSE UNCHANGED dxgiVars
    /\ IF Runs("x11") THEN TRUE ELSE UNCHANGED x11Vars
    /\ IF Runs("rects") THEN TRUE ELSE UNCHANGED mergeVars
    /\ IF Runs("quality") THEN TRUE ELSE UNCHANGED qualityVars
    /\ IF Runs("tile") THEN TRUE ELSE UNCHANGED tileVars
    /\ IF Runs("rans") THEN TRUE ELSE UNCHANGED ransVars
    /\ IF Runs("vaapi") THEN TRUE ELSE UNCHANGED vaapiVars
    /\ IF Runs("mf") THEN TRUE ELSE UNCHANGED mfVars
    /\ IF Runs("h264") THEN TRUE ELSE UNCHANGED h264Vars

FramesNext ==
    /\ \/ Runs("dxgi") /\ DxgiNext
       \/ Runs("x11") /\ X11Next
       \/ Runs("rects") /\ MergeNext
       \/ Runs("quality") /\ QualityNext
       \/ Runs("tile") /\ TileNext
       \/ Runs("rans") /\ RansNext
       \/ Runs("vaapi") /\ VaapiNext
       \/ Runs("mf") /\ MfNext
       \/ Runs("h264") /\ H264Next
    /\ OthersIdle

\* The fairness of the stations.  Where they do not run, the capture and the
\* encoders are in initial states that disable these actions.
WeakFairness ==
    /\ WF_dxgiVars(CaptureFrame)
    /\ WF_x11Vars(Look) /\ WF_x11Vars(FetchDamageRects)
    /\ WF_vaapiVars(VaReadFlag) /\ WF_vaapiVars(VaClearFlag)
    /\ WF_mfVars(MfEncode)
    /\ WF_h264Vars(ReadRequest) /\ WF_h264Vars(ForceIntraFrame)
    /\ WF_h264Vars(ClearRequest) /\ WF_h264Vars(NothingEncoded)

\* One station runs, so that strong fairness of a disjunction is that of its
\* disjunct, and TLC has three such formulas to combine instead of seven.
StrongFairness ==
    /\ SF_framesVars(/\ \/ Runs("dxgi") /\ Retry /\ grabber' = "acquire"
                        \/ Runs("x11") /\ Grab
                        \/ Runs("vaapi") /\ VaRender
                        \/ Runs("h264") /\ EncodeFrame
                     /\ OthersIdle)
    /\ SF_framesVars(/\ \/ Runs("dxgi") /\ Acquire /\ held'
                        \/ Runs("vaapi") /\ VaDeliver
                     /\ OthersIdle)
    /\ SF_framesVars(Runs("dxgi") /\ Process /\ grabbed' = staging /\ OthersIdle)

FramesSpec ==
    /\ FramesInit /\ [][FramesNext]_framesVars
    /\ WeakFairness /\ StrongFairness

=============================================================================
