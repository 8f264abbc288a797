---------------------------- MODULE OpenH264Codec ----------------------------
(***************************************************************************)
(* OpenH264Encoder, OpenH264Decoder and the loader of their library,       *)
(* src/src/codec/openh264_*.cpp.  encode() runs on the encode thread of    *)
(* HostSession, against requestKeyFrame() on another thread; the library,  *)
(* external, may skip a frame and codes an intra frame that was forced     *)
(* when it next codes one.                                                 *)
(***************************************************************************)
EXTENDS Integers

VARIABLES
    library,        \* what the library exports: "none", "partial" (not all of
                    \* the four symbols, but the first), "all"
    symbols,        \* the pfn_ pointers, likewise
    h264,           \* the encoder: "closed", "idle", "check", "forced",
                    \* "encode", "crashed"
    h264Requested,  \* keyFrameRequested_
    h264Intra,      \* in the library: an intra frame was forced
    h264Out,        \* the last frame returned: "none", "key", "delta"
    h264Decoder     \* decoder_ is not null

h264Frames == <<h264Requested, h264Intra, h264Out>>
h264Vars   == <<library, symbols, h264, h264Frames, h264Decoder>>

H264Init ==
    /\ library \in {"none", "partial", "all"} /\ symbols = "none"
    /\ h264 = "closed" /\ h264Requested = TRUE /\ h264Intra = FALSE
    /\ h264Out = "none" /\ h264Decoder = FALSE

---------------------------------------------------------------------------
(* openh264_load(), init() and destroy().                                  *)

\* "already loaded" looks at the first pointer only.
LoadSucceeds == symbols # "none" \/ library = "all"
Load == symbols' = IF symbols = "none" THEN library ELSE symbols

\* init() destroys first; it fails if nothing can be loaded, created or set up.
H264Start ==
    /\ h264 \in {"closed", "idle"}
    /\ Load
    /\ \/ h264' = "closed" /\ UNCHANGED h264Frames
       \* a pointer that is missing is called: of destroy(), say
       \/ /\ LoadSucceeds /\ symbols' = "partial" /\ h264' = "crashed"
          /\ UNCHANGED h264Frames
       \/ /\ LoadSucceeds /\ h264' = "idle"
          /\ h264Requested' = TRUE /\ h264Intra' = FALSE /\ h264Out' = "none"
    /\ UNCHANGED <<library, h264Decoder>>

H264Stop ==
    /\ h264 = "idle"
    /\ h264' = IF symbols = "all" THEN "closed" ELSE "crashed"
    /\ UNCHANGED <<library, symbols, h264Frames, h264Decoder>>

\* OpenH264Decoder::init(), and reset() that is init() again.
H264DecoderStart ==
    /\ Load
    /\ \/ h264Decoder' = FALSE /\ UNCHANGED h264
       \/ LoadSucceeds /\ symbols' = "all" /\ h264Decoder' = TRUE
          /\ UNCHANGED h264
       \/ LoadSucceeds /\ symbols' = "partial" /\ h264' = "crashed"
          /\ UNCHANGED h264Decoder
    /\ UNCHANGED <<library, h264Frames>>

---------------------------------------------------------------------------
(* requestKeyFrame() and encode().                                         *)

H264Request ==
    /\ h264 # "closed" /\ h264Requested' = TRUE
    /\ UNCHANGED <<library, symbols, h264, h264Intra, h264Out, h264Decoder>>

\* A frame that is not I420 is refused before the flag is looked at.
ReadRequest ==
    /\ h264 = "idle" /\ h264' = "check"
    /\ UNCHANGED <<library, symbols, h264Frames, h264Decoder>>

ForceIntraFrame ==
    /\ h264 = "check"
    /\ IF h264Requested
       THEN h264' = "forced" /\ h264Intra' = TRUE
       ELSE h264' = "encode" /\ UNCHANGED h264Intra
    /\ UNCHANGED <<library, symbols, h264Requested, h264Out, h264Decoder>>

\* The flag is cleared with any request made since ForceIntraFrame(): the frame
\* that follows serves that, too.
ClearRequest ==
    /\ h264 = "forced" /\ h264' = "encode"
    /\ h264Requested' = FALSE
    /\ UNCHANGED <<library, symbols, h264Intra, h264Out, h264Decoder>>

\* EncodeFrame() fails or skips the frame.
NothingEncoded ==
    /\ h264 = "encode" /\ h264' = "idle"
    /\ UNCHANGED <<library, symbols, h264Frames, h264Decoder>>

\* Mistake: the flag is cleared when the frame was encoded.
EncodeFrameClears ==
    /\ h264 = "encode" /\ h264' = "idle"
    /\ h264Out' = IF h264Intra THEN "key" ELSE "delta"
    /\ h264Intra' = FALSE /\ h264Requested' = FALSE
    /\ UNCHANGED <<library, symbols, h264Decoder>>

EncodeFrame ==
    /\ h264 = "encode" /\ h264' = "idle"
    /\ h264Out' = IF h264Intra THEN "key" ELSE "delta"
    /\ h264Intra' = FALSE
    /\ UNCHANGED <<library, symbols, h264Requested, h264Decoder>>

\* After a crash nothing runs.
H264Next ==
    /\ h264 # "crashed"
    /\ \/ H264Start \/ H264Stop \/ H264DecoderStart \/ H264Request
       \/ ReadRequest \/ ForceIntraFrame \/ ClearRequest
       \/ EncodeFrame \/ NothingEncoded

\* Frames keep coming, and the library does not skip for ever.
H264Fairness ==
    /\ WF_h264Vars(ReadRequest) /\ WF_h264Vars(ForceIntraFrame)
    /\ WF_h264Vars(ClearRequest)
    /\ SF_h264Vars(EncodeFrame) /\ WF_h264Vars(NothingEncoded)

H264Spec == H264Init /\ [][H264Next]_h264Vars /\ H264Fairness

---------------------------------------------------------------------------
(* Properties.                                                             *)

\* A request for a key frame, made at any point of encode(), is followed by one,
\* unless the encoder is set up again or closed: clearing the flag after the
\* intra frame was forced, and before the frame is encoded, loses none.
H264KeyFrameServed ==
    h264Requested /\ h264Out = "delta" ~>
        h264Out # "delta" \/ h264 \in {"closed", "crashed"}
=============================================================================
