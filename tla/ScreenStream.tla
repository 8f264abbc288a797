----------------------------- MODULE ScreenStream -----------------------------
(***************************************************************************)
(* The host's screen on its way to the viewer's window: the capture and    *)
(* encode threads of HostSession with the Omni encoder, the video channel  *)
(* of WebRtcSession, ViewerSession::onNalUnit with the Omni decoder on the *)
(* library's thread, and the upload on the viewer's UI thread.             *)
(*                                                                         *)
(* A frame maps each tile to its content, a number: blocks whose contents  *)
(* are at most Threshold apart do not differ for the detector.  A lossy or *)
(* near-lossless tile shows the content it was made from.  The ring is the *)
(* queue that RingBuffer implements.                                       *)
(***************************************************************************)
EXTENDS AdaptiveQuality, Sequences

CONSTANTS
    Tiles,
    Contents,
    Threshold,      \* SIMDDiffDetector::threshold_
    RingSize,       \* what captureBuffer_ holds
    NoFrame,        \* an empty previousFrame_
    Black,          \* a tile the decoder has no reference for
    Garbled,        \* a copied tile of which some rows do not match
    MaxChanges,     \* bound: changes of the screen
    MaxPackets      \* bound: packets on their way

ASSUME StreamAssumption ==
    /\ Contents \subseteq Nat /\ 0 \in Contents
    /\ Threshold \in Nat /\ RingSize \in Nat \ {0}
    /\ Black \notin Contents /\ Garbled \notin Contents
    /\ MaxChanges \in Nat /\ MaxPackets \in Nat \ {0}

Frames == [Tiles -> Contents]
Pictures == [Tiles -> Contents \cup {Black, Garbled}]

VARIABLES
    fades,          \* the screen may change by less than Threshold
    configured,     \* the screen has the size of config_.encoder, 1920x1080
    screen,         \* what the host's screen shows
    fresh,          \* the screen has changed since it was captured
    changes,        \* changes so far
    ring,           \* captureBuffer_
    phase,          \* of the encode thread: "pop", "encode", "finish", "send",
                    \* "adapt"
    frame,          \* the frame it works on
    previous,       \* previousFrame_
    reference,      \* the frame of refFrame_ and prevTileHashes_
    hasReference,   \* hasRef_ of the encoder
    requested,      \* keyFrameRequested_
    key,            \* isKeyFrame
    packet,         \* the encoded packet
    channel,        \* the video channel: "new", "connected", "open"
    asking,         \* the UI thread is about to call requestKeyFrame()
    net,            \* packets on their way
    missed,         \* history: no key frame was sent yet, or a packet since
                    \* then was not
    picture,        \* refFrame_ of the decoder, <<>> while hasRef_ is false
    pending,        \* pendingFrame_
    isNew,          \* hasNewFrame_
    shown           \* the texture of the viewer's window

kind    == <<fades, configured>>
host    == <<screen, fresh, changes>>
encoder == <<reference, hasReference, requested>>
work    == <<phase, frame, key, packet>>
viewer  == <<picture, pending, isNew, shown>>
control == <<quality, streak>>
vars == <<kind, host, ring, work, previous, encoder, channel, asking, net,
          missed, viewer, control>>

Blank == [t \in Tiles |-> Black]
NoPacket == [key |-> FALSE, tiles |-> <<>>]

Init ==
    /\ fades \in BOOLEAN /\ configured \in BOOLEAN
    /\ screen = [t \in Tiles |-> 0] /\ fresh = TRUE /\ changes = 0
    /\ ring = <<>>
    /\ phase = "pop" /\ frame = NoFrame /\ key = FALSE /\ packet = NoPacket
    /\ previous = NoFrame
    /\ reference = [t \in Tiles |-> 0] /\ hasReference = FALSE /\ requested = TRUE
    /\ channel = "new" /\ asking = FALSE /\ net = <<>> /\ missed = TRUE
    /\ picture = <<>> /\ pending = Blank /\ isNew = FALSE /\ shown = Blank
    /\ QualityInit

---------------------------------------------------------------------------
(* The host's screen and the connection.                                   *)

\* As far as blocksDiffer() looks: of a block at the edge of the screen it sees
\* the square that fits, and a change beside it is as one too small.
Apart(a, b) == IF a > b THEN a - b ELSE b - a

\* Mutant: a saturating difference in one direction only.
NoticedBrighter(a, b) == b - a > Threshold

Noticed(a, b) == Apart(a, b) > Threshold
Sharp == {c \in Contents : c % (Threshold + 1) = 0}

ScreenChange ==
    /\ changes < MaxChanges /\ changes' = changes + 1
    /\ \E t \in Tiles : \E c \in (IF fades THEN Contents ELSE Sharp) \ {screen[t]} :
          screen' = [screen EXCEPT ![t] = c]
    /\ fresh' = TRUE
    /\ UNCHANGED <<kind, ring, work, previous, encoder, channel, asking, net,
                   missed, viewer, control>>

\* The peer connection is up: the App queues requestKeyFrame() ...
Connected ==
    /\ channel = "new" /\ channel' = "connected"
    /\ asking' = TRUE
    /\ UNCHANGED <<kind, host, ring, work, previous, encoder, net, missed,
                   viewer, control>>

\* ... and calls it on the UI thread.
RequestKeyFrame ==
    /\ asking /\ asking' = FALSE
    /\ requested' = TRUE
    /\ UNCHANGED <<kind, host, ring, work, previous, reference, hasReference,
                   channel, net, missed, viewer, control>>

ChannelOpen ==
    /\ channel = "connected" /\ channel' = "open"
    /\ UNCHANGED <<kind, host, ring, work, previous, encoder, asking, net,
                   missed, viewer, control>>

---------------------------------------------------------------------------
(* captureLoop().                                                          *)

\* captureFrame() is OK, at the latest when there is something new; a full ring
\* drops the frame.
Capture ==
    /\ ring' = IF Len(ring) < RingSize THEN Append(ring, screen) ELSE ring
    /\ fresh' = FALSE
    /\ UNCHANGED <<kind, screen, changes, work, previous, encoder, channel,
                   asking, net, missed, viewer, control>>

---------------------------------------------------------------------------
(* encodeLoop().                                                           *)

Dirty(f) == previous = NoFrame \/ \E t \in Tiles : Noticed(previous[t], f[t])

Done(f) == phase' = "pop" /\ previous' = f /\ frame' = NoFrame

\* The oldest frame; `if (dirtyRects.empty())` it only becomes the previous one.
TakeFrame ==
    /\ phase = "pop" /\ ring # <<>>
    /\ ring' = Tail(ring)
    /\ IF Dirty(Head(ring))
       THEN phase' = "encode" /\ frame' = Head(ring) /\ UNCHANGED previous
       ELSE Done(Head(ring))
    /\ UNCHANGED <<kind, host, key, packet, encoder, channel, asking, net,
                   missed, viewer, control>>

\* A frame has the size of the screen; the encoder is set up for that of the
\* configuration and, after a change of level, for a smaller one.
Fits == configured /\ quality.level = 0

\* `frame.width != width_`: encode() returns false.
EncodeRefuses ==
    /\ phase = "encode" /\ ~Fits
    /\ Done(frame)
    /\ UNCHANGED <<kind, host, ring, key, packet, encoder, channel,
                   asking, net, missed, viewer, control>>

\* `isKeyFrame = keyFrameRequested_ || !hasRef_` ...
EncodeBegin ==
    /\ phase = "encode" /\ Fits
    /\ phase' = "finish" /\ key' = (requested \/ ~hasReference)
    /\ UNCHANGED <<kind, host, ring, frame, previous, packet, encoder, channel,
                   asking, net, missed, viewer, control>>

\* What a P-frame says of a tile: nothing when its hash is that of the
\* reference, else a copy of other rows or the tile itself.
TileChoices(t) ==
    IF frame[t] = reference[t] THEN {[mode |-> "skip"]}
    ELSE {[mode |-> "copy", content |-> frame[t]],
          [mode |-> "copy", content |-> Garbled],
          [mode |-> "coded", content |-> frame[t]]}

KeyTiles == [t \in Tiles |-> [mode |-> "coded", content |-> frame[t]]]
PredictedTiles ==
    {p \in [Tiles -> UNION {TileChoices(t) : t \in Tiles}] :
        \A t \in Tiles : p[t] \in TileChoices(t)}

\* Mutant: the tiles of a key frame leave the hashes as they were.
EncodeFinishKeyForgets ==
    /\ phase = "finish" /\ phase' = "send"
    /\ \E p \in IF key THEN {KeyTiles} ELSE PredictedTiles :
          packet' = [key |-> key, tiles |-> p]
    /\ requested' = FALSE /\ key' = FALSE /\ hasReference' = TRUE
    /\ reference' = IF key /\ hasReference THEN reference ELSE frame
    /\ UNCHANGED <<kind, host, ring, frame, previous, channel, asking, net,
                   missed, viewer, control>>

\* ... `keyFrameRequested_ = false`, the tiles, and the new reference.
EncodeFinish ==
    /\ phase = "finish" /\ phase' = "send"
    /\ \E p \in IF key THEN {KeyTiles} ELSE PredictedTiles :
          packet' = [key |-> key, tiles |-> p]
    /\ requested' = FALSE /\ key' = FALSE /\ hasReference' = TRUE
    /\ reference' = frame
    /\ UNCHANGED <<kind, host, ring, frame, previous, channel, asking, net,
                   missed, viewer, control>>

\* sendVideo(): the channel may not be open, or throw; the result is ignored.
Send ==
    /\ phase = "send" /\ Len(net) < MaxPackets
    /\ phase' = "adapt"
    /\ \/ channel = "open"
          /\ net' = Append(net, packet) /\ missed' = (missed /\ ~packet.key)
       \/ missed' = TRUE /\ UNCHANGED net
    /\ packet' = NoPacket
    /\ UNCHANGED <<kind, host, ring, frame, key, previous, encoder, channel,
                   asking, viewer, control>>

\* update(); after a change of resolution the encoder is initialised anew.
Adapt ==
    /\ phase = "adapt"
    /\ \E wish \in Wishes : Update(wish)
    /\ IF quality'.changed
       THEN hasReference' = FALSE /\ requested' = TRUE
       ELSE UNCHANGED <<hasReference, requested>>
    /\ Done(frame)
    /\ UNCHANGED <<kind, host, ring, key, packet, reference, channel,
                   asking, net, missed, viewer>>

---------------------------------------------------------------------------
(* The viewer.                                                             *)

\* decode(): what the tiles of p make of the reference.
Decoded(p) ==
    [t \in Tiles |->
        IF p.tiles[t].mode = "coded" THEN p.tiles[t].content
        ELSE IF picture = <<>> THEN Black
        ELSE IF p.tiles[t].mode = "skip" THEN picture[t]
        ELSE p.tiles[t].content]

\* Mutant: a picture that waits for its upload is not replaced.
ReceiveWaits ==
    /\ net # <<>> /\ net' = Tail(net)
    /\ picture' = Decoded(Head(net))
    /\ IF isNew THEN UNCHANGED <<pending, isNew>>
                ELSE pending' = picture' /\ isNew' = TRUE
    /\ UNCHANGED <<kind, host, ring, work, previous, encoder, channel, asking,
                   missed, shown, control>>

\* onNalUnit(), one at a time: WebRtcSession calls it under cbMutex_.
Receive ==
    /\ net # <<>> /\ net' = Tail(net)
    /\ picture' = Decoded(Head(net))
    /\ pending' = picture' /\ isNew' = TRUE
    /\ UNCHANGED <<kind, host, ring, work, previous, encoder, channel, asking,
                   missed, shown, control>>

\* processOnGlThread().
Upload ==
    /\ isNew /\ isNew' = FALSE
    /\ shown' = pending
    /\ UNCHANGED <<kind, host, ring, work, previous, encoder, channel, asking,
                   net, missed, picture, pending, control>>

---------------------------------------------------------------------------
EncodeStep ==
    TakeFrame \/ EncodeRefuses \/ EncodeBegin \/ EncodeFinish \/ Send \/ Adapt

Next ==
    \/ ScreenChange \/ Connected \/ RequestKeyFrame \/ ChannelOpen
    \/ Capture \/ EncodeStep
    \/ Receive \/ Upload

Spec == Init /\ [][Next]_vars

\* The four threads run; capture delivers at least what is new.
LiveSpec ==
    /\ Spec
    /\ WF_vars(Capture /\ fresh)
    /\ WF_vars(EncodeStep) /\ WF_vars(Receive) /\ WF_vars(Upload)

---------------------------------------------------------------------------
(* Properties.                                                             *)

\* The type invariant.
TypeOK ==
    /\ QualityTypeOK
    /\ kind \in BOOLEAN \X BOOLEAN
    /\ screen \in Frames /\ fresh \in BOOLEAN /\ changes \in 0..MaxChanges
    /\ ring \in Seq(Frames) /\ Len(ring) <= RingSize
    /\ phase \in {"pop", "encode", "finish", "send", "adapt"}
    /\ {frame, previous} \subseteq Frames \cup {NoFrame} /\ reference \in Frames
    /\ {hasReference, requested, key, asking, missed, isNew} \subseteq BOOLEAN
    /\ packet.key \in BOOLEAN /\ Len(net) <= MaxPackets
    /\ channel \in {"new", "connected", "open"}
    /\ picture \in Pictures \cup {<<>>}
    /\ pending \in Pictures /\ shown \in Pictures

\* Encoder and decoder agree: once a key frame and every packet since has been
\* sent and decoded, each tile of the decoder's reference is that of the encoder's
\* reference, unless a copy has garbled it.
ReferencesAgree ==
    ~missed /\ net = <<>> /\ phase # "send" =>
        \A t \in Tiles : picture[t] \in {reference[t], Garbled}

StreamInv == TypeOK /\ ReferencesAgree

\* The screen changes MaxChanges times and then stays as it is.  From some time on
\* a viewer that follows shows what was encoded last.
SentIsShown ==
    <>[](~missed => \A t \in Tiles : shown[t] \in {reference[t], Garbled})

\* The viewer converges to the screen, when the source keeps delivering frames,
\* all changes are noticed and the encoder takes the frames.
Converges ==
    WF_vars(Capture) =>
        <>[](~missed /\ ~fades /\ Fits =>
                \A t \in Tiles : shown[t] \in {screen[t], Garbled})

\* "Adaptive resolution: resize I420 frame if encode resolution differs from
\* native capture resolution": a screen that had the encoder's size when the
\* session began gives it frames of its own size for ever.
FramesFit == configured /\ phase = "encode" => Fits

=============================================================================
