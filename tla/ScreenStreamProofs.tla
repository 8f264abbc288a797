------------------------- MODULE ScreenStreamProofs -------------------------
(***************************************************************************)
(* ScreenStream, for any tiles, contents, sizes of the ring and numbers of *)
(* packets: encoder and decoder keep the same reference frame, whatever is *)
(* dropped, asked for or set up anew in between.                           *)
(*                                                                         *)
(* AdaptiveQuality, which it extends, for every ladder and every pair of   *)
(* thresholds: the level stays on the ladder, and no level is left before  *)
(* as many equal samples in a row as the threshold says.                   *)
(***************************************************************************)
EXTENDS ScreenStream, TLAPS

---------------------------------------------------------------------------
(* The level.                                                              *)

QVars == <<quality, streak>>

\* A sample in a row more: the streak is at least one longer than a counter that
\* it covers, as no counter has reached its threshold.
LEMMA LongerCovers ==
    ASSUME QualityTypeOK, NEW wish \in Wishes, NEW n \in Nat,
           n < DownscaleFrames \/ n < UpscaleFrames,
           n > 0 => streak.wish = wish /\ streak.count >= n
    PROVE  Longer(wish).wish = wish /\ Longer(wish).count >= n + 1
<1> USE LadderAssumption DEF QualityTypeOK
<1>1. CASE wish # streak.wish
  BY <1>1 DEF Longer
<1>2. CASE wish = streak.wish /\ streak.count < CountCap
  <2>1. Longer(wish) = [streak EXCEPT !.count = streak.count + 1]
    BY <1>2 DEF Longer
  <2>2. Longer(wish).wish = wish /\ Longer(wish).count = streak.count + 1
    BY <1>2, <2>1
  <2> QED
    BY <2>2 DEF CountCap
<1>3. CASE wish = streak.wish /\ ~(streak.count < CountCap)
  <2>1. Longer(wish) = streak
    BY <1>3 DEF Longer
  <2>2. streak.count >= CountCap
    BY <1>3 DEF CountCap
  <2> QED
    BY <1>3, <2>1, <2>2 DEF CountCap
<1> QED
  BY <1>1, <1>2, <1>3

LEMMA LongerType ==
    ASSUME QualityTypeOK, NEW wish \in Wishes
    PROVE  Longer(wish) \in [wish : Wishes, count : 0..CountCap]
BY LadderAssumption DEF QualityTypeOK, Longer, CountCap

\* A call of update() leaves the level on the ladder and the counters below
\* their thresholds.
LEMMA UpdateType ==
    ASSUME QualityTypeOK, NEW wish \in Wishes, Update(wish)
    PROVE  QualityTypeOK'
<1> USE LadderAssumption
<1>1. quality' \in [level : 0..(Levels - 1), down : 0..(DownscaleFrames - 1),
                    up : 0..(UpscaleFrames - 1), changed : BOOLEAN]
  <2> DEFINE Q == [level : 0..(Levels - 1), down : 0..(DownscaleFrames - 1),
                   up : 0..(UpscaleFrames - 1), changed : BOOLEAN]
  <2>1. quality \in Q /\ quality' = Updated(quality, wish)
    BY DEF Update, QualityTypeOK
  <2>2. CASE wish = "down" /\ MayGoDown(quality)
    <3>1. CASE DownDue(quality)
      <4>1. quality' = At(quality.level + 1)
        BY <2>1, <2>2, <3>1 DEF Updated
      <4>2. quality.level + 1 \in 0..(Levels - 1)
        BY <2>1, <2>2 DEF MayGoDown
      <4> QED
        BY <4>1, <4>2 DEF At
    <3>2. CASE ~DownDue(quality)
      <4>1. quality' = Counting(quality, quality.down + 1, 0)
        BY <2>1, <2>2, <3>2 DEF Updated
      <4>2. quality.down + 1 \in 0..(DownscaleFrames - 1)
        BY <2>1, <3>2 DEF DownDue
      <4> QED
        BY <2>1, <4>1, <4>2 DEF Counting
    <3> QED
      BY <3>1, <3>2
  <2>3. CASE wish = "up" /\ quality.level > 0
    <3>1. CASE UpDue(quality)
      <4>1. quality' = At(quality.level - 1)
        BY <2>1, <2>3, <3>1 DEF Updated
      <4>2. quality.level - 1 \in 0..(Levels - 1)
        BY <2>1, <2>3
      <4> QED
        BY <4>1, <4>2 DEF At
    <3>2. CASE ~UpDue(quality)
      <4>1. quality' = Counting(quality, 0, quality.up + 1)
        BY <2>1, <2>3, <3>2 DEF Updated
      <4>2. quality.up + 1 \in 0..(UpscaleFrames - 1)
        BY <2>1, <3>2 DEF UpDue
      <4> QED
        BY <2>1, <4>1, <4>2 DEF Counting
    <3> QED
      BY <3>1, <3>2
  <2>4. CASE ~(wish = "down" /\ MayGoDown(quality)) /\ ~(wish = "up" /\ quality.level > 0)
    <3>1. quality' = Counting(quality, 0, 0)
      BY <2>1, <2>4 DEF Updated, Interrupted
    <3> QED
      BY <2>1, <3>1 DEF Counting
  <2> QED
    BY <2>2, <2>3, <2>4
<1>2. streak' \in [wish : Wishes, count : 0..CountCap]
  BY LongerType DEF Update, NoStreak, Wishes, CountCap
<1> QED
  BY <1>1, <1>2 DEF QualityTypeOK, CountCap

\* The level stays on the ladder and each counter below its threshold: a counter
\* that reaches it is reset by the step it causes.
THEOREM QualityTypeCorrect == QualitySpec => []QualityTypeOK
<1> USE LadderAssumption
<1>1. QualityInit => QualityTypeOK
  BY DEF QualityInit, QualityTypeOK, Native, NoStreak, Wishes, CountCap
<1>2. QualityTypeOK /\ [QualityNext]_QVars => QualityTypeOK'
  <2> SUFFICES ASSUME QualityTypeOK, [QualityNext]_QVars PROVE QualityTypeOK'
    OBVIOUS
  <2>1. CASE Reset
    BY <2>1 DEF Reset, QualityTypeOK, Native, NoStreak, Wishes, CountCap
  <2>2. CASE \E wish \in Wishes : Update(wish)
    BY <2>2, UpdateType
  <2>3. CASE UNCHANGED QVars
    BY <2>3 DEF QVars, QualityTypeOK, CountCap
  <2> QED
    BY <2>1, <2>2, <2>3 DEF QualityNext
<1> QED
  BY <1>1, <1>2, PTL DEF QualitySpec, QVars


\* A sample that does not change the level leaves counters that the longer streak
\* covers.
LEMMA UpdateTrails ==
    ASSUME QualityInv, NEW wish \in Wishes, Update(wish)
    PROVE  CountersTrail'
<1> USE LadderAssumption DEF QualityInv, QualityTypeOK
<1>1. CASE quality'.changed
  <2>1. quality'.down = 0 /\ quality'.up = 0
    BY <1>1 DEF Update, Updated, At, Interrupted, Counting, MayGoDown, DownDue, UpDue
  <2> QED
    BY <2>1 DEF CountersTrail
<1>2. CASE ~quality'.changed
  <2>1. streak' = Longer(wish)
    BY <1>2 DEF Update
  <2>2. CASE wish = "down" /\ MayGoDown(quality) /\ ~DownDue(quality)
    <3>1. quality'.down = quality.down + 1 /\ quality'.up = 0
      BY <2>2 DEF Update, Updated, Counting
    <3>2. Longer(wish).wish = wish /\ Longer(wish).count >= quality.down + 1
      BY <2>2, LongerCovers DEF CountersTrail
    <3> QED
      BY <2>1, <2>2, <3>1, <3>2 DEF CountersTrail
  <2>3. CASE wish = "up" /\ quality.level > 0 /\ ~UpDue(quality)
    <3>1. quality'.up = quality.up + 1 /\ quality'.down = 0
      BY <2>3 DEF Update, Updated, Counting
    <3>2. Longer(wish).wish = wish /\ Longer(wish).count >= quality.up + 1
      BY <2>3, LongerCovers DEF CountersTrail
    <3> QED
      BY <2>1, <2>3, <3>1, <3>2 DEF CountersTrail
  <2>4. CASE /\ ~(wish = "down" /\ MayGoDown(quality))
             /\ ~(wish = "up" /\ quality.level > 0)
    BY <2>4 DEF Update, Updated, Interrupted, Counting, CountersTrail
  <2> QED
    BY <1>2, <2>2, <2>3, <2>4 DEF Update, Updated, At
<1> QED
  BY <1>1, <1>2

\* No counter runs ahead of the streak, so that it cannot be due too early.
THEOREM QualityCountersTrail == QualitySpec => []CountersTrail
<1>1. QualityInit => CountersTrail
  BY DEF QualityInit, CountersTrail, Native
<1>2. QualityTypeOK /\ CountersTrail /\ [QualityNext]_QVars => CountersTrail'
  <2> SUFFICES ASSUME QualityTypeOK, CountersTrail, [QualityNext]_QVars
               PROVE  CountersTrail'
    OBVIOUS
  <2>1. CASE Reset
    BY <2>1 DEF Reset, CountersTrail, Native
  <2>2. CASE \E wish \in Wishes : Update(wish)
    BY <2>2, UpdateTrails DEF QualityInv
  <2>3. CASE UNCHANGED QVars
    BY <2>3 DEF QVars, CountersTrail
  <2> QED
    BY <2>1, <2>2, <2>3 DEF QualityNext
<1> QED
  BY <1>1, <1>2, QualityTypeCorrect, PTL DEF QualitySpec, QVars

\* Both together: the level stays on the ladder and no counter is ahead.
THEOREM QualityInvariant == QualitySpec => []QualityInv
<1>1. QualityTypeOK /\ CountersTrail => QualityInv
  BY DEF QualityInv
<1> QED
  BY <1>1, QualityTypeCorrect, QualityCountersTrail, PTL

\* The level moves by one step, after as many equal wishes in a row as its
\* threshold says, unless the controller is reset.
THEOREM QualityHysteresis == QualitySpec => Hysteresis
<1> DEFINE Moved == quality'.level # quality.level => StepDown \/ StepUp \/ Reset
<1>1. QualityTypeOK /\ CountersTrail /\ [QualityNext]_QVars => [Moved]_QVars
  <2> SUFFICES ASSUME QualityTypeOK, CountersTrail, [QualityNext]_QVars,
                      quality'.level # quality.level
               PROVE  StepDown \/ StepUp \/ Reset
    BY DEF QVars
  <2>1. CASE Reset
    BY <2>1
  <2>2. ASSUME NEW wish \in Wishes, Update(wish) PROVE StepDown \/ StepUp
    <3> USE LadderAssumption DEF QualityTypeOK
    <3>1. CASE wish = "down" /\ MayGoDown(quality) /\ DownDue(quality)
      <4>1. quality'.level = quality.level + 1
        BY <2>2, <3>1 DEF Update, Updated, At
      <4>2. Longer("down").count >= quality.down + 1
        BY <3>1, LongerCovers DEF CountersTrail, Wishes
      <4>3. Longer("down").count \in Nat
        BY LongerType DEF Wishes, CountCap
      <4> QED
        BY <3>1, <4>1, <4>2, <4>3 DEF StepDown, DownDue
    <3>2. CASE wish = "up" /\ quality.level > 0 /\ UpDue(quality)
      <4>1. quality'.level = quality.level - 1
        BY <2>2, <3>2 DEF Update, Updated, At
      <4>2. Longer("up").count >= quality.up + 1
        BY <3>2, LongerCovers DEF CountersTrail, Wishes
      <4>3. Longer("up").count \in Nat
        BY LongerType DEF Wishes, CountCap
      <4> QED
        BY <3>2, <4>1, <4>2, <4>3 DEF StepUp, UpDue
    <3>3. CASE /\ ~(wish = "down" /\ MayGoDown(quality) /\ DownDue(quality))
               /\ ~(wish = "up" /\ quality.level > 0 /\ UpDue(quality))
      BY <2>2, <3>3 DEF Update, Updated, Interrupted, Counting
    <3> QED
      BY <3>1, <3>2, <3>3
  <2> QED
    BY <2>1, <2>2 DEF QualityNext, QVars
<1> QED
  BY <1>1, QualityTypeCorrect, QualityCountersTrail, PTL
     DEF QualitySpec, Hysteresis, QVars

---------------------------------------------------------------------------
(* The reference frames.                                                   *)

\* What a packet says of a tile.
Sayings ==
    [mode : {"skip"}]
        \cup [mode : {"copy", "coded"}, content : Contents \cup {Garbled}]
Packets == [key : BOOLEAN, tiles : [Tiles -> Sayings]]

\* What the threads hold between two of their steps.
HandTypes ==
    /\ phase # "pop" => frame \in Frames
    /\ phase = "send" => packet \in Packets
    /\ net \in Seq(Packets)

StreamTypes == TypeOK /\ HandTypes

\* p shows b without the help of an earlier frame, or on top of a.
Whole(p, b) ==
    \A t \in Tiles : p.tiles[t].mode = "coded" /\ p.tiles[t].content = b[t]
Shows(p, a, b) ==
    \A t \in Tiles :
        \/ p.tiles[t].mode = "coded" /\ p.tiles[t].content = b[t]
        \/ p.tiles[t].mode = "skip" /\ a[t] = b[t]
        \/ p.tiles[t].mode = "copy" /\ p.tiles[t].content \in {b[t], Garbled}

Agrees(b) ==
    \A t \in Tiles : picture # <<>> /\ picture[t] \in {b[t], Garbled}

\* refs[i] is the encoder's reference when the i-th packet on its way was made.
\* The decoder starts from a picture that agrees, or from the k-th packet, which
\* needs none; each later packet leads from one reference to the next.
Follows(refs, k) ==
    /\ IF k = 0 THEN Agrees(refs[0]) ELSE Whole(net[k], refs[k])
    /\ \A i \in (k + 1)..Len(net) : Shows(net[i], refs[i - 1], refs[i])
    /\ IF phase = "send" THEN Shows(packet, refs[Len(net)], reference)
                         ELSE refs[Len(net)] = reference

Chain ==
    /\ ~missed =>
          \E refs \in [0..Len(net) -> Frames] : \E k \in 0..Len(net) : Follows(refs, k)
    /\ phase = "send" /\ packet.key => Whole(packet, reference)

---------------------------------------------------------------------------
(* Types.                                                                  *)

\* The tiles of a packet, whether key frame or not.
LEMMA TilesTyped ==
    ASSUME StreamTypes, frame \in Frames,
           NEW p \in IF key THEN {KeyTiles} ELSE PredictedTiles
    PROVE  p \in [Tiles -> Sayings]
<1> USE DEF StreamTypes, TypeOK, Frames
<1>1. CASE key
  BY <1>1 DEF KeyTiles, Sayings
<1>2. CASE ~key
  <2>1. DOMAIN p = Tiles /\ p = [t \in Tiles |-> p[t]]
    BY <1>2 DEF PredictedTiles
  <2>2. ASSUME NEW t \in Tiles PROVE p[t] \in Sayings
    <3>1. p[t] \in TileChoices(t) /\ frame[t] \in Contents
      BY <1>2 DEF PredictedTiles
    <3> QED
      BY <3>1 DEF TileChoices, Sayings
  <2> QED
    BY <2>1, <2>2
<1> QED
  BY <1>1, <1>2

\* A decoded packet is a picture.
LEMMA DecodedTyped ==
    ASSUME StreamTypes, NEW p \in Packets
    PROVE  Decoded(p) \in Pictures
<1> SUFFICES ASSUME NEW t \in Tiles
             PROVE  (IF p.tiles[t].mode = "coded" THEN p.tiles[t].content
                     ELSE IF picture = <<>> THEN Black
                     ELSE IF p.tiles[t].mode = "skip" THEN picture[t]
                     ELSE p.tiles[t].content) \in Contents \cup {Black, Garbled}
  BY DEF Decoded, Pictures
<1>1. p.tiles[t] \in Sayings
  BY DEF Packets
<1>2. p.tiles[t].mode # "skip" => p.tiles[t].content \in Contents \cup {Garbled}
  BY <1>1 DEF Sayings
<1>3. picture # <<>> => picture[t] \in Contents \cup {Black, Garbled}
  BY DEF StreamTypes, TypeOK, Pictures
<1> QED
  BY <1>2, <1>3

LEMMA InitTypes == Init => StreamTypes
<1> SUFFICES ASSUME Init PROVE StreamTypes
  OBVIOUS
<1> USE StreamAssumption, LadderAssumption DEF Init
<1>1. QualityTypeOK
  BY DEF QualityInit, QualityTypeOK, Native, NoStreak, Wishes, CountCap
<1>2. screen \in Frames /\ reference \in Frames
  BY DEF Frames
<1>3. ring \in Seq(Frames) /\ Len(ring) = 0 /\ net \in Seq(Packets) /\ Len(net) = 0
  OBVIOUS
<1>4. Blank \in Pictures
  BY DEF Blank, Pictures
<1>5. packet.key \in BOOLEAN
  BY DEF NoPacket
<1>6. {frame, previous} \subseteq Frames \cup {NoFrame}
  OBVIOUS
<1>7. /\ kind \in BOOLEAN \X BOOLEAN /\ fresh \in BOOLEAN
      /\ {hasReference, requested, key, asking, missed, isNew} \subseteq BOOLEAN
  BY DEF kind
<1>8. changes \in 0..MaxChanges /\ Len(ring) <= RingSize /\ Len(net) <= MaxPackets
  BY <1>3
<1>9. channel = "new" /\ phase = "pop" /\ picture = <<>> /\ pending = Blank /\ shown = Blank
  OBVIOUS
<1> HIDE DEF Init
<1> QED
  BY <1>1, <1>2, <1>3, <1>4, <1>5, <1>6, <1>7, <1>8, <1>9 DEF StreamTypes, TypeOK, HandTypes, kind

\* The capture thread, the connection and the viewer.
LEMMA OutsideTypes ==
    ASSUME StreamTypes,
           \/ ScreenChange \/ Connected \/ RequestKeyFrame \/ ChannelOpen
           \/ Capture \/ Receive \/ Upload
    PROVE  StreamTypes'
<1> USE StreamAssumption
    DEF StreamTypes, TypeOK, HandTypes, kind, host, encoder, work, viewer,
        control, QualityTypeOK, CountCap
<1>1. CASE ScreenChange
  <2>1. screen' \in Frames
    <3>1. PICK t \in Tiles : \E c \in (IF fades THEN Contents ELSE Sharp) \ {screen[t]} :
                screen' = [screen EXCEPT ![t] = c]
      BY <1>1 DEF ScreenChange
    <3> QED
      BY <3>1 DEF Frames, Sharp
  <2>2. changes' \in 0..MaxChanges
    BY <1>1 DEF ScreenChange
  <2> QED
    BY <1>1, <2>1, <2>2 DEF ScreenChange
<1>2. CASE Connected
  BY <1>2 DEF Connected
<1>3. CASE RequestKeyFrame
  BY <1>3 DEF RequestKeyFrame
<1>4. CASE ChannelOpen
  BY <1>4 DEF ChannelOpen
<1>5. CASE Capture
  <2>1. ring' \in Seq(Frames) /\ Len(ring') <= RingSize
    BY <1>5 DEF Capture
  <2> QED
    BY <1>5, <2>1 DEF Capture
<1>6. CASE Receive
  <2>1. Head(net) \in Packets /\ net' \in Seq(Packets) /\ Len(net') <= MaxPackets
    BY <1>6 DEF Receive
  <2>2. picture' \in Pictures /\ pending' \in Pictures
    BY <1>6, <2>1, DecodedTyped DEF Receive
  <2> QED
    BY <1>6, <2>1, <2>2 DEF Receive
<1>7. CASE Upload
  BY <1>7 DEF Upload
<1> QED
  BY <1>1, <1>2, <1>3, <1>4, <1>5, <1>6, <1>7

LEMMA Appended ==
    ASSUME NEW S, NEW s \in Seq(S), NEW e \in S
    PROVE  Append(s, e) \in Seq(S) /\ Len(Append(s, e)) = Len(s) + 1 /\ Len(s) \in Nat
OBVIOUS

\* The encode thread.
LEMMA EncodeTypes ==
    ASSUME StreamTypes, EncodeStep
    PROVE  StreamTypes'
<1> USE StreamAssumption
    DEF StreamTypes, TypeOK, HandTypes, kind, host, encoder, work, viewer, control
<1>0. UNCHANGED <<quality, streak>> => QualityTypeOK'
  BY DEF QualityTypeOK, CountCap
<1>1. CASE TakeFrame
  <2>1. Head(ring) \in Frames /\ ring' \in Seq(Frames) /\ Len(ring') <= RingSize
    BY <1>1 DEF TakeFrame
  <2> QED
    BY <1>0, <1>1, <2>1 DEF TakeFrame, Done
<1>2. CASE EncodeRefuses
  BY <1>0, <1>2 DEF EncodeRefuses, Done
<1>3. CASE EncodeBegin
  BY <1>0, <1>3 DEF EncodeBegin
<1>4. CASE EncodeFinish
  <2>1. PICK p \in IF key THEN {KeyTiles} ELSE PredictedTiles :
              packet' = [key |-> key, tiles |-> p]
    BY <1>4 DEF EncodeFinish
  <2>2. frame \in Frames
    BY <1>4 DEF EncodeFinish
  <2>3. packet' \in Packets /\ packet'.key \in BOOLEAN
    BY <2>1, <2>2, TilesTyped DEF Packets
  <2> QED
    BY <1>0, <1>4, <2>2, <2>3 DEF EncodeFinish
<1>5. CASE Send
  <2>1. net' \in Seq(Packets) /\ Len(net') <= MaxPackets
    <3>1. net' = Append(net, packet) \/ net' = net
      BY <1>5, Zenon DEF Send
    <3>2. packet \in Packets /\ Len(net) < MaxPackets
      BY <1>5 DEF Send
    <3>3. /\ Append(net, packet) \in Seq(Packets) /\ Len(net) \in Nat
          /\ Len(Append(net, packet)) = Len(net) + 1
      BY <3>2, Appended
    <3>4. Len(Append(net, packet)) <= MaxPackets
      BY <3>2, <3>3
    <3> QED
      BY <3>1, <3>3, <3>4
  <2>2. packet'.key \in BOOLEAN
    BY <1>5 DEF Send, NoPacket
  <2>3. missed' \in BOOLEAN
    <3>1. \/ missed' = (missed /\ ~packet.key)
          \/ missed' = TRUE
      BY <1>5 DEF Send
    <3> QED
      BY <3>1, Zenon
  <2> QED
    BY <1>0, <1>5, <2>1, <2>2, <2>3 DEF Send
<1>6. CASE Adapt
  <2>1. QualityTypeOK'
    BY <1>6, UpdateType DEF Adapt
  <2>2. frame \in Frames
    BY <1>6 DEF Adapt
  <2>3. hasReference' \in BOOLEAN /\ requested' \in BOOLEAN
    BY <1>6 DEF Adapt
  <2> QED
    BY <1>6, <2>1, <2>2, <2>3 DEF Adapt, Done
<1> QED
  BY <1>1, <1>2, <1>3, <1>4, <1>5, <1>6 DEF EncodeStep

LEMMA NextTypes ==
    ASSUME StreamTypes, [Next]_vars
    PROVE  StreamTypes'
<1>1. CASE UNCHANGED vars
  BY <1>1 DEF vars, StreamTypes, TypeOK, HandTypes, kind, host, encoder, work,
      viewer, control, QualityTypeOK, CountCap
<1> QED
  BY <1>1, OutsideTypes, EncodeTypes DEF Next

---------------------------------------------------------------------------
(* The chain of references.                                                *)

LEMMA InitChain == Init => Chain
BY DEF Init, Chain

\* A step that touches neither packets nor references.
LEMMA ChainUntouched ==
    ASSUME Chain, phase' = "send" => phase = "send", phase = "send" => phase' = "send",
           UNCHANGED <<net, picture, reference, packet>>,
           missed' = missed
    PROVE  Chain'
BY DEF Chain, Follows, Agrees, Whole, Shows

\* A tile that is not coded differs from the reference or is skipped.
LEMMA TilesShow ==
    ASSUME StreamTypes, frame \in Frames,
           NEW p \in IF key THEN {KeyTiles} ELSE PredictedTiles,
           NEW b
    PROVE  LET said == [key |-> b, tiles |-> p] IN
           Shows(said, reference, frame) /\ (key => Whole(said, frame))
<1> DEFINE said == [key |-> b, tiles |-> p]
<1>1. CASE key
  BY <1>1 DEF KeyTiles, Shows, Whole
<1>2. CASE ~key
  <2>1. ASSUME NEW t \in Tiles
        PROVE  \/ p[t].mode = "coded" /\ p[t].content = frame[t]
               \/ p[t].mode = "skip" /\ reference[t] = frame[t]
               \/ p[t].mode = "copy" /\ p[t].content \in {frame[t], Garbled}
    <3>1. p[t] \in TileChoices(t)
      BY <1>2 DEF PredictedTiles
    <3>2. CASE frame[t] = reference[t]
      BY <3>1, <3>2 DEF TileChoices
    <3>3. CASE frame[t] # reference[t]
      BY <3>1, <3>3 DEF TileChoices
    <3> QED
      BY <3>2, <3>3
  <2> QED
    BY <1>2, <2>1 DEF Shows
<1> QED
  BY <1>1, <1>2

\* encode(): the packet leads from the old reference to the new one.
LEMMA FinishChain ==
    ASSUME StreamTypes, Chain, EncodeFinish
    PROVE  Chain'
<1>1. PICK p \in IF key THEN {KeyTiles} ELSE PredictedTiles :
            packet' = [key |-> key, tiles |-> p]
  BY DEF EncodeFinish
<1>2. frame \in Frames
  BY DEF EncodeFinish, StreamTypes, HandTypes
<1>3. Shows(packet', reference, frame) /\ (key => Whole(packet', frame)) /\ packet'.key = key
  BY <1>1, <1>2, TilesShow
<1>4. /\ phase = "finish" /\ phase' = "send" /\ reference' = frame
      /\ UNCHANGED <<net, picture, missed>>
  BY DEF EncodeFinish, viewer
<1>5. ASSUME ~missed
      PROVE  \E refs \in [0..Len(net) -> Frames] : \E k \in 0..Len(net) : Follows(refs, k)'
  <2>1. PICK refs \in [0..Len(net) -> Frames] : \E k \in 0..Len(net) : Follows(refs, k)
    BY <1>5 DEF Chain
  <2>2. PICK k \in 0..Len(net) : Follows(refs, k)
    BY <2>1
  <2>3. refs[Len(net)] = reference
    BY <1>4, <2>2 DEF Follows
  <2>4. Follows(refs, k)'
    BY <1>3, <1>4, <2>2, <2>3 DEF Follows, Agrees, Shows, Whole
  <2> QED
    BY <2>4
<1> QED
  BY <1>3, <1>4, <1>5 DEF Chain

\* sendVideo(): the packet is the last of the chain, begins one, or breaks it.
LEMMA SendChain ==
    ASSUME StreamTypes, Chain, Send
    PROVE  Chain'
<1>1. /\ phase = "send" /\ phase' = "adapt" /\ packet \in Packets
      /\ UNCHANGED <<picture, reference>>
  BY DEF Send, StreamTypes, HandTypes, encoder, viewer
<1>2. CASE missed' = TRUE /\ UNCHANGED net
  BY <1>1, <1>2 DEF Chain
<1>3. CASE /\ channel = "open"
           /\ net' = Append(net, packet) /\ missed' = (missed /\ ~packet.key)
  <2>0. net \in Seq(Packets) /\ reference \in Frames
    BY DEF StreamTypes, HandTypes, TypeOK
  <2>1. /\ net' = Append(net, packet) /\ missed' = (missed /\ ~packet.key)
    BY <1>3
  <2>2. /\ Len(net) \in Nat /\ Len(net') = Len(net) + 1
        /\ net'[Len(net) + 1] = packet
        /\ \A i \in 1..Len(net) : net'[i] = net[i]
    BY <1>1, <2>0, <2>1
  <2>3. CASE ~missed
    <3>1. PICK refs \in [0..Len(net) -> Frames], k \in 0..Len(net) : Follows(refs, k)
      BY <2>3 DEF Chain
    <3>2. PICK longer \in [0..Len(net') -> Frames] :
              longer = [i \in 0..Len(net') |-> IF i <= Len(net) THEN refs[i] ELSE reference]
      BY <2>0, <2>2
    <3>3. /\ \A i \in 0..Len(net) : longer[i] = refs[i]
          /\ longer[Len(net) + 1] = reference
          /\ k \in 0..Len(net')
      BY <2>2, <3>2
    <3>4. IF k = 0 THEN Agrees(longer[0])' ELSE Whole(net'[k], longer[k])
      BY <1>1, <2>2, <3>1, <3>3 DEF Follows, Agrees
    <3>5. ASSUME NEW i \in (k + 1)..Len(net')
          PROVE  Shows(net'[i], longer[i - 1], longer[i])
      <4>1. CASE i = Len(net) + 1
        BY <1>1, <2>2, <3>1, <3>3, <4>1 DEF Follows
      <4>2. CASE i # Len(net) + 1
        <5>1. i \in (k + 1)..Len(net) /\ i \in 1..Len(net) /\ i - 1 \in 0..Len(net)
          BY <2>2, <4>2
        <5> QED
          BY <2>2, <3>1, <3>3, <5>1 DEF Follows
      <4> QED
        BY <4>1, <4>2
    <3>6. longer[Len(net')] = reference'
      BY <1>1, <2>2, <3>3
    <3>7. Follows(longer, k)'
      BY <1>1, <3>4, <3>5, <3>6 DEF Follows, Agrees, Shows, Whole
    <3> QED
      BY <1>1, <3>3, <3>7 DEF Chain
  <2>4. CASE missed /\ packet.key
    <3>0. PICK all \in [0..Len(net') -> Frames] : all = [i \in 0..Len(net') |-> reference]
      BY <2>0, <2>2
    <3>1. PICK last \in 0..Len(net') : last = Len(net) + 1
      BY <2>2
    <3>2. all[last] = reference /\ all[Len(net')] = reference /\ last # 0
      BY <2>2, <3>0, <3>1
    <3>3. Whole(net'[last], all[last])
      BY <1>1, <2>2, <2>4, <3>1, <3>2 DEF Chain
    <3>4. (last + 1)..Len(net') = {}
      BY <2>2, <3>1
    <3>5. Follows(all, last)'
      BY <1>1, <3>2, <3>3, <3>4 DEF Follows, Whole, Shows
    <3> QED
      BY <1>1, <3>1, <3>5 DEF Chain
  <2>5. CASE missed /\ ~packet.key
    BY <1>1, <2>1, <2>5 DEF Chain
  <2> QED
    BY <2>3, <2>4, <2>5
<1> QED
  BY <1>2, <1>3 DEF Send

\* decode(): what a tile says makes an agreeing picture agree with the next reference.
LEMMA DecodedAgrees ==
    ASSUME NEW p, NEW b,
           \/ Whole(p, b)
           \/ \E a : Agrees(a) /\ Shows(p, a, b),
           picture' = Decoded(p)
    PROVE  Agrees(b)'
<1> SUFFICES ASSUME NEW t \in Tiles
             PROVE  picture' # <<>> /\ picture'[t] \in {b[t], Garbled}
  BY DEF Agrees
<1>1. picture' # <<>>
  <2>1. DOMAIN picture' = Tiles
    BY DEF Decoded
  <2>2. DOMAIN <<>> = {}
    OBVIOUS
  <2> QED
    BY <2>1, <2>2
<1>2. picture'[t] = IF p.tiles[t].mode = "coded" THEN p.tiles[t].content
                    ELSE IF picture = <<>> THEN Black
                    ELSE IF p.tiles[t].mode = "skip" THEN picture[t]
                    ELSE p.tiles[t].content
  BY DEF Decoded
<1>3. CASE Whole(p, b)
  BY <1>1, <1>2, <1>3 DEF Whole
<1>4. ASSUME NEW a, Agrees(a), Shows(p, a, b)
      PROVE  picture'[t] \in {b[t], Garbled}
  BY <1>2, <1>4 DEF Agrees, Shows
<1> QED
  BY <1>1, <1>3, <1>4

\* onNalUnit(): the chain loses its first link.
LEMMA ReceiveChain ==
    ASSUME StreamTypes, Chain, Receive
    PROVE  Chain'
<1>1. /\ net # <<>> /\ net' = Tail(net) /\ picture' = Decoded(net[1])
      /\ UNCHANGED <<phase, packet, reference, missed>>
  BY DEF Receive, work, encoder
<1>2. net \in Seq(Packets)
  BY DEF StreamTypes, HandTypes
<1>3. /\ Len(net) \in Nat /\ Len(net) >= 1 /\ Len(net') = Len(net) - 1
      /\ \A i \in 1..Len(net') : net'[i] = net[i + 1]
  BY <1>1, <1>2
<1> SUFFICES ASSUME ~missed
             PROVE  \E refs \in [0..Len(net') -> Frames] :
                        \E k \in 0..Len(net') : Follows(refs, k)'
  BY <1>1 DEF Chain, Whole
<1>4. PICK refs \in [0..Len(net) -> Frames], k \in 0..Len(net) : Follows(refs, k)
  BY DEF Chain
<1>5. PICK rest \in [0..Len(net') -> Frames] : \A i \in 0..Len(net') : rest[i] = refs[i + 1]
  <2> DEFINE r == [i \in 0..Len(net') |-> refs[i + 1]]
  <2>1. r \in [0..Len(net') -> Frames] /\ \A i \in 0..Len(net') : r[i] = refs[i + 1]
    BY <1>3
  <2> HIDE DEF r
  <2> QED
    BY <2>1
<1>6. PICK first \in 0..Len(net') : first = IF k = 0 THEN 0 ELSE k - 1
  BY <1>3
<1>7. IF first = 0 THEN Agrees(rest[0])' ELSE Whole(net'[first], rest[first])
  <2>1. CASE k = 0
    <3>1. Agrees(refs[0]) /\ Shows(net[1], refs[0], refs[1])
      BY <1>3, <1>4, <2>1 DEF Follows
    <3>2. rest[0] = refs[1] /\ first = 0
      BY <1>3, <1>5, <1>6, <2>1
    <3>3. Agrees(refs[1])'
      BY <1>1, <3>1, DecodedAgrees
    <3> QED
      BY <3>2, <3>3
  <2>2. CASE k = 1
    BY <1>1, <1>3, <1>4, <1>5, <1>6, <2>2, DecodedAgrees DEF Follows
  <2>3. CASE k > 1
    BY <1>3, <1>4, <1>5, <1>6, <2>3 DEF Follows
  <2> QED
    BY <2>1, <2>2, <2>3
<1>8. ASSUME NEW i \in (first + 1)..Len(net')
      PROVE  Shows(net'[i], rest[i - 1], rest[i])
  <2>1. i + 1 \in (k + 1)..Len(net) /\ i \in 1..Len(net') /\ i - 1 \in 0..Len(net')
        /\ i \in 0..Len(net') /\ (i - 1) + 1 = (i + 1) - 1
    BY <1>3, <1>6
  <2>2. Shows(net[i + 1], refs[(i + 1) - 1], refs[i + 1])
    BY <1>4, <2>1 DEF Follows
  <2> QED
    BY <1>3, <1>5, <2>1, <2>2
<1>9. rest[Len(net')] = refs[Len(net)]
  BY <1>3, <1>5
<1>10. Follows(rest, first)'
  <2>1. IF phase = "send" THEN Shows(packet, rest[Len(net')], reference)
                          ELSE rest[Len(net')] = reference
    BY <1>4, <1>9 DEF Follows
  <2>2. UNCHANGED <<phase, packet, reference>>
    BY <1>1
  <2> QED
    BY <1>7, <1>8, <2>1, <2>2 DEF Follows, Agrees, Shows, Whole
<1> QED
  BY <1>10

LEMMA NextChain ==
    ASSUME StreamTypes, Chain, [Next]_vars
    PROVE  Chain'
<1> USE ChainUntouched DEF host, encoder, work, viewer
<1>1. CASE ScreenChange \/ Connected \/ RequestKeyFrame \/ ChannelOpen
  BY <1>1 DEF ScreenChange, Connected, RequestKeyFrame, ChannelOpen
<1>2. CASE Capture \/ Upload
  BY <1>2 DEF Capture, Upload
<1>3. CASE TakeFrame \/ EncodeRefuses \/ EncodeBegin
  BY <1>3 DEF TakeFrame, EncodeRefuses, EncodeBegin, Done
<1>4. CASE Adapt
  BY <1>4 DEF Adapt, Done
<1>5. CASE UNCHANGED vars
  BY <1>5 DEF vars
<1> QED
  BY <1>1, <1>2, <1>3, <1>4, <1>5, FinishChain, SendChain, ReceiveChain
  DEF Next, EncodeStep

\* For any screen, ring and channel: once a key frame and every packet since has
\* been sent and decoded, the decoder's reference is the encoder's, tile by tile,
\* unless a copy has garbled the tile; and every variable keeps its type.
THEOREM StreamInvariant == Spec => []StreamInv
<1>1. Init => StreamTypes /\ Chain
  BY InitTypes, InitChain
<1>2. StreamTypes /\ Chain /\ [Next]_vars => (StreamTypes /\ Chain)'
  BY NextTypes, NextChain
<1>3. StreamTypes /\ Chain => StreamInv
  <2> SUFFICES ASSUME StreamTypes, Chain, ~missed, net = <<>>, phase # "send",
                      NEW t \in Tiles
               PROVE  picture[t] \in {reference[t], Garbled}
    BY DEF StreamInv, ReferencesAgree, StreamTypes
  <2>1. PICK refs \in [0..Len(net) -> Frames], k \in 0..Len(net) : Follows(refs, k)
    BY DEF Chain
  <2>2. Len(net) = 0 /\ k = 0
    OBVIOUS
  <2> QED
    BY <2>1, <2>2 DEF Follows, Agrees
<1> QED
  BY <1>1, <1>2, <1>3, PTL DEF Spec

=============================================================================
