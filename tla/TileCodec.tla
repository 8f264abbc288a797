------------------------------- MODULE TileCodec -------------------------------
(***************************************************************************)
(* One tile through TileEncoder and TileDecoder, in src/src/codec/omni/:   *)
(* colour transform, prediction, quantisation, symbols, and back.  Only    *)
(* the entropy coder in between is left out; RansCodec shows that it gives *)
(* the symbols back.                                                       *)
(*                                                                         *)
(* OmniCodec passes no neighbours to any tile, so that DC, the planar and  *)
(* the directional modes all predict zero and only LEFT_PIXEL competes.    *)
(* What the DCT of LOSSY tiles makes of its blocks is left open: any       *)
(* values.  Tiles at the right and lower edge of most screens have columns *)
(* and rows that no block covers.                                          *)
(***************************************************************************)
EXTENDS Integers, FiniteSetsExt

CONSTANTS
    TileWidth, TileHeight,
    ByteValues,         \* 256: of a colour component and of a symbol
    Tiles,              \* bound: the tiles that are coded
    MaxError,           \* OmniEncoderConfig::nearLosslessMaxError
    Transforms          \* bound: what the DCT with its quantisation, and the
                        \* way back, make of the blocks of a LOSSY tile

Half == ByteValues \div 2
Word == ByteValues * ByteValues     \* int16_t
Cells == 0..(TileWidth * TileHeight - 1)
Column(i) == i % TileWidth
Row(i) == i \div TileWidth
Planes == {"y", "co", "cg"}
Pixels == [b : 0..(ByteValues - 1), g : 0..(ByteValues - 1), r : 0..(ByteValues - 1)]

ASSUME TileAssumption ==
    /\ TileWidth \in Nat \ {0} /\ TileHeight \in Nat \ {0}
    /\ ByteValues \in Nat /\ ByteValues >= 4 /\ ByteValues % 2 = 0
    /\ Tiles \subseteq [Cells -> Pixels]
    /\ MaxError \in Nat
    /\ Transforms \subseteq [Planes -> [Cells -> (-(Word \div 2))..(Word \div 2 - 1)]]

VARIABLES
    tileStep,           \* "source", "encoded", "shown"
    source,             \* the tile in the captured frame
    tileMode,           \* "LOSSLESS", "NEAR_LOSSLESS", "LOSSY"
    avx2,               \* cpuSupportsAVX2() on the viewer
    stream,             \* what the encoder writes
    shown               \* the tile in the decoded frame

tileVars == <<tileStep, source, tileMode, avx2, stream, shown>>

---------------------------------------------------------------------------
(* YCoCg-R.  `>> 1` rounds down, as \div does.                             *)

ToYCoCg(p) ==
    LET co == p.r - p.b
        t == p.b + co \div 2
        cg == p.g - t
    IN [y |-> t + cg \div 2, co |-> co, cg |-> cg]

\* Mutant: Cg is halved towards zero.
FromYCoCgTowardsZero(c) ==
    LET t == c.y - (IF c.cg < 0 THEN -((-c.cg) \div 2) ELSE c.cg \div 2)
        b == t - c.co \div 2
    IN [b |-> b, g |-> c.cg + t, r |-> c.co + b]

FromYCoCg(c) ==
    LET t == c.y - c.cg \div 2
        b == t - c.co \div 2
    IN [b |-> b, g |-> c.cg + t, r |-> c.co + b]

\* AVX2 and the scalar loop clamp to a byte.  SSE2 masks its groups of four
\* columns with 0xFF and clamps the rest.
Masks(i) == ~avx2 /\ Column(i) < (TileWidth \div 4) * 4

ToByte(v, i) ==
    IF Masks(i) THEN v % ByteValues
    ELSE IF v < 0 THEN 0
    ELSE IF v >= ByteValues THEN ByteValues - 1
    ELSE v

Pixel(c, i) ==
    LET p == FromYCoCg(c)
    IN [b |-> ToByte(p.b, i), g |-> ToByte(p.g, i), r |-> ToByte(p.r, i)]

---------------------------------------------------------------------------
(* Prediction.                                                             *)

Magnitude(v) == IF v < 0 THEN -v ELSE v
SumOfMagnitudes(f) == MapThenSumSet(LAMBDA i : Magnitude(f[i]), Cells)

\* The pixel that LEFT_PIXEL predicts from: the left one, in the first column
\* the one above.
Previous(i) == IF i % TileWidth > 0 THEN i - 1 ELSE i - TileWidth

LeftPixel(channel) ==
    [i \in Cells |-> IF i = 0 THEN channel[0] ELSE channel[i] - channel[Previous(i)]]

InverseLeftPixel(residual) ==
    LET out[i \in Cells] ==
            residual[i] + (IF i = 0 THEN 0 ELSE out[Previous(i)])
    IN out

\* selectPredMode() without neighbours.
PredictsLeft(channel) ==
    SumOfMagnitudes(LeftPixel(channel)) < SumOfMagnitudes(channel)

Residual(channel) ==
    IF PredictsLeft(channel) THEN LeftPixel(channel) ELSE channel

\* Rounded to nearest, the same for both signs.
Quantised(v, step) ==
    IF v >= 0 THEN (v + step \div 2) \div step
    ELSE -((-v + step \div 2) \div step)

---------------------------------------------------------------------------
(* Symbols: one byte for each value if all fit, else two.                  *)

FitsByte(values) ==
    \A plane \in Planes, i \in Cells : values[plane][i] \in (-Half)..(Half - 1)

ToSymbols(v, single) ==
    IF single THEN <<v % ByteValues>>
    ELSE <<v % ByteValues, ((v % Word) \div ByteValues)>>

FromSymbols(bytes, single) ==
    IF single
    THEN IF bytes[1] >= Half THEN bytes[1] - ByteValues ELSE bytes[1]
    ELSE LET u == bytes[1] + bytes[2] * ByteValues
         IN IF u >= Word \div 2 THEN u - Word ELSE u

---------------------------------------------------------------------------
(* The blocks of LOSSY tiles, of the largest size that divides both sides.  *)

Block ==
    IF TileWidth % 16 = 0 /\ TileHeight % 16 = 0 THEN 16
    ELSE IF TileWidth % 8 = 0 /\ TileHeight % 8 = 0 THEN 8
    ELSE 4

\* Columns and rows that are left over belong to no block.
InBlock(i) ==
    /\ Column(i) < (TileWidth \div Block) * Block
    /\ Row(i) < (TileHeight \div Block) * Block

\* The blocks are transformed in place, in all three planes.
Transformed(channels, result) ==
    [plane \in Planes |-> [i \in Cells |->
        IF InBlock(i) THEN result[plane][i] ELSE channels[plane][i]]]

---------------------------------------------------------------------------
Channel(plane) == [i \in Cells |-> ToYCoCg(source[i])[plane]]

QuantiserStep == IF MaxError >= 1 THEN MaxError ELSE 1

\* What the encoder writes: a byte for each value if all of them fit, else two.
Written(modes, step, values) ==
    LET single == FitsByte(values)
    IN [modes |-> modes, step |-> step, single |-> single,
        symbols |-> [plane \in Planes |->
            [i \in Cells |-> ToSymbols(values[plane][i], single)]]]

ValuesRead(plane) ==
    [i \in Cells |-> FromSymbols(stream.symbols[plane][i], stream.single)]

\* The decoder's conversion to BGRA.
Show(channels) ==
    shown' = [i \in Cells |-> Pixel([y |-> channels["y"][i],
                                     co |-> channels["co"][i],
                                     cg |-> channels["cg"][i]], i)]

\* encodeLossless() and encodeNearLossless().
EncodeTile ==
    /\ tileStep = "source" /\ tileStep' = "encoded"
    /\ tileMode \in {"LOSSLESS", "NEAR_LOSSLESS"}
    /\ LET q == IF tileMode = "LOSSLESS" THEN 1 ELSE QuantiserStep
       IN stream' = Written([plane \in Planes |-> PredictsLeft(Channel(plane))], q,
              [plane \in Planes |->
                  [i \in Cells |-> Quantised(Residual(Channel(plane))[i], q)]])
    /\ UNCHANGED <<source, tileMode, avx2, shown>>

\* inversePrediction() of dequantised residuals.
Restored(plane) ==
    LET residual == [i \in Cells |-> ValuesRead(plane)[i] * stream.step]
    IN IF stream.modes[plane] THEN InverseLeftPixel(residual) ELSE residual

\* decodeLossless() and decodeNearLossless().
DecodeTile ==
    /\ tileStep = "encoded" /\ tileStep' = "shown"
    /\ tileMode \in {"LOSSLESS", "NEAR_LOSSLESS"}
    /\ LET channels == [plane \in Planes |-> Restored(plane)] IN Show(channels)
    /\ UNCHANGED <<source, tileMode, avx2, stream>>

EncodeLossy ==
    /\ tileStep = "source" /\ tileStep' = "encoded" /\ tileMode = "LOSSY"
    /\ \E result \in Transforms :
          stream' = Written(<<>>, 1, Transformed([plane \in Planes |-> Channel(plane)],
                                                 result))
    /\ UNCHANGED <<source, tileMode, avx2, shown>>

DecodeLossy ==
    /\ tileStep = "encoded" /\ tileStep' = "shown" /\ tileMode = "LOSSY"
    /\ \E result \in Transforms :
          Show(Transformed([plane \in Planes |-> ValuesRead(plane)], result))
    /\ UNCHANGED <<source, tileMode, avx2, stream>>

---------------------------------------------------------------------------
TileInit ==
    /\ tileStep = "source"
    /\ source \in Tiles /\ avx2 \in BOOLEAN
    /\ tileMode \in {"LOSSLESS", "NEAR_LOSSLESS", "LOSSY"}
    /\ stream = [modes |-> <<>>] /\ shown = <<>>

TileNext == EncodeTile \/ EncodeLossy \/ DecodeTile \/ DecodeLossy

TileSpec == TileInit /\ [][TileNext]_tileVars

---------------------------------------------------------------------------
(* Properties.                                                             *)

\* "Pixel-perfect: prediction + rANS": a LOSSLESS tile comes out as it was
\* captured, whichever prediction each plane took, whether or not its residuals
\* fit a byte, and with either conversion.  So do the columns and rows of a LOSSY
\* tile that no block covers, which share its symbols but not its transform.
PixelPerfect ==
    tileStep = "shown" =>
        \A i \in Cells :
            tileMode = "LOSSLESS" \/ (tileMode = "LOSSY" /\ ~InBlock(i))
                => shown[i] = source[i]

\* "Quantized prediction + rANS (max error bounded)", "max per-component
\* error": a NEAR_LOSSLESS tile is never further off than nearLosslessMaxError.
ErrorBounded ==
    tileStep = "shown" /\ tileMode = "NEAR_LOSSLESS" =>
        \A i \in Cells : \A k \in {"b", "g", "r"} :
            Magnitude(shown[i][k] - source[i][k]) <= MaxError

=============================================================================
