------------------------------- MODULE RansCodec -------------------------------
(***************************************************************************)
(* The residual symbols of one tile on their way through the entropy       *)
(* coder: TileEncoder::encodeResiduals and RANSEncoder on the host,        *)
(* TileDecoder::decodeResiduals and RANSDecoder on the viewer, in          *)
(* src/src/codec/omni/.                                                    *)
(*                                                                         *)
(* The arithmetic is the code's with its widths as constants, so that a    *)
(* small instance meets every case: RANS_SCALE (2^12), the 8 bits of a     *)
(* byte, RANS_L (2^23) and the 32 bits of the reciprocal.  The table that  *)
(* several tiles may share is left out: no encoder sets it.                *)
(***************************************************************************)
EXTENDS Integers, Sequences, FiniteSets, FiniteSetsExt

CONSTANTS
    AlphabetSize,       \* 256
    Scale,              \* RANS_SCALE
    ByteSize,           \* 256
    LowerBound,         \* RANS_L
    WordSize,           \* 2^32
    Messages            \* bound: the symbols of the tiles that are coded

Alphabet == 0..(AlphabetSize - 1)
Lanes == 0..3

ASSUME RansAssumption ==
    /\ AlphabetSize \in Nat \ {0} /\ Scale \in Nat /\ AlphabetSize <= Scale
    /\ ByteSize \in Nat \ {0, 1} /\ WordSize \in Nat
    \* so that two bytes are enough to make room for any symbol
    /\ Scale <= ByteSize * ByteSize
    /\ LowerBound \in Nat /\ LowerBound % Scale = 0 /\ LowerBound > 0
    /\ LowerBound * ByteSize <= WordSize
    /\ Messages \subseteq Seq(Alphabet) \ {<<>>}

VARIABLES
    coding,         \* "symbols", "coded", "decoded"
    message,        \* symbolBuf_ of the encoder
    tile,           \* what is written to the tile's bit stream
    result          \* symbolBuf_ of the decoder, and the bytes it has read

ransVars == <<coding, message, tile, result>>

---------------------------------------------------------------------------
(* buildFreqTableCore(): frequencies that add up to Scale.                 *)

Count(m, s) == Cardinality({i \in DOMAIN m : m[i] = s})

\* cum: the frequencies of the symbols before s.
CumulativeFrequency(f, s) ==
    LET cum[t \in 0..AlphabetSize] == IF t = 0 THEN 0 ELSE cum[t - 1] + f[t - 1]
    IN cum[s]

TotalOf(f) == CumulativeFrequency(f, AlphabetSize)

\* Rounded to nearest, but never to zero.
Rounded(m) ==
    [s \in Alphabet |->
        IF Count(m, s) = 0 THEN 0
        ELSE LET share == (Count(m, s) * Scale + Len(m) \div 2) \div Len(m)
             IN IF share = 0 THEN 1 ELSE share]

\* The first of the most frequent symbols.
Commonest(f) ==
    CHOOSE s \in Alphabet :
        /\ \A t \in Alphabet : f[t] <= f[s]
        /\ \A t \in 0..(s - 1) : f[t] < f[s]

\* `while (scaledSum > RANS_SCALE)`: one off the next symbol that has more than
\* one; at is where the inner loop is, which starts over after the last symbol.
Trim(scaled) ==
    LET from(k) == (scaled.at + k) % AlphabetSize
        k == CHOOSE k \in 0..(AlphabetSize - 1) :
                /\ scaled.freq[from(k)] > 1
                /\ \A j \in 0..(k - 1) : scaled.freq[from(j)] <= 1
    IN [freq |-> [scaled.freq EXCEPT ![from(k)] = @ - 1],
        at |-> (from(k) + 1) % AlphabetSize]

\* Round after round, until the excess is gone.
Trimmed(f, excess) ==
    LET trim[n \in 0..excess] ==
            IF n = 0 THEN [freq |-> f, at |-> 0] ELSE Trim(trim[n - 1])
    IN trim[excess].freq

\* What is missing or left over goes to the most frequent symbol; only when
\* that would leave it nothing is the rest trimmed off all of them.
Frequencies(m) ==
    LET f == Rounded(m)
        delta == Scale - TotalOf(f)
        s == Commonest(f)
    IN IF f[s] + delta >= 1
       THEN [f EXCEPT ![s] = @ + delta]
       ELSE Trimmed(f, -delta)

\* floor(2^32 / freq), clamped to a word.
Reciprocal(freq) ==
    IF WordSize \div freq >= WordSize THEN WordSize - 1 ELSE WordSize \div freq

---------------------------------------------------------------------------
(* RANSEncoder.                                                            *)

\* Mutant: the quotient is taken as it comes.
QuotientRough(x, freq) == (x * Reciprocal(freq)) \div WordSize

\* x \div freq without a division: the reciprocal is rounded down, so the
\* product may be one short.
Quotient(x, freq) ==
    LET q == (x * Reciprocal(freq)) \div WordSize
    IN IF x - q * freq >= freq THEN q + 1 ELSE q

\* `while (state >= x_max)`: the bytes that go out before the symbol, and what
\* is left of the state.
Spilled(x, freq) ==
    LET limit == (LowerBound \div Scale) * ByteSize * freq
        one == x \div ByteSize
    IN IF x < limit THEN [state |-> x, bytes |-> <<>>]
       ELSE IF one < limit THEN [state |-> one, bytes |-> <<x % ByteSize>>]
       ELSE [state |-> one \div ByteSize, bytes |-> <<x % ByteSize, one % ByteSize>>]

\* putSymbolFast(): the new state and the bytes for the stack.
PutSymbol(x, freq, cum) ==
    LET y == Spilled(x, freq).state
        q == Quotient(y, freq)
    IN [state |-> q * Scale + (y - q * freq) + cum, bytes |-> Spilled(x, freq).bytes]

\* Symbol s goes into a lane.
PutNext(coder, f, s, lane) ==
    LET put == PutSymbol(coder.states[lane], f[s], CumulativeFrequency(f, s))
    IN IF f[s] = 0 THEN coder
       ELSE [states |-> [coder.states EXCEPT ![lane] = put.state],
             stack |-> coder.stack \o put.bytes]

\* Symbol i (from 1) belongs to lane (i - 1) & 3.
Lane(i) == (i - 1) % 4

\* encodeInterleaved(): from the last symbol to the first; what the coder holds
\* when the n last symbols are in.
Coder(m, f) ==
    LET after[n \in 0..Len(m)] ==
            IF n = 0
            THEN [states |-> [lane \in Lanes |-> LowerBound], stack |-> <<>>]
            ELSE LET i == Len(m) + 1 - n
                 IN PutNext(after[n - 1], f, m[i], Lane(i))
    IN after

\* The stack is written out from its top.
Encoded(m, f) ==
    LET last == Coder(m, f)[Len(m)]
        size == Len(last.stack)
    IN [states |-> last.states,
        bytes |-> [i \in 1..size |-> last.stack[size + 1 - i]]]

\* encodeResiduals(): a tile of one symbol is written without the coder.
EncodeResiduals ==
    /\ coding = "symbols" /\ coding' = "coded"
    /\ LET used == {s \in Alphabet : Count(message, s) > 0}
           f == Frequencies(message)
           coded == Encoded(message, f)
       IN tile' = IF Cardinality(used) = 1
                  THEN [kind |-> "uniform", symbol |-> message[1],
                        count |-> Len(message)]
                  ELSE [kind |-> "table",
                        table |-> [s \in {t \in Alphabet : f[t] > 0} |-> f[s]],
                        count |-> Len(message),
                        states |-> coded.states, bytes |-> coded.bytes]
    /\ UNCHANGED <<message, result>>

---------------------------------------------------------------------------
(* RANSDecoder.                                                            *)

\* buildDecodeTable(): the symbol of a slot; a slot that no symbol covers keeps
\* its zeros.
SlotOwner(f, slot) ==
    LET owners == {s \in Alphabet : /\ CumulativeFrequency(f, s) <= slot
                                    /\ slot < CumulativeFrequency(f, s) + f[s]}
    IN IF owners = {} THEN [symbol |-> 0, freq |-> 0, cum |-> 0]
       ELSE LET s == Max(owners)
            IN [symbol |-> s, freq |-> f[s], cum |-> CumulativeFrequency(f, s)]

\* `while (state < RANS_L)`: the state and the position in the data after as
\* many bytes as it takes, at most two.  Nothing in the code stops at the end of
\* the data; a byte that is not there counts as read, and as 0.
Refilled(x, data, pos) ==
    LET byte(i) == IF i \in DOMAIN data THEN data[i] ELSE 0
        one == x * ByteSize + byte(pos + 1)
        two == one * ByteSize + byte(pos + 2)
    IN IF x >= LowerBound THEN [state |-> x, pos |-> pos]
       ELSE IF one >= LowerBound THEN [state |-> one, pos |-> pos + 1]
       ELSE [state |-> two, pos |-> pos + 2]

\* getSymbol() and advance() of a lane.
GetNext(decoder, table, data, lane) ==
    LET x == decoder.states[lane]
        entry == table[x % Scale]
        y == entry.freq * (x \div Scale) + (x % Scale) - entry.cum
        filled == Refilled(y, data, decoder.pos)
    IN [states |-> [decoder.states EXCEPT ![lane] = filled.state],
        pos |-> filled.pos,
        symbols |-> Append(decoder.symbols, entry.symbol)]

\* decodeInterleaved(): four at a time, then the rest; the lanes take their
\* bytes in the order of the symbols.  What the decoder holds after n symbols.
Decoder(table, states, data, count) ==
    LET after[n \in 0..count] ==
            IF n = 0 THEN [states |-> states, pos |-> 0, symbols |-> <<>>]
            ELSE GetNext(after[n - 1], table, data, Lane(n))
    IN after

\* The frequencies that a tile's table stands for.
TableRead(table) ==
    [s \in Alphabet |-> IF s \in DOMAIN table THEN table[s] ELSE 0]

\* decodeResiduals(): the table is rebuilt from the stream.
DecodeResiduals ==
    /\ coding = "coded" /\ coding' = "decoded"
    /\ result' =
        IF tile.kind = "uniform"
        THEN [symbols |-> [i \in 1..tile.count |-> tile.symbol], unread |-> 0]
        ELSE LET f == TableRead(tile.table)
                 table == [slot \in 0..(Scale - 1) |-> SlotOwner(f, slot)]
                 last == Decoder(table, tile.states, tile.bytes, tile.count)[tile.count]
             IN [symbols |-> last.symbols, unread |-> Len(tile.bytes) - last.pos]
    /\ UNCHANGED <<message, tile>>

---------------------------------------------------------------------------
RansInit ==
    /\ coding = "symbols" /\ message \in Messages
    /\ tile = [kind |-> "none"] /\ result = [symbols |-> <<>>, unread |-> 0]

RansNext == EncodeResiduals \/ DecodeResiduals

RansSpec == RansInit /\ [][RansNext]_ransVars

---------------------------------------------------------------------------
(* Properties.                                                             *)

\* The frequencies add up to RANS_SCALE and every symbol of the tile has one:
\* each slot of the decoder's table is written by exactly one symbol.
TableIsExact ==
    coding # "symbols" /\ tile.kind = "table" =>
        /\ \A i \in DOMAIN message : message[i] \in DOMAIN tile.table
        /\ TotalOf(TableRead(tile.table)) = Scale

\* The stack that encodeInterleaved() allocates, two bytes for each symbol, is
\* never written past its end, and no state outgrows its word.
StackFits ==
    coding # "symbols" /\ tile.kind = "table" =>
        /\ Len(tile.bytes) <= 2 * Len(message)
        /\ \A lane \in Lanes : tile.states[lane] \in LowerBound..(LowerBound * ByteSize - 1)

\* The viewer gets the symbols back and reads all of the data and no byte more,
\* although nothing tells decodeInterleaved() where the data ends.
SymbolsReturn ==
    coding = "decoded" => result.symbols = message /\ result.unread = 0

RansInv == TableIsExact /\ StackFits /\ SymbolsReturn

=============================================================================
