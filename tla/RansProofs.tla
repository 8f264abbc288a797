----------------------------- MODULE RansProofs -----------------------------
(***************************************************************************)
(* RansCodec gives back the symbols that it codes, whatever the alphabet,  *)
(* the scale, the widths and the message.                                  *)
(*                                                                         *)
(* The loops of the code are recursive functions.  Each is shown to exist, *)
(* and what it computes by induction, which is stated of the set of        *)
(* numbers for which something holds.                                      *)
(***************************************************************************)
EXTENDS RansCodec, WellFoundedInduction, SequenceTheorems, FiniteSetTheorems, TLAPS

---------------------------------------------------------------------------
(* Induction and division.                                                 *)

Less == OpToRel(<, Nat)

LEMMA LessThan == \A m, n \in Nat : <<m, n>> \in Less <=> m < n
BY DEF Less, OpToRel

LEMMA Least ==
    ASSUME NEW T, T \subseteq Nat, T # {}
    PROVE  \E n \in T : \A m \in T : n <= m
<1>1. IsWellFoundedOn(Less, Nat)
  BY NatLessThanWellFounded DEF Less
<1>2. PICK n \in T : \A m \in T : <<m, n>> \notin Less
  BY <1>1, WFMin
<1>3. \A m \in T : m \in Nat /\ n \in Nat /\ ~(m < n)
  BY <1>2, LessThan
<1> QED
  BY <1>2, <1>3

\* Induction, stated of the set of numbers for which something holds.
LEMMA SetInduction ==
    ASSUME NEW S, 0 \in S, \A n \in Nat : n \in S => n + 1 \in S
    PROVE  Nat \subseteq S
<1> SUFFICES ASSUME Nat \ S # {} PROVE FALSE
  OBVIOUS
<1>1. PICK n \in Nat \ S : \A m \in Nat \ S : n <= m
  BY Least
<1>2. n # 0
  BY <1>1
<1>3. n - 1 \in Nat /\ (n-1)+1 = n
  BY <1>1, <1>2
<1>4. n - 1 \in S
  BY <1>1, <1>3
<1> QED
  BY <1>1, <1>3, <1>4

LEMMA Dividing ==
    ASSUME NEW a \in Nat, NEW b \in Nat \ {0}
    PROVE  /\ a \div b \in Nat
           /\ b * (a \div b) <= a /\ a < b * (a \div b) + b
OBVIOUS

LEMMA Factor ==
    ASSUME NEW a \in Int, NEW b \in Int, NEW c \in Nat
    PROVE  a <= b => a * c <= b * c
OBVIOUS

LEMMA Cancelled ==
    ASSUME NEW a \in Int, NEW b \in Int, NEW c \in Nat \ {0}
    PROVE  /\ c * a <= c * b => a <= b
           /\ c * a < c * b => a < b
OBVIOUS

LEMMA OneQuotient ==
    ASSUME NEW x \in Nat, NEW f \in Nat \ {0}, NEW q \in Int, q * f <= x, x < q * f + f
    PROVE  q = x \div f
<1>1. /\ x \div f \in Nat
      /\ f * (x \div f) <= x /\ x < f * (x \div f) + f
  BY Dividing
<1>2. f * q < f * ((x \div f) + 1)
  BY <1>1
<1>3. f * (x \div f) < f * (q + 1)
  BY <1>1
<1>4. q < (x \div f) + 1
  BY <1>1, <1>2, Cancelled
<1>5. x \div f < q + 1
  BY <1>1, <1>3, Cancelled
<1> QED
  BY <1>1, <1>4, <1>5

---------------------------------------------------------------------------
(* The division of the entropy coder.                                      *)

\* putSymbolFast() divides by a multiplication: the rounded-down reciprocal of
\* any frequency gives the exact quotient of any state, after at most one
\* correction.
THEOREM QuotientExact ==
    ASSUME NEW x \in 0..(WordSize - 1), NEW freq \in 1..(WordSize - 1)
    PROVE  Quotient(x, freq) = x \div freq
<1>1. x \in Nat /\ freq \in Nat \ {0} /\ WordSize \in Nat \ {0} /\ x < WordSize
  BY RansAssumption
<1> DEFINE R == Reciprocal(freq)
           q == (x * R) \div WordSize
<1>2. R \in Nat /\ freq * R <= WordSize /\ WordSize <= freq * R + freq
  <2>1. /\ WordSize \div freq \in Nat
        /\ freq * (WordSize \div freq) <= WordSize
        /\ WordSize < freq * (WordSize \div freq) + freq
    BY <1>1, Dividing
  <2>2. CASE WordSize \div freq >= WordSize
    <3>1. R = WordSize - 1
      BY <2>2 DEF Reciprocal
    <3>2. freq * WordSize <= freq * (WordSize \div freq)
      BY <1>1, <2>1, <2>2, Factor
    <3>3. freq = 1
      BY <1>1, <2>1, <3>2
    <3> QED
      BY <1>1, <3>1, <3>3
  <2>3. CASE ~(WordSize \div freq >= WordSize)
    <3>1. R = WordSize \div freq
      BY <2>3 DEF Reciprocal
    <3> HIDE DEF R
    <3>2. WordSize <= freq * (WordSize \div freq) + freq
      BY <1>1, <2>1
    <3> QED
      BY <2>1, <3>1, <3>2
  <2> QED
    BY <2>2, <2>3
<1>5. q \in Nat /\ WordSize * q <= x * R /\ x * R < WordSize * q + WordSize
  <2> HIDE DEF R
  <2>1. x * R \in Nat
    BY <1>1, <1>2
  <2> QED
    BY <1>1, <2>1, Dividing
<1> HIDE DEF R, q
<1>6. q * freq <= x
  <2>1. (WordSize * q) * freq <= (x * R) * freq
    BY <1>1, <1>2, <1>5, Factor
  <2>2. (freq * R) * x <= WordSize * x
    BY <1>1, <1>2, Factor
  <2>3. WordSize * (q * freq) <= WordSize * x
    BY <1>1, <1>2, <1>5, <2>1, <2>2
  <2> QED
    BY <1>1, <1>5, <2>3, Cancelled
<1>7. x < q * freq + 2 * freq
  <2>1. (x * R) * freq <= (WordSize * q + WordSize) * freq
    BY <1>1, <1>2, <1>5, Factor
  <2>2. WordSize * x <= (freq * R + freq) * x
    BY <1>1, <1>2, Factor
  <2>3. x * freq < WordSize * freq
    BY <1>1
  <2>4. WordSize * x < WordSize * (q * freq + 2 * freq)
    BY <1>1, <1>2, <1>5, <2>1, <2>2, <2>3
  <2> QED
    BY <1>1, <1>5, <2>4, Cancelled
<1>8. Quotient(x, freq) = IF x - q * freq >= freq THEN q + 1 ELSE q
  BY DEF Quotient, R, q
<1>9. Quotient(x, freq) \in Int
      /\ Quotient(x, freq) * freq <= x /\ x < Quotient(x, freq) * freq + freq
  BY <1>1, <1>5, <1>6, <1>7, <1>8
<1> QED
  BY <1>1, <1>9, OneQuotient

---------------------------------------------------------------------------
(* Sums of frequencies.                                                    *)

Table == [Alphabet -> Nat]

LEMMA Constants ==
    /\ AlphabetSize \in Nat \ {0} /\ Scale \in Nat \ {0} /\ AlphabetSize <= Scale
    /\ ByteSize \in Nat /\ ByteSize >= 2 /\ Scale <= ByteSize * ByteSize
    /\ Alphabet \subseteq Nat /\ \A n \in Nat : n \in Alphabet <=> n < AlphabetSize
<1>1. AlphabetSize \in Nat \ {0} /\ Scale \in Nat /\ AlphabetSize <= Scale
  BY RansAssumption
<1>2. ByteSize \in Nat /\ ByteSize >= 2 /\ Scale <= ByteSize * ByteSize
  BY RansAssumption
<1> QED
  BY <1>1, <1>2 DEF Alphabet

CumAfter(f, cum, t) == IF t = 0 THEN 0 ELSE cum[t - 1] + f[t - 1]

LEMMA CumExists ==
    ASSUME NEW f
    PROVE  \E cum : cum = [t \in 0..AlphabetSize |-> CumAfter(f, cum, t)]
<1> DEFINE S == {m \in Nat : \E cum : cum = [t \in 0..m |-> CumAfter(f, cum, t)]}
<1>1. 0 \in S
  <2> DEFINE cum == [t \in 0..0 |-> 0]
  <2>1. cum = [t \in 0..0 |-> CumAfter(f, cum, t)]
    BY DEF CumAfter
  <2> QED
    BY <2>1
<1>2. ASSUME NEW m \in Nat, m \in S PROVE m + 1 \in S
  <2>1. PICK cum : cum = [t \in 0..m |-> CumAfter(f, cum, t)]
    BY <1>2
  <2> DEFINE more == [t \in 0..(m + 1) |-> IF t <= m THEN cum[t] ELSE CumAfter(f, cum, t)]
  <2>2. ASSUME NEW t \in 0..(m + 1) PROVE more[t] = CumAfter(f, more, t)
    <3>1. t = 0 \/ (t - 1 \in 0..m /\ more[t - 1] = cum[t - 1])
      OBVIOUS
    <3>2. CumAfter(f, more, t) = CumAfter(f, cum, t)
      BY <3>1 DEF CumAfter
    <3>3. t <= m => t \in 0..m
      OBVIOUS
    <3>4. more[t] = CumAfter(f, cum, t)
      BY <2>1, <3>3
    <3> QED
      BY <3>2, <3>4
  <2> HIDE DEF more
  <2>3. more = [t \in 0..(m + 1) |-> CumAfter(f, more, t)]
    BY <2>2 DEF more
  <2> QED
    BY <2>3
<1> HIDE DEF S
<1>3. AlphabetSize \in S
  BY <1>1, <1>2, SetInduction, Constants
<1> QED
  BY <1>3 DEF S

LEMMA CumDefinition ==
    ASSUME NEW f, NEW t \in 0..AlphabetSize
    PROVE  CumulativeFrequency(f, t) =
              IF t = 0 THEN 0 ELSE CumulativeFrequency(f, t - 1) + f[t - 1]
<1> DEFINE sums == CHOOSE cum : cum = [s \in 0..AlphabetSize |-> CumAfter(f, cum, s)]
<1>1. \A s : CumulativeFrequency(f, s) = sums[s]
  BY DEF CumulativeFrequency, CumAfter
<1>2. sums = [s \in 0..AlphabetSize |-> CumAfter(f, sums, s)]
  BY CumExists
<1> HIDE DEF sums
<1>3. sums[t] = CumAfter(f, sums, t)
  BY <1>2
<1> QED
  BY <1>1, <1>3 DEF CumAfter

LEMMA CumTypes ==
    ASSUME NEW f \in Table
    PROVE  \A t \in 0..AlphabetSize : CumulativeFrequency(f, t) \in Nat
<1> DEFINE S == {t \in Nat : t <= AlphabetSize => CumulativeFrequency(f, t) \in Nat}
<1>1. 0 \in S
  BY Constants, CumDefinition
<1>2. ASSUME NEW t \in Nat, t \in S PROVE t + 1 \in S
  <2> SUFFICES ASSUME t + 1 <= AlphabetSize PROVE CumulativeFrequency(f, t + 1) \in Nat
    OBVIOUS
  <2>1. CumulativeFrequency(f, t + 1) = CumulativeFrequency(f, t) + f[t]
    BY Constants, CumDefinition
  <2>2. CumulativeFrequency(f, t) \in Nat /\ f[t] \in Nat
    BY <1>2, Constants DEF Table
  <2> QED
    BY <2>1, <2>2
<1> HIDE DEF S
<1>3. Nat \subseteq S
  BY <1>1, <1>2, SetInduction
<1> QED
  BY <1>3, Constants DEF S

\* The ranges of two symbols follow one another.
LEMMA CumGrows ==
    ASSUME NEW f \in Table, NEW s \in Alphabet, NEW t \in 0..AlphabetSize, s < t
    PROVE  CumulativeFrequency(f, s) + f[s] <= CumulativeFrequency(f, t)
<1> DEFINE S == {n \in Nat : s + 1 + n <= AlphabetSize =>
                    CumulativeFrequency(f, s) + f[s] <= CumulativeFrequency(f, s + 1 + n)}
<1>0. s \in Nat /\ s < AlphabetSize /\ f[s] \in Nat
  BY Constants DEF Table
<1>1. 0 \in S
  <2>1. s + 1 + 0 = s + 1 /\ s + 1 \in 0..AlphabetSize
    BY <1>0, Constants
  <2>2. CumulativeFrequency(f, s + 1) = CumulativeFrequency(f, s) + f[s]
    BY <1>0, <2>1, CumDefinition
  <2>3. CumulativeFrequency(f, s) \in Nat
    BY <1>0, Constants, CumTypes
  <2> QED
    BY <1>0, <2>1, <2>2, <2>3
<1>2. ASSUME NEW n \in Nat, n \in S PROVE n + 1 \in S
  <2> SUFFICES ASSUME s + 1 + (n + 1) <= AlphabetSize
               PROVE CumulativeFrequency(f, s) + f[s] <= CumulativeFrequency(f, s + 1 + (n + 1))
    OBVIOUS
  <2> DEFINE u == s + 1 + n
  <2>1. /\ u \in 0..AlphabetSize /\ u \in Alphabet /\ s + 1 + (n + 1) = u + 1
        /\ u + 1 \in 0..AlphabetSize /\ u + 1 # 0 /\ (u + 1) - 1 = u
    BY <1>0, Constants
  <2>2. CumulativeFrequency(f, s) + f[s] <= CumulativeFrequency(f, u)
    BY <1>2, <2>1
  <2> HIDE DEF u
  <2>3. CumulativeFrequency(f, u + 1) = CumulativeFrequency(f, u) + f[u]
    BY <2>1, CumDefinition
  <2>4. f[u] \in Nat /\ CumulativeFrequency(f, u) \in Nat /\ CumulativeFrequency(f, s) \in Nat
    BY <1>0, <2>1, Constants, CumTypes DEF Table
  <2> QED
    BY <1>0, <2>1, <2>2, <2>3, <2>4
<1> HIDE DEF S
<1>3. t - s - 1 \in S
  BY <1>0, <1>1, <1>2, SetInduction, Constants
<1>4. s + 1 + (t - s - 1) = t /\ t <= AlphabetSize /\ t - s - 1 \in Nat
  BY <1>0, Constants
<1> QED
  BY <1>3, <1>4 DEF S

\* One frequency is changed: the sums after it change by as much.
LEMMA CumChanged ==
    ASSUME NEW f \in Table, NEW s \in Alphabet, NEW v \in Nat
    PROVE  /\ [f EXCEPT ![s] = v] \in Table
           /\ TotalOf([f EXCEPT ![s] = v]) = TotalOf(f) + (v - f[s])
<1> DEFINE g == [f EXCEPT ![s] = v]
           S == {t \in Nat : t <= AlphabetSize =>
                    CumulativeFrequency(g, t) =
                       CumulativeFrequency(f, t) + (IF s < t THEN v - f[s] ELSE 0)}
<1>0. /\ s \in Nat /\ s < AlphabetSize /\ f[s] \in Nat /\ g \in Table /\ g[s] = v
      /\ \A t \in Alphabet \ {s} : g[t] = f[t]
  BY Constants DEF Table
<1> HIDE DEF g
<1>1. 0 \in S
  BY <1>0, Constants, CumDefinition
<1>2. ASSUME NEW t \in Nat, t \in S PROVE t + 1 \in S
  <2> SUFFICES ASSUME t + 1 <= AlphabetSize
               PROVE CumulativeFrequency(g, t + 1) =
                        CumulativeFrequency(f, t + 1) + (IF s < t + 1 THEN v - f[s] ELSE 0)
    OBVIOUS
  <2>1. /\ t \in 0..AlphabetSize /\ t + 1 \in 0..AlphabetSize /\ t + 1 # 0 /\ (t + 1) - 1 = t
        /\ t \in Alphabet
    BY Constants
  <2>2. /\ CumulativeFrequency(g, t + 1) = CumulativeFrequency(g, t) + g[t]
        /\ CumulativeFrequency(f, t + 1) = CumulativeFrequency(f, t) + f[t]
    BY <2>1, CumDefinition
  <2>3. /\ CumulativeFrequency(f, t) \in Nat /\ CumulativeFrequency(g, t) \in Nat
        /\ f[t] \in Nat /\ g[t] \in Nat
    BY <1>0, <2>1, CumTypes DEF Table
  <2>4. CumulativeFrequency(g, t) =
           CumulativeFrequency(f, t) + (IF s < t THEN v - f[s] ELSE 0)
    BY <1>2, <2>1
  <2>5. CASE t = s
    <3>1. CumulativeFrequency(g, t) = CumulativeFrequency(f, t)
      BY <1>0, <2>3, <2>4, <2>5
    <3> QED
      BY <1>0, <2>2, <2>3, <2>5, <3>1
  <2>6. CASE t # s
    <3>1. g[t] = f[t]
      BY <1>0, <2>1, <2>6
    <3>2. s < t <=> s < t + 1
      BY <1>0, <2>6
    <3>3. CASE s < t
      BY <1>0, <2>2, <2>3, <2>4, <3>1, <3>2, <3>3
    <3>4. CASE ~(s < t)
      BY <1>0, <2>2, <2>3, <2>4, <3>1, <3>2, <3>4
    <3> QED
      BY <3>3, <3>4
  <2> QED
    BY <2>5, <2>6
<1> HIDE DEF S
<1>3. AlphabetSize \in S
  BY <1>1, <1>2, SetInduction, Constants
<1>4. TotalOf(g) = TotalOf(f) + (v - f[s])
  BY <1>0, <1>3, Constants DEF S, TotalOf
<1> QED
  BY <1>0, <1>4 DEF g

\* If no symbol has more than one, the total is no more than the alphabet.
LEMMA CumOfOnes ==
    ASSUME NEW f \in Table, \A s \in Alphabet : f[s] <= 1
    PROVE  TotalOf(f) <= AlphabetSize
<1> DEFINE S == {t \in Nat : t <= AlphabetSize => CumulativeFrequency(f, t) <= t}
<1>1. 0 \in S
  BY Constants, CumDefinition
<1>2. ASSUME NEW t \in Nat, t \in S PROVE t + 1 \in S
  <2> SUFFICES ASSUME t + 1 <= AlphabetSize PROVE CumulativeFrequency(f, t + 1) <= t + 1
    OBVIOUS
  <2>1. CumulativeFrequency(f, t + 1) = CumulativeFrequency(f, t) + f[t]
    BY Constants, CumDefinition
  <2>2. CumulativeFrequency(f, t) \in Nat /\ f[t] \in Nat /\ f[t] <= 1
    BY Constants, CumTypes DEF Table
  <2>3. CumulativeFrequency(f, t) <= t
    BY <1>2, Constants
  <2> QED
    BY <2>1, <2>2, <2>3
<1> HIDE DEF S
<1>3. AlphabetSize \in S
  BY <1>1, <1>2, SetInduction, Constants
<1> QED
  BY <1>3, Constants DEF S, TotalOf

LEMMA TotalTypes == ASSUME NEW f \in Table PROVE TotalOf(f) \in Nat
BY CumTypes, Constants DEF TotalOf

\* A range ends where the scale does, or before.
LEMMA RangeFits ==
    ASSUME NEW f \in Table, NEW s \in Alphabet
    PROVE  /\ CumulativeFrequency(f, s) \in Nat
           /\ CumulativeFrequency(f, s) + f[s] <= TotalOf(f)
<1>1. s \in 0..AlphabetSize /\ s < AlphabetSize /\ AlphabetSize \in 0..AlphabetSize
  BY Constants
<1> QED
  BY <1>1, CumGrows, CumTypes DEF TotalOf

---------------------------------------------------------------------------
(* Frequencies that add up.                                                *)

\* A message of symbols, not empty.
LEMMA CountTypes ==
    ASSUME NEW m \in Seq(Alphabet)
    PROVE  /\ \A s : Count(m, s) \in Nat
           /\ \A i \in DOMAIN m : Count(m, m[i]) > 0
<1>1. DOMAIN m = 1..Len(m) /\ Len(m) \in Nat
  OBVIOUS
<1>2. IsFiniteSet(DOMAIN m)
  BY <1>1, FS_Interval
<1>3. ASSUME NEW s
      PROVE  IsFiniteSet({i \in DOMAIN m : m[i] = s}) /\ Count(m, s) \in Nat
  <2>1. IsFiniteSet({i \in DOMAIN m : m[i] = s})
    BY <1>2, FS_Subset
  <2> QED
    BY <2>1, FS_CardinalityType DEF Count
<1>4. ASSUME NEW i \in DOMAIN m PROVE Count(m, m[i]) > 0
  <2>1. {j \in DOMAIN m : m[j] = m[i]} # {}
    OBVIOUS
  <2>2. Count(m, m[i]) # 0
    BY <1>3, <2>1, FS_EmptySet DEF Count
  <2>3. Count(m, m[i]) \in Nat
    BY <1>3
  <2> QED
    BY <2>2, <2>3
<1> QED
  BY <1>3, <1>4

LEMMA RoundedTypes ==
    ASSUME NEW m \in Seq(Alphabet), m # <<>>
    PROVE  /\ Rounded(m) \in Table
           /\ \A i \in DOMAIN m : Rounded(m)[m[i]] >= 1
<1>1. Len(m) \in Nat \ {0}
  OBVIOUS
<1> DEFINE share(s) == (Count(m, s) * Scale + Len(m) \div 2) \div Len(m)
<1>2. ASSUME NEW s PROVE share(s) \in Nat
  <2>1. Count(m, s) \in Nat /\ Scale \in Nat
    BY CountTypes, Constants
  <2>2. Count(m, s) * Scale \in Nat /\ Len(m) \div 2 \in Nat
    BY <1>1, <2>1
  <2>3. Count(m, s) * Scale + Len(m) \div 2 \in Nat
    BY <2>2
  <2> QED
    BY <1>1, <2>3, Dividing
<1>3. \A s \in Alphabet : Rounded(m)[s] =
         IF Count(m, s) = 0 THEN 0 ELSE IF share(s) = 0 THEN 1 ELSE share(s)
  BY DEF Rounded
<1> HIDE DEF share
<1>4. \A s \in Alphabet : Rounded(m)[s] \in Nat
  BY <1>2, <1>3
<1>5. Rounded(m) = [s \in Alphabet |-> Rounded(m)[s]]
  BY DEF Rounded
<1>6. ASSUME NEW i \in DOMAIN m PROVE Rounded(m)[m[i]] >= 1
  <2>1. m[i] \in Alphabet /\ Count(m, m[i]) # 0 /\ share(m[i]) \in Nat
    BY <1>2, CountTypes
  <2>2. CASE share(m[i]) = 0
    BY <1>3, <2>1, <2>2
  <2>3. CASE share(m[i]) # 0
    BY <1>3, <2>1, <2>3
  <2> QED
    BY <2>2, <2>3
<1> QED
  BY <1>4, <1>5, <1>6 DEF Table

LEMMA CommonestExists ==
    ASSUME NEW f \in Table
    PROVE  Commonest(f) \in Alphabet /\ \A t \in Alphabet : f[t] <= f[Commonest(f)]
<1> DEFINE First(n, s) == /\ \A t \in 0..n : f[t] <= f[s]
                          /\ \A t \in 0..(s - 1) : f[t] < f[s]
           S == {n \in Nat : n < AlphabetSize => \E s \in 0..n : First(n, s)}
<1>1. 0 \in S
  <2>1. 0 \in Alphabet /\ f[0] \in Nat
    BY Constants DEF Table
  <2>2. First(0, 0)
    BY <2>1
  <2> QED
    BY <2>2
<1>2. ASSUME NEW n \in Nat, n \in S PROVE n + 1 \in S
  <2> SUFFICES ASSUME n + 1 < AlphabetSize PROVE \E s \in 0..(n + 1) : First(n + 1, s)
    OBVIOUS
  <2>1. PICK s \in 0..n : First(n, s)
    BY <1>2, Constants
  <2>2. \A t \in 0..(n + 1) : t \in Alphabet /\ f[t] \in Nat
    BY Constants DEF Table
  <2>3. s \in 0..(n + 1) /\ n + 1 \in 0..(n + 1)
    OBVIOUS
  <2>4. CASE f[n + 1] <= f[s]
    <3>1. First(n + 1, s)
      BY <2>1, <2>4
    <3> QED
      BY <2>3, <3>1
  <2>5. CASE ~(f[n + 1] <= f[s])
    <3>1. f[s] < f[n + 1]
      BY <2>2, <2>3, <2>5
    <3>2. ASSUME NEW t \in 0..n PROVE f[t] < f[n + 1]
      <4>1. f[t] <= f[s] /\ f[t] \in Nat /\ f[s] \in Nat /\ f[n + 1] \in Nat
        BY <2>1, <2>2, <2>3
      <4> QED
        BY <3>1, <4>1
    <3>3. ASSUME NEW t \in 0..(n + 1) PROVE f[t] <= f[n + 1]
      <4>1. t \in 0..n \/ t = n + 1
        OBVIOUS
      <4>2. f[t] \in Nat /\ f[n + 1] \in Nat
        BY <2>2, <2>3
      <4> QED
        BY <3>2, <4>1, <4>2
    <3>4. First(n + 1, n + 1)
      BY <3>2, <3>3
    <3> QED
      BY <2>3, <3>4
  <2> QED
    BY <2>4, <2>5
<1> HIDE DEF S
<1>3. AlphabetSize - 1 \in S /\ AlphabetSize - 1 \in Nat
  BY <1>1, <1>2, SetInduction, Constants
<1>4. \E s \in 0..(AlphabetSize - 1) : First(AlphabetSize - 1, s)
  BY <1>3, Constants DEF S
<1>5. \E s \in Alphabet : /\ \A t \in Alphabet : f[t] <= f[s]
                          /\ \A t \in 0..(s - 1) : f[t] < f[s]
  BY <1>4 DEF Alphabet
<1> HIDE DEF First
<1> QED
  BY <1>5 DEF Commonest

---------------------------------------------------------------------------
LEMMA Around ==
    ASSUME NEW a \in Alphabet, NEW b \in Alphabet
    PROVE  \E k \in 0..(AlphabetSize - 1) : (a + k) % AlphabetSize = b
<1>1. a \in Nat /\ b \in Nat /\ a < AlphabetSize /\ b < AlphabetSize /\ AlphabetSize \in Nat \ {0}
  BY Constants
<1>2. CASE a <= b
  <2>1. b - a \in 0..(AlphabetSize - 1) /\ (a + (b - a)) = b
    BY <1>1, <1>2
  <2>2. b % AlphabetSize = b
    BY <1>1
  <2> QED
    BY <2>1, <2>2
<1>3. CASE b < a
  <2>1. b - a + AlphabetSize \in 0..(AlphabetSize - 1)
        /\ a + (b - a + AlphabetSize) = b + AlphabetSize
    BY <1>1, <1>3
  <2>2. (b + AlphabetSize) % AlphabetSize = b
    BY <1>1
  <2> QED
    BY <2>1, <2>2
<1> QED
  BY <1>1, <1>2, <1>3

LEMMA InAlphabet == ASSUME NEW n \in Nat PROVE n % AlphabetSize \in Alphabet
<1>1. AlphabetSize \in Nat \ {0}
  BY Constants
<1>2. n % AlphabetSize \in 0..(AlphabetSize - 1)
  BY <1>1
<1> QED
  BY <1>2 DEF Alphabet

\* There is always a symbol to trim, and none is trimmed to nothing.
LEMMA TrimOne ==
    ASSUME NEW scaled, scaled.freq \in Table, scaled.at \in Alphabet,
           TotalOf(scaled.freq) > AlphabetSize
    PROVE  /\ Trim(scaled).freq \in Table /\ Trim(scaled).at \in Alphabet
           /\ TotalOf(Trim(scaled).freq) = TotalOf(scaled.freq) - 1
           /\ \A s \in Alphabet : scaled.freq[s] >= 1 => Trim(scaled).freq[s] >= 1
<1> DEFINE f == scaled.freq
           from(k) == (scaled.at + k) % AlphabetSize
           Able(k) == f[from(k)] > 1
           Chosen(k) == /\ f[from(k)] > 1
                        /\ \A j \in 0..(k - 1) : f[from(j)] <= 1
<1>1. \E k \in 0..(AlphabetSize - 1) : Able(k)
  <2>1. \A s \in Alphabet : f[s] \in Nat
    BY DEF Table
  <2>2. \E s \in Alphabet : ~(f[s] <= 1)
    BY CumOfOnes, TotalTypes, Constants
  <2>3. PICK s \in Alphabet : ~(f[s] <= 1)
    BY <2>2
  <2>4. f[s] > 1
    BY <2>1, <2>3
  <2>5. PICK k \in 0..(AlphabetSize - 1) : from(k) = s
    BY Around
  <2> QED
    BY <2>4, <2>5
<1>2. ASSUME NEW k \in Nat PROVE from(k) \in Alphabet
  <2>1. scaled.at \in Nat
    BY Constants
  <2>2. scaled.at + k \in Nat
    BY <2>1
  <2> QED
    BY <2>2, InAlphabet
<1> DEFINE T == {k \in Nat : k \in 0..(AlphabetSize - 1) /\ Able(k)}
<1>3. T # {} /\ T \subseteq Nat
  BY <1>1, Constants
<1>4. PICK k \in T : \A j \in T : k <= j
  <2> HIDE DEF T
  <2> QED
    BY <1>3, Least
<1>5. k \in 0..(AlphabetSize - 1) /\ Chosen(k)
  <2>1. ASSUME NEW j \in 0..(k - 1) PROVE f[from(j)] <= 1
    <3>1. j \in Nat /\ j \in 0..(AlphabetSize - 1) /\ ~(k <= j)
      BY <1>4, Constants
    <3>2. ~Able(j)
      BY <1>4, <3>1
    <3>3. f[from(j)] \in Nat
      BY <1>2, <3>1 DEF Table
    <3> QED
      BY <3>2, <3>3
  <2> QED
    BY <1>4, <2>1
<1> HIDE DEF T
<1> DEFINE c == CHOOSE n \in 0..(AlphabetSize - 1) : Chosen(n)
<1>6. c \in 0..(AlphabetSize - 1) /\ Chosen(c)
  BY <1>5
<1>7. Trim(scaled) = [freq |-> [f EXCEPT ![from(c)] = @ - 1],
                      at |-> (from(c) + 1) % AlphabetSize]
  BY DEF Trim
<1> DEFINE s == from(c)
<1>8. s \in Alphabet /\ f[s] \in Nat /\ f[s] > 1
  <2> HIDE DEF c
  <2>1. c \in Nat
    BY <1>6, Constants
  <2>2. s \in Alphabet
    BY <1>2, <2>1
  <2>3. f[s] > 1
    BY <1>6
  <2> HIDE DEF s
  <2>4. f[s] \in Nat
    BY <1>2, <2>2 DEF Table
  <2> QED
    BY <2>2, <2>3, <2>4
<1> HIDE DEF s, c
<1>9. Trim(scaled).freq = [f EXCEPT ![s] = f[s] - 1] /\ Trim(scaled).at = (s + 1) % AlphabetSize
  BY <1>7, <1>8 DEF s
<1>10. f[s] - 1 \in Nat /\ f[s] - 1 >= 1
  BY <1>8
<1>11. /\ [f EXCEPT ![s] = f[s] - 1] \in Table
       /\ TotalOf([f EXCEPT ![s] = f[s] - 1]) = TotalOf(f) + ((f[s] - 1) - f[s])
  BY <1>8, <1>10, CumChanged
<1>12. (s + 1) % AlphabetSize \in Alphabet
  BY <1>8, InAlphabet, Constants
<1>13. TotalOf(f) + ((f[s] - 1) - f[s]) = TotalOf(f) - 1
  BY <1>8, TotalTypes
<1>14. \A t \in Alphabet : f[t] >= 1 => [f EXCEPT ![s] = f[s] - 1][t] >= 1
  BY <1>8, <1>10 DEF Table
<1> QED
  BY <1>9, <1>11, <1>12, <1>13, <1>14

TrimAfter(f, trim, n) == IF n = 0 THEN [freq |-> f, at |-> 0] ELSE Trim(trim[n - 1])

LEMMA TrimExists ==
    ASSUME NEW f, NEW excess \in Nat
    PROVE  \E trim : trim = [n \in 0..excess |-> TrimAfter(f, trim, n)]
<1> DEFINE S == {m \in Nat : \E trim : trim = [n \in 0..m |-> TrimAfter(f, trim, n)]}
<1>1. 0 \in S
  <2> DEFINE trim == [n \in 0..0 |-> [freq |-> f, at |-> 0]]
  <2>1. trim = [n \in 0..0 |-> TrimAfter(f, trim, n)]
    BY DEF TrimAfter
  <2> QED
    BY <2>1
<1>2. ASSUME NEW m \in Nat, m \in S PROVE m + 1 \in S
  <2>1. PICK trim : trim = [n \in 0..m |-> TrimAfter(f, trim, n)]
    BY <1>2
  <2> DEFINE more == [n \in 0..(m + 1) |-> IF n <= m THEN trim[n] ELSE TrimAfter(f, trim, n)]
  <2>2. ASSUME NEW n \in 0..(m + 1) PROVE more[n] = TrimAfter(f, more, n)
    <3>1. n = 0 \/ (n - 1 \in 0..m /\ more[n - 1] = trim[n - 1])
      OBVIOUS
    <3>2. TrimAfter(f, more, n) = TrimAfter(f, trim, n)
      BY <3>1 DEF TrimAfter
    <3>3. n <= m => n \in 0..m
      OBVIOUS
    <3>4. more[n] = TrimAfter(f, trim, n)
      BY <2>1, <3>3
    <3> QED
      BY <3>2, <3>4
  <2> HIDE DEF more
  <2>3. more = [n \in 0..(m + 1) |-> TrimAfter(f, more, n)]
    BY <2>2 DEF more
  <2> QED
    BY <2>3
<1> HIDE DEF S
<1>3. excess \in S
  BY <1>1, <1>2, SetInduction
<1> QED
  BY <1>3 DEF S

\* The excess is gone, and every symbol that had a frequency has one.
LEMMA TrimmedFits ==
    ASSUME NEW f \in Table, NEW excess \in Nat, TotalOf(f) - excess = Scale
    PROVE  /\ Trimmed(f, excess) \in Table
           /\ TotalOf(Trimmed(f, excess)) = Scale
           /\ \A s \in Alphabet : f[s] >= 1 => Trimmed(f, excess)[s] >= 1
<1> DEFINE trim == CHOOSE g : g = [n \in 0..excess |-> TrimAfter(f, g, n)]
           Good(scaled, n) ==
              /\ scaled.freq \in Table /\ scaled.at \in Alphabet
              /\ TotalOf(scaled.freq) = TotalOf(f) - n
              /\ \A s \in Alphabet : f[s] >= 1 => scaled.freq[s] >= 1
           S == {n \in Nat : n <= excess => Good(trim[n], n)}
<1>1. Trimmed(f, excess) = trim[excess].freq
  BY DEF Trimmed, TrimAfter
<1>2. trim = [n \in 0..excess |-> TrimAfter(f, trim, n)]
  BY TrimExists
<1> HIDE DEF trim
<1>3. /\ trim[0] = [freq |-> f, at |-> 0]
      /\ \A n \in Nat : n + 1 <= excess => trim[n + 1] = Trim(trim[n])
  BY <1>2 DEF TrimAfter
<1>4. 0 \in S
  <2>1. 0 \in Alphabet /\ TotalOf(f) - 0 = TotalOf(f)
    BY Constants, TotalTypes
  <2> QED
    BY <1>3, <2>1
<1>5. ASSUME NEW n \in Nat, n \in S PROVE n + 1 \in S
  <2> SUFFICES ASSUME n + 1 <= excess PROVE Good(trim[n + 1], n + 1)
    OBVIOUS
  <2>1. Good(trim[n], n)
    BY <1>5
  <2>2. TotalOf(f) \in Nat /\ AlphabetSize \in Nat /\ AlphabetSize <= Scale /\ Scale \in Nat
    BY TotalTypes, Constants
  <2>3. TotalOf(trim[n].freq) > AlphabetSize
    BY <2>1, <2>2
  <2>4. (TotalOf(f) - n) - 1 = TotalOf(f) - (n + 1)
    BY <2>2
  <2> DEFINE a == trim[n]
             b == Trim(a)
  <2>5. trim[n + 1] = b
    BY <1>3
  <2>6. Good(a, n) /\ TotalOf(a.freq) > AlphabetSize
    BY <2>1, <2>3
  <2> HIDE DEF a
  <2>7. /\ b.freq \in Table /\ b.at \in Alphabet /\ TotalOf(b.freq) = TotalOf(a.freq) - 1
        /\ \A s \in Alphabet : a.freq[s] >= 1 => b.freq[s] >= 1
    BY <2>6, TrimOne
  <2> HIDE DEF b
  <2> QED
    BY <2>4, <2>5, <2>6, <2>7
<1> HIDE DEF S
<1>6. excess \in S
  BY <1>4, <1>5, SetInduction
<1>7. Good(trim[excess], excess)
  BY <1>6 DEF S
<1> QED
  BY <1>1, <1>7

\* buildFreqTableCore(), of any symbols: the frequencies add up to the scale and
\* every symbol that occurs has one.
THEOREM FrequenciesExact ==
    ASSUME NEW m \in Seq(Alphabet), m # <<>>
    PROVE  /\ Frequencies(m) \in Table /\ TotalOf(Frequencies(m)) = Scale
           /\ \A i \in DOMAIN m : Frequencies(m)[m[i]] >= 1
<1> DEFINE f == Rounded(m)
           delta == Scale - TotalOf(f)
           s == Commonest(f)
<1>1. f \in Table /\ \A i \in DOMAIN m : m[i] \in Alphabet /\ f[m[i]] >= 1
  BY RoundedTypes
<1>2. Frequencies(m) = IF f[s] + delta >= 1 THEN [f EXCEPT ![s] = @ + delta]
                       ELSE Trimmed(f, -delta)
  BY DEF Frequencies
<1> HIDE DEF f, s
<1>3. s \in Alphabet /\ f[s] \in Nat /\ f[s] >= 1
  <2>1. s \in Alphabet /\ \A t \in Alphabet : f[t] <= f[s]
    BY <1>1, CommonestExists DEF s
  <2>2. f[s] \in Nat /\ f[m[1]] \in Nat /\ f[m[1]] >= 1 /\ f[m[1]] <= f[s]
    BY <1>1, <2>1 DEF Table
  <2> QED
    BY <2>1, <2>2
<1>4. TotalOf(f) \in Nat /\ Scale \in Nat
  BY <1>1, TotalTypes, Constants
<1> DEFINE v == f[s] + delta
<1>5. CASE v >= 1
  <2>1. v \in Nat /\ v - f[s] = delta /\ TotalOf(f) + delta = Scale
    BY <1>3, <1>4, <1>5
  <2>2. Frequencies(m) = [f EXCEPT ![s] = v]
    BY <1>2, <1>5
  <2> HIDE DEF v, delta
  <2>3. /\ [f EXCEPT ![s] = v] \in Table
        /\ TotalOf([f EXCEPT ![s] = v]) = TotalOf(f) + (v - f[s])
    BY <1>1, <1>3, <2>1, CumChanged
  <2>4. ASSUME NEW i \in DOMAIN m PROVE [f EXCEPT ![s] = v][m[i]] >= 1
    BY <1>1, <1>3, <1>5 DEF Table
  <2> QED
    BY <2>1, <2>2, <2>3, <2>4
<1>6. CASE ~(v >= 1)
  <2>1. -delta \in Nat /\ TotalOf(f) - (-delta) = Scale
    BY <1>3, <1>4, <1>6
  <2>2. Frequencies(m) = Trimmed(f, -delta)
    BY <1>2, <1>6
  <2> HIDE DEF delta
  <2> QED
    BY <1>1, <2>1, <2>2, TrimmedFits
<1> QED
  BY <1>5, <1>6

---------------------------------------------------------------------------
(* A symbol in and out of a state.                                         *)

Bytes == 0..(ByteSize - 1)
States == LowerBound..(LowerBound * ByteSize - 1)
Share == LowerBound \div Scale

LEMMA Bounds ==
    /\ Share \in Nat \ {0} /\ LowerBound = Scale * Share /\ LowerBound \in Nat \ {0}
    /\ LowerBound * ByteSize \in Nat /\ LowerBound * ByteSize <= WordSize
    /\ WordSize \in Nat /\ Scale < WordSize
<1>1. /\ LowerBound \in Nat /\ LowerBound % Scale = 0 /\ LowerBound > 0
      /\ LowerBound * ByteSize <= WordSize /\ WordSize \in Nat
  BY RansAssumption
<1>2. Scale \in Nat \ {0} /\ ByteSize \in Nat /\ ByteSize >= 2
  BY Constants
<1>3. LowerBound % Scale = LowerBound - Scale * Share /\ Share \in Nat
  BY <1>1, <1>2 DEF Share
<1> HIDE DEF Share
<1>4. LowerBound = Scale * Share
  BY <1>1, <1>2, <1>3
<1>5. Share # 0
  BY <1>1, <1>2, <1>4
<1>6. LowerBound * ByteSize \in Nat /\ 2 * LowerBound <= LowerBound * ByteSize
  BY <1>1, <1>2
<1>7. Scale <= LowerBound
  BY <1>2, <1>3, <1>4, <1>5
<1> QED
  BY <1>1, <1>2, <1>3, <1>4, <1>5, <1>6, <1>7

\* What is left of a state when the bytes are out.
LEMMA SpilledFits ==
    ASSUME NEW x \in States, NEW freq \in 1..Scale
    PROVE  /\ Spilled(x, freq).state \in Nat
           /\ Share * freq <= Spilled(x, freq).state
           /\ Spilled(x, freq).state < (Share * ByteSize) * freq
           /\ Spilled(x, freq).bytes \in Seq(Bytes)
           /\ Len(Spilled(x, freq).bytes) <= 2
<1> DEFINE limit == (Share * ByteSize) * freq
           one == x \div ByteSize
           two == one \div ByteSize
<1>1. /\ Share \in Nat \ {0} /\ LowerBound = Scale * Share /\ LowerBound \in Nat
      /\ ByteSize \in Nat \ {0} /\ Scale \in Nat \ {0} /\ freq \in Nat \ {0} /\ freq <= Scale
  BY Bounds, Constants
<1>2. x \in Nat /\ LowerBound <= x /\ x < LowerBound * ByteSize
  BY <1>1, Bounds DEF States
<1>3. one \in Nat /\ ByteSize * one <= x /\ x < ByteSize * one + ByteSize
  BY <1>1, <1>2, Dividing
<1> HIDE DEF one
<1>4. two \in Nat /\ ByteSize * two <= one /\ one < ByteSize * two + ByteSize
  BY <1>1, <1>3, Dividing
<1> HIDE DEF two
<1>5. limit \in Nat /\ limit = ByteSize * (Share * freq) /\ Share * freq \in Nat
  BY <1>1
<1>6. x % ByteSize \in Bytes /\ one % ByteSize \in Bytes
  BY <1>1, <1>2, <1>3 DEF Bytes
<1>7. Spilled(x, freq) =
         IF x < limit THEN [state |-> x, bytes |-> <<>>]
         ELSE IF one < limit THEN [state |-> one, bytes |-> <<x % ByteSize>>]
         ELSE [state |-> two, bytes |-> <<x % ByteSize, one % ByteSize>>]
  BY DEF Spilled, Share, one, two
<1> HIDE DEF limit
<1>8. CASE x < limit
  <2>1. Spilled(x, freq) = [state |-> x, bytes |-> <<>>]
    BY <1>7, <1>8
  <2>2. freq * Share <= Scale * Share
    BY <1>1, Factor
  <2>3. Share * freq <= x
    BY <1>1, <1>2, <2>2
  <2> QED
    BY <1>2, <1>8, <2>1, <2>3 DEF limit
<1>9. CASE ~(x < limit) /\ one < limit
  <2>1. Spilled(x, freq) = [state |-> one, bytes |-> <<x % ByteSize>>]
    BY <1>7, <1>9
  <2>2. ByteSize * (Share * freq) < ByteSize * (one + 1)
    BY <1>1, <1>2, <1>3, <1>5, <1>9
  <2>3. Share * freq < one + 1
    BY <1>1, <1>3, <1>5, <2>2, Cancelled
  <2>4. Share * freq <= one
    BY <1>3, <1>5, <2>3
  <2> QED
    BY <1>3, <1>6, <1>9, <2>1, <2>4 DEF limit
<1>10. CASE ~(x < limit) /\ ~(one < limit)
  <2>1. Spilled(x, freq) = [state |-> two, bytes |-> <<x % ByteSize, one % ByteSize>>]
    BY <1>7, <1>10
  <2>2. ByteSize * (Share * freq) < ByteSize * (two + 1)
    BY <1>1, <1>3, <1>4, <1>5, <1>10
  <2>3. Share * freq < two + 1
    BY <1>1, <1>4, <1>5, <2>2, Cancelled
  <2>4. Share * freq <= two
    BY <1>4, <1>5, <2>3
  <2>5. one < LowerBound
    <3>1. ByteSize * one < ByteSize * LowerBound
      BY <1>1, <1>2, <1>3
    <3> QED
      BY <1>1, <1>3, <3>1, Cancelled
  <2>6. two < limit
    <3>1. ByteSize * two < Scale * Share
      <4>1. ByteSize * two \in Nat
        BY <1>1, <1>4
      <4>2. ByteSize * two < LowerBound
        BY <1>1, <1>3, <1>4, <2>5, <4>1
      <4> QED
        BY <1>1, <4>2
    <3>2. Scale * Share <= (ByteSize * ByteSize) * Share
      <4>1. ByteSize * ByteSize \in Nat /\ Scale <= ByteSize * ByteSize
        BY Constants
      <4> QED
        BY <1>1, <4>1, Factor
    <3>3. ByteSize * two < ByteSize * (ByteSize * Share)
      BY <1>1, <1>4, <3>1, <3>2
    <3>4. two < ByteSize * Share
      BY <1>1, <1>4, <3>3, Cancelled
    <3>5. 1 * (ByteSize * Share) <= freq * (ByteSize * Share)
      BY <1>1, Factor
    <3>6. limit = freq * (ByteSize * Share)
      BY <1>1 DEF limit
    <3> QED
      BY <1>1, <1>4, <1>5, <3>4, <3>5, <3>6
  <2> QED
    BY <1>4, <1>6, <2>1, <2>4, <2>6 DEF limit
<1> QED
  BY <1>8, <1>9, <1>10

LEMMA Digits ==
    ASSUME NEW x \in Nat
    PROVE  (x \div ByteSize) * ByteSize + (x % ByteSize) = x
<1>1. ByteSize \in Nat \ {0}
  BY Constants
<1> DEFINE k == x \div ByteSize
           d == x % ByteSize
<1>2. d = x - ByteSize * k /\ k \in Nat /\ d \in Nat
  BY <1>1
<1> HIDE DEF k, d
<1>3. k * ByteSize + d = x
  BY <1>1, <1>2
<1> QED
  BY <1>3 DEF k, d

\* As many bytes are read as were written, and the state is what it was.
LEMMA RefilledReturns ==
    ASSUME NEW x \in States, NEW freq \in 1..Scale, NEW data, NEW pos \in Nat,
           \A j \in 1..Len(Spilled(x, freq).bytes) :
              /\ pos + j \in DOMAIN data
              /\ data[pos + j] = Spilled(x, freq).bytes[Len(Spilled(x, freq).bytes) + 1 - j]
    PROVE  Refilled(Spilled(x, freq).state, data, pos) =
              [state |-> x, pos |-> pos + Len(Spilled(x, freq).bytes)]
<1> DEFINE limit == (Share * ByteSize) * freq
           one == x \div ByteSize
           two == one \div ByteSize
           byte(i) == IF i \in DOMAIN data THEN data[i] ELSE 0
           bytes == Spilled(x, freq).bytes
<1>1. ByteSize \in Nat \ {0} /\ LowerBound \in Nat /\ Share * freq \in Nat
  BY Bounds, Constants
<1>2. x \in Nat /\ LowerBound <= x /\ x < LowerBound * ByteSize
  BY <1>1, Bounds DEF States
<1>3. /\ one \in Nat /\ ByteSize * one <= x /\ x < ByteSize * one + ByteSize
      /\ one * ByteSize + (x % ByteSize) = x /\ x % ByteSize \in Nat
  <2>1. one \in Nat /\ ByteSize * one <= x /\ x < ByteSize * one + ByteSize
    BY <1>1, <1>2, Dividing
  <2>2. one * ByteSize + (x % ByteSize) = x
    BY <1>2, Digits
  <2>3. x % ByteSize \in Nat
    BY <1>1, <1>2
  <2> QED
    BY <2>1, <2>2, <2>3
<1> HIDE DEF one
<1>4. /\ two \in Nat /\ ByteSize * two <= one /\ one < ByteSize * two + ByteSize
      /\ two * ByteSize + (one % ByteSize) = one /\ one % ByteSize \in Nat
  <2>1. two \in Nat /\ ByteSize * two <= one /\ one < ByteSize * two + ByteSize
    BY <1>1, <1>3, Dividing
  <2>2. two * ByteSize + (one % ByteSize) = one
    BY <1>3, Digits
  <2>3. one \in Nat /\ ByteSize \in Nat \ {0}
    BY <1>1, <1>3
  <2>4. one % ByteSize \in Nat
    BY <2>3
  <2> QED
    BY <2>1, <2>2, <2>4
<1> HIDE DEF two
<1>5. Spilled(x, freq) =
         IF x < limit THEN [state |-> x, bytes |-> <<>>]
         ELSE IF one < limit THEN [state |-> one, bytes |-> <<x % ByteSize>>]
         ELSE [state |-> two, bytes |-> <<x % ByteSize, one % ByteSize>>]
  BY DEF Spilled, Share, one, two
<1> HIDE DEF limit
<1>6. \A j \in 1..Len(bytes) : byte(pos + j) = bytes[Len(bytes) + 1 - j]
  OBVIOUS
<1>7. \A y : Refilled(y, data, pos) =
         IF y >= LowerBound THEN [state |-> y, pos |-> pos]
         ELSE IF y * ByteSize + byte(pos + 1) >= LowerBound
              THEN [state |-> y * ByteSize + byte(pos + 1), pos |-> pos + 1]
         ELSE [state |-> (y * ByteSize + byte(pos + 1)) * ByteSize + byte(pos + 2),
               pos |-> pos + 2]
  BY DEF Refilled
<1> HIDE DEF byte
<1>8. one < LowerBound
  <2>1. one \in Nat /\ ByteSize * one <= x
    BY <1>3
  <2>2. ByteSize * one < ByteSize * LowerBound
    <3>1. ByteSize * one \in Nat /\ ByteSize * LowerBound \in Nat
          /\ ByteSize * LowerBound = LowerBound * ByteSize
      BY <1>1, <2>1
    <3> QED
      BY <1>2, <2>1, <3>1
  <2> QED
    BY <1>1, <2>1, <2>2, Cancelled
<1>9. two < LowerBound
  <2>1. two \in Nat /\ one \in Nat /\ ByteSize * two <= one
    BY <1>3, <1>4
  <2>2. 1 * two <= ByteSize * two
    BY <1>1, <2>1, Factor
  <2> QED
    BY <1>1, <1>8, <2>1, <2>2
<1>10. CASE x < limit
  <2>1. Spilled(x, freq) = [state |-> x, bytes |-> <<>>]
    BY <1>5, <1>10
  <2>2. Len(bytes) = 0
    BY <2>1
  <2> QED
    BY <1>2, <1>7, <2>1, <2>2
<1>11. CASE ~(x < limit) /\ one < limit
  <2>1. Spilled(x, freq) = [state |-> one, bytes |-> <<x % ByteSize>>]
    BY <1>5, <1>11
  <2>2. Len(bytes) = 1 /\ bytes[1] = x % ByteSize
    BY <2>1
  <2> HIDE DEF bytes
  <2>3. byte(pos + 1) = x % ByteSize
    BY <1>6, <2>2
  <2>4. ~(one >= LowerBound) /\ one * ByteSize + byte(pos + 1) = x /\ x >= LowerBound
    <3>1. one * ByteSize + byte(pos + 1) = one * ByteSize + (x % ByteSize)
      BY <2>3
    <3> QED
      BY <1>1, <1>2, <1>3, <1>8, <3>1
  <2>5. Refilled(one, data, pos) = [state |-> x, pos |-> pos + 1]
    BY <1>7, <2>4
  <2> QED
    BY <2>1, <2>2, <2>5 DEF bytes
<1>12. CASE ~(x < limit) /\ ~(one < limit)
  <2>1. Spilled(x, freq) = [state |-> two, bytes |-> <<x % ByteSize, one % ByteSize>>]
    BY <1>5, <1>12
  <2>2. Len(bytes) = 2 /\ bytes[1] = x % ByteSize /\ bytes[2] = one % ByteSize
    BY <2>1
  <2> HIDE DEF bytes
  <2>3. byte(pos + 1) = one % ByteSize /\ byte(pos + 2) = x % ByteSize
    BY <1>6, <2>2
  <2>4. /\ ~(two >= LowerBound) /\ two * ByteSize + byte(pos + 1) = one
        /\ ~(one >= LowerBound) /\ one * ByteSize + byte(pos + 2) = x
    <3>1. /\ two * ByteSize + byte(pos + 1) = two * ByteSize + (one % ByteSize)
          /\ one * ByteSize + byte(pos + 2) = one * ByteSize + (x % ByteSize)
      BY <2>3
    <3> QED
      BY <1>1, <1>3, <1>4, <1>8, <1>9, <3>1
  <2>5. Refilled(two, data, pos) = [state |-> x, pos |-> pos + 2]
    BY <1>7, <2>4
  <2> QED
    BY <2>1, <2>2, <2>5 DEF bytes
<1> QED
  BY <1>10, <1>11, <1>12

LEMMA SplitScale ==
    ASSUME NEW q \in Nat, NEW r \in 0..(Scale - 1)
    PROVE  (q * Scale + r) \div Scale = q /\ (q * Scale + r) % Scale = r
<1>1. Scale \in Nat \ {0} /\ r \in Nat /\ r < Scale
  BY Constants
<1> DEFINE a == q * Scale + r
<1>2. a \in Nat /\ q * Scale <= a /\ a < q * Scale + Scale
  BY <1>1
<1> HIDE DEF a
<1>3. q = a \div Scale
  BY <1>1, <1>2, OneQuotient
<1>4. a % Scale = a - Scale * (a \div Scale)
  BY <1>1, <1>2
<1>5. a % Scale = r
  BY <1>1, <1>3, <1>4 DEF a
<1> QED
  BY <1>3, <1>5 DEF a

\* The new state is in its range, its slot one of the symbol's, and the symbol is
\* taken out of it by what advance() computes.
LEMMA PutReturns ==
    ASSUME NEW x \in States, NEW freq \in 1..Scale, NEW cum \in Nat, cum + freq <= Scale
    PROVE  LET z == PutSymbol(x, freq, cum).state
           IN  /\ z \in States
               /\ z % Scale \in Nat /\ cum <= z % Scale /\ z % Scale < cum + freq
               /\ freq * (z \div Scale) + (z % Scale) - cum = Spilled(x, freq).state
<1> DEFINE y == Spilled(x, freq).state
           q == y \div freq
           r == y - q * freq
           z == PutSymbol(x, freq, cum).state
<1>1. /\ Share \in Nat \ {0} /\ LowerBound = Scale * Share /\ LowerBound \in Nat
      /\ ByteSize \in Nat \ {0} /\ Scale \in Nat \ {0} /\ freq \in Nat \ {0} /\ freq <= Scale
      /\ LowerBound * ByteSize \in Nat /\ LowerBound * ByteSize <= WordSize
      /\ WordSize \in Nat /\ Scale < WordSize
  BY Bounds, Constants
<1>2. y \in Nat /\ Share * freq <= y /\ y < (Share * ByteSize) * freq
  BY SpilledFits
<1>3. y <= x
  <2>1. x \in Nat /\ ByteSize \in Nat \ {0}
    BY <1>1 DEF States
  <2>2. \A n \in Nat : n \div ByteSize \in Nat /\ n \div ByteSize <= n
    <3> SUFFICES ASSUME NEW n \in Nat PROVE n \div ByteSize \in Nat /\ n \div ByteSize <= n
      OBVIOUS
    <3>1. n \div ByteSize \in Nat /\ ByteSize * (n \div ByteSize) <= n
      BY <2>1, Dividing
    <3>2. 1 * (n \div ByteSize) <= ByteSize * (n \div ByteSize)
      BY <2>1, <3>1, Factor
    <3> QED
      BY <2>1, <3>1, <3>2
  <2>3. y \in {x, x \div ByteSize, (x \div ByteSize) \div ByteSize}
    BY DEF Spilled
  <2>4. x \div ByteSize \in Nat /\ x \div ByteSize <= x
    BY <2>1, <2>2
  <2>5. /\ (x \div ByteSize) \div ByteSize \in Nat
        /\ (x \div ByteSize) \div ByteSize <= x \div ByteSize
    BY <2>2, <2>4
  <2> QED
    BY <1>2, <2>1, <2>3, <2>4, <2>5
<1>4. z = Quotient(y, freq) * Scale + (y - Quotient(y, freq) * freq) + cum
  BY DEF PutSymbol
<1> HIDE DEF y, z
<1>5. Quotient(y, freq) = q
  <2>1. y \in 0..(WordSize - 1) /\ freq \in 1..(WordSize - 1)
    BY <1>1, <1>2, <1>3 DEF States
  <2> QED
    BY <2>1, QuotientExact
<1>6. q \in Nat /\ freq * q <= y /\ y < freq * q + freq
  BY <1>1, <1>2, Dividing
<1> HIDE DEF q
<1>7. r \in Nat /\ r < freq /\ y = freq * q + r
  BY <1>1, <1>2, <1>6
<1> HIDE DEF r
<1>8. r + cum \in 0..(Scale - 1)
  BY <1>1, <1>7
<1>9. z = q * Scale + (r + cum)
  <2>1. z = q * Scale + r + cum
    BY <1>4, <1>5 DEF r
  <2> QED
    BY <1>1, <1>6, <1>7, <2>1
<1>10. z \div Scale = q /\ z % Scale = r + cum
  BY <1>6, <1>8, <1>9, SplitScale
<1>11. Share <= q
  <2>1. freq * Share < freq * (q + 1)
    BY <1>1, <1>2, <1>6
  <2>2. Share < q + 1
    BY <1>1, <1>6, <2>1, Cancelled
  <2> QED
    BY <1>1, <1>6, <2>2
<1>12. q + 1 <= Share * ByteSize
  <2>1. freq * q < freq * (Share * ByteSize)
    BY <1>1, <1>2, <1>6
  <2>2. q < Share * ByteSize
    BY <1>1, <1>6, <2>1, Cancelled
  <2> QED
    BY <1>1, <1>6, <2>2
<1>13. z \in States
  <2>1. Share * Scale <= q * Scale
    BY <1>1, <1>6, <1>11, Factor
  <2>2. (q + 1) * Scale <= (Share * ByteSize) * Scale
    BY <1>1, <1>6, <1>12, Factor
  <2>3. (Share * ByteSize) * Scale = LowerBound * ByteSize /\ (q + 1) * Scale = q * Scale + Scale
    BY <1>1, <1>6
  <2>4. q * Scale \in Nat
    BY <1>1, <1>6
  <2>5. LowerBound <= z /\ z < LowerBound * ByteSize /\ z \in Nat
    BY <1>1, <1>8, <1>9, <2>1, <2>2, <2>3, <2>4
  <2> QED
    BY <1>1, <2>5 DEF States
<1>14. freq * q + (r + cum) - cum = y
  BY <1>1, <1>6, <1>7
<1>15. /\ z % Scale \in Nat /\ cum <= z % Scale /\ z % Scale < cum + freq
       /\ freq * (z \div Scale) + (z % Scale) - cum = y
  BY <1>1, <1>7, <1>8, <1>10, <1>14
<1> QED
  BY <1>13, <1>15 DEF y, z

---------------------------------------------------------------------------
(* All symbols in and out.                                                 *)

\* Frequencies with which a message can be coded.
Codes(f, m) ==
    /\ m \in Seq(Alphabet) /\ f \in Table /\ TotalOf(f) = Scale
    /\ \A i \in 1..Len(m) : f[m[i]] >= 1

\* One symbol has the slot.
LEMMA OneOwner ==
    ASSUME NEW f \in Table, NEW s \in Alphabet, NEW slot \in Nat,
           CumulativeFrequency(f, s) <= slot, slot < CumulativeFrequency(f, s) + f[s]
    PROVE  SlotOwner(f, slot) = [symbol |-> s, freq |-> f[s], cum |-> CumulativeFrequency(f, s)]
<1> DEFINE owners == {t \in Alphabet : /\ CumulativeFrequency(f, t) <= slot
                                       /\ slot < CumulativeFrequency(f, t) + f[t]}
<1>1. ASSUME NEW t \in owners PROVE t = s
  <2>1. /\ t \in Alphabet /\ CumulativeFrequency(f, t) <= slot
        /\ slot < CumulativeFrequency(f, t) + f[t]
    OBVIOUS
  <2> HIDE DEF owners
  <2>2. s \in Nat /\ t \in Nat /\ s \in 0..AlphabetSize /\ t \in 0..AlphabetSize
    BY <2>1, Constants
  <2>3. /\ CumulativeFrequency(f, s) \in Nat /\ CumulativeFrequency(f, t) \in Nat
        /\ f[s] \in Nat /\ f[t] \in Nat
    BY <2>1, <2>2, CumTypes DEF Table
  <2>4. s < t => CumulativeFrequency(f, s) + f[s] <= CumulativeFrequency(f, t)
    BY <2>1, <2>2, CumGrows
  <2>5. t < s => CumulativeFrequency(f, t) + f[t] <= CumulativeFrequency(f, s)
    BY <2>1, <2>2, CumGrows
  <2>6. ~(s < t)
    BY <2>1, <2>3, <2>4
  <2>7. ~(t < s)
    BY <2>1, <2>3, <2>5
  <2> QED
    BY <2>2, <2>6, <2>7
<1>2. owners = {s}
  BY <1>1
<1>3. SlotOwner(f, slot) =
         IF owners = {} THEN [symbol |-> 0, freq |-> 0, cum |-> 0]
         ELSE [symbol |-> Max(owners), freq |-> f[Max(owners)],
               cum |-> CumulativeFrequency(f, Max(owners))]
  BY DEF SlotOwner
<1> HIDE DEF owners
<1>4. Max({s}) = s
  <2>1. s >= s
    BY Constants
  <2> QED
    BY <2>1 DEF Max
<1> QED
  BY <1>2, <1>3, <1>4

NothingCoded == [states |-> [lane \in Lanes |-> LowerBound], stack |-> <<>>]

CoderAfter(m, f, coder, n) ==
    IF n = 0 THEN NothingCoded
    ELSE PutNext(coder[n - 1], f, m[Len(m) + 1 - n], Lane(Len(m) + 1 - n))

LEMMA CoderExists ==
    ASSUME NEW m, NEW f, Len(m) \in Nat
    PROVE  \E coder : coder = [n \in 0..Len(m) |-> CoderAfter(m, f, coder, n)]
<1> DEFINE S == {k \in Nat : \E coder : coder = [n \in 0..k |-> CoderAfter(m, f, coder, n)]}
<1>1. 0 \in S
  <2> DEFINE coder == [n \in 0..0 |-> NothingCoded]
  <2>1. coder = [n \in 0..0 |-> CoderAfter(m, f, coder, n)]
    BY DEF CoderAfter
  <2> QED
    BY <2>1
<1>2. ASSUME NEW k \in Nat, k \in S PROVE k + 1 \in S
  <2>1. PICK coder : coder = [n \in 0..k |-> CoderAfter(m, f, coder, n)]
    BY <1>2
  <2> DEFINE more == [n \in 0..(k + 1) |->
                        IF n <= k THEN coder[n] ELSE CoderAfter(m, f, coder, n)]
  <2>2. ASSUME NEW n \in 0..(k + 1) PROVE more[n] = CoderAfter(m, f, more, n)
    <3>1. n = 0 \/ (n - 1 \in 0..k /\ more[n - 1] = coder[n - 1])
      OBVIOUS
    <3>2. CoderAfter(m, f, more, n) = CoderAfter(m, f, coder, n)
      BY <3>1 DEF CoderAfter
    <3>3. n <= k => n \in 0..k
      OBVIOUS
    <3>4. more[n] = CoderAfter(m, f, coder, n)
      BY <2>1, <3>3
    <3> QED
      BY <3>2, <3>4
  <2> HIDE DEF more
  <2>3. more = [n \in 0..(k + 1) |-> CoderAfter(m, f, more, n)]
    BY <2>2 DEF more
  <2> QED
    BY <2>3
<1> HIDE DEF S
<1>3. Len(m) \in S
  BY <1>1, <1>2, SetInduction
<1> QED
  BY <1>3 DEF S

LEMMA CoderDefinition ==
    ASSUME NEW m, NEW f, Len(m) \in Nat
    PROVE  /\ Coder(m, f)[0] = NothingCoded
           /\ \A n \in 1..Len(m) : Coder(m, f)[n] =
                 PutNext(Coder(m, f)[n - 1], f, m[Len(m) + 1 - n], Lane(Len(m) + 1 - n))
<1>1. Coder(m, f) = CHOOSE coder : coder = [n \in 0..Len(m) |-> CoderAfter(m, f, coder, n)]
  BY DEF Coder, CoderAfter, NothingCoded
<1>2. Coder(m, f) = [n \in 0..Len(m) |-> CoderAfter(m, f, Coder(m, f), n)]
  BY <1>1, CoderExists
<1> QED
  BY <1>2 DEF CoderAfter

LEMMA LaneTypes == ASSUME NEW i \in Nat \ {0} PROVE Lane(i) \in Lanes
BY DEF Lane, Lanes

LEMMA FrequencyFits ==
    ASSUME NEW f, NEW m, Codes(f, m), NEW i \in 1..Len(m)
    PROVE  /\ m[i] \in Alphabet /\ f[m[i]] \in 1..Scale
           /\ CumulativeFrequency(f, m[i]) \in Nat
           /\ CumulativeFrequency(f, m[i]) + f[m[i]] <= Scale
<1>1. m[i] \in Alphabet /\ f \in Table /\ TotalOf(f) = Scale /\ f[m[i]] >= 1
  BY DEF Codes
<1>2. f[m[i]] \in Nat
  BY <1>1 DEF Table
<1>3. CumulativeFrequency(f, m[i]) \in Nat /\ CumulativeFrequency(f, m[i]) + f[m[i]] <= Scale
  BY <1>1, RangeFits
<1> QED
  BY <1>1, <1>2, <1>3, Constants

\* The n last symbols are in.
GoodCoder(c, n) ==
    /\ c.states \in [Lanes -> States]
    /\ c.stack \in Seq(Bytes) /\ Len(c.stack) <= 2 * n

LEMMA PutIndex ==
    ASSUME NEW f, NEW m, Codes(f, m), NEW n \in 1..Len(m), NEW c, GoodCoder(c, n - 1)
    PROVE  LET i == Len(m) + 1 - n
           IN  i \in 1..Len(m) /\ Lane(i) \in Lanes /\ c.states[Lane(i)] \in States
<1> DEFINE i == Len(m) + 1 - n
<1>1. i \in 1..Len(m) /\ i \in Nat \ {0}
  BY DEF Codes
<1>2. Lane(i) \in Lanes /\ c.states[Lane(i)] \in States
  BY <1>1, LaneTypes DEF GoodCoder
<1> QED
  BY <1>1, <1>2

\* No symbol is passed over.
LEMMA PutIsMade ==
    ASSUME NEW f, NEW m, Codes(f, m), NEW i \in 1..Len(m), NEW c, NEW lane
    PROVE  PutNext(c, f, m[i], lane) =
              [states |-> [c.states EXCEPT ![lane] =
                             PutSymbol(c.states[lane], f[m[i]],
                                       CumulativeFrequency(f, m[i])).state],
               stack |-> c.stack \o Spilled(c.states[lane], f[m[i]]).bytes]
<1>1. f[m[i]] # 0
  BY FrequencyFits, Constants
<1> QED
  BY <1>1 DEF PutNext, PutSymbol

LEMMA PutIsGood ==
    ASSUME NEW f, NEW m, Codes(f, m), NEW n \in 1..Len(m), NEW c, GoodCoder(c, n - 1)
    PROVE  GoodCoder(PutNext(c, f, m[Len(m) + 1 - n], Lane(Len(m) + 1 - n)), n)
<1> DEFINE i == Len(m) + 1 - n
           lane == Lane(i)
           x == c.states[lane]
           freq == f[m[i]]
           cum == CumulativeFrequency(f, m[i])
           put == PutSymbol(x, freq, cum)
           bytes == Spilled(x, freq).bytes
           next == PutNext(c, f, m[i], lane)
<1>1. i \in 1..Len(m) /\ lane \in Lanes /\ x \in States
  BY PutIndex
<1> HIDE DEF i
<1>2. m[i] \in Alphabet /\ freq \in 1..Scale /\ cum \in Nat /\ cum + freq <= Scale
  BY <1>1, FrequencyFits
<1>3. put.state \in States
  BY <1>1, <1>2, PutReturns
<1>4. bytes \in Seq(Bytes) /\ Len(bytes) <= 2 /\ Len(bytes) \in Nat
  BY <1>1, <1>2, SpilledFits
<1>5. next = [states |-> [c.states EXCEPT ![lane] = put.state], stack |-> c.stack \o bytes]
  BY <1>1, PutIsMade
<1> HIDE DEF lane, x, freq, cum, put, bytes, next
<1>6. c.states \in [Lanes -> States] /\ c.stack \in Seq(Bytes) /\ Len(c.stack) <= 2 * (n - 1)
  BY DEF GoodCoder
<1>7. [c.states EXCEPT ![lane] = put.state] \in [Lanes -> States]
  BY <1>3, <1>6
<1>8. c.stack \o bytes \in Seq(Bytes) /\ Len(c.stack \o bytes) = Len(c.stack) + Len(bytes)
  BY <1>4, <1>6
<1>9. Len(c.stack \o bytes) <= 2 * n
  <2>1. Len(m) \in Nat /\ n \in Nat
    BY DEF Codes
  <2> QED
    BY <1>4, <1>6, <1>8, <2>1
<1>10. GoodCoder(next, n)
  BY <1>5, <1>7, <1>8, <1>9 DEF GoodCoder
<1> QED
  BY <1>10 DEF next, lane, i

LEMMA CoderIsGood ==
    ASSUME NEW f, NEW m, Codes(f, m)
    PROVE  \A n \in 0..Len(m) : GoodCoder(Coder(m, f)[n], n)
<1> DEFINE S == {n \in Nat : n <= Len(m) => GoodCoder(Coder(m, f)[n], n)}
<1>0. Len(m) \in Nat
  BY DEF Codes
<1>1. 0 \in S
  <2>1. Coder(m, f)[0] = NothingCoded
    BY <1>0, CoderDefinition
  <2>2. LowerBound \in States
    <3>1. LowerBound \in Nat \ {0} /\ ByteSize \in Nat /\ ByteSize >= 2
      BY Bounds, Constants
    <3>2. 2 * LowerBound <= LowerBound * ByteSize /\ LowerBound * ByteSize \in Nat
      BY <3>1
    <3> QED
      BY <3>1, <3>2 DEF States
  <2>3. <<>> \in Seq(Bytes) /\ Len(<<>>) <= 2 * 0
    OBVIOUS
  <2>4. NothingCoded.stack = <<>> /\ NothingCoded.states \in [Lanes -> States]
    BY <2>2 DEF NothingCoded
  <2>5. GoodCoder(NothingCoded, 0)
    BY <2>3, <2>4 DEF GoodCoder
  <2> QED
    BY <2>1, <2>5
<1>2. ASSUME NEW n \in Nat, n \in S PROVE n + 1 \in S
  <2> SUFFICES ASSUME n + 1 <= Len(m) PROVE GoodCoder(Coder(m, f)[n + 1], n + 1)
    OBVIOUS
  <2> DEFINE k == n + 1
  <2>1. k \in 1..Len(m) /\ k - 1 = n
    BY <1>0
  <2>2. GoodCoder(Coder(m, f)[n], n)
    BY <1>0, <1>2
  <2> HIDE DEF k
  <2>3. Coder(m, f)[k] =
           PutNext(Coder(m, f)[k - 1], f, m[Len(m) + 1 - k], Lane(Len(m) + 1 - k))
    BY <1>0, <2>1, CoderDefinition
  <2>4. GoodCoder(Coder(m, f)[k - 1], k - 1)
    BY <2>1, <2>2
  <2>5. GoodCoder(PutNext(Coder(m, f)[k - 1], f, m[Len(m) + 1 - k], Lane(Len(m) + 1 - k)), k)
    BY <2>1, <2>4, PutIsGood
  <2>6. GoodCoder(Coder(m, f)[k], k)
    BY <2>3, <2>5
  <2> QED
    BY <2>6 DEF k
<1> HIDE DEF S
<1>3. Nat \subseteq S
  BY <1>1, <1>2, SetInduction
<1> QED
  BY <1>0, <1>3 DEF S

\* What is on the stack stays there.
LEMMA StackGrows ==
    ASSUME NEW f, NEW m, Codes(f, m), NEW n \in 0..Len(m)
    PROVE  LET last == Coder(m, f)[Len(m)].stack
               stack == Coder(m, f)[n].stack
           IN  /\ Len(stack) \in Nat /\ Len(last) \in Nat /\ Len(stack) <= Len(last)
               /\ \A q \in 1..Len(stack) : last[q] = stack[q]
<1> DEFINE E(k) == Coder(m, f)[k].stack
           Within(k) == /\ Len(E(n)) <= Len(E(k))
                        /\ \A q \in 1..Len(E(n)) : E(k)[q] = E(n)[q]
           S == {k \in Nat : n + k <= Len(m) => Within(n + k)}
<1>0. Len(m) \in Nat /\ n \in Nat /\ n <= Len(m)
  BY DEF Codes
<1>1. ASSUME NEW k \in 0..Len(m) PROVE E(k) \in Seq(Bytes) /\ Len(E(k)) \in Nat
  <2>1. GoodCoder(Coder(m, f)[k], k)
    BY CoderIsGood
  <2>2. E(k) \in Seq(Bytes)
    BY <2>1 DEF GoodCoder
  <2> QED
    BY <2>2
<1>2. 0 \in S
  BY <1>0, <1>1
<1>3. ASSUME NEW k \in Nat, k \in S PROVE k + 1 \in S
  <2> SUFFICES ASSUME n + (k + 1) <= Len(m) PROVE Within(n + (k + 1))
    OBVIOUS
  <2> DEFINE j == n + k
             j1 == n + (k + 1)
             i == Len(m) + 1 - j1
             c == Coder(m, f)[j1 - 1]
             bytes == Spilled(c.states[Lane(i)], f[m[i]]).bytes
  <2>1. /\ j1 \in 1..Len(m) /\ j1 - 1 = j /\ j \in 0..Len(m) /\ j1 \in 0..Len(m)
    BY <1>0
  <2>2. Within(j)
    BY <1>0, <1>3
  <2> HIDE DEF j, j1
  <2>3. GoodCoder(c, j1 - 1) /\ E(j) = c.stack
    BY <2>1, CoderIsGood
  <2>4. Coder(m, f)[j1] = PutNext(c, f, m[i], Lane(i))
    BY <1>0, <2>1, CoderDefinition
  <2>5. /\ i \in 1..Len(m) /\ c.states[Lane(i)] \in States
        /\ PutNext(c, f, m[i], Lane(i)).stack = c.stack \o bytes
    <3>1. i \in 1..Len(m) /\ c.states[Lane(i)] \in States
      BY <2>1, <2>3, PutIndex
    <3> HIDE DEF c, i
    <3> DEFINE states == [c.states EXCEPT ![Lane(i)] =
                            PutSymbol(c.states[Lane(i)], f[m[i]],
                                      CumulativeFrequency(f, m[i])).state]
    <3>2. PutNext(c, f, m[i], Lane(i)) = [states |-> states, stack |-> c.stack \o bytes]
      BY <3>1, PutIsMade
    <3> HIDE DEF states, bytes
    <3>3. PutNext(c, f, m[i], Lane(i)).stack = c.stack \o bytes
      BY <3>2
    <3> QED
      BY <3>1, <3>3
  <2>6. bytes \in Seq(Bytes)
    <3>1. f[m[i]] \in 1..Scale
      BY <2>5, FrequencyFits
    <3> QED
      BY <2>5, <3>1, SpilledFits
  <2>7. E(j1) = E(j) \o bytes
    BY <2>3, <2>4, <2>5
  <2> HIDE DEF bytes, c, i
  <2>8. E(j) \in Seq(Bytes) /\ E(n) \in Seq(Bytes)
    BY <1>0, <1>1, <2>1
  <2> HIDE DEF E
  <2>9. Within(j1)
    BY <2>2, <2>6, <2>7, <2>8
  <2> QED
    BY <2>9 DEF j1
<1> HIDE DEF S
<1>4. Len(m) - n \in S
  BY <1>0, <1>2, <1>3, SetInduction
<1>5. n + (Len(m) - n) = Len(m) /\ Len(m) - n \in Nat
  BY <1>0
<1>6. Within(Len(m))
  BY <1>4, <1>5 DEF S
<1> QED
  BY <1>0, <1>1, <1>6

Fresh(states) == [states |-> states, pos |-> 0, symbols |-> <<>>]

DecoderAfter(table, states, data, decoder, n) ==
    IF n = 0 THEN Fresh(states) ELSE GetNext(decoder[n - 1], table, data, Lane(n))

LEMMA DecoderExists ==
    ASSUME NEW table, NEW states, NEW data, NEW count \in Nat
    PROVE  \E decoder : decoder =
              [n \in 0..count |-> DecoderAfter(table, states, data, decoder, n)]
<1> DEFINE After(decoder, n) == DecoderAfter(table, states, data, decoder, n)
           S == {k \in Nat : \E decoder : decoder = [n \in 0..k |-> After(decoder, n)]}
<1>1. 0 \in S
  <2> DEFINE decoder == [n \in 0..0 |-> Fresh(states)]
  <2>1. decoder = [n \in 0..0 |-> After(decoder, n)]
    BY DEF DecoderAfter
  <2> QED
    BY <2>1
<1>2. ASSUME NEW k \in Nat, k \in S PROVE k + 1 \in S
  <2>1. PICK decoder : decoder = [n \in 0..k |-> After(decoder, n)]
    BY <1>2
  <2> DEFINE more == [n \in 0..(k + 1) |-> IF n <= k THEN decoder[n] ELSE After(decoder, n)]
  <2>2. ASSUME NEW n \in 0..(k + 1) PROVE more[n] = After(more, n)
    <3>1. n = 0 \/ (n - 1 \in 0..k /\ more[n - 1] = decoder[n - 1])
      OBVIOUS
    <3>2. After(more, n) = After(decoder, n)
      BY <3>1 DEF DecoderAfter
    <3>3. n <= k => n \in 0..k
      OBVIOUS
    <3>4. more[n] = After(decoder, n)
      BY <2>1, <3>3
    <3> QED
      BY <3>2, <3>4
  <2> HIDE DEF more
  <2>3. more = [n \in 0..(k + 1) |-> After(more, n)]
    BY <2>2 DEF more
  <2> QED
    BY <2>3
<1> HIDE DEF S
<1>3. count \in S
  BY <1>1, <1>2, SetInduction
<1> QED
  BY <1>3 DEF S

LEMMA DecoderDefinition ==
    ASSUME NEW table, NEW states, NEW data, NEW count \in Nat
    PROVE  LET decoder == Decoder(table, states, data, count)
           IN  /\ decoder[0] = Fresh(states)
               /\ \A n \in 1..count :
                     decoder[n] = GetNext(decoder[n - 1], table, data, Lane(n))
<1> DEFINE decoder == Decoder(table, states, data, count)
<1>1. decoder = CHOOSE g : g = [n \in 0..count |-> DecoderAfter(table, states, data, g, n)]
  BY DEF Decoder, DecoderAfter, Fresh
<1>2. decoder = [n \in 0..count |-> DecoderAfter(table, states, data, decoder, n)]
  BY <1>1, DecoderExists
<1> QED
  BY <1>2 DEF DecoderAfter

\* The stack after n symbols, and what the tile's data holds of it.
StackOf(m, f, n) == Coder(m, f)[n].stack
DataOf(m, f) == Encoded(m, f).bytes

LEMMA StackTypes ==
    ASSUME NEW f, NEW m, Codes(f, m), NEW n \in 0..Len(m)
    PROVE  /\ StackOf(m, f, n) \in Seq(Bytes) /\ Len(StackOf(m, f, n)) \in Nat
           /\ Len(StackOf(m, f, n)) <= 2 * n
<1>1. GoodCoder(Coder(m, f)[n], n)
  BY CoderIsGood
<1> QED
  BY <1>1 DEF GoodCoder, StackOf

LEMMA StackLength ==
    ASSUME NEW f, NEW m, Codes(f, m), NEW n \in 0..Len(m)
    PROVE  Len(StackOf(m, f, n)) <= Len(StackOf(m, f, Len(m)))
BY StackGrows DEF StackOf

Stays(m, f, n) ==
    \A q \in 1..Len(StackOf(m, f, n)) : StackOf(m, f, Len(m))[q] = StackOf(m, f, n)[q]

LEMMA StackStays ==
    ASSUME NEW f, NEW m, Codes(f, m), NEW n \in 0..Len(m)
    PROVE  Stays(m, f, n)
BY StackGrows DEF StackOf, Stays

LEMMA DataTypes ==
    ASSUME NEW f, NEW m, Codes(f, m)
    PROVE  LET last == StackOf(m, f, Len(m))
           IN  /\ DataOf(m, f) = [i \in 1..Len(last) |-> last[Len(last) + 1 - i]]
               /\ DOMAIN DataOf(m, f) = 1..Len(last)
               /\ Len(DataOf(m, f)) = Len(last)
<1> DEFINE last == StackOf(m, f, Len(m))
           data == DataOf(m, f)
<1>1. Len(m) \in 0..Len(m)
  BY DEF Codes
<1>2. Len(last) \in Nat
  BY <1>1, StackTypes
<1>3. data = [i \in 1..Len(last) |-> last[Len(last) + 1 - i]]
  BY DEF Encoded, StackOf, DataOf
<1> HIDE DEF last, data
<1>4. DOMAIN data = 1..Len(last) /\ Len(data) = Len(last)
  BY <1>2, <1>3
<1> QED
  BY <1>3, <1>4 DEF last, data

\* The bytes of a symbol lie where the decoder has got to.
Follow(data, pos, bytes) ==
    \A k \in 1..Len(bytes) : pos + k \in DOMAIN data /\ data[pos + k] = bytes[Len(bytes) + 1 - k]

LEMMA BytesFollow ==
    ASSUME NEW f, NEW m, Codes(f, m), NEW n \in 1..Len(m), NEW bytes \in Seq(Bytes),
           StackOf(m, f, n) = StackOf(m, f, n - 1) \o bytes,
           NEW pos, pos = Len(DataOf(m, f)) - Len(StackOf(m, f, n))
    PROVE  Follow(DataOf(m, f), pos, bytes)
<1> SUFFICES ASSUME NEW k \in 1..Len(bytes)
             PROVE  /\ pos + k \in DOMAIN DataOf(m, f)
                    /\ DataOf(m, f)[pos + k] = bytes[Len(bytes) + 1 - k]
  BY DEF Follow
<1> DEFINE last == StackOf(m, f, Len(m))
           size == Len(last)
           new == StackOf(m, f, n)
           old == StackOf(m, f, n - 1)
           data == DataOf(m, f)
           at == Len(new) + 1 - k
<1>1. Len(m) \in Nat /\ n \in 0..Len(m) /\ n - 1 \in 0..Len(m) /\ Len(m) \in 0..Len(m)
  BY DEF Codes
<1>2. Len(new) \in Nat /\ size \in Nat
  BY <1>1, StackTypes
<1>3. Len(new) <= size
  BY <1>1, StackLength
<1>13. \A q \in 1..Len(new) : last[q] = new[q]
  <2>1. Stays(m, f, n)
    BY <1>1, StackStays
  <2> QED
    BY <2>1 DEF Stays
<1>4. old \in Seq(Bytes)
  BY <1>1, StackTypes
<1>5. /\ data = [i \in 1..size |-> last[size + 1 - i]]
      /\ DOMAIN data = 1..size /\ Len(data) = size
  BY DataTypes
<1>6. new = old \o bytes
  OBVIOUS
<1> HIDE DEF last, new, old, data
<1>7. /\ Len(bytes) \in Nat /\ Len(old) \in Nat /\ Len(new) = Len(old) + Len(bytes)
      /\ k \in Nat /\ 1 <= k /\ k <= Len(bytes)
  BY <1>4, <1>6
<1>8. at \in 1..Len(new) /\ at - Len(old) = Len(bytes) + 1 - k /\ ~(at <= Len(old))
  BY <1>2, <1>7
<1>9. new[at] = bytes[Len(bytes) + 1 - k]
  <2>1. at \in 1..(Len(old) + Len(bytes))
    BY <1>7, <1>8
  <2> HIDE DEF at
  <2>2. (old \o bytes)[at] = IF at <= Len(old) THEN old[at] ELSE bytes[at - Len(old)]
    BY <1>4, <2>1, ConcatProperties
  <2> QED
    BY <1>6, <1>8, <2>2
<1>10. pos + k \in 1..size /\ size + 1 - (pos + k) = at
  BY <1>2, <1>3, <1>5, <1>7 DEF data, new
<1>11. data[pos + k] = last[at]
  BY <1>5, <1>10
<1>12. last[at] = new[at]
  BY <1>8, <1>13
<1> QED
  BY <1>5, <1>9, <1>10, <1>11, <1>12 DEF data

LEMMA LookedUp ==
    ASSUME NEW f, NEW slot \in 0..(Scale - 1)
    PROVE  [s \in 0..(Scale - 1) |-> SlotOwner(f, s)][slot] = SlotOwner(f, slot)
OBVIOUS

\* What taking a symbol out comes to when its state and bytes are known.
LEMMA GetIsMade ==
    ASSUME NEW d, NEW table, NEW data, NEW lane, NEW z, NEW s, NEW freq, NEW cum,
           NEW y, NEW x, NEW pos,
           d.states[lane] = z, table[z % Scale] = [symbol |-> s, freq |-> freq, cum |-> cum],
           freq * (z \div Scale) + (z % Scale) - cum = y,
           Refilled(y, data, d.pos) = [state |-> x, pos |-> pos]
    PROVE  GetNext(d, table, data, lane) =
              [states |-> [d.states EXCEPT ![lane] = x], pos |-> pos,
               symbols |-> Append(d.symbols, s)]
<1> DEFINE entry == table[z % Scale]
<1>1. entry.symbol = s /\ entry.freq = freq /\ entry.cum = cum
  OBVIOUS
<1> HIDE DEF entry
<1> DEFINE filled == Refilled(y, data, d.pos)
<1>2. filled.state = x /\ filled.pos = pos
  OBVIOUS
<1> HIDE DEF filled
<1>3. GetNext(d, table, data, lane) =
         [states |-> [d.states EXCEPT ![lane] = filled.state], pos |-> filled.pos,
          symbols |-> Append(d.symbols, entry.symbol)]
  BY <1>1 DEF GetNext, entry, filled
<1> QED
  BY <1>1, <1>2, <1>3

\* The coder's step, field by field.
Stepped(m, f, n, j) ==
    LET before == Coder(m, f)[n - 1].states
        x == before[Lane(j)]
    IN  /\ j \in 1..Len(m) /\ Lane(j) \in Lanes /\ x \in States
        /\ before \in [Lanes -> States]
        /\ Coder(m, f)[n].states =
              [before EXCEPT ![Lane(j)] =
                 PutSymbol(x, f[m[j]], CumulativeFrequency(f, m[j])).state]
        /\ StackOf(m, f, n) = StackOf(m, f, n - 1) \o Spilled(x, f[m[j]]).bytes

LEMMA PutStep ==
    ASSUME NEW f, NEW m, Codes(f, m), NEW n \in 1..Len(m)
    PROVE  Stepped(m, f, n, Len(m) + 1 - n)
<1> DEFINE j == Len(m) + 1 - n
           c == Coder(m, f)[n - 1]
           next == Coder(m, f)[n]
           lane == Lane(j)
<1>1. Len(m) \in Nat /\ n - 1 \in 0..Len(m)
  BY DEF Codes
<1>2. GoodCoder(c, n - 1)
  BY <1>1, CoderIsGood
<1>3. j \in 1..Len(m) /\ lane \in Lanes /\ c.states[lane] \in States
  BY <1>2, PutIndex
<1>4. next = PutNext(c, f, m[j], lane)
  BY <1>1, CoderDefinition
<1>5. c.states \in [Lanes -> States]
  BY <1>2 DEF GoodCoder
<1> HIDE DEF c, lane, j, next
<1> DEFINE states == [c.states EXCEPT ![lane] =
                        PutSymbol(c.states[lane], f[m[j]],
                                  CumulativeFrequency(f, m[j])).state]
           stack == c.stack \o Spilled(c.states[lane], f[m[j]]).bytes
<1>8. PutNext(c, f, m[j], lane) = [states |-> states, stack |-> stack]
  BY <1>3, PutIsMade
<1> HIDE DEF states, stack
<1>9. next.states = states /\ next.stack = stack
  BY <1>4, <1>8
<1>6. next.states = [c.states EXCEPT ![lane] =
                       PutSymbol(c.states[lane], f[m[j]],
                                 CumulativeFrequency(f, m[j])).state]
  BY <1>9 DEF states
<1>7. next.stack = c.stack \o Spilled(c.states[lane], f[m[j]]).bytes
  BY <1>9 DEF stack
<1> QED
  BY <1>3, <1>5, <1>6, <1>7 DEF c, lane, j, next, StackOf, Stepped

\* Taking a symbol out undoes putting it in.
Got(m, f, d, n) ==
    LET j == Len(m) + 1 - n
        table == [slot \in 0..(Scale - 1) |-> SlotOwner(f, slot)]
    IN  GetNext(d, table, DataOf(m, f), Lane(j)) =
           [states |-> Coder(m, f)[n - 1].states,
            pos |-> Len(DataOf(m, f)) - Len(StackOf(m, f, n - 1)),
            symbols |-> Append(d.symbols, m[j])]

LEMMA OneGet ==
    ASSUME NEW f, NEW m, Codes(f, m), NEW n \in 1..Len(m), NEW d,
           d.states = Coder(m, f)[n].states,
           d.pos = Len(DataOf(m, f)) - Len(StackOf(m, f, n))
    PROVE  Got(m, f, d, n)
<1> DEFINE j == Len(m) + 1 - n
           before == Coder(m, f)[n - 1].states
           lane == Lane(j)
           s == m[j]
           freq == f[s]
           cum == CumulativeFrequency(f, s)
           x == before[lane]
           z == PutSymbol(x, freq, cum).state
           bytes == Spilled(x, freq).bytes
           y == Spilled(x, freq).state
           data == DataOf(m, f)
           size == Len(data)
           new == StackOf(m, f, n)
           old == StackOf(m, f, n - 1)
           table == [slot \in 0..(Scale - 1) |-> SlotOwner(f, slot)]
           pos == size - Len(old)
<1>1. Len(m) \in Nat /\ n \in 0..Len(m) /\ n - 1 \in 0..Len(m) /\ Len(m) \in 0..Len(m)
  BY DEF Codes
<1>2. /\ j \in 1..Len(m) /\ lane \in Lanes /\ x \in States /\ before \in [Lanes -> States]
      /\ Coder(m, f)[n].states = [before EXCEPT ![lane] = z]
      /\ new = old \o bytes
  <2>1. Stepped(m, f, n, j)
    BY PutStep
  <2> QED
    BY <2>1 DEF Stepped
<1> HIDE DEF j
<1>3. s \in Alphabet /\ freq \in 1..Scale /\ cum \in Nat /\ cum + freq <= Scale
  BY <1>2, FrequencyFits
<1>4. bytes \in Seq(Bytes) /\ Len(bytes) \in Nat
  <2> HIDE DEF x, freq
  <2> QED
    BY <1>2, <1>3, SpilledFits
<1>5. /\ z \in States
      /\ z % Scale \in Nat /\ cum <= z % Scale /\ z % Scale < cum + freq
      /\ freq * (z \div Scale) + (z % Scale) - cum = y
  <2> HIDE DEF x, freq, cum
  <2> QED
    BY <1>2, <1>3, PutReturns
<1>6. table[z % Scale] = [symbol |-> s, freq |-> freq, cum |-> cum]
  <2> DEFINE slot == z % Scale
  <2>1. slot \in Nat /\ cum <= slot /\ slot < cum + freq
    BY <1>5
  <2> HIDE DEF slot
  <2>2. Scale \in Nat /\ freq \in Nat
    BY <1>3, Constants
  <2>3. slot \in 0..(Scale - 1)
    BY <1>3, <2>1, <2>2
  <2>4. table[slot] = SlotOwner(f, slot)
    BY <2>3, LookedUp
  <2>5. SlotOwner(f, slot) = [symbol |-> s, freq |-> freq, cum |-> cum]
    <3>1. f \in Table
      BY DEF Codes
    <3> QED
      BY <1>3, <2>1, <3>1, OneOwner
  <2> QED
    BY <2>4, <2>5 DEF slot
<1>7. Follow(data, d.pos, bytes)
  <2> DEFINE p == d.pos
  <2>1. p = Len(DataOf(m, f)) - Len(StackOf(m, f, n))
    OBVIOUS
  <2>2. StackOf(m, f, n) = StackOf(m, f, n - 1) \o bytes
    BY <1>2
  <2> HIDE DEF bytes, p
  <2>3. Follow(DataOf(m, f), p, bytes)
    BY <1>4, <2>1, <2>2, BytesFollow
  <2> QED
    BY <2>3 DEF p
<1>8. d.pos \in Nat /\ d.pos + Len(bytes) = pos
  <2>1. size = Len(StackOf(m, f, Len(m)))
    BY DataTypes
  <2>2. Len(new) <= size
    BY <1>1, <2>1, StackLength
  <2>3. Len(new) \in Nat /\ old \in Seq(Bytes) /\ Len(old) \in Nat
    BY <1>1, StackTypes
  <2>4. size \in Nat
    BY <1>1, <2>1, StackTypes
  <2>5. d.pos = size - Len(new) /\ new = old \o bytes
    BY <1>2
  <2> DEFINE p == d.pos
  <2>7. p = size - Len(new)
    BY <2>5
  <2> HIDE DEF size, new, old, bytes, p
  <2>6. Len(new) = Len(old) + Len(bytes)
    BY <1>4, <2>3, <2>5
  <2>8. p \in Nat /\ p + Len(bytes) = size - Len(old)
    BY <1>4, <2>2, <2>3, <2>4, <2>6, <2>7
  <2> QED
    BY <2>8 DEF p
<1>9. Refilled(y, data, d.pos) = [state |-> x, pos |-> pos]
  <2> DEFINE p == d.pos
  <2>1. p \in Nat /\ p + Len(bytes) = pos
    BY <1>8
  <2>2. \A k \in 1..Len(bytes) : /\ p + k \in DOMAIN data
                                 /\ data[p + k] = bytes[Len(bytes) + 1 - k]
    BY <1>7 DEF Follow
  <2>4. x \in States /\ freq \in 1..Scale
    BY <1>2, <1>3
  <2> HIDE DEF x, freq, data, p, pos
  <2>3. Refilled(Spilled(x, freq).state, data, p) = [state |-> x, pos |-> p + Len(bytes)]
    BY <2>1, <2>2, <2>4, RefilledReturns
  <2> QED
    BY <2>1, <2>3 DEF p
<1>10. d.states = [before EXCEPT ![lane] = z]
  BY <1>2
<1> HIDE DEF before, lane, s, freq, cum, z, bytes, y, data, size, new, old, table, pos
<1>11. d.states[lane] = z /\ [d.states EXCEPT ![lane] = x] = before
  <2>1. x = before[lane]
    BY DEF x
  <2> HIDE DEF x
  <2>2. [[before EXCEPT ![lane] = z] EXCEPT ![lane] = x] = before
    BY <1>2, <2>1
  <2> QED
    BY <1>2, <1>10, <2>2
<1> HIDE DEF x
<1>12. GetNext(d, table, data, lane) =
          [states |-> [d.states EXCEPT ![lane] = x], pos |-> pos, symbols |-> Append(d.symbols, s)]
  BY <1>5, <1>6, <1>9, <1>11, GetIsMade
<1>13. GetNext(d, table, data, lane) =
          [states |-> before, pos |-> pos, symbols |-> Append(d.symbols, s)]
  BY <1>11, <1>12
<1> QED
  BY <1>13 DEF j, before, lane, s, data, table, pos, size, old, Got

TableOf(f) == [slot \in 0..(Scale - 1) |-> SlotOwner(f, slot)]

\* After j symbols the decoder is where the coder was before the j first symbols.
Matches(m, f, d, j) ==
    /\ d.states = Coder(m, f)[Len(m) - j].states
    /\ d.pos = Len(DataOf(m, f)) - Len(StackOf(m, f, Len(m) - j))
    /\ d.symbols = [i \in 1..j |-> m[i]]

LEMMA OneMore ==
    ASSUME NEW m, NEW j \in Nat \ {0}
    PROVE  Append([i \in 1..(j - 1) |-> m[i]], m[j]) = [i \in 1..j |-> m[i]]
<1> DEFINE s == [i \in 1..(j - 1) |-> m[i]]
           t == [i \in 1..j |-> m[i]]
<1>1. s \in Seq({m[i] : i \in 1..j}) /\ Len(s) = j - 1
  OBVIOUS
<1>2. \A i \in 1..(j - 1) : s[i] = m[i]
  OBVIOUS
<1>3. /\ Append(s, m[j]) \in Seq({m[i] : i \in 1..j}) /\ Len(Append(s, m[j])) = j
      /\ \A i \in 1..(j - 1) : Append(s, m[j])[i] = s[i]
      /\ Append(s, m[j])[j] = m[j]
  <2> HIDE DEF s
  <2> DEFINE D == {m[i] : i \in 1..j}
  <2>1. m[j] \in D /\ s \in Seq(D)
    BY <1>1
  <2> HIDE DEF D
  <2>2. Append(s, m[j]) \in Seq(D) /\ Len(Append(s, m[j])) = j
    BY <1>1, <2>1
  <2>3. \A i \in 1..(j - 1) : Append(s, m[j])[i] = s[i]
    BY <1>1, <2>1
  <2>4. Append(s, m[j])[j] = m[j]
    BY <1>1, <2>1
  <2> QED
    BY <2>2, <2>3, <2>4 DEF D
<1>4. t \in Seq({m[i] : i \in 1..j}) /\ Len(t) = j
  OBVIOUS
<1>5. \A i \in 1..j : t[i] = m[i]
  OBVIOUS
<1> HIDE DEF s, t
<1>6. \A i \in 1..j : Append(s, m[j])[i] = t[i]
  BY <1>2, <1>3, <1>5
<1> DEFINE D == {m[i] : i \in 1..j}
<1> HIDE DEF D
<1>7. Append(s, m[j]) = t
  BY <1>3, <1>4, <1>6, SeqEqual
<1> QED
  BY <1>7 DEF s, t

LEMMA OneMatch ==
    ASSUME NEW f, NEW m, Codes(f, m), NEW j \in 1..Len(m), NEW d, Matches(m, f, d, j - 1)
    PROVE  Matches(m, f, GetNext(d, TableOf(f), DataOf(m, f), Lane(j)), j)
<1> DEFINE n == Len(m) + 1 - j
           next == GetNext(d, TableOf(f), DataOf(m, f), Lane(j))
<1>1. Len(m) \in Nat /\ n \in 1..Len(m) /\ Len(m) - (j - 1) = n /\ n - 1 = Len(m) - j
      /\ Len(m) + 1 - n = j
  BY DEF Codes
<1>2. /\ d.states = Coder(m, f)[n].states
      /\ d.pos = Len(DataOf(m, f)) - Len(StackOf(m, f, n))
      /\ d.symbols = [i \in 1..(j - 1) |-> m[i]]
  BY <1>1 DEF Matches
<1> HIDE DEF n
<1>3. Got(m, f, d, n)
  BY <1>1, <1>2, OneGet
<1> DEFINE states == Coder(m, f)[n - 1].states
           pos == Len(DataOf(m, f)) - Len(StackOf(m, f, n - 1))
           symbols == Append(d.symbols, m[j])
<1>4. next = [states |-> states, pos |-> pos, symbols |-> symbols]
  BY <1>1, <1>3 DEF Got, TableOf
<1> HIDE DEF states, pos, symbols, next
<1>5. next.states = states /\ next.pos = pos /\ next.symbols = symbols
  BY <1>4
<1>6. symbols = [i \in 1..j |-> m[i]]
  <2>1. j \in Nat \ {0}
    OBVIOUS
  <2> QED
    BY <1>2, <2>1, OneMore DEF symbols
<1>7. states = Coder(m, f)[Len(m) - j].states
  BY <1>1 DEF states
<1>8. pos = Len(DataOf(m, f)) - Len(StackOf(m, f, Len(m) - j))
  BY <1>1 DEF pos
<1>9. Matches(m, f, next, j)
  BY <1>5, <1>6, <1>7, <1>8 DEF Matches
<1> QED
  BY <1>9 DEF next

LEMMA AllMatch ==
    ASSUME NEW f, NEW m, Codes(f, m)
    PROVE  Matches(m, f, Decoder(TableOf(f), Encoded(m, f).states, DataOf(m, f), Len(m))[Len(m)],
                   Len(m))
<1> DEFINE first == Encoded(m, f).states
           decoder == Decoder(TableOf(f), first, DataOf(m, f), Len(m))
           S == {j \in Nat : j <= Len(m) => Matches(m, f, decoder[j], j)}
<1>0. Len(m) \in Nat
  BY DEF Codes
<1>1. /\ decoder[0] = Fresh(first)
      /\ \A j \in 1..Len(m) :
            decoder[j] = GetNext(decoder[j - 1], TableOf(f), DataOf(m, f), Lane(j))
  BY <1>0, DecoderDefinition
<1>2. first = Coder(m, f)[Len(m)].states
  BY DEF Encoded
<1> HIDE DEF first, decoder
<1>3. 0 \in S
  <2>1. /\ decoder[0].states = first /\ decoder[0].pos = 0
        /\ decoder[0].symbols = <<>>
    BY <1>1 DEF Fresh
  <2>2. Len(m) - 0 = Len(m)
    BY <1>0
  <2>3. Len(DataOf(m, f)) - Len(StackOf(m, f, Len(m))) = 0
    <3>1. Len(DataOf(m, f)) = Len(StackOf(m, f, Len(m)))
      BY DataTypes
    <3>2. Len(m) \in 0..Len(m)
      BY <1>0
    <3>3. Len(StackOf(m, f, Len(m))) \in Nat
      BY <3>2, StackTypes
    <3> QED
      BY <3>1, <3>3
  <2>4. <<>> = [i \in 1..0 |-> m[i]]
    OBVIOUS
  <2>5. Matches(m, f, decoder[0], 0)
    BY <1>2, <2>1, <2>2, <2>3, <2>4 DEF Matches
  <2> QED
    BY <2>5
<1>4. ASSUME NEW k \in Nat, k \in S PROVE k + 1 \in S
  <2> SUFFICES ASSUME k + 1 <= Len(m) PROVE Matches(m, f, decoder[k + 1], k + 1)
    OBVIOUS
  <2> DEFINE j == k + 1
  <2>1. j \in 1..Len(m) /\ j - 1 = k
    BY <1>0
  <2>2. Matches(m, f, decoder[k], k)
    BY <1>0, <1>4
  <2> HIDE DEF j
  <2>3. decoder[j] = GetNext(decoder[j - 1], TableOf(f), DataOf(m, f), Lane(j))
    BY <1>1, <2>1
  <2>4. Matches(m, f, decoder[j - 1], j - 1)
    BY <2>1, <2>2
  <2>5. Matches(m, f, GetNext(decoder[j - 1], TableOf(f), DataOf(m, f), Lane(j)), j)
    BY <2>1, <2>4, OneMatch
  <2>6. Matches(m, f, decoder[j], j)
    BY <2>3, <2>5
  <2> QED
    BY <2>6 DEF j
<1> HIDE DEF S
<1>5. Nat \subseteq S
  BY <1>3, <1>4, SetInduction
<1>6. Matches(m, f, decoder[Len(m)], Len(m))
  BY <1>0, <1>5 DEF S
<1> QED
  BY <1>6 DEF decoder, first

\* The decoder returns the symbols and stops where the data ends.
THEOREM MessageReturns ==
    ASSUME NEW f, NEW m, Codes(f, m)
    PROVE  LET last == Decoder(TableOf(f), Encoded(m, f).states, Encoded(m, f).bytes,
                               Len(m))[Len(m)]
           IN  last.symbols = m /\ last.pos = Len(Encoded(m, f).bytes)
<1> DEFINE last == Decoder(TableOf(f), Encoded(m, f).states, DataOf(m, f), Len(m))[Len(m)]
<1>1. Matches(m, f, last, Len(m))
  BY AllMatch
<1> HIDE DEF last
<1>2. m \in Seq(Alphabet) /\ Len(m) \in Nat /\ Len(m) - Len(m) = 0
  BY DEF Codes
<1>3. [i \in 1..Len(m) |-> m[i]] = m
  BY <1>2
<1>4. last.symbols = m
  BY <1>1, <1>3 DEF Matches
<1>5. StackOf(m, f, 0) = <<>>
  <2>1. Coder(m, f)[0] = NothingCoded
    BY <1>2, CoderDefinition
  <2> QED
    BY <2>1 DEF StackOf, NothingCoded
<1>6. Len(DataOf(m, f)) \in Nat
  <2>1. Len(m) \in 0..Len(m)
    BY <1>2
  <2> QED
    BY <2>1, DataTypes, StackTypes
<1>7. last.pos = Len(DataOf(m, f)) - Len(<<>>)
  BY <1>1, <1>2, <1>5 DEF Matches
<1>8. last.pos = Len(DataOf(m, f))
  BY <1>6, <1>7
<1> QED
  BY <1>4, <1>8 DEF last, DataOf

---------------------------------------------------------------------------
(* The tile.                                                               *)

\* The symbols with no frequency are not written, and read back as none.
LEMMA TableReturns ==
    ASSUME NEW f \in Table
    PROVE  TableRead([s \in {t \in Alphabet : f[t] > 0} |-> f[s]]) = f
<1> DEFINE table == [s \in {t \in Alphabet : f[t] > 0} |-> f[s]]
<1>1. f = [s \in Alphabet |-> f[s]]
  BY DEF Table
<1>2. ASSUME NEW s \in Alphabet
      PROVE  (IF s \in DOMAIN table THEN table[s] ELSE 0) = f[s]
  <2>1. f[s] \in Nat
    BY DEF Table
  <2>2. CASE f[s] > 0
    BY <2>2
  <2>3. CASE ~(f[s] > 0)
    <3>1. f[s] = 0
      BY <2>1, <2>3
    <3> QED
      BY <2>3, <3>1
  <2> QED
    BY <2>2, <2>3
<1> HIDE DEF table
<1>3. TableRead(table) = [s \in Alphabet |-> f[s]]
  BY <1>2 DEF TableRead
<1> QED
  BY <1>1, <1>3 DEF table

\* One symbol is all there is to a message in which only one is counted.
LEMMA OneSymbol ==
    ASSUME NEW m \in Seq(Alphabet), m # <<>>,
           Cardinality({s \in Alphabet : Count(m, s) > 0}) = 1
    PROVE  [i \in 1..Len(m) |-> m[1]] = m
<1> DEFINE used == {s \in Alphabet : Count(m, s) > 0}
<1>1. IsFiniteSet(used)
  <2>1. IsFiniteSet(0..(AlphabetSize - 1))
    BY Constants, FS_Interval
  <2> QED
    BY <2>1, FS_Subset DEF Alphabet
<1>2. Cardinality(used) = 1
  OBVIOUS
<1>3. \A i \in 1..Len(m) : m[i] \in used
  <2>1. DOMAIN m = 1..Len(m) /\ \A i \in 1..Len(m) : m[i] \in Alphabet
    OBVIOUS
  <2> QED
    BY <2>1, CountTypes
<1> HIDE DEF used
<1>4. PICK s : used = {s}
  BY <1>1, <1>2, FS_Singleton
<1>5. 1 \in 1..Len(m)
  OBVIOUS
<1>6. \A i \in 1..Len(m) : m[i] = m[1]
  BY <1>3, <1>4, <1>5
<1>7. m = [i \in 1..Len(m) |-> m[i]]
  OBVIOUS
<1> QED
  BY <1>6, <1>7

Uniform(m) == [kind |-> "uniform", symbol |-> m[1], count |-> Len(m)]

WithTable(m) ==
    LET f == Frequencies(m)
    IN [kind |-> "table", table |-> [s \in {t \in Alphabet : f[t] > 0} |-> f[s]],
        count |-> Len(m), states |-> Encoded(m, f).states, bytes |-> Encoded(m, f).bytes]

\* What is in the stream is what encodeResiduals() writes for the symbols.
TileCarries ==
    \/ tile = Uniform(message) /\ [i \in 1..Len(message) |-> message[1]] = message
    \/ tile = WithTable(message)

RansRun ==
    /\ coding \in {"symbols", "coded", "decoded"} /\ message \in Messages
    /\ coding # "symbols" => TileCarries
    /\ SymbolsReturn

LEMMA MessageTypes ==
    ASSUME message \in Messages
    PROVE  /\ message \in Seq(Alphabet) /\ message # <<>> /\ Len(message) \in Nat
           /\ DOMAIN message = 1..Len(message)
           /\ Codes(Frequencies(message), message)
<1>1. message \in Seq(Alphabet) /\ message # <<>>
  BY RansAssumption
<1>2. Len(message) \in Nat /\ DOMAIN message = 1..Len(message)
  BY <1>1
<1>3. /\ Frequencies(message) \in Table /\ TotalOf(Frequencies(message)) = Scale
      /\ \A i \in DOMAIN message : Frequencies(message)[message[i]] >= 1
  BY <1>1, FrequenciesExact
<1> QED
  BY <1>1, <1>2, <1>3 DEF Codes

\* The fields of a tile with a table.
LEMMA TableFields ==
    ASSUME tile = WithTable(message)
    PROVE  LET f == Frequencies(message)
           IN  /\ tile.kind = "table" /\ tile.count = Len(message)
               /\ tile.table = [s \in {t \in Alphabet : f[t] > 0} |-> f[s]]
               /\ tile.states = Encoded(message, f).states
               /\ tile.bytes = Encoded(message, f).bytes
<1> DEFINE f == Frequencies(message)
           table == [s \in {t \in Alphabet : f[t] > 0} |-> f[s]]
           coded == Encoded(message, f)
<1>1. tile = [kind |-> "table", table |-> table, count |-> Len(message),
              states |-> coded.states, bytes |-> coded.bytes]
  BY DEF WithTable
<1> HIDE DEF table, coded
<1>2. /\ tile.kind = "table" /\ tile.count = Len(message) /\ tile.table = table
      /\ tile.states = coded.states /\ tile.bytes = coded.bytes
  BY <1>1
<1> QED
  BY <1>2 DEF table, coded

LEMMA WrittenIsExact ==
    ASSUME RansRun
    PROVE  TableIsExact
<1> SUFFICES ASSUME coding # "symbols", tile.kind = "table"
             PROVE  /\ \A i \in DOMAIN message : message[i] \in DOMAIN tile.table
                    /\ TotalOf(TableRead(tile.table)) = Scale
  BY DEF TableIsExact
<1> DEFINE f == Frequencies(message)
<1>1. tile = WithTable(message)
  <2>1. Uniform(message).kind = "uniform"
    BY DEF Uniform
  <2> QED
    BY <2>1 DEF RansRun, TileCarries
<1>2. tile.table = [s \in {t \in Alphabet : f[t] > 0} |-> f[s]]
  BY <1>1, TableFields
<1>3. Codes(f, message) /\ DOMAIN message = 1..Len(message)
  BY MessageTypes DEF RansRun
<1>4. /\ f \in Table /\ TotalOf(f) = Scale
      /\ \A i \in 1..Len(message) : message[i] \in Alphabet /\ f[message[i]] >= 1
  BY <1>3 DEF Codes
<1> HIDE DEF f
<1>5. TableRead(tile.table) = f
  BY <1>2, <1>4, TableReturns
<1>6. \A i \in DOMAIN message : message[i] \in DOMAIN tile.table
  <2> SUFFICES ASSUME NEW i \in DOMAIN message PROVE message[i] \in DOMAIN tile.table
    OBVIOUS
  <2>1. message[i] \in Alphabet /\ f[message[i]] >= 1 /\ f[message[i]] \in Nat
    BY <1>3, <1>4 DEF Table
  <2>2. f[message[i]] > 0
    BY <2>1
  <2> QED
    BY <1>2, <2>1, <2>2
<1> QED
  BY <1>4, <1>5, <1>6

LEMMA WrittenFits ==
    ASSUME RansRun
    PROVE  StackFits
<1> SUFFICES ASSUME coding # "symbols", tile.kind = "table"
             PROVE  /\ Len(tile.bytes) <= 2 * Len(message)
                    /\ \A lane \in Lanes :
                          tile.states[lane] \in LowerBound..(LowerBound * ByteSize - 1)
  BY DEF StackFits
<1> DEFINE f == Frequencies(message)
           c == Coder(message, f)[Len(message)]
<1>1. tile = WithTable(message)
  <2>1. Uniform(message).kind = "uniform"
    BY DEF Uniform
  <2> QED
    BY <2>1 DEF RansRun, TileCarries
<1>2. tile.states = Encoded(message, f).states /\ tile.bytes = Encoded(message, f).bytes
  BY <1>1, TableFields
<1>3. Codes(f, message) /\ Len(message) \in Nat
  BY MessageTypes DEF RansRun
<1> HIDE DEF f
<1>4. Len(message) \in 0..Len(message)
  BY <1>3
<1>5. GoodCoder(c, Len(message))
  BY <1>3, <1>4, CoderIsGood
<1>6. tile.states = c.states
  BY <1>2 DEF Encoded
<1>7. Len(tile.bytes) = Len(StackOf(message, f, Len(message)))
  <2>1. Len(DataOf(message, f)) = Len(StackOf(message, f, Len(message)))
    BY <1>3, DataTypes
  <2> QED
    BY <1>2, <2>1 DEF DataOf
<1>8. Len(tile.bytes) <= 2 * Len(message)
  BY <1>3, <1>4, <1>7, StackTypes
<1>9. \A lane \in Lanes : tile.states[lane] \in LowerBound..(LowerBound * ByteSize - 1)
  BY <1>5, <1>6 DEF GoodCoder, States
<1> QED
  BY <1>8, <1>9

LEMMA RansInitial == RansInit => RansRun
<1> SUFFICES ASSUME RansInit PROVE RansRun
  OBVIOUS
<1>1. coding = "symbols" /\ message \in Messages
  BY DEF RansInit
<1>2. SymbolsReturn
  BY <1>1 DEF SymbolsReturn
<1> QED
  BY <1>1, <1>2 DEF RansRun

LEMMA EncodeKeeps == RansRun /\ EncodeResiduals => RansRun'
<1> SUFFICES ASSUME RansRun, EncodeResiduals PROVE RansRun'
  OBVIOUS
<1> DEFINE used == {s \in Alphabet : Count(message, s) > 0}
           f == Frequencies(message)
           coded == Encoded(message, f)
<1>1. message \in Messages /\ message' = message /\ coding' = "coded"
  BY DEF RansRun, EncodeResiduals
<1>2. /\ message \in Seq(Alphabet) /\ message # <<>>
  BY <1>1, MessageTypes
<1>3. tile' = IF Cardinality(used) = 1 THEN Uniform(message) ELSE WithTable(message)
  BY DEF EncodeResiduals, Uniform, WithTable
<1>4. TileCarries'
  <2>1. CASE Cardinality(used) = 1
    <3>1. tile' = Uniform(message)
      BY <1>3, <2>1
    <3>2. [i \in 1..Len(message) |-> message[1]] = message
      BY <1>2, <2>1, OneSymbol
    <3> QED
      BY <1>1, <3>1, <3>2 DEF TileCarries, Uniform
  <2>2. CASE Cardinality(used) # 1
    <3>1. tile' = WithTable(message)
      BY <1>3, <2>2
    <3>2. WithTable(message)' = WithTable(message)
      BY <1>1 DEF WithTable
    <3> QED
      BY <3>1, <3>2 DEF TileCarries
  <2> QED
    BY <2>1, <2>2
<1>5. SymbolsReturn'
  BY <1>1 DEF SymbolsReturn
<1> QED
  BY <1>1, <1>4, <1>5 DEF RansRun

LEMMA DecodeKeeps == RansRun /\ DecodeResiduals => RansRun'
<1> SUFFICES ASSUME RansRun, DecodeResiduals PROVE RansRun'
  OBVIOUS
<1> DEFINE f == Frequencies(message)
           last == Decoder(TableOf(f), Encoded(message, f).states, Encoded(message, f).bytes,
                           Len(message))[Len(message)]
<1>1. /\ message \in Messages /\ message' = message /\ coding = "coded" /\ coding' = "decoded"
      /\ tile' = tile
  BY DEF RansRun, DecodeResiduals
<1>2. Codes(f, message) /\ Len(message) \in Nat
  BY <1>1, MessageTypes
<1>3. TileCarries
  BY <1>1 DEF RansRun
<1>4. TileCarries'
  <2>1. Uniform(message)' = Uniform(message)
    BY <1>1 DEF Uniform
  <2>2. WithTable(message)' = WithTable(message)
    BY <1>1 DEF WithTable
  <2> QED
    BY <1>1, <1>3, <2>1, <2>2 DEF TileCarries
<1>5. result'.symbols = message /\ result'.unread = 0
  <2>1. CASE tile = Uniform(message) /\ [i \in 1..Len(message) |-> message[1]] = message
    <3>1. tile.kind = "uniform" /\ tile.symbol = message[1] /\ tile.count = Len(message)
      BY <2>1 DEF Uniform
    <3>2. result' = [symbols |-> [i \in 1..tile.count |-> tile.symbol], unread |-> 0]
      BY <3>1 DEF DecodeResiduals
    <3>3. [i \in 1..tile.count |-> tile.symbol] = message
      BY <2>1, <3>1
    <3> QED
      BY <3>2, <3>3
  <2>2. CASE tile = WithTable(message)
    <3> DEFINE table == tile.table
               read == TableRead(tile.table)
    <3>1. /\ tile.kind = "table" /\ tile.count = Len(message)
          /\ table = [s \in {t \in Alphabet : f[t] > 0} |-> f[s]]
          /\ tile.states = Encoded(message, f).states
          /\ tile.bytes = Encoded(message, f).bytes
      BY <2>2, TableFields
    <3>2. read = f
      <4>1. f \in Table
        BY <1>2 DEF Codes
      <4> HIDE DEF f, table
      <4>2. TableRead(table) = f
        BY <3>1, <4>1, TableReturns
      <4> QED
        BY <4>2 DEF table
    <3> DEFINE out(g) == Decoder(TableOf(g), tile.states, tile.bytes, tile.count)[tile.count]
    <3>3. result' = [symbols |-> out(read).symbols, unread |-> Len(tile.bytes) - out(read).pos]
      <4>1. tile.kind # "uniform"
        BY <3>1
      <4> QED
        BY <4>1 DEF DecodeResiduals, TableOf
    <3> HIDE DEF read
    <3>4. out(read) = last
      BY <3>1, <3>2
    <3> HIDE DEF out, last
    <3>5. last.symbols = message /\ last.pos = Len(tile.bytes)
      BY <1>2, <3>1, MessageReturns DEF last
    <3>6. Len(tile.bytes) \in Nat
      <4>1. Len(message) \in 0..Len(message)
        BY <1>2
      <4> HIDE DEF f
      <4>2. Len(StackOf(message, f, Len(message))) \in Nat
        BY <1>2, <4>1, StackTypes
      <4> QED
        BY <1>2, <3>1, <4>2, DataTypes DEF DataOf
    <3> QED
      BY <3>3, <3>4, <3>5, <3>6
  <2> QED
    BY <1>3, <2>1, <2>2 DEF TileCarries
<1>6. SymbolsReturn'
  BY <1>1, <1>5 DEF SymbolsReturn
<1> QED
  BY <1>1, <1>4, <1>6 DEF RansRun

\* The frequencies add up, the stack is long enough, and the viewer gets back
\* every symbol of every tile (RansInv), whatever the alphabet, the scale and
\* the widths.
THEOREM SymbolsComeBack == RansSpec => []RansInv
<1>1. RansRun => RansInv
  BY WrittenIsExact, WrittenFits DEF RansRun, RansInv
<1>2. RansRun /\ [RansNext]_ransVars => RansRun'
  <2> SUFFICES ASSUME RansRun, [RansNext]_ransVars PROVE RansRun'
    OBVIOUS
  <2>1. CASE EncodeResiduals
    BY <2>1, EncodeKeeps
  <2>2. CASE DecodeResiduals
    BY <2>2, DecodeKeeps
  <2>3. CASE UNCHANGED ransVars
    <3>1. coding' = coding /\ message' = message /\ tile' = tile /\ result' = result
      BY <2>3 DEF ransVars
    <3>2. TileCarries' <=> TileCarries
      BY <3>1 DEF TileCarries, Uniform, WithTable
    <3>3. SymbolsReturn' <=> SymbolsReturn
      BY <3>1 DEF SymbolsReturn
    <3> QED
      BY <3>1, <3>2, <3>3 DEF RansRun
  <2> QED
    BY <2>1, <2>2, <2>3 DEF RansNext
<1> QED
  BY <1>1, <1>2, RansInitial, PTL DEF RansSpec

=============================================================================
