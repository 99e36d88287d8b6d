-------------------------------- MODULE Fse --------------------------------
(***************************************************************************)
(* The finite state entropy coder of fse.go: the normalisation of a        *)
(* histogram, the encoder and decoder tables, one encoding and one         *)
(* decoding step.  A symbol table is a function on 0..nsym-1, a state      *)
(* table a function on 0..n-1, as the arrays of the code are.              *)
(*                                                                         *)
(* The literal decoder (fseDecode) and the L, M, D decoder (fseValueDecode)*)
(* are one operator here: a literal is a value without extra bits whose    *)
(* base is the symbol itself.                                              *)
(***************************************************************************)
EXTENDS Integers, FiniteSetsExt, Functions

CONSTANT PrecisionBits   \* the fixed-point precision, 31 in the code

\* The laws of powers of two, as far as exponents go here.
ASSUME PowersOfTwo ==
    /\ PrecisionBits \in Nat
    /\ 2^0 = 1 /\ 2^1 = 2
    /\ \A i \in 0 .. PrecisionBits : 2^i \in Nat \ {0}
    /\ \A i, j \in 0 .. PrecisionBits : i + j <= PrecisionBits => 2^(i + j) = 2^i * 2^j

Total(freqs) == SumFunction(freqs)

Log2(n) == CHOOSE i \in 0..(PrecisionBits - 1) : 2^i <= n /\ n < 2^(i + 1)

\* bits.LeadingZeros32(f) - bits.LeadingZeros32(n), for a power of two n:
\* the left shift that brings f into n .. 2n - 1.
Shift(f, n) == CHOOSE k \in 0..Log2(n) : n <= f * 2^k /\ f * 2^k < 2 * n

----------------------------------------------------------------------------
(* Normalisation *)

\* Mutant of Rounded: a rare symbol may get no state.
RoundedToNone(count, sCount, n) ==
  LET scaled == (count * (2^PrecisionBits \div sCount)) \div 2^(PrecisionBits - 1 - Log2(n))
  IN (scaled + 1) \div 2

\* The share of n states for a count, rounded to nearest, at least one.
Rounded(count, sCount, n) ==
  LET scaled == (count * (2^PrecisionBits \div sCount)) \div 2^(PrecisionBits - 1 - Log2(n))
  IN IF count = 0 THEN 0 ELSE Max({1, (scaled + 1) \div 2})

\* fse_adjust_freqs: take `excess` states back, four passes over the symbols,
\* an eighth, a quarter, a half, then all of what a symbol can spare.  The
\* code repeats the four passes while it can; the last one leaves nothing to
\* take, so once is enough.
AdjustFreqs(freqs, excess) ==
  LET nsym == Cardinality(DOMAIN freqs)
      adjusted[t \in 0..(4 * nsym)] ==
        IF t = 0 THEN [freqs |-> freqs, excess |-> excess]
        ELSE LET a == adjusted[t - 1]
                 sym == (t - 1) % nsym
                 spare == (a.freqs[sym] - 1) \div 2^(3 - (t - 1) \div nsym)
                 n == IF a.freqs[sym] > 1 THEN Min({spare, a.excess}) ELSE 0
             IN [freqs |-> [a.freqs EXCEPT ![sym] = @ - n], excess |-> a.excess - n]
  IN adjusted[4 * nsym].freqs

\* fseNormalizeFreq: the counts, at least one of them positive, as shares of n
\* states.  What rounding leaves or lacks goes to the most frequent symbol
\* unless it would lose a quarter of its states.
NormalizeFreq(counts, n) ==
  LET rounded == [s \in DOMAIN counts |-> Rounded(counts[s], Total(counts), n)]
      remaining == n - Total(rounded)
      maxFreq == Max(Range(rounded))
      maxFreqSym == Min({s \in DOMAIN counts : rounded[s] = maxFreq})
  IN IF -remaining < maxFreq \div 4
     THEN [rounded EXCEPT ![maxFreqSym] = @ + remaining]
     ELSE AdjustFreqs(rounded, -remaining)

----------------------------------------------------------------------------
(* Tables *)

\* The first state of a symbol's run of freqs[sym] states.
Offset(freqs, sym) == SumFunctionOnSet(freqs, {s \in DOMAIN freqs : s < sym})

\* offset + f > nstates at some symbol is an error.
FitsTable(freqs, n) == Total(freqs) <= n

\* State j of a symbol's f states: the number of bits read to leave it and
\* what is added to them.
Step(f, j, n) ==
  LET k == Shift(f, n)
      j0 == (2 * n) \div 2^k - f
  IN IF j < j0 THEN [bits |-> k, delta |-> (f + j) * 2^k - n]
     ELSE [bits |-> k - 1, delta |-> (j - j0) * 2^(k - 1)]

Entry(freqs, sym, j, n, extra, base) ==
  LET step == Step(freqs[sym], j, n)
  IN [totalBits |-> step.bits + extra[sym], valueBits |-> extra[sym],
      delta |-> step.delta, vbase |-> base[sym]]

\* The zeroed table of a new decodeScratch.
ZeroTable(n) == [i \in 0..(n - 1) |-> [totalBits |-> 0, valueBits |-> 0, delta |-> 0, vbase |-> 0]]

\* Built over the table of an earlier block: the states that no symbol owns,
\* when the frequencies sum to less than n, keep their old entry.
DecoderTable(freqs, n, extra, base, old) ==
  [i \in 0..(n - 1) |->
     IF i >= Total(freqs) THEN old[i]
     ELSE LET sym == CHOOSE s \in DOMAIN freqs :
                       Offset(freqs, s) <= i /\ i < Offset(freqs, s) + freqs[s]
          IN Entry(freqs, sym, i - Offset(freqs, sym), n, extra, base)]

EncoderEntry(freqs, sym, n) ==
  LET f == freqs[sym]
      k == Shift(f, n)
      start == Offset(freqs, sym) - f
  IN [s0 |-> f * 2^k - n, k |-> k, delta0 |-> start + n \div 2^k,
      delta1 |-> IF k = 0 THEN start ELSE start + n \div 2^(k - 1)]

EncoderTable(freqs, n) ==
  [sym \in DOMAIN freqs |-> IF freqs[sym] = 0 THEN [s0 |-> 0, k |-> 0, delta0 |-> 0, delta1 |-> 0]
                            ELSE EncoderEntry(freqs, sym, n)]

----------------------------------------------------------------------------
(* One symbol *)

\* fseEncode: the bits written and the next state.
Encode(e, state) ==
  LET nbits == IF state >= e.s0 THEN e.k ELSE e.k - 1
      delta == IF state >= e.s0 THEN e.delta0 ELSE e.delta1
  IN [nbits |-> nbits, b |-> state % 2^nbits, state |-> delta + state \div 2^nbits]

\* fseValueDecode, given the e.totalBits bits b read for the entry e.
Decode(e, b) == [state |-> e.delta + b \div 2^e.valueBits, value |-> e.vbase + (b % 2^e.valueBits)]

\* lmdSymbol: the last symbol whose base value is not above v, 0 if there is none.
SymbolOf(v, base) == Max({0} \cup {s \in DOMAIN base : base[s] <= v})
=============================================================================
