------------------------------ MODULE V2Header ------------------------------
(***************************************************************************)
(* The V2 block header (makeV2Block, decodeV2Header of src/lzfse.go), at   *)
(* the sizes of the code: its three packed words, and the variable-length  *)
(* code of the frequency tables behind them.  The four tables are one list *)
(* of frequencies, data a sequence of bits, each byte lowest bit first.    *)
(***************************************************************************)
EXTENDS Integers, Sequences, SequencesExt

HeaderByte == 8
HeaderWord == 64

Bits == INSTANCE BitStreams WITH ByteBits <- 8, WordBytes <- 8

FixedBytes == 32      \* v2HeaderMinSize

WidestValue == 30     \* bits of the largest value that a field is given

\* The fields or-ed into a word at their shifts, as they are: nothing cuts a
\* value to the width its field has.
Or(fields) ==
  [b \in 1 .. HeaderWord |->
     IF \E f \in fields : /\ b - f[2] \in 1 .. WidestValue
                          /\ Bits!LowBits(WidestValue, f[1])[b - f[2]] = 1 THEN 1 ELSE 0]

Pack(h, headerSize) ==
  << Or({<<h.nLiterals, 0>>, <<h.nLitPayload, 20>>, <<h.nMatches, 40>>, <<h.litBits + 7, 60>>}),
     Or({ <<h.litStates[j], 10 * (j - 1)>> : j \in DOMAIN h.litStates }
          \cup {<<h.nLMDPayload, 40>>, <<h.lmdBits + 7, 60>>}),
     Or({<<headerSize, 0>>, <<h.lmdStates.l, 32>>, <<h.lmdStates.m, 42>>, <<h.lmdStates.d, 52>>}) >>

Field(word, shift, width) == Bits!Value(word, shift, width)

\* The header size is a field of 32 bits of which 20 are read here: the model
\* checker's integers are too narrow for more, and a larger one is refused.
HeaderSize(words) == Field(words[3], 0, 20)

\* The fields as the V1 header has them, with the frequencies read.
Unpack(words, lanes, freqs) ==
  [nLiterals |-> Field(words[1], 0, 20), nLitPayload |-> Field(words[1], 20, 20),
   nMatches |-> Field(words[1], 40, 20), litBits |-> Field(words[1], 60, 3) - 7,
   litStates |-> [j \in 1 .. lanes |-> Field(words[2], 10 * (j - 1), 10)],
   nLMDPayload |-> Field(words[2], 40, 20), lmdBits |-> Field(words[2], 60, 3) - 7,
   headerSize |-> HeaderSize(words), freqs |-> freqs,
   lmdStates |-> [l |-> Field(words[3], 32, 10), m |-> Field(words[3], 42, 10),
                  d |-> Field(words[3], 52, 10)]]

\* The number of bits of the code of a frequency, and the code.
FreqCode(v) ==
  IF v \in 0 .. 3 THEN <<<<2, 0>>, <<2, 2>>, <<3, 1>>, <<3, 5>>>>[v + 1]
  ELSE IF v <= 7 THEN <<5, (v - 4) * 8 + 3>>
  ELSE IF v <= 23 THEN <<8, (v - 8) * 16 + 7>>
  ELSE <<14, (v - 24) * 16 + 15>>

WriteFreqs(freqs) ==
  LET bits == FlattenSeq([i \in 1 .. Len(freqs) |->
                            Bits!LowBits(FreqCode(freqs[i])[1], FreqCode(freqs[i])[2])])
      padding == (-Len(bits)) % HeaderByte
  IN bits \o [i \in 1 .. padding |-> 0]

----------------------------------------------------------------------------
\* Indexed by the next five bits: the length of the code they begin, and the
\* frequency if they hold it whole.
FreqNBits ==
  << 2, 3, 2, 5, 2, 3, 2, 8, 2, 3, 2, 5, 2, 3, 2, 14,
     2, 3, 2, 5, 2, 3, 2, 8, 2, 3, 2, 5, 2, 3, 2, 14 >>

FreqValue ==
  << 0, 2, 1, 4, 0, 3, 1, -1, 0, 2, 1, 5, 0, 3, 1, -1,
     0, 2, 1, 6, 0, 3, 1, -1, 0, 2, 1, 7, 0, 3, 1, -1 >>

\* The reader: bits taken, bits of the data loaded so far, frequencies read.
\* Bits of the accumulator that are not loaded are zero.
Held(r) == r.loaded - r.taken

Refill(r, bits) ==
  LET room == HeaderByte * ((HeaderWord - Held(r)) \div HeaderByte)
  IN [r EXCEPT !.loaded = IF r.loaded + room < Len(bits) THEN r.loaded + room ELSE Len(bits)]

ReadOne(r0, bits) ==
  LET r == IF Held(r0) < 14 THEN Refill(r0, bits) ELSE r0
      accum(n) == Bits!Value(SubSeq(bits, 1, r.loaded), r.taken, n)
      lo5 == accum(5)
      n == FreqNBits[lo5 + 1]
      v == IF n = 8 THEN 8 + (accum(8) \div 16)
           ELSE IF n = 14 THEN 24 + (accum(14) \div 16)
           ELSE FreqValue[lo5 + 1]
  IN IF n > Held(r) THEN [r EXCEPT !.ok = FALSE]
     ELSE [r EXCEPT !.taken = @ + n, !.freqs = Append(@, v)]

\* Mutant of ReadFreqs: data may follow the last code.
ReadFreqsOpenEnd(bits, nsym) ==
  LET start == Refill([ok |-> TRUE, taken |-> 0, loaded |-> 0, freqs |-> << >>], bits)
      read[i \in 0 .. nsym] ==
        IF i = 0 THEN start
        ELSE LET r == read[i - 1] IN IF r.ok THEN ReadOne(r, bits) ELSE r
  IN [ok |-> read[nsym].ok, freqs |-> read[nsym].freqs]

\* The frequencies of nsym symbols; an error if the data ends inside a code or
\* does not end, but for less than a byte, with the last one.
ReadFreqs(bits, nsym) ==
  LET start == Refill([ok |-> TRUE, taken |-> 0, loaded |-> 0, freqs |-> << >>], bits)
      read[i \in 0 .. nsym] ==
        IF i = 0 THEN start
        ELSE LET r == read[i - 1] IN IF r.ok THEN ReadOne(r, bits) ELSE r
      end == read[nsym]
  IN [ok |-> end.ok /\ Held(end) < HeaderByte /\ end.loaded = Len(bits), freqs |-> end.freqs]
=============================================================================
