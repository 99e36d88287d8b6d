---------------------------- MODULE EntropyCodec ----------------------------
(***************************************************************************)
(* The entropy layer of src/lzfse.go, from the L, M, D values and literals *)
(* of a block to a V2 block and back: the second half of encodeBlock,      *)
(* makeV2Block, decodeV2Header, and decodeCompressedBlock up to the values *)
(* it decodes.  Blocks pass one after the other, and the decode tables of  *)
(* one are the scratch the next one's are built in.  Some blocks are not   *)
(* made by this encoder: any header and payload that a stream can hold.    *)
(***************************************************************************)
EXTENDS Fse, BitStreams, SequencesExt

CONSTANTS
    Lanes,        \* interleaved literal streams (4)
    NStates,      \* states of the "lit", "l", "m" and "d" coders (1024, 64, 64, 256)
    Extra, Base,  \* for each coder, the extra bits and the base value of each symbol
    LiteralsPerBlock, MatchesPerBlock,   \* what a header may declare (40000, 10000)
    HeaderTail,   \* the bytes of the stream before a payload
    Queues        \* the sequences of blocks that may pass

Coders == <<"l", "m", "d", "lit">>       \* in the order of the header
LMD == {"l", "m", "d"}
NSym(c) == Cardinality(DOMAIN Base[c])
AllSymbols == NSym("l") + NSym("m") + NSym("d") + NSym("lit")
MaxBits(c) == Log2(NStates[c]) + Max(Range(Extra[c]))

Byte == 0 .. 2^ByteBits - 1
Bit == 0 .. 1

\* The most bits taken between two flushes is what a flush provides
\* (40, 31 and 23 of 56); the tables of symbols cover contiguous values; the
\* laws of powers of two hold as far as a word is wide, and a field of a V2
\* header is narrower than a power the coder uses; a
\* header has room for four states.
ASSUME EntropyAssumption ==
    /\ Lanes \in 1 .. 4
    /\ Lanes * MaxBits("lit") <= WordBits - ByteBits
    /\ MaxBits("l") + MaxBits("m") <= WordBits - ByteBits
    /\ MaxBits("d") <= WordBits - ByteBits
    /\ HeaderTail \in Seq(Byte) /\ Len(HeaderTail) >= WordBytes
    /\ 20 <= PrecisionBits
    /\ \A i \in 0 .. WordBits : 2^i \in Nat \ {0}
    /\ \A i, j \in 0 .. WordBits : i + j <= WordBits => 2^(i + j) = 2^i * 2^j
    /\ \A c \in Range(Coders) :
         /\ \E r \in 0 .. PrecisionBits - 1 : NStates[c] = 2^r
         /\ NSym(c) \in 1 .. NStates[c]
         /\ DOMAIN Base[c] = 0 .. NSym(c) - 1
         /\ Base[c] \in [DOMAIN Base[c] -> Nat]
         /\ Extra[c] \in [DOMAIN Base[c] -> 0 .. PrecisionBits]
         /\ \A s \in DOMAIN Base[c] : s + 1 \in DOMAIN Base[c] =>
              Base[c][s + 1] = Base[c][s] + 2^Extra[c][s]

V1 == INSTANCE V1Header
V2 == INSTANCE V2Header

\* What encodeBlock is given: whole groups of literals.
IsSource(b) ==
    /\ b.kind = "source"
    /\ b.literals \in Seq(DOMAIN Base["lit"]) /\ Len(b.literals) % Lanes = 0
    /\ b.records \in Seq([LMD -> Nat])

\* The blocks of others, down to the frequency data, are any bits and bytes.
IsForeign(b) ==
    /\ b.kind = "foreign" /\ b.payload \in Seq(Byte)
    /\ \/ b.version = 1 /\ b.bytes \in [1 .. V1!Size(AllSymbols) -> V1!Byte]
       \/ b.version = 2 /\ b.words \in [1 .. 3 -> [1 .. V2!HeaderWord -> Bit]] /\ b.freqData \in Seq(Bit)

ASSUME QueuesAssumption ==
    \A q \in Queues : q \in Seq(Range(q)) /\ \A b \in Range(q) : IsSource(b) \/ IsForeign(b)

\* What the fields of a header have room for: 3 bits for the padding of a last
\* byte, 10 for a state, 20 for a count and for a header's size (30 is more
\* than any needs);
\* a literal is its own symbol, and the values of L, M and D start at zero.
ASSUME FieldsAssumption ==
    /\ ByteBits <= 8 /\ V2!WidestValue <= PrecisionBits
    /\ LiteralsPerBlock \in 0 .. 2^20 - 1 /\ MatchesPerBlock \in 0 .. 2^20 - 1
    /\ AllSymbols < 2^16 /\ \A c \in Range(Coders) : NStates[c] <= 2^10
    /\ \A s \in DOMAIN Base["lit"] : Base["lit"][s] = s /\ Extra["lit"][s] = 0
    /\ \A c \in LMD : Base[c][0] = 0

\* The literals and records of a block are as many as the decoder admits, few
\* enough for payload sizes of 20 bits, the values within maxLValue, maxMValue
\* and maxDValue.
WithinLimits(b) ==
    /\ Len(b.literals) <= LiteralsPerBlock /\ Len(b.literals) * MaxBits("lit") < 2^20
    /\ Len(b.records) <= MatchesPerBlock
    /\ WordBytes + Len(b.records) * (MaxBits("l") + MaxBits("m") + MaxBits("d")) < 2^20
    /\ \A i \in DOMAIN b.records : \A c \in LMD :
         LET last == NSym(c) - 1
         IN b.records[i][c] < Base[c][last] + 2^Extra[c][last]

ASSUME SourcesAssumption == \A q \in Queues : \A b \in Range(q) : IsSource(b) => WithinLimits(b)

VARIABLES
    queue,      \* blocks still to pass
    stage,
    block,      \* the block passing: what its maker meant, header and payload
    header,     \* its header as decodeCompressedBlock gets it
    enc,        \* the encoder: [left, bits, states], the values left to write
    tables,     \* decodeScratch
    in,         \* the input stream
    states,     \* the decoder's states
    literals, records   \* decoded so far

vars == <<queue, stage, block, header, enc, tables, in, states, literals, records>>

decoding == <<tables, in, states, literals, records>>

None == [kind |-> "none"]
Zeros == [j \in 1 .. Lanes |-> 0]
Stages == {"next", "encode records", "encode literals", "header", "tables",
           "decode literals", "decode records", "decoded", "error"}

Init ==
    /\ queue \in Queues /\ stage = "next" /\ block = None /\ header = None /\ enc = None
    /\ tables = [c \in Range(Coders) |-> ZeroTable(NStates[c])]
    /\ in = None /\ states = None /\ literals = << >> /\ records = << >>
-----------------------------------------------------------------------------
(* encodeBlock, from the histograms on *)

\* How often each symbol of coder c occurs; once symbol 0 if there is none
\* (ensureNonZero).
Counts(c, src) ==
  LET symbols == IF c = "lit" THEN src.literals
                 ELSE [i \in 1 .. Len(src.records) |-> SymbolOf(src.records[i][c], Base[c])]
      count(s) == Cardinality({i \in DOMAIN symbols : symbols[i] = s})
  IN [s \in DOMAIN Base[c] |-> IF symbols = << >> /\ s = 0 THEN 1 ELSE count(s)]

\* Mutant of PutValue: the state's bits are written before the extra bits.
PutValueStateFirst(e, c, v) ==
  LET sym == SymbolOf(v, Base[c])
      step == Encode(EncoderTable(block.freqs[c], NStates[c])[sym], e.states[c])
  IN [e EXCEPT !.bits = Push(Push(@, step.nbits, step.b), Extra[c][sym], v - Base[c][sym]),
               !.states[c] = step.state]

\* A value of coder c goes out as its extra bits, then the bits of the state.
PutValue(e, c, v) ==
  LET sym == SymbolOf(v, Base[c])
      step == Encode(EncoderTable(block.freqs[c], NStates[c])[sym], e.states[c])
  IN [e EXCEPT !.bits = Push(Push(@, Extra[c][sym], v - Base[c][sym]), step.nbits, step.b),
               !.states[c] = step.state]

PutLiteral(e, lane, v) ==
  LET step == Encode(EncoderTable(block.freqs["lit"], NStates["lit"])[v], e.states[lane])
  IN [e EXCEPT !.bits = Push(@, step.nbits, step.b), !.states[lane] = step.state]

BeginEncode ==
    /\ stage = "next" /\ queue # << >> /\ Head(queue).kind = "source"
    /\ queue' = Tail(queue) /\ stage' = "encode records"
    /\ block' = [kind |-> "source", source |-> Head(queue),
                 freqs |-> [c \in Range(Coders) |-> NormalizeFreq(Counts(c, Head(queue)), NStates[c])]]
    /\ enc' = [left |-> Len(Head(queue).records), bits |-> << >>, states |-> [c \in LMD |-> 0]]
    /\ UNCHANGED <<header, decoding>>

\* Last record first: D, M, then L.
EncodeRecord ==
    /\ stage = "encode records" /\ enc.left > 0
    /\ LET r == block.source.records[enc.left]
       IN enc' = [PutValue(PutValue(PutValue(enc, "d", r.d), "m", r.m), "l", r.l)
                    EXCEPT !.left = @ - 1]
    /\ UNCHANGED <<queue, stage, block, header, decoding>>

\* Mutant of LMDPadding: there is none.
NoPadding == << >>

\* The L,M,D payload begins with a word of zero bytes, which the encoded data
\* never reaches but the reader's loads do.
LMDPadding == [i \in 1 .. WordBytes |-> 0]

FinishRecords ==
    /\ stage = "encode records" /\ enc.left = 0
    /\ stage' = "encode literals"
    /\ block' = [kind |-> "source", source |-> block.source, freqs |-> block.freqs,
                 lmdStates |-> enc.states, lmd |-> Finish(enc.bits, ByteBits)]
    /\ enc' = [left |-> Len(block.source.literals), bits |-> << >>, states |-> Zeros]
    /\ UNCHANGED <<queue, header, decoding>>

\* encodeLiterals4Interleaved: last group first, last lane first.
EncodeGroup ==
    /\ stage = "encode literals" /\ enc.left > 0
    /\ LET put[j \in 0 .. Lanes] ==
             IF j = 0 THEN enc
             ELSE PutLiteral(put[j - 1], Lanes - j + 1, block.source.literals[enc.left - j + 1])
       IN enc' = [put[Lanes] EXCEPT !.left = @ - Lanes]
    /\ UNCHANGED <<queue, stage, block, header, decoding>>

\* The four tables as one list, and back: the place of the first symbol of each.
FirstOf == [l |-> 0, m |-> NSym("l"), d |-> NSym("l") + NSym("m"), lit |-> NSym("l") + NSym("m") + NSym("d")]

AllFreqs(freqs) ==
  LET list(c) == [i \in 1 .. NSym(c) |-> freqs[c][i - 1]]
  IN list("l") \o list("m") \o list("d") \o list("lit")

SplitFreqs(all) == [c \in Range(Coders) |-> [s \in DOMAIN Base[c] |-> all[FirstOf[c] + s + 1]]]

\* The rest of encodeBlock, which ends in a V1 header, and makeV2Block, which
\* turns it into a V2 header.
FinishLiterals ==
    /\ stage = "encode literals" /\ enc.left = 0
    /\ stage' = "header"
    /\ LET lit == Finish(enc.bits, ByteBits)
           lmdPayload == LMDPadding \o block.lmd.buf
           v1 == V1!Read(V1!Write([nLiterals |-> Len(block.source.literals), nMatches |-> Len(block.source.records),
                      nLitPayload |-> Len(lit.buf), nLMDPayload |-> Len(lmdPayload),
                      litBits |-> lit.n, lmdBits |-> block.lmd.n,
                      litStates |-> enc.states, lmdStates |-> block.lmdStates],
                     AllFreqs(block.freqs)), Lanes, AllSymbols)
           freqData == V2!WriteFreqs(v1.freqs)
           headerSize == V2!FixedBytes + Len(freqData) \div V2!HeaderByte
       IN block' = [kind |-> "source", source |-> block.source, version |-> 2,
                    words |-> V2!Pack(v1, headerSize), freqData |-> freqData,
                    payload |-> lit.buf \o lmdPayload]
    /\ enc' = None
    /\ UNCHANGED <<queue, header, decoding>>

\* A block from elsewhere.
BeginForeign ==
    /\ stage = "next" /\ queue # << >> /\ Head(queue).kind = "foreign"
    /\ queue' = Tail(queue) /\ block' = Head(queue) /\ stage' = "header"
    /\ UNCHANGED <<header, enc, decoding>>
-----------------------------------------------------------------------------
(* decodeV2Header and rawFitsBlock *)

\* Mutant of StatesFit: the literal states of a header are not bounded.
LMDStatesFit(h) == \A c \in LMD : h.lmdStates[c] < NStates[c]

StatesFit(h) ==
    /\ \A j \in 1 .. Lanes : h.litStates[j] < NStates["lit"]
    /\ \A c \in LMD : h.lmdStates[c] < NStates[c]

\* What the counts, tables and states of a block have to satisfy before it is
\* decoded; a V1 header holds its frequencies as they are and they are not summed here.
HeaderOK(h) ==
    /\ h.nLiterals <= LiteralsPerBlock /\ h.nMatches <= MatchesPerBlock
    /\ h.nLiterals % Lanes = 0
    /\ StatesFit(h)
    /\ block.version = 2 => \A c \in Range(Coders) : FitsTable(h.freqs[c], NStates[c])

\* The frequency data of a V2 header, with ok if its size and contents are right.
FreqsRead ==
  LET size == V2!HeaderByte * (V2!HeaderSize(block.words) - V2!FixedBytes)
  IN IF 0 <= size /\ size <= Len(block.freqData)
     THEN V2!ReadFreqs(SubSeq(block.freqData, 1, size), AllSymbols) ELSE [ok |-> FALSE, freqs |-> << >>]

HeaderRead ==
  [ (IF block.version = 1 THEN V1!Read(block.bytes, Lanes, AllSymbols)
     ELSE V2!Unpack(block.words, Lanes, FreqsRead.freqs)) EXCEPT !.freqs = SplitFreqs(@) ]

ReadHeader ==
    /\ stage = "header"
    /\ IF (block.version = 2 => FreqsRead.ok) /\ HeaderOK(HeaderRead)
       THEN stage' = "tables" /\ header' = HeaderRead
       ELSE stage' = "error" /\ UNCHANGED header
    /\ UNCHANGED <<queue, block, enc, decoding>>
-----------------------------------------------------------------------------
(* decodeCompressedBlock *)

\* The literal stream reaches back over the header to the start of the input,
\* the L,M,D stream is its payload alone.
LitStream == HeaderTail \o SubSeq(block.payload, 1, header.nLitPayload)
LMDStream == SubSeq(block.payload, header.nLitPayload + 1, header.nLitPayload + header.nLMDPayload)

BuildTables ==
    /\ stage = "tables"
    /\ LET lit == InInit(LitStream, header.litBits)
       IN IF /\ header.nLitPayload + header.nLMDPayload <= Len(block.payload)
             /\ lit.ok
             /\ \A c \in Range(Coders) : FitsTable(header.freqs[c], NStates[c])
          THEN /\ stage' = "decode literals"
               /\ tables' = [c \in Range(Coders) |->
                    DecoderTable(header.freqs[c], NStates[c], Extra[c], Base[c], tables[c])]
               /\ in' = lit /\ states' = header.litStates
               /\ literals' = << >> /\ records' = << >>
          ELSE /\ stage' = "error"
               /\ UNCHANGED decoding
    /\ UNCHANGED <<queue, block, header, enc>>

\* Pull the bits of the entry of a state: the stream, the state and the value.
Take(s, table, state) ==
  LET e == table[state]
      pulled == InPull(s, e.totalBits)
      decoded == Decode(e, pulled.b)
  IN [stream |-> pulled.stream, state |-> decoded.state, value |-> decoded.value]

DecodeGroup ==
    /\ stage = "decode literals" /\ Len(literals) < header.nLiterals
    /\ LET taken[j \in 1 .. Lanes] ==
             Take(IF j = 1 THEN InFlush(in, LitStream) ELSE taken[j - 1].stream,
                  tables["lit"], states[j])
       IN /\ in' = taken[Lanes].stream
          /\ states' = [j \in 1 .. Lanes |-> taken[j].state]
          /\ literals' = literals \o [j \in 1 .. Lanes |-> taken[j].value]
    /\ UNCHANGED <<queue, stage, block, header, enc, tables, records>>

StartRecords ==
    /\ stage = "decode literals" /\ Len(literals) = header.nLiterals
    /\ LET lmd == InInit(LMDStream, header.lmdBits)
       IN IF lmd.ok THEN stage' = "decode records" /\ in' = lmd /\ states' = header.lmdStates
          ELSE stage' = "error" /\ UNCHANGED <<in, states>>
    /\ UNCHANGED <<queue, block, header, enc, tables, literals, records>>

DecodeRecord ==
    /\ stage = "decode records" /\ Len(records) < header.nMatches
    /\ LET l == Take(InFlush(in, LMDStream), tables["l"], states["l"])
           m == Take(l.stream, tables["m"], states["m"])
           d == Take(InFlush(m.stream, LMDStream), tables["d"], states["d"])
       IN /\ in' = d.stream
          /\ states' = [l |-> l.state, m |-> m.state, d |-> d.state]
          /\ records' = Append(records, [l |-> l.value, m |-> m.value, d |-> d.value])
    /\ UNCHANGED <<queue, stage, block, header, enc, tables, literals>>

EndBlock ==
    /\ stage = "decode records" /\ Len(records) = header.nMatches
    /\ stage' = "decoded"
    /\ UNCHANGED <<queue, block, header, enc, decoding>>

NextBlock ==
    /\ stage = "decoded" /\ queue # << >>
    /\ stage' = "next" /\ block' = None /\ header' = None
    /\ UNCHANGED <<queue, enc, decoding>>

Next ==
    \/ BeginEncode \/ EncodeRecord \/ FinishRecords \/ EncodeGroup \/ FinishLiterals
    \/ BeginForeign \/ ReadHeader \/ BuildTables \/ DecodeGroup
    \/ StartRecords \/ DecodeRecord \/ EndBlock \/ NextBlock

Spec == Init /\ [][Next]_vars
-----------------------------------------------------------------------------
(* What is checked *)

Honest == block.kind = "source"

\* A decoder state always indexes its table (table[*state] would panic):
\* whatever the header and the payload say, after bits have run out, and when
\* a state runs into entries left over from an earlier block.
StatesInTables ==
    /\ stage = "decode literals" => \A j \in 1 .. Lanes : states[j] \in 0 .. NStates["lit"] - 1
    /\ stage = "decode records" => \A c \in LMD : states[c] \in 0 .. NStates[c] - 1

\* Every block this encoder makes passes the checks of the decoder and decodes
\* to its own literals and records, whatever blocks came before it.
Restored ==
    /\ stage = "error" => ~ Honest
    /\ stage = "decoded" /\ Honest =>
         /\ literals = block.source.literals
         /\ records = block.source.records

\* The decoder ends a block of this encoder in the encoder's initial states
\* and with exactly the encoder's bits taken: unread are the bytes before the
\* literal payload, and the padding of the L,M,D payload.
Unread == in.accumNBits + ByteBits * in.ptr

ConsumedExactly ==
    Honest =>
    /\ stage = "decode literals" /\ Len(literals) = header.nLiterals =>
         states = Zeros /\ Unread = ByteBits * Len(HeaderTail)
    /\ stage = "decoded" =>
         states = [c \in LMD |-> 0] /\ Unread = ByteBits * WordBytes

\* The reader never runs short of bits while there are bytes left: the bits
\* taken between two refills never exceed what a refill provides.  A stream
\* that is short stays short, and what is left in its accumulator is what its
\* bit count says.
ShortOnlyAtFront ==
    stage \in {"decode literals", "decode records", "decoded"} =>
    /\ in.accumNBits < 0 => in.ptr <= 0
    /\ in.accumNBits >= 0 => in.accum < 2^in.accumNBits

\* Normalised tables give out every state, and a state to a symbol if and only
\* if it occurs: rounding each symbol up to one state is paid for by others.
StatesAllOwned ==
    stage \in {"encode records", "encode literals"} =>
    \A c \in Range(Coders) :
      /\ Total(block.freqs[c]) = NStates[c]
      /\ \A s \in DOMAIN Base[c] : block.freqs[c][s] > 0 <=> Counts(c, block.source)[s] > 0

\* A header is accepted only if its frequency data is, but for the padding of
\* the last byte, what the encoder would write for the tables read: data that
\* is cut, extended or misread is refused.
HeaderCanonical ==
    stage = "tables" /\ block.version = 2 =>
    LET written == V2!WriteFreqs(AllFreqs(header.freqs))
    IN /\ Len(written) = V2!HeaderByte * (header.headerSize - V2!FixedBytes)
       /\ \A i \in 1 .. Len(written) - 7 : written[i] = block.freqData[i]
       /\ Honest => written = block.freqData
=============================================================================
