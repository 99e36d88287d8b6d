------------------------- MODULE EntropyCodecProofs -------------------------
(***************************************************************************)
(* Theorems about the entropy layer, for every size of the four tables,    *)
(* every source and every block of others that passes the header's checks. *)
(*                                                                         *)
(* The inductive invariant CodecInv is about any block: the decode states  *)
(* stay in their tables, only the loads at the front of a stream may fall  *)
(* short, and the tables of an encoded block own every state.              *)
(*                                                                         *)
(* TraceInv, on top of it, is about the blocks of this encoder: what has   *)
(* been written follows a trace from the initial states, and what is read  *)
(* follows it back, so that a block is restored, its streams are consumed  *)
(* to the last bit, and its V2 header is the only one of its frequencies.  *)
(***************************************************************************)
EXTENDS EntropyLemmas

-----------------------------------------------------------------------------
(***************************************************************************)
(* The inductive invariant                                                 *)
(***************************************************************************)
AllBlocks == UNION {Range(q) : q \in Queues}

\* The blocks still to pass are those of Queues.
QueueInv == queue \in Seq(AllBlocks)

\* The block being encoded is what encodeBlock is given, with the normalised
\* tables of its own histograms.
EncodingInv ==
    stage \in {"encode records", "encode literals"} =>
      IsSource(block.source) /\ Normalized(block.freqs, block.source)

\* The records left are those of the block, and the states index the tables.
RecordsLeftInv ==
    stage = "encode records" => enc \in Encoders(LMDStates) /\ enc.left <= Len(block.source.records)

\* The literals left are whole groups; the L,M,D payload is finished.
LiteralsLeftInv ==
    stage = "encode literals" =>
    /\ enc \in Encoders(LitStates) /\ LMDDone
    /\ enc.left <= Len(block.source.literals) /\ enc.left % Lanes = 0

\* What is about to be read is a header of bytes and bits, ours or another's.
HeaderInv == stage = "header" => HeaderBlock(block)

\* A header that was accepted has numbers in all fields, tables on the symbols
\* of the coders and initial states inside them; nothing else is known of it.
AcceptedInv ==
    stage \in {"tables", "decode literals", "decode records"} =>
    /\ block.payload \in Seq(Byte) /\ FieldsRead(header) /\ Tables(header.freqs) /\ StatesFit(header)

\* Every entry of the scratch leads into its own table, whatever blocks have
\* left entries there.
TablesInv == \A c \in Range(Coders) : TableOK(tables[c], c)

\* Both payloads lie inside the bytes there are.
PayloadInv ==
    stage \in {"decode literals", "decode records"} =>
      header.nLitPayload + header.nLMDPayload <= Len(block.payload)

\* The input stream holds no more than it counts, and it is short of bits only
\* when the whole of its buffer is loaded.
LitStreamInv == stage = "decode literals" => Sound(in, LitStream) /\ Ready(in, 0)

LMDStreamInv == stage \in {"decode records", "decoded"} => Sound(in, LMDStream) /\ Ready(in, 0)

\* The inductive invariant of the entropy layer.
CodecInv ==
    /\ stage \in Stages
    /\ QueueInv /\ EncodingInv /\ RecordsLeftInv /\ LiteralsLeftInv /\ HeaderInv /\ AcceptedInv
    /\ TablesInv /\ PayloadInv /\ LitStreamInv /\ LMDStreamInv /\ StatesInTables

\* The next block is one of Queues, with what is assumed of those.
LEMMA HeadIs ==
    ASSUME QueueInv, queue # << >>
    PROVE  /\ Tail(queue) \in Seq(AllBlocks)
           /\ Head(queue).kind = "source" => IsSource(Head(queue))
           /\ Head(queue).kind = "foreign" => IsForeign(Head(queue))
<1>1. Tail(queue) \in Seq(AllBlocks) /\ Head(queue) \in AllBlocks
  BY DEF QueueInv
<1>2. PICK q \in Queues : Head(queue) \in Range(q)
  BY <1>1 DEF AllBlocks
<1>3. IsSource(Head(queue)) \/ IsForeign(Head(queue))
  BY <1>2, QueuesAssumption
<1> QED
  BY <1>1, <1>3 DEF IsSource, IsForeign

LEMMA InitIs ==
    ASSUME Init
    PROVE  CodecInv
<1>1. stage = "next"
  BY DEF Init
<1>2. QueueInv
  <2>1. queue \in Seq(Range(queue)) /\ queue \in Queues
    BY QueuesAssumption DEF Init
  <2>2. Range(queue) \subseteq AllBlocks
    BY <2>1 DEF AllBlocks
  <2>3. queue \in Seq(AllBlocks)
    BY <2>1, <2>2
  <2> QED
    BY <2>3 DEF QueueInv
<1>3. TablesInv
  <2>1. \A c \in Range(Coders) : tables[c] = ZeroTable(NStates[c])
    BY DEF Init
  <2> QED
    BY <2>1, ZeroTableOK DEF TablesInv
<1>4. EncodingInv /\ RecordsLeftInv /\ LiteralsLeftInv /\ HeaderInv /\ AcceptedInv
  BY <1>1 DEF EncodingInv, RecordsLeftInv, LiteralsLeftInv, HeaderInv, AcceptedInv
<1>5. PayloadInv /\ LitStreamInv /\ LMDStreamInv /\ StatesInTables
  BY <1>1 DEF PayloadInv, LitStreamInv, LMDStreamInv, StatesInTables
<1> QED
  BY <1>1, <1>2, <1>3, <1>4, <1>5 DEF CodecInv, Stages

-----------------------------------------------------------------------------
(***************************************************************************)
(* Each step keeps it                                                      *)
(***************************************************************************)
LEMMA BeginEncodeKeeps ==
    ASSUME CodecInv, BeginEncode
    PROVE  CodecInv'
<1> DEFINE src == Head(queue)
<1>1. stage' = "encode records"
  BY DEF BeginEncode
<1>2. IsSource(src) /\ Tail(queue) \in Seq(AllBlocks)
  BY HeadIs DEF BeginEncode, CodecInv
<1>3. QueueInv'
  BY <1>2 DEF QueueInv, BeginEncode
<1>4. block'.source = src
      /\ block'.freqs = [c \in Range(Coders) |-> NormalizeFreq(Counts(c, src), NStates[c])]
  BY DEF BeginEncode
<1>5. enc'.left = Len(src.records) /\ enc' = [left |-> Len(src.records), bits |-> << >>, states |-> [c \in LMD |-> 0]]
  BY DEF BeginEncode
<1> HIDE DEF src
<1>6. EncodingInv'
  <2>1. Normalized(block'.freqs, src)
    BY <1>2, <1>4, NormalizedAre
  <2> QED
    BY <1>2, <1>4, <2>1 DEF EncodingInv
<1>7. RecordsLeftInv'
  <2>1. Len(src.records) \in Nat
    BY <1>2 DEF IsSource
  <2>2. [c \in LMD |-> 0] \in LMDStates
    <3>1. \A c \in LMD : NStates[c] \in Nat \ {0}
      BY TheCoders, CoderFacts DEF LMD, CoderIs
    <3> QED
      BY <3>1 DEF LMDStates
  <2>3. << >> \in Seq(Bit)
    OBVIOUS
  <2>4. enc' \in Encoders(LMDStates)
    BY <1>5, <2>1, <2>2, <2>3 DEF Encoders
  <2> QED
    <3>1. enc'.left = Len(block'.source.records) /\ enc'.left \in Nat
      BY <1>4, <1>5, <2>1
    <3>2. enc'.left <= Len(block'.source.records)
      BY <3>1
    <3> QED
      BY <2>4, <3>2 DEF RecordsLeftInv
<1>8. TablesInv'
  BY DEF TablesInv, CodecInv, BeginEncode, decoding
<1>9. LiteralsLeftInv' /\ HeaderInv' /\ AcceptedInv'
  BY <1>1 DEF LiteralsLeftInv, HeaderInv, AcceptedInv
<1>10. PayloadInv' /\ LitStreamInv' /\ LMDStreamInv' /\ StatesInTables'
  BY <1>1 DEF PayloadInv, LitStreamInv, LMDStreamInv, StatesInTables
<1> QED
  BY <1>1, <1>3, <1>6, <1>7, <1>8, <1>9, <1>10 DEF CodecInv, Stages

LEMMA EncodeRecordKeeps ==
    ASSUME CodecInv, EncodeRecord
    PROVE  CodecInv'
<1> DEFINE src == block.source
           r == src.records[enc.left]
           e1 == PutValue(enc, "d", r.d)
           e2 == PutValue(e1, "m", r.m)
           e3 == PutValue(e2, "l", r.l)
<1>0. enc' = [e3 EXCEPT !.left = @ - 1]
  BY DEF EncodeRecord
<1>1. stage = "encode records" /\ enc.left > 0 /\ UNCHANGED <<queue, stage, block, header, decoding>>
  BY DEF EncodeRecord
<1>2. /\ IsSource(src) /\ Normalized(block.freqs, src)
      /\ enc \in Encoders(LMDStates) /\ enc.left <= Len(src.records)
  BY <1>1 DEF CodecInv, EncodingInv, RecordsLeftInv
<1>3. enc.left \in 1 .. Len(src.records) /\ src.records \in Seq([LMD -> Nat])
  <2>1. src.records \in Seq([LMD -> Nat])
    BY <1>2 DEF IsSource
  <2>2. enc.left \in Nat
    BY <1>2 DEF Encoders
  <2> DEFINE n == Len(src.records)
             k == enc.left
  <2>3. n \in Nat
    BY <2>1
  <2>5. k \in Nat /\ k > 0 /\ k <= n
    BY <1>1, <1>2, <2>2
  <2>4. k \in 1 .. n
    <3> HIDE DEF n, k
    <3> QED
      BY <2>3, <2>5
  <2> QED
    BY <2>1, <2>4
<1>4. r \in [LMD -> Nat]
  BY <1>3
<1>5. ASSUME NEW c \in LMD
      PROVE  /\ block.freqs[c] \in [Before(NSym(c)) -> Nat] /\ Total(block.freqs[c]) = NStates[c]
             /\ block.freqs[c][SymbolOf(r[c], Base[c])] > 0 /\ r[c] \in Nat
  <2>1. c \in Range(Coders) /\ c # "lit"
    BY TheCoders DEF LMD
  <2>2. Symbols(c, src) = [i \in 1 .. Len(src.records) |-> SymbolOf(src.records[i][c], Base[c])]
    BY <2>1 DEF Symbols
  <2>3. enc.left \in DOMAIN Symbols(c, src) /\ Symbols(c, src)[enc.left] = SymbolOf(r[c], Base[c])
    BY <1>3, <2>2
  <2> HIDE DEF src, r
  <2>4. /\ block.freqs[c] \in [Before(NSym(c)) -> Nat] /\ Total(block.freqs[c]) = NStates[c]
        /\ block.freqs[c][SymbolOf(r[c], Base[c])] > 0
    BY <1>2, <2>1, <2>3, NormalizedFor
  <2> QED
    BY <1>4, <2>4
<1> HIDE DEF r
<1>6. "l" \in LMD /\ "m" \in LMD /\ "d" \in LMD /\ r["l"] = r.l /\ r["m"] = r.m /\ r["d"] = r.d
  BY DEF LMD
<1>7. e1 \in Encoders(LMDStates) /\ e1.left = enc.left
  BY <1>2, <1>5, <1>6, PutValueIs
<1> HIDE DEF e1
<1>8. e2 \in Encoders(LMDStates) /\ e2.left = enc.left
  BY <1>5, <1>6, <1>7, PutValueIs
<1> HIDE DEF e2
<1>9. e3 \in Encoders(LMDStates) /\ e3.left = enc.left
  BY <1>5, <1>6, <1>8, PutValueIs
<1> HIDE DEF e3, src
<1>10. enc' \in Encoders(LMDStates) /\ enc'.left = enc.left - 1
  <2>1. enc.left - 1 \in Nat
    BY <1>3
  <2> QED
    BY <1>0, <1>9, <2>1 DEF Encoders
<1>11. RecordsLeftInv'
  <2>1. enc'.left <= Len(block.source.records)
    BY <1>3, <1>10 DEF src
  <2> QED
    BY <1>1, <1>10, <2>1 DEF RecordsLeftInv
<1>12. QueueInv' /\ TablesInv' /\ EncodingInv'
  BY <1>1 DEF CodecInv, QueueInv, TablesInv, EncodingInv, decoding
<1>13. LiteralsLeftInv' /\ HeaderInv' /\ AcceptedInv'
  BY <1>1 DEF LiteralsLeftInv, HeaderInv, AcceptedInv
<1>14. PayloadInv' /\ LitStreamInv' /\ LMDStreamInv' /\ StatesInTables'
  BY <1>1 DEF PayloadInv, LitStreamInv, LMDStreamInv, StatesInTables
<1> QED
  BY <1>1, <1>11, <1>12, <1>13, <1>14 DEF CodecInv, Stages

LEMMA FinishRecordsKeeps ==
    ASSUME CodecInv, FinishRecords
    PROVE  CodecInv'
<1>1. stage = "encode records" /\ stage' = "encode literals" /\ UNCHANGED <<queue, header, decoding>>
  BY DEF FinishRecords
<1>2. /\ block'.source = block.source /\ block'.freqs = block.freqs
      /\ block'.lmdStates = enc.states /\ block'.lmd = Finish(enc.bits, ByteBits)
  BY DEF FinishRecords
<1>3. enc' = [left |-> Len(block.source.literals), bits |-> << >>, states |-> Zeros]
  BY DEF FinishRecords
<1>4. IsSource(block.source) /\ Normalized(block.freqs, block.source) /\ enc \in Encoders(LMDStates)
  BY <1>1 DEF CodecInv, EncodingInv, RecordsLeftInv
<1>5. EncodingInv'
  BY <1>2, <1>4 DEF EncodingInv
<1>6. LMDDone'
  <2>1. enc.bits \in Seq(Bit) /\ enc.states \in LMDStates
    BY <1>4 DEF Encoders
  <2>2. Finish(enc.bits, ByteBits).buf \in Seq(Byte) /\ Finish(enc.bits, ByteBits).n \in Int
    BY <2>1, FinishIs
  <2> QED
    BY <1>2, <2>1, <2>2 DEF LMDDone
<1> DEFINE n == Len(block.source.literals)
<1>7. n \in Nat /\ n % Lanes = 0
  BY <1>4 DEF IsSource
<1>8. enc' \in Encoders(LitStates) /\ enc'.left = n
  <2>1. Zeros \in LitStates
    <3>1. NStates["lit"] \in Nat \ {0}
      BY TheCoders, CoderFacts DEF CoderIs
    <3> QED
      BY <3>1 DEF Zeros, LitStates
  <2>2. << >> \in Seq(Bit)
    OBVIOUS
  <2> QED
    BY <1>3, <1>7, <2>1, <2>2 DEF Encoders
<1>9. LiteralsLeftInv'
  <2>1. enc'.left <= n /\ enc'.left % Lanes = 0
    <3> HIDE DEF n
    <3> QED
      BY <1>7, <1>8
  <2>2. Len(block.source.literals)' = n
    BY <1>2
  <2> QED
    BY <1>6, <1>8, <2>1, <2>2 DEF LiteralsLeftInv
<1>10. QueueInv' /\ TablesInv'
  BY <1>1 DEF CodecInv, QueueInv, TablesInv, decoding
<1>11. RecordsLeftInv' /\ HeaderInv' /\ AcceptedInv'
  BY <1>1 DEF RecordsLeftInv, HeaderInv, AcceptedInv
<1>12. PayloadInv' /\ LitStreamInv' /\ LMDStreamInv' /\ StatesInTables'
  BY <1>1 DEF PayloadInv, LitStreamInv, LMDStreamInv, StatesInTables
<1> QED
  BY <1>1, <1>5, <1>9, <1>10, <1>11, <1>12 DEF CodecInv, Stages

LEMMA EncodeGroupKeeps ==
    ASSUME CodecInv, EncodeGroup
    PROVE  CodecInv'
<1> DEFINE Puts(g) == [j \in 0 .. Lanes |-> IF j = 0 THEN enc
                         ELSE PutLiteral(g[j - 1], Lanes - j + 1, block.source.literals[enc.left - j + 1])]
           put == CHOOSE g : g = Puts(g)
           e == put[Lanes]
<1>0. enc' = [e EXCEPT !.left = @ - Lanes]
  BY DEF EncodeGroup
<1>1. stage = "encode literals" /\ enc.left > 0 /\ UNCHANGED <<queue, stage, block, header, decoding>>
  BY DEF EncodeGroup
<1>2. IsSource(block.source) /\ Normalized(block.freqs, block.source)
  BY <1>1 DEF CodecInv, EncodingInv
<1>3. /\ enc \in Encoders(LitStates) /\ LMDDone
      /\ enc.left <= Len(block.source.literals) /\ enc.left % Lanes = 0
  BY <1>1 DEF CodecInv, LiteralsLeftInv
<1>4. Len(block.source.literals) \in Nat
  BY <1>2 DEF IsSource
<1>5. enc.left \in Nat /\ Lanes \in Nat \ {0}
  <2>1. enc.left \in Nat
    BY <1>3 DEF Encoders
  <2>2. Lanes \in Nat \ {0}
    BY EntropyAssumption
  <2> QED
    BY <2>1, <2>2
<1> DEFINE k == enc.left
           n == Len(block.source.literals)
<1>6. Lanes <= k /\ k - Lanes \in Nat /\ (k - Lanes) % Lanes = 0 /\ k - Lanes <= n
  <2>1. k \in Nat /\ k > 0 /\ k % Lanes = 0 /\ n \in Nat /\ k <= n
    BY <1>1, <1>3, <1>4, <1>5
  <2> HIDE DEF k, n
  <2>2. k \div Lanes \in Nat /\ k = (k \div Lanes) * Lanes + (k % Lanes)
    BY <1>5, <2>1, Division
  <2> DEFINE q == k \div Lanes
  <2>3. q \in Nat /\ k = q * Lanes
    <3> HIDE DEF q
    <3>1. q * Lanes \in Nat
      BY <1>5, <2>2 DEF q
    <3> QED
      BY <2>1, <2>2, <3>1 DEF q
  <2> HIDE DEF q
  <2>4. q # 0
    BY <1>5, <2>1, <2>3
  <2> DEFINE p == q - 1
  <2>5. p \in Nat /\ q = p + 1
    BY <2>3, <2>4
  <2> HIDE DEF p
  <2>6. k = p * Lanes + Lanes /\ p * Lanes \in Nat
    BY <1>5, <2>3, <2>5
  <2>7. (p * Lanes + 0) % Lanes = 0
    BY <1>5, <2>5, Quotient
  <2>8. k - Lanes = p * Lanes + 0
    BY <1>5, <2>6
  <2>9. (k - Lanes) % Lanes = 0
    BY <2>7, <2>8
  <2> DEFINE x == p * Lanes
  <2>10. x \in Nat /\ k = x + Lanes
    BY <2>6
  <2> HIDE DEF x
  <2>11. Lanes <= k /\ k - Lanes \in Nat /\ k - Lanes <= n
    BY <1>5, <2>1, <2>10
  <2> QED
    BY <2>9, <2>11
<1>7. e \in Encoders(LitStates) /\ e.left = k
  BY <1>2, <1>3, <1>6, GroupPut
<1> HIDE DEF e, put, Puts
<1>8. enc' \in Encoders(LitStates) /\ enc'.left = k - Lanes
  <2> HIDE DEF k
  <2> QED
    BY <1>0, <1>6, <1>7 DEF Encoders
<1>9. LiteralsLeftInv'
  <2>1. LMDDone' /\ Len(block.source.literals)' = n
    BY <1>1, <1>3 DEF LMDDone
  <2> HIDE DEF k, n
  <2>2. enc'.left <= n /\ enc'.left % Lanes = 0
    BY <1>6, <1>8
  <2> QED
    BY <1>8, <2>1, <2>2 DEF LiteralsLeftInv
<1>10. QueueInv' /\ TablesInv' /\ EncodingInv'
  BY <1>1 DEF CodecInv, QueueInv, TablesInv, EncodingInv, decoding
<1>11. RecordsLeftInv' /\ HeaderInv' /\ AcceptedInv'
  BY <1>1 DEF RecordsLeftInv, HeaderInv, AcceptedInv
<1>12. PayloadInv' /\ LitStreamInv' /\ LMDStreamInv' /\ StatesInTables'
  BY <1>1 DEF PayloadInv, LitStreamInv, LMDStreamInv, StatesInTables
<1> QED
  BY <1>1, <1>9, <1>10, <1>11, <1>12 DEF CodecInv, Stages

LEMMA FinishLiteralsKeeps ==
    ASSUME CodecInv, FinishLiterals
    PROVE  CodecInv'
<1> DEFINE lit == Finish(enc.bits, ByteBits)
           lmdPayload == LMDPadding \o block.lmd.buf
           v1 == V1!Read(V1!Write([nLiterals |-> Len(block.source.literals), nMatches |-> Len(block.source.records),
                      nLitPayload |-> Len(lit.buf), nLMDPayload |-> Len(lmdPayload),
                      litBits |-> lit.n, lmdBits |-> block.lmd.n,
                      litStates |-> enc.states, lmdStates |-> block.lmdStates],
                     AllFreqs(block.freqs)), Lanes, AllSymbols)
           freqData == V2!WriteFreqs(v1.freqs)
           payload == lit.buf \o lmdPayload
           words == V2!Pack(v1, V2!FixedBytes + Len(freqData) \div V2!HeaderByte)
<1>1. stage = "encode literals" /\ stage' = "header" /\ UNCHANGED <<queue, header, decoding>>
  BY DEF FinishLiterals
<1>2. block' = [kind |-> "source", source |-> block.source, version |-> 2,
                words |-> words, freqData |-> freqData, payload |-> payload]
  BY DEF FinishLiterals
<1>3. payload \in Seq(Byte) /\ freqData \in Seq(Bit)
  <2>1. IsSource(block.source) /\ Normalized(block.freqs, block.source)
    BY <1>1 DEF CodecInv, EncodingInv
  <2>2. enc \in Encoders(LitStates) /\ LMDDone
    BY <1>1 DEF CodecInv, LiteralsLeftInv
  <2> QED
    BY <2>1, <2>2, WrittenIs
<1>4. words \in [1 .. 3 -> [1 .. V2!HeaderWord -> Bit]]
  BY PackIs
<1> HIDE DEF words, payload, freqData
<1>5. HeaderInv'
  <2>1. block'.version = 2 /\ block'.words = words /\ block'.freqData = freqData /\ block'.payload = payload
    BY <1>2
  <2>2. HeaderBlock(block)'
    BY <1>3, <1>4, <2>1 DEF HeaderBlock
  <2> QED
    BY <2>2 DEF HeaderInv
<1>6. QueueInv' /\ TablesInv'
  BY <1>1 DEF CodecInv, QueueInv, TablesInv, decoding
<1>7. EncodingInv' /\ RecordsLeftInv' /\ LiteralsLeftInv' /\ AcceptedInv'
  BY <1>1 DEF EncodingInv, RecordsLeftInv, LiteralsLeftInv, AcceptedInv
<1>8. PayloadInv' /\ LitStreamInv' /\ LMDStreamInv' /\ StatesInTables'
  BY <1>1 DEF PayloadInv, LitStreamInv, LMDStreamInv, StatesInTables
<1> QED
  BY <1>1, <1>5, <1>6, <1>7, <1>8 DEF CodecInv, Stages

LEMMA BeginForeignKeeps ==
    ASSUME CodecInv, BeginForeign
    PROVE  CodecInv'
<1>1. stage' = "header" /\ block' = Head(queue) /\ UNCHANGED <<header, enc, decoding>>
  BY DEF BeginForeign
<1>2. IsForeign(Head(queue)) /\ Tail(queue) \in Seq(AllBlocks)
  BY HeadIs DEF BeginForeign, CodecInv
<1>3. QueueInv'
  BY <1>2 DEF QueueInv, BeginForeign
<1>4. HeaderInv'
  <2>1. HeaderBlock(Head(queue))
    BY <1>2, ForeignIs
  <2> QED
    BY <1>1, <2>1 DEF HeaderInv, HeaderBlock
<1>5. TablesInv'
  BY <1>1 DEF CodecInv, TablesInv, decoding
<1>6. EncodingInv' /\ RecordsLeftInv' /\ LiteralsLeftInv' /\ AcceptedInv'
  BY <1>1 DEF EncodingInv, RecordsLeftInv, LiteralsLeftInv, AcceptedInv
<1>7. PayloadInv' /\ LitStreamInv' /\ LMDStreamInv' /\ StatesInTables'
  BY <1>1 DEF PayloadInv, LitStreamInv, LMDStreamInv, StatesInTables
<1> QED
  BY <1>1, <1>3, <1>4, <1>5, <1>6, <1>7 DEF CodecInv, Stages

LEMMA ReadHeaderKeeps ==
    ASSUME CodecInv, ReadHeader
    PROVE  CodecInv'
<1>1. stage = "header" /\ UNCHANGED <<queue, block, enc, decoding>>
  BY DEF ReadHeader
<1>2. HeaderBlock(block)
  BY <1>1 DEF CodecInv, HeaderInv
<1>3. \/ stage' = "error"
      \/ stage' = "tables" /\ header' = HeaderRead /\ (block.version = 2 => FreqsRead.ok) /\ HeaderOK(HeaderRead)
  BY DEF ReadHeader
<1>4. AcceptedInv'
  <2>1. CASE stage' = "error"
    BY <2>1 DEF AcceptedInv
  <2>2. CASE /\ stage' = "tables" /\ header' = HeaderRead
             /\ (block.version = 2 => FreqsRead.ok) /\ HeaderOK(HeaderRead)
    <3>1. FieldsRead(HeaderRead) /\ Tables(HeaderRead.freqs)
      BY <1>2, <2>2, HeaderReadIs
    <3>2. StatesFit(HeaderRead)
      BY <2>2 DEF HeaderOK
    <3>3. block'.payload \in Seq(Byte)
      BY <1>1, <1>2 DEF HeaderBlock
    <3>4. FieldsRead(header') /\ Tables(header'.freqs) /\ StatesFit(header')
      BY <2>2, <3>1, <3>2
    <3> QED
      BY <3>3, <3>4 DEF AcceptedInv
  <2> QED
    BY <1>3, <2>1, <2>2
<1>5. QueueInv' /\ TablesInv'
  BY <1>1 DEF CodecInv, QueueInv, TablesInv, decoding
<1>6. stage' = "error" \/ stage' = "tables"
  BY <1>3
<1>7. EncodingInv' /\ RecordsLeftInv' /\ LiteralsLeftInv' /\ HeaderInv'
  BY <1>6 DEF EncodingInv, RecordsLeftInv, LiteralsLeftInv, HeaderInv
<1>8. PayloadInv' /\ LitStreamInv' /\ LMDStreamInv' /\ StatesInTables'
  BY <1>6 DEF PayloadInv, LitStreamInv, LMDStreamInv, StatesInTables
<1> QED
  BY <1>4, <1>5, <1>6, <1>7, <1>8 DEF CodecInv, Stages

\* The states a header may name are in the tables.
LEMMA StatesOf ==
    ASSUME FieldsRead(header), StatesFit(header)
    PROVE  /\ \A j \in 1 .. Lanes : header.litStates[j] \in 0 .. NStates["lit"] - 1
           /\ \A c \in LMD : header.lmdStates[c] \in 0 .. NStates[c] - 1
<1>1. \A c \in LMD \cup {"lit"} : NStates[c] \in Nat
  <2>1. LMD \cup {"lit"} \subseteq Range(Coders)
    BY TheCoders DEF LMD
  <2> QED
    BY <2>1, CoderFacts DEF CoderIs
<1>2. ASSUME NEW j \in 1 .. Lanes PROVE header.litStates[j] \in 0 .. NStates["lit"] - 1
  <2>1. header.litStates[j] \in Nat /\ header.litStates[j] < NStates["lit"] /\ NStates["lit"] \in Nat
    BY <1>1 DEF FieldsRead, StatesFit
  <2> QED
    BY <2>1
<1>3. ASSUME NEW c \in LMD PROVE header.lmdStates[c] \in 0 .. NStates[c] - 1
  <2>1. header.lmdStates[c] \in Nat /\ header.lmdStates[c] < NStates[c] /\ NStates[c] \in Nat
    BY <1>1 DEF FieldsRead, StatesFit
  <2> QED
    BY <2>1
<1> QED
  BY <1>2, <1>3

LEMMA BuildTablesKeeps ==
    ASSUME CodecInv, BuildTables
    PROVE  CodecInv'
<1> DEFINE lit == InInit(LitStream, header.litBits)
           Fits == \A c \in Range(Coders) : FitsTable(header.freqs[c], NStates[c])
           Within == header.nLitPayload + header.nLMDPayload <= Len(block.payload)
<1>1. stage = "tables" /\ UNCHANGED <<queue, block, header, enc>>
  BY DEF BuildTables
<1>2. /\ block.payload \in Seq(Byte) /\ FieldsRead(header)
      /\ Tables(header.freqs) /\ StatesFit(header)
  BY <1>1 DEF CodecInv, AcceptedInv
<1>3. QueueInv'
  BY <1>1 DEF CodecInv, QueueInv
<1>4. CASE stage' = "error" /\ UNCHANGED decoding
  <2>1. TablesInv'
    BY <1>4 DEF CodecInv, TablesInv, decoding
  <2>2. EncodingInv' /\ RecordsLeftInv' /\ LiteralsLeftInv' /\ HeaderInv' /\ AcceptedInv'
    BY <1>4 DEF EncodingInv, RecordsLeftInv, LiteralsLeftInv, HeaderInv, AcceptedInv
  <2>3. PayloadInv' /\ LitStreamInv' /\ LMDStreamInv' /\ StatesInTables'
    BY <1>4 DEF PayloadInv, LitStreamInv, LMDStreamInv, StatesInTables
  <2> QED
    BY <1>3, <1>4, <2>1, <2>2, <2>3 DEF CodecInv, Stages
<1>5. CASE /\ Within /\ lit.ok /\ Fits /\ stage' = "decode literals"
           /\ tables' = [c \in Range(Coders) |->
                DecoderTable(header.freqs[c], NStates[c], Extra[c], Base[c], tables[c])]
           /\ in' = lit /\ states' = header.litStates
  <2>1. TablesInv'
    <3> SUFFICES ASSUME NEW c \in Range(Coders) PROVE TableOK(tables'[c], c)
      BY DEF TablesInv
    <3>1. tables'[c] = DecoderTable(header.freqs[c], NStates[c], Extra[c], Base[c], tables[c])
      BY <1>5
    <3>2. TableOK(tables[c], c)
      BY DEF CodecInv, TablesInv
    <3>3. header.freqs[c] \in [Before(NSym(c)) -> Nat] /\ FitsTable(header.freqs[c], NStates[c])
      BY <1>2, <1>5 DEF Tables
    <3>4. TableOK(DecoderTable(header.freqs[c], NStates[c], Extra[c], Base[c], tables[c]), c)
      BY <3>2, <3>3, DecoderTableOK
    <3> QED
      BY <3>1, <3>4
  <2>2. AcceptedInv'
    BY <1>1, <1>2 DEF AcceptedInv
  <2>3. PayloadInv'
    BY <1>1, <1>5 DEF PayloadInv
  <2>4. LitStreamInv'
    <3>1. LitStream \in Seq(Byte)
      BY <1>2, <1>5, StreamsAre DEF FieldsRead
    <3>2. header.litBits \in Int
      BY <1>2 DEF FieldsRead
    <3> HIDE DEF lit
    <3>3. lit.ok
      BY <1>5
    <3>4. Sound(lit, LitStream) /\ Ready(lit, 0)
      BY <3>1, <3>2, <3>3, InInitIs DEF lit
    <3>5. LitStream' = LitStream
      BY <1>1 DEF LitStream
    <3> QED
      BY <1>5, <3>4, <3>5 DEF LitStreamInv
  <2>5. StatesInTables'
    <3>1. \A j \in 1 .. Lanes : header.litStates[j] \in 0 .. NStates["lit"] - 1
      BY <1>2, StatesOf
    <3> QED
      BY <1>5, <3>1 DEF StatesInTables
  <2>6. EncodingInv' /\ RecordsLeftInv' /\ LiteralsLeftInv' /\ HeaderInv' /\ LMDStreamInv'
    BY <1>5 DEF EncodingInv, RecordsLeftInv, LiteralsLeftInv, HeaderInv, LMDStreamInv
  <2> QED
    BY <1>3, <1>5, <2>1, <2>2, <2>3, <2>4, <2>5, <2>6 DEF CodecInv, Stages
<1> HIDE DEF lit, Fits, Within
<1> QED
  BY <1>4, <1>5 DEF BuildTables, lit, Fits, Within

LEMMA DecodeGroupKeeps ==
    ASSUME CodecInv, DecodeGroup
    PROVE  CodecInv'
<1> DEFINE s == InFlush(in, LitStream)
           table == tables["lit"]
           Group(g) == [j \in 1 .. Lanes |->
                          Take(IF j = 1 THEN InFlush(in, LitStream) ELSE g[j - 1].stream, tables["lit"], states[j])]
           taken == CHOOSE g : g = Group(g)
<1>1. stage = "decode literals" /\ UNCHANGED <<queue, stage, block, header, enc, tables, records>>
  BY DEF DecodeGroup
<1>2. in' = taken[Lanes].stream /\ states' = [j \in 1 .. Lanes |-> taken[j].state]
  BY DEF DecodeGroup
<1>3. /\ block.payload \in Seq(Byte) /\ FieldsRead(header) /\ Tables(header.freqs) /\ StatesFit(header)
      /\ header.nLitPayload + header.nLMDPayload <= Len(block.payload)
      /\ Sound(in, LitStream) /\ Ready(in, 0)
  BY <1>1 DEF CodecInv, AcceptedInv, PayloadInv, LitStreamInv
<1>4. LitStream \in Seq(Byte)
  BY <1>3, StreamsAre DEF FieldsRead
<1>5. Sound(s, LitStream) /\ Ready(s, WordBits - ByteBits)
  BY <1>3, <1>4, FlushKeeps
<1>6. Ready(s, Lanes * MaxBits("lit"))
  <2> DEFINE x == Lanes * MaxBits("lit")
             y == WordBits - ByteBits
  <2>1. x \in Nat /\ y \in Nat /\ x <= y
    <3>1. MaxBits("lit") \in Nat /\ Lanes \in Nat
      <4>1. Lanes \in Nat
        BY EntropyAssumption
      <4> QED
        BY <4>1, MaxBitsFit, TheCoders
    <3>2. \A a, b \in Nat : a * b \in Nat
      OBVIOUS
    <3>3. x <= y
      BY EntropyAssumption
    <3> QED
      BY <3>1, <3>2, <3>3, WordIs
  <2>2. s.accumNBits \in Int
    BY <1>5, SoundFields
  <2> HIDE DEF s, x, y
  <2>3. Ready(s, y)
    BY <1>5 DEF y
  <2>4. Ready(s, x)
    BY <2>1, <2>2, <2>3 DEF Ready
  <2> QED
    BY <2>4 DEF x
<1>7. TableOK(table, "lit")
  BY TheCoders DEF CodecInv, TablesInv
<1>8. \A j \in 1 .. Lanes : states[j] \in 0 .. NStates["lit"] - 1
  BY <1>1 DEF CodecInv, StatesInTables
<1> HIDE DEF s, table
<1>9. \A j \in 1 .. Lanes :
        /\ Sound(taken[j].stream, LitStream) /\ Ready(taken[j].stream, 0)
        /\ taken[j].state \in 0 .. NStates["lit"] - 1 /\ taken[j].value \in Nat
  BY <1>5, <1>6, <1>7, <1>8, GroupTaken DEF s, table
<1> HIDE DEF taken
<1>10. Lanes \in 1 .. Lanes
  BY EntropyAssumption
<1>11. LitStreamInv'
  <2>1. LitStream' = LitStream
    BY <1>1 DEF LitStream
  <2> QED
    BY <1>2, <1>9, <1>10, <2>1 DEF LitStreamInv
<1>12. StatesInTables'
  BY <1>1, <1>2, <1>9 DEF StatesInTables
<1>13. QueueInv' /\ TablesInv' /\ AcceptedInv' /\ PayloadInv'
  BY <1>1 DEF CodecInv, QueueInv, TablesInv, AcceptedInv, PayloadInv
<1>14. EncodingInv' /\ RecordsLeftInv' /\ LiteralsLeftInv' /\ HeaderInv' /\ LMDStreamInv'
  BY <1>1 DEF EncodingInv, RecordsLeftInv, LiteralsLeftInv, HeaderInv, LMDStreamInv
<1> QED
  BY <1>1, <1>11, <1>12, <1>13, <1>14 DEF CodecInv, Stages

LEMMA StartRecordsKeeps ==
    ASSUME CodecInv, StartRecords
    PROVE  CodecInv'
<1> DEFINE lmd == InInit(LMDStream, header.lmdBits)
<1>1. stage = "decode literals" /\ UNCHANGED <<queue, block, header, enc, tables, literals, records>>
  BY DEF StartRecords
<1>2. /\ block.payload \in Seq(Byte) /\ FieldsRead(header) /\ Tables(header.freqs) /\ StatesFit(header)
      /\ header.nLitPayload + header.nLMDPayload <= Len(block.payload)
  BY <1>1 DEF CodecInv, AcceptedInv, PayloadInv
<1>3. QueueInv' /\ TablesInv'
  BY <1>1 DEF CodecInv, QueueInv, TablesInv
<1>4. CASE stage' = "error"
  <2>1. EncodingInv' /\ RecordsLeftInv' /\ LiteralsLeftInv' /\ HeaderInv' /\ AcceptedInv'
    BY <1>4 DEF EncodingInv, RecordsLeftInv, LiteralsLeftInv, HeaderInv, AcceptedInv
  <2>2. PayloadInv' /\ LitStreamInv' /\ LMDStreamInv' /\ StatesInTables'
    BY <1>4 DEF PayloadInv, LitStreamInv, LMDStreamInv, StatesInTables
  <2> QED
    BY <1>3, <1>4, <2>1, <2>2 DEF CodecInv, Stages
<1>5. CASE lmd.ok /\ stage' = "decode records" /\ in' = lmd /\ states' = header.lmdStates
  <2>1. LMDStreamInv'
    <3>1. LMDStream \in Seq(Byte)
      BY <1>2, StreamsAre DEF FieldsRead
    <3>2. header.lmdBits \in Int
      BY <1>2 DEF FieldsRead
    <3> HIDE DEF lmd
    <3>3. lmd.ok
      BY <1>5
    <3>4. Sound(lmd, LMDStream) /\ Ready(lmd, 0)
      BY <3>1, <3>2, <3>3, InInitIs DEF lmd
    <3>5. LMDStream' = LMDStream
      BY <1>1 DEF LMDStream
    <3> QED
      BY <1>5, <3>4, <3>5 DEF LMDStreamInv
  <2>2. StatesInTables'
    <3>1. \A c \in LMD : header.lmdStates[c] \in 0 .. NStates[c] - 1
      BY <1>2, StatesOf
    <3> QED
      BY <1>5, <3>1 DEF StatesInTables
  <2>3. AcceptedInv' /\ PayloadInv'
    BY <1>1, <1>2 DEF AcceptedInv, PayloadInv
  <2>4. EncodingInv' /\ RecordsLeftInv' /\ LiteralsLeftInv' /\ HeaderInv' /\ LitStreamInv'
    BY <1>5 DEF EncodingInv, RecordsLeftInv, LiteralsLeftInv, HeaderInv, LitStreamInv
  <2> QED
    BY <1>3, <1>5, <2>1, <2>2, <2>3, <2>4 DEF CodecInv, Stages
<1> HIDE DEF lmd
<1> QED
  BY <1>4, <1>5 DEF StartRecords, lmd

LEMMA DecodeRecordKeeps ==
    ASSUME CodecInv, DecodeRecord
    PROVE  CodecInv'
<1> DEFINE l == Take(InFlush(in, LMDStream), tables["l"], states["l"])
           m == Take(l.stream, tables["m"], states["m"])
           d == Take(InFlush(m.stream, LMDStream), tables["d"], states["d"])
<1>1. stage = "decode records" /\ UNCHANGED <<queue, stage, block, header, enc, tables, literals>>
  BY DEF DecodeRecord
<1>2. in' = d.stream /\ states' = [l |-> l.state, m |-> m.state, d |-> d.state]
  BY DEF DecodeRecord
<1>3. /\ block.payload \in Seq(Byte) /\ FieldsRead(header)
      /\ header.nLitPayload + header.nLMDPayload <= Len(block.payload)
      /\ Sound(in, LMDStream) /\ Ready(in, 0)
  BY <1>1 DEF CodecInv, AcceptedInv, PayloadInv, LMDStreamInv
<1>4. LMDStream \in Seq(Byte)
  BY <1>3, StreamsAre DEF FieldsRead
<1>5. ASSUME NEW c \in LMD
      PROVE  /\ c \in Range(Coders) /\ MaxBits(c) \in Nat /\ TableOK(tables[c], c)
             /\ states[c] \in 0 .. NStates[c] - 1
  <2>1. c \in Range(Coders)
    BY TheCoders DEF LMD
  <2> QED
    BY <1>1, <2>1, MaxBitsFit DEF CodecInv, TablesInv, StatesInTables
<1>6. "l" \in LMD /\ "m" \in LMD /\ "d" \in LMD
  BY DEF LMD
<1> DEFINE wl == MaxBits("l")
           wm == MaxBits("m")
           wd == MaxBits("d")
<1>7. /\ wl \in Nat /\ wm \in Nat /\ wd \in Nat
      /\ wl + wm \in Nat /\ wl + wm <= WordBits - ByteBits /\ wd <= WordBits - ByteBits
  BY <1>5, <1>6, EntropyAssumption, SMTT(30)
<1> HIDE DEF wl, wm, wd
<1> DEFINE s == InFlush(in, LMDStream)
           t == InFlush(m.stream, LMDStream)
<1>8. Sound(s, LMDStream) /\ Ready(s, wl + wm)
  BY <1>3, <1>4, <1>7, FlushedIs
<1> HIDE DEF s
<1>9. Sound(l.stream, LMDStream) /\ Ready(l.stream, wm) /\ l.state \in 0 .. NStates["l"] - 1
  <2>1. Ready(s, MaxBits("l") + wm)
    BY <1>8 DEF wl
  <2> QED
    BY <1>5, <1>6, <1>7, <1>8, <2>1, TakeKeeps DEF s
<1> HIDE DEF l
<1>10. Sound(m.stream, LMDStream) /\ Ready(m.stream, 0) /\ m.state \in 0 .. NStates["m"] - 1
  <2>1. Ready(l.stream, MaxBits("m") + 0)
    <3>1. wm + 0 = wm
      BY <1>7
    <3> QED
      BY <1>9, <3>1 DEF wm
  <2> QED
    BY <1>5, <1>6, <1>9, <2>1, TakeKeeps
<1> HIDE DEF m
<1>11. Sound(t, LMDStream) /\ Ready(t, wd)
  BY <1>4, <1>7, <1>10, FlushedIs
<1> HIDE DEF t
<1>12. Sound(d.stream, LMDStream) /\ Ready(d.stream, 0) /\ d.state \in 0 .. NStates["d"] - 1
  <2>1. Ready(t, MaxBits("d") + 0)
    <3>1. wd + 0 = wd
      BY <1>7
    <3> QED
      BY <1>11, <3>1 DEF wd
  <2> QED
    BY <1>5, <1>6, <1>11, <2>1, TakeKeeps DEF t
<1> HIDE DEF d
<1>13. LMDStreamInv'
  <2>1. LMDStream' = LMDStream
    BY <1>1 DEF LMDStream
  <2> QED
    BY <1>2, <1>12, <2>1 DEF LMDStreamInv
<1>14. StatesInTables'
  <2>1. /\ states'["l"] \in 0 .. NStates["l"] - 1 /\ states'["m"] \in 0 .. NStates["m"] - 1
        /\ states'["d"] \in 0 .. NStates["d"] - 1
    BY <1>2, <1>9, <1>10, <1>12
  <2> QED
    BY <1>1, <2>1 DEF StatesInTables, LMD
<1>15. QueueInv' /\ TablesInv' /\ AcceptedInv' /\ PayloadInv'
  BY <1>1 DEF CodecInv, QueueInv, TablesInv, AcceptedInv, PayloadInv
<1>16. EncodingInv' /\ RecordsLeftInv' /\ LiteralsLeftInv' /\ HeaderInv' /\ LitStreamInv'
  BY <1>1 DEF EncodingInv, RecordsLeftInv, LiteralsLeftInv, HeaderInv, LitStreamInv
<1> QED
  BY <1>1, <1>13, <1>14, <1>15, <1>16 DEF CodecInv, Stages

LEMMA EndBlockKeeps ==
    ASSUME CodecInv, EndBlock
    PROVE  CodecInv'
<1>1. stage = "decode records" /\ stage' = "decoded" /\ UNCHANGED <<queue, block, header, enc, decoding>>
  BY DEF EndBlock
<1>2. QueueInv' /\ TablesInv'
  BY <1>1 DEF CodecInv, QueueInv, TablesInv, decoding
<1>3. LMDStreamInv'
  <2>1. Sound(in, LMDStream) /\ Ready(in, 0)
    BY <1>1 DEF CodecInv, LMDStreamInv
  <2>2. LMDStream' = LMDStream /\ in' = in
    BY <1>1 DEF LMDStream, decoding
  <2> QED
    BY <2>1, <2>2 DEF LMDStreamInv
<1>4. EncodingInv' /\ RecordsLeftInv' /\ LiteralsLeftInv' /\ HeaderInv' /\ AcceptedInv'
  BY <1>1 DEF EncodingInv, RecordsLeftInv, LiteralsLeftInv, HeaderInv, AcceptedInv
<1>5. PayloadInv' /\ LitStreamInv' /\ StatesInTables'
  BY <1>1 DEF PayloadInv, LitStreamInv, StatesInTables
<1> QED
  BY <1>1, <1>2, <1>3, <1>4, <1>5 DEF CodecInv, Stages

LEMMA NextBlockKeeps ==
    ASSUME CodecInv, NextBlock
    PROVE  CodecInv'
<1>1. stage' = "next" /\ UNCHANGED <<queue, enc, decoding>>
  BY DEF NextBlock
<1>2. QueueInv' /\ TablesInv'
  BY <1>1 DEF CodecInv, QueueInv, TablesInv, decoding
<1>3. EncodingInv' /\ RecordsLeftInv' /\ LiteralsLeftInv' /\ HeaderInv' /\ AcceptedInv'
  BY <1>1 DEF EncodingInv, RecordsLeftInv, LiteralsLeftInv, HeaderInv, AcceptedInv
<1>4. PayloadInv' /\ LitStreamInv' /\ LMDStreamInv' /\ StatesInTables'
  BY <1>1 DEF PayloadInv, LitStreamInv, LMDStreamInv, StatesInTables
<1> QED
  BY <1>1, <1>2, <1>3, <1>4 DEF CodecInv, Stages

LEMMA StutterKeeps ==
    ASSUME CodecInv, UNCHANGED vars
    PROVE  CodecInv'
<1>1. UNCHANGED <<queue, stage, block, header, enc, tables, in, states>>
  BY DEF vars
<1>2. LitStream' = LitStream /\ LMDStream' = LMDStream
  BY <1>1 DEF LitStream, LMDStream
<1>3. QueueInv' /\ TablesInv' /\ EncodingInv' /\ RecordsLeftInv'
  BY <1>1 DEF CodecInv, QueueInv, TablesInv, EncodingInv, RecordsLeftInv
<1>4. LiteralsLeftInv' /\ HeaderInv' /\ AcceptedInv' /\ PayloadInv'
  BY <1>1 DEF CodecInv, LiteralsLeftInv, LMDDone, HeaderInv, HeaderBlock, AcceptedInv, PayloadInv
<1>5. LitStreamInv' /\ LMDStreamInv' /\ StatesInTables'
  BY <1>1, <1>2 DEF CodecInv, LitStreamInv, LMDStreamInv, StatesInTables
<1> QED
  BY <1>1, <1>3, <1>4, <1>5 DEF CodecInv

-----------------------------------------------------------------------------
(***************************************************************************)
(* What CodecInv gives                                                     *)
(***************************************************************************)
\* CodecInv holds in every reachable state: for all tables, all sources and all
\* blocks of others, however many pass through encodeBlock, makeV2Block,
\* decodeV2Header and decodeCompressedBlock one after the other.
THEOREM CodecInvHolds == Spec => []CodecInv
<1>1. Init => CodecInv
  BY InitIs
<1>2. CodecInv /\ [Next]_vars => CodecInv'
  <2> SUFFICES ASSUME CodecInv, [Next]_vars PROVE CodecInv'
    OBVIOUS
  <2>1. CASE BeginEncode BY <2>1, BeginEncodeKeeps
  <2>2. CASE EncodeRecord BY <2>2, EncodeRecordKeeps
  <2>3. CASE FinishRecords BY <2>3, FinishRecordsKeeps
  <2>4. CASE EncodeGroup BY <2>4, EncodeGroupKeeps
  <2>5. CASE FinishLiterals BY <2>5, FinishLiteralsKeeps
  <2>6. CASE BeginForeign BY <2>6, BeginForeignKeeps
  <2>7. CASE ReadHeader BY <2>7, ReadHeaderKeeps
  <2>8. CASE BuildTables BY <2>8, BuildTablesKeeps
  <2>9. CASE DecodeGroup BY <2>9, DecodeGroupKeeps
  <2>10. CASE StartRecords BY <2>10, StartRecordsKeeps
  <2>11. CASE DecodeRecord BY <2>11, DecodeRecordKeeps
  <2>12. CASE EndBlock BY <2>12, EndBlockKeeps
  <2>13. CASE NextBlock BY <2>13, NextBlockKeeps
  <2>14. CASE UNCHANGED vars BY <2>14, StutterKeeps
  <2> QED
    BY <2>1, <2>2, <2>3, <2>4, <2>5, <2>6, <2>7, <2>8, <2>9, <2>10, <2>11, <2>12, <2>13, <2>14 DEF Next
<1> QED
  BY <1>1, <1>2, PTL DEF Spec

\* Whatever a header and a payload say, after bits have run out and with
\* entries left over from an earlier block, decodeCompressedBlock never indexes
\* a decode table outside.
THEOREM StatesInTablesHolds == Spec => []StatesInTables
<1>1. CodecInv => StatesInTables
  BY DEF CodecInv
<1> QED
  BY <1>1, CodecInvHolds, PTL

\* A stream that has all it was asked for lacks bits only at its front.
LEMMA NoLackInside ==
    ASSUME NEW buf, NEW s, Sound(s, buf), Ready(s, 0)
    PROVE  /\ s.accumNBits < 0 => s.ptr <= 0
           /\ s.accumNBits >= 0 => s.accum < 2^s.accumNBits
<1>1. /\ s.accumNBits \in Int /\ s.ptr \in Int
      /\ s.accumNBits >= 0 => s.accum < 2^s.accumNBits
  BY SoundFields
<1>2. s.accumNBits >= 0 \/ s.ptr <= 0
  BY DEF Ready
<1>3. s.accumNBits < 0 => s.ptr <= 0
  BY <1>1, <1>2
<1> QED
  BY <1>1, <1>3

\* The flushes of decodeCompressedBlock suffice: fseInStream is short of bits
\* only when its buffer is used up, for every payload and every table.
THEOREM ShortOnlyAtFrontHolds == Spec => []ShortOnlyAtFront
<1>1. CodecInv => ShortOnlyAtFront
  <2> SUFFICES ASSUME CodecInv, stage \in {"decode literals", "decode records", "decoded"}
               PROVE  /\ in.accumNBits < 0 => in.ptr <= 0
                      /\ in.accumNBits >= 0 => in.accum < 2^in.accumNBits
    BY DEF ShortOnlyAtFront
  <2>1. PICK buf : Sound(in, buf) /\ Ready(in, 0)
    <3>1. CASE stage = "decode literals"
      BY <3>1 DEF CodecInv, LitStreamInv
    <3>2. CASE stage \in {"decode records", "decoded"}
      BY <3>2 DEF CodecInv, LMDStreamInv
    <3> QED
      BY <3>1, <3>2
  <2> QED
    BY <2>1, NoLackInside
<1> QED
  BY <1>1, CodecInvHolds, PTL

\* fseNormalizeFreq gives out exactly the states there are and none to a symbol
\* that does not occur, for every histogram encodeBlock may count.
THEOREM StatesAllOwnedHolds == Spec => []StatesAllOwned
<1>1. CodecInv => StatesAllOwned
  <2> SUFFICES ASSUME CodecInv, stage \in {"encode records", "encode literals"}, NEW c \in Range(Coders)
               PROVE  /\ Total(block.freqs[c]) = NStates[c]
                      /\ \A s \in DOMAIN Base[c] : block.freqs[c][s] > 0 <=> Counts(c, block.source)[s] > 0
    BY DEF StatesAllOwned
  <2>1. IsSource(block.source) /\ Normalized(block.freqs, block.source)
    BY DEF CodecInv, EncodingInv
  <2>2. DOMAIN Counts(c, block.source) = DOMAIN Base[c]
    BY DEF Counts
  <2> QED
    BY <2>1, <2>2 DEF Normalized, Normal
<1> QED
  BY <1>1, CodecInvHolds, PTL
-----------------------------------------------------------------------------
(***************************************************************************)
(* The fields of a V2 header read back as they were packed: each has bits  *)
(* of its own in its word.                                                 *)
(***************************************************************************)
\* The bits of a value of w bits above them are zero.
LEMMA BitsWithin ==
    ASSUME NEW w \in 0 .. 20, NEW v \in 0 .. 2^w - 1, NEW i \in 1 .. 30, LowBits(30, v)[i] = 1
    PROVE  i <= w
<1> SUFFICES ASSUME w < i PROVE FALSE
  OBVIOUS
<1>1. PrecisionBits \in Nat /\ 30 <= PrecisionBits
  BY PowersOfTwo, FieldsAssumption DEF V2!WidestValue
<1>2. w \in 0 .. PrecisionBits /\ i - 1 \in 0 .. PrecisionBits /\ w <= i - 1
  BY <1>1
<1> DEFINE p == 2^w
           q == 2^(i - 1)
<1>3. p \in Nat \ {0} /\ q \in Nat \ {0} /\ p <= q
  BY <1>2, PowerGrows
<1>4. LowBits(30, v)[i] = (v \div q) % 2
  BY DEF LowBits
<1>5. v \in 0 .. p - 1
  OBVIOUS
<1> HIDE DEF p, q
<1>6. v \in Nat /\ v < 1 * q /\ 1 \in Nat
  BY <1>3, <1>5
<1>7. v \div q < 1
  BY <1>3, <1>6, QuotientBelow
<1>8. v \div q \in Nat
  BY <1>3, <1>6, Division
<1>9. v \div q = 0
  BY <1>7, <1>8
<1>10. (v \div q) % 2 = 0
  BY <1>9
<1> QED
  BY <1>4, <1>10

\* A field f at its shift leaves the bits of s .. s + w - 1 alone.
Beside(f, s, w) == \E x \in 0 .. 20 : f[1] \in 0 .. 2^x - 1 /\ f[2] \in Nat /\ (f[2] + x <= s \/ s + w <= f[2])


Slot(v, s, w) == v \in 0 .. 2^w - 1 /\ s \in Nat /\ w \in 0 .. 20 /\ s + w <= 64

Alone(fs, v, s, w) == <<v, s>> \in fs /\ \A f \in fs : f = <<v, s>> \/ Beside(f, s, w)

LEMMA SlotField ==
    ASSUME NEW fs, NEW v, NEW s, NEW w, Slot(v, s, w), Alone(fs, v, s, w)
    PROVE  V2!Field(V2!Or(fs), s, w) = v
<1>a. s \in Nat /\ w \in 0 .. 20 /\ v \in 0 .. 2^w - 1 /\ s + w <= 64
  BY DEF Slot
<1>b. <<v, s>> \in fs /\ \A f \in fs : f = <<v, s>> \/ Beside(f, s, w)
  BY DEF Alone
<1> DEFINE word == V2!Or(fs)
<1> DEFINE low == LowBits(30, v)
           Has(b, f) == b - f[2] \in 1 .. 30 /\ LowBits(30, f[1])[b - f[2]] = 1
<1>1. word = [b \in 1 .. 64 |-> IF \E f \in fs : Has(b, f) THEN 1 ELSE 0]
  <2> DEFINE Its(b, f) == b - f[2] \in 1 .. 30 /\ V2!Bits!LowBits(30, f[1])[b - f[2]] = 1
  <2>1. word = [b \in 1 .. 64 |-> IF \E f \in fs : Its(b, f) THEN 1 ELSE 0]
    BY DEF V2!Or, V2!HeaderWord, V2!WidestValue
  <2>2. ASSUME NEW b, NEW f PROVE Its(b, f) <=> Has(b, f)
    <3>1. V2!Bits!LowBits(30, f[1]) = LowBits(30, f[1])
      BY SameLowBits
    <3> QED
      BY <3>1
  <2> HIDE DEF Its, Has
  <2> QED
    BY <2>1, <2>2
<1> HIDE DEF word
<1>2. 30 \in Nat /\ 30 <= PrecisionBits /\ Powers(30) /\ Powers(w)
  <2>1. 30 \in Nat /\ 30 <= PrecisionBits /\ w \in 0 .. 30
    BY <1>a, FieldsAssumption DEF V2!WidestValue
  <2> QED
    BY <2>1, WidePowers, FewerPowers
<1>3. v \in Nat /\ 2^w \in Nat
  BY <1>a, <1>2 DEF Powers
<1>4. low \in Seq(Bit) /\ Len(low) = 30 /\ Value(low, 0, w) = v % 2^w
  <2>1. w \in 0 .. 30
    BY <1>a
  <2> QED
    BY <1>2, <1>3, <2>1, LowBitsValue
<1>5. word \in Seq(Bit) /\ Len(word) = 64
  <2>1. word \in [1 .. 64 -> Bit]
    <3> HIDE DEF Has
    <3> QED
      BY <1>1 DEF Bit
  <2> QED
    BY <2>1, AsSequence, ZenonT(60)
<1>6. ASSUME NEW k \in 1 .. w PROVE word[s + k] = low[k]
  <2>1. s + k \in 1 .. 64 /\ k \in 1 .. 30 /\ (s + k) - s = k
    BY <1>a
  <2>2. low[k] \in 0 .. 1
    <3>1. low \in Seq(Bit) /\ k \in 1 .. Len(low)
      BY <1>4, <2>1
    <3> HIDE DEF low
    <3>2. low[k] \in Bit
      BY <3>1
    <3> QED
      BY <3>2 DEF Bit
  <2>3. CASE low[k] = 1
    <3>1. Has(s + k, <<v, s>>)
      BY <2>1, <2>3
    <3> HIDE DEF Has
    <3>2. \E f \in fs : Has(s + k, f)
      BY <1>b, <3>1
    <3> QED
      BY <1>1, <2>1, <2>3, <3>2
  <2>4. CASE low[k] # 1
    <3>1. ASSUME NEW f \in fs, Has(s + k, f) PROVE FALSE
      <4>1. CASE f = <<v, s>>
        BY <2>1, <2>4, <3>1, <4>1
      <4>2. CASE Beside(f, s, w)
        <5>1. PICK x \in 0 .. 20 : f[1] \in 0 .. 2^x - 1 /\ f[2] \in Nat /\ (f[2] + x <= s \/ s + w <= f[2])
          BY <4>2, Zenon DEF Beside
        <5> DEFINE i == (s + k) - f[2]
        <5>2. i \in 1 .. 30 /\ LowBits(30, f[1])[i] = 1
          BY <3>1
        <5>3. i <= x
          <6> HIDE DEF i
          <6> QED
            BY <5>1, <5>2, BitsWithin, Zenon
        <5> QED
          BY <1>a, <5>1, <5>2, <5>3
      <4> QED
        BY <1>b, <4>1, <4>2
    <3> HIDE DEF Has
    <3>2. ~ \E f \in fs : Has(s + k, f)
      BY <3>1
    <3>3. word[s + k] = 0
      BY <1>1, <2>1, <3>2
    <3> HIDE DEF low
    <3> QED
      BY <2>2, <2>4, <3>3
  <2> QED
    BY <2>3, <2>4
<1> HIDE DEF low, Has
<1>7. SameBits(word, s, low, 0, w)
  <2>1. ASSUME NEW k \in 1 .. w PROVE BitOf(word, s + k) = BitOf(low, 0 + k)
    <3>1. s + k <= Len(word) /\ 0 + k <= Len(low) /\ 0 + k = k
      BY <1>a, <1>4, <1>5
    <3> QED
      BY <1>6, <3>1 DEF BitOf
  <2> QED
    BY <2>1 DEF SameBits
<1>8. Value(word, s, w) = Value(low, 0, w)
  BY <1>a, <1>2, <1>4, <1>5, <1>7, ValueAgrees
<1>9. v % 2^w = v
  <2> DEFINE p == 2^w
  <2>1. p \in Nat /\ v < p /\ v \in Nat
    BY <1>a, <1>3
  <2> HIDE DEF p
  <2>2. v % p = v
    BY <2>1, SmallRest
  <2> QED
    BY <2>2 DEF p
<1>10. V2!Field(word, s, w) = Value(word, s, w)
  BY SameValue DEF V2!Field
<1> QED
  BY <1>4, <1>8, <1>9, <1>10 DEF word

LEMMA SlotBeside ==
    ASSUME NEW v, NEW a, NEW x, Slot(v, a, x), NEW s, NEW w, a + x <= s \/ s + w <= a
    PROVE  Beside(<<v, a>>, s, w)
<1> DEFINE f == <<v, a>>
<1>1. f[1] = v /\ f[2] = a
  OBVIOUS
<1> HIDE DEF f
<1>2. x \in 0 .. 20 /\ f[1] \in 0 .. 2^x - 1 /\ f[2] \in Nat /\ (f[2] + x <= s \/ s + w <= f[2])
  BY <1>1 DEF Slot
<1>3. Beside(f, s, w)
  BY <1>2 DEF Beside
<1> QED
  BY <1>3 DEF f

FourSlots(v1, s1, w1, v2, s2, w2, v3, s3, w3, v4, s4, w4) ==
    /\ Slot(v1, s1, w1) /\ Slot(v2, s2, w2) /\ Slot(v3, s3, w3) /\ Slot(v4, s4, w4)
    /\ s1 + w1 <= s2 /\ s2 + w2 <= s3 /\ s3 + w3 <= s4

LEMMA FourFields ==
    ASSUME NEW v1, NEW s1, NEW w1, NEW v2, NEW s2, NEW w2, NEW v3, NEW s3, NEW w3, NEW v4, NEW s4, NEW w4,
           FourSlots(v1, s1, w1, v2, s2, w2, v3, s3, w3, v4, s4, w4),
           NEW word, word = V2!Or({<<v1, s1>>, <<v2, s2>>, <<v3, s3>>, <<v4, s4>>})
    PROVE  /\ V2!Field(word, s1, w1) = v1 /\ V2!Field(word, s2, w2) = v2
           /\ V2!Field(word, s3, w3) = v3 /\ V2!Field(word, s4, w4) = v4
<1> DEFINE f1 == <<v1, s1>>
           f2 == <<v2, s2>>
           f3 == <<v3, s3>>
           f4 == <<v4, s4>>
           fs == {f1, f2, f3, f4}
<1>1. Slot(v1, s1, w1) /\ Slot(v2, s2, w2) /\ Slot(v3, s3, w3) /\ Slot(v4, s4, w4)
  BY DEF FourSlots
<1>2. /\ s1 \in Nat /\ w1 \in Nat /\ s2 \in Nat /\ w2 \in Nat /\ s3 \in Nat /\ w3 \in Nat
      /\ s4 \in Nat /\ w4 \in Nat /\ s1 + w1 <= s2 /\ s2 + w2 <= s3 /\ s3 + w3 <= s4
  BY DEF FourSlots, Slot
<1>3. s1 + w1 <= s3 /\ s1 + w1 <= s4 /\ s2 + w2 <= s4
  BY <1>2
<1>4. Beside(f1, s2, w2) /\ Beside(f1, s3, w3) /\ Beside(f1, s4, w4)
  BY <1>1, <1>2, <1>3, SlotBeside
<1>5. Beside(f2, s1, w1) /\ Beside(f2, s3, w3) /\ Beside(f2, s4, w4)
  BY <1>1, <1>2, <1>3, SlotBeside
<1>6. Beside(f3, s1, w1) /\ Beside(f3, s2, w2) /\ Beside(f3, s4, w4)
  BY <1>1, <1>2, <1>3, SlotBeside
<1>7. Beside(f4, s1, w1) /\ Beside(f4, s2, w2) /\ Beside(f4, s3, w3)
  BY <1>1, <1>2, <1>3, SlotBeside
<1>8. ASSUME NEW v, NEW s, NEW w, Slot(v, s, w), <<v, s>> \in fs,
             \A f \in fs : f = <<v, s>> \/ Beside(f, s, w)
      PROVE  V2!Field(word, s, w) = v
  <2>1. Slot(v, s, w) /\ word = V2!Or(fs)
    BY <1>8
  <2>2. Alone(fs, v, s, w)
    BY <1>8 DEF Alone
  <2> HIDE DEF fs
  <2> QED
    BY <2>1, <2>2, SlotField
<1>9. f1 \in fs /\ f2 \in fs /\ f3 \in fs /\ f4 \in fs /\ \A f \in fs : f = f1 \/ f = f2 \/ f = f3 \/ f = f4
  OBVIOUS
<1> HIDE DEF fs
<1>10. /\ \A f \in fs : f = f1 \/ Beside(f, s1, w1)
       /\ \A f \in fs : f = f2 \/ Beside(f, s2, w2)
       /\ \A f \in fs : f = f3 \/ Beside(f, s3, w3)
       /\ \A f \in fs : f = f4 \/ Beside(f, s4, w4)
  <2> HIDE DEF f1, f2, f3, f4
  <2> QED
    BY <1>4, <1>5, <1>6, <1>7, <1>9
<1> QED
  BY <1>1, <1>8, <1>9, <1>10

\* The fields that a V2 header has room for.
FitsV2(h, size) ==
    /\ h.nLiterals \in 0 .. 2^20 - 1 /\ h.nMatches \in 0 .. 2^20 - 1
    /\ h.nLitPayload \in 0 .. 2^20 - 1 /\ h.nLMDPayload \in 0 .. 2^20 - 1 /\ size \in 0 .. 2^20 - 1
    /\ h.litBits \in -7 .. 0 /\ h.lmdBits \in -7 .. 0
    /\ \A j \in 1 .. Lanes : h.litStates[j] \in 0 .. 2^10 - 1
    /\ h.lmdStates.l \in 0 .. 2^10 - 1 /\ h.lmdStates.m \in 0 .. 2^10 - 1 /\ h.lmdStates.d \in 0 .. 2^10 - 1

LEMMA BitsField ==
    ASSUME NEW n \in -7 .. 0
    PROVE  Slot(n + 7, 60, 3) /\ (n + 7) - 7 = n
<1>1. 2^3 = 8
  <2>1. Powers(20)
    <3>1. 20 \in Nat /\ 20 <= PrecisionBits
      BY EntropyAssumption
    <3> QED
      BY <3>1, WidePowers
  <2>2. 2^1 = 2 /\ 2^(1 + 1) = 2^1 * 2^1 /\ 2^(2 + 1) = 2^2 * 2^1 /\ 1 + 1 = 2 /\ 2 + 1 = 3
    BY <2>1 DEF Powers
  <2> QED
    BY <2>2
<1> DEFINE p == 2^3
<1>2. p = 8
  BY <1>1
<1> HIDE DEF p
<1>3. n + 7 \in 0 .. p - 1 /\ 60 \in Nat /\ 3 \in 0 .. 20 /\ 60 + 3 <= 64 /\ (n + 7) - 7 = n
  BY <1>2
<1> QED
  BY <1>3 DEF Slot, p

LEMMA FieldSlot ==
    ASSUME NEW w, w = 20 \/ w = 10, NEW v \in 0 .. 2^w - 1, NEW s \in Nat, s + w <= 64
    PROVE  Slot(v, s, w)
<1>1. w \in 0 .. 20
  OBVIOUS
<1> QED
  BY <1>1 DEF Slot

\* The second word: the literal states, ten bits each, and two fields more.
StateFields(h) == {<<h.litStates[j], 10 * (j - 1)>> : j \in DOMAIN h.litStates}

LEMMA SecondWord ==
    ASSUME NEW h, NEW size, FitsV2(h, size), DOMAIN h.litStates = 1 .. Lanes,
           NEW word, word = V2!Or(StateFields(h) \cup {<<h.nLMDPayload, 40>>, <<h.lmdBits + 7, 60>>})
    PROVE  /\ \A j \in 1 .. Lanes : V2!Field(word, 10 * (j - 1), 10) = h.litStates[j]
           /\ V2!Field(word, 40, 20) = h.nLMDPayload /\ V2!Field(word, 60, 3) = h.lmdBits + 7
<1> DEFINE f == <<h.nLMDPayload, 40>>
           g == <<h.lmdBits + 7, 60>>
           st(j) == <<h.litStates[j], 10 * (j - 1)>>
           fs == StateFields(h) \cup {f, g}
<1>1. Slot(h.nLMDPayload, 40, 20) /\ Slot(h.lmdBits + 7, 60, 3)
  <2>1. h.nLMDPayload \in 0 .. 2^20 - 1 /\ h.lmdBits \in -7 .. 0
    BY DEF FitsV2
  <2>2. 40 + 20 <= 64 /\ 40 \in Nat
    OBVIOUS
  <2> QED
    BY <2>1, <2>2, FieldSlot, BitsField
<1>2. ASSUME NEW j \in 1 .. Lanes
      PROVE  Slot(h.litStates[j], 10 * (j - 1), 10) /\ 10 * (j - 1) \in Nat /\ 10 * (j - 1) + 10 <= 40
  <2>1. Lanes \in 1 .. 4
    BY EntropyAssumption
  <2>2. 10 * (j - 1) \in Nat /\ 10 * (j - 1) + 10 <= 64 /\ 10 * (j - 1) + 10 <= 40
    BY <2>1
  <2>3. h.litStates[j] \in 0 .. 2^10 - 1
    BY DEF FitsV2
  <2> DEFINE a == 10 * (j - 1)
             x == h.litStates[j]
  <2> HIDE DEF a, x
  <2>4. Slot(x, a, 10)
    BY <2>2, <2>3, FieldSlot DEF a, x
  <2> QED
    BY <2>2, <2>4 DEF a, x
<1>3. /\ f \in fs /\ g \in fs /\ \A j \in 1 .. Lanes : st(j) \in fs
      /\ \A x \in fs : x = f \/ x = g \/ \E j \in 1 .. Lanes : x = st(j)
  BY DEF StateFields
<1>4. word = V2!Or(fs)
  OBVIOUS
<1> HIDE DEF fs
<1>5. Beside(f, 60, 3) /\ Beside(g, 40, 20)
  <2>1. 40 + 20 <= 60
    OBVIOUS
  <2> QED
    BY <1>1, <2>1, SlotBeside
<1>6. ASSUME NEW j \in 1 .. Lanes
      PROVE  /\ Beside(st(j), 40, 20) /\ Beside(st(j), 60, 3)
             /\ Beside(f, 10 * (j - 1), 10) /\ Beside(g, 10 * (j - 1), 10)
  <2> DEFINE a == 10 * (j - 1)
             x == h.litStates[j]
  <2>1. Slot(x, a, 10) /\ a \in Nat /\ a + 10 <= 40
    BY <1>2
  <2> HIDE DEF a, x
  <2>2. a + 10 <= 40 /\ a + 10 <= 60
    BY <2>1
  <2>3. Beside(<<x, a>>, 40, 20) /\ Beside(<<x, a>>, 60, 3) /\ Beside(f, a, 10) /\ Beside(g, a, 10)
    BY <1>1, <2>1, <2>2, SlotBeside
  <2> QED
    BY <2>3 DEF a, x
<1>7. ASSUME NEW j \in 1 .. Lanes, NEW k \in 1 .. Lanes
      PROVE  st(k) = st(j) \/ Beside(st(k), 10 * (j - 1), 10)
  <2> DEFINE a == 10 * (j - 1)
             b == 10 * (k - 1)
             y == h.litStates[k]
  <2>1. Slot(y, b, 10) /\ a \in Nat /\ b \in Nat
    BY <1>2
  <2>2. CASE j = k
    BY <2>2
  <2>3. CASE j # k
    <3>1. b + 10 <= a \/ a + 10 <= b
      BY <2>3, EntropyAssumption
    <3> HIDE DEF a, b, y
    <3>2. Beside(<<y, b>>, a, 10)
      BY <2>1, <3>1, SlotBeside
    <3> QED
      BY <3>2 DEF a, b, y
  <2> QED
    BY <2>2, <2>3
<1>8. Alone(fs, h.nLMDPayload, 40, 20) /\ Alone(fs, h.lmdBits + 7, 60, 3)
  <2> HIDE DEF st
  <2>1. \A x \in fs : x = f \/ Beside(x, 40, 20)
    <3> HIDE DEF f, g
    <3> QED
      BY <1>3, <1>5, <1>6
  <2>2. \A x \in fs : x = g \/ Beside(x, 60, 3)
    <3> HIDE DEF f, g
    <3> QED
      BY <1>3, <1>5, <1>6
  <2> QED
    BY <1>3, <2>1, <2>2 DEF Alone
<1>9. ASSUME NEW j \in 1 .. Lanes PROVE Alone(fs, h.litStates[j], 10 * (j - 1), 10)
  <2>1. ASSUME NEW x \in fs PROVE x = st(j) \/ Beside(x, 10 * (j - 1), 10)
    <3> HIDE DEF st, f, g
    <3> QED
      BY <1>3, <1>6, <1>7
  <2>2. st(j) \in fs
    BY <1>3
  <2> QED
    BY <2>1, <2>2 DEF Alone
<1>10. V2!Field(word, 40, 20) = h.nLMDPayload /\ V2!Field(word, 60, 3) = h.lmdBits + 7
  BY <1>1, <1>4, <1>8, SlotField
<1>11. ASSUME NEW j \in 1 .. Lanes PROVE V2!Field(word, 10 * (j - 1), 10) = h.litStates[j]
  BY <1>2, <1>4, <1>9, SlotField
<1> QED
  BY <1>10, <1>11

UnpackedAs(x, words, freqs) ==
    /\ x.nLiterals = V2!Field(words[1], 0, 20) /\ x.nLitPayload = V2!Field(words[1], 20, 20)
    /\ x.nMatches = V2!Field(words[1], 40, 20) /\ x.litBits = V2!Field(words[1], 60, 3) - 7
    /\ x.litStates = [j \in 1 .. Lanes |-> V2!Field(words[2], 10 * (j - 1), 10)]
    /\ x.nLMDPayload = V2!Field(words[2], 40, 20) /\ x.lmdBits = V2!Field(words[2], 60, 3) - 7
    /\ x.lmdStates = [l |-> V2!Field(words[3], 32, 10), m |-> V2!Field(words[3], 42, 10),
                      d |-> V2!Field(words[3], 52, 10)]
    /\ x.headerSize = V2!Field(words[3], 0, 20) /\ x.freqs = freqs

LEMMA UnpackFields ==
    ASSUME NEW words, NEW freqs
    PROVE  UnpackedAs(V2!Unpack(words, Lanes, freqs), words, freqs)
BY DEF V2!Unpack, V2!HeaderSize, UnpackedAs

LEMMA PackBack ==
    ASSUME NEW h, NEW size, FitsV2(h, size), DOMAIN h.litStates = 1 .. Lanes,
           NEW words, words = V2!Pack(h, size), NEW freqs, NEW x, x = V2!Unpack(words, Lanes, freqs)
    PROVE  /\ SameFields(x, h) /\ x.freqs = freqs /\ x.headerSize = size /\ V2!HeaderSize(words) = size
           /\ DOMAIN x.litStates = 1 .. Lanes /\ DOMAIN x.lmdStates = LMD
<1>1. /\ h.nLiterals \in 0 .. 2^20 - 1 /\ h.nMatches \in 0 .. 2^20 - 1
      /\ h.nLitPayload \in 0 .. 2^20 - 1 /\ size \in 0 .. 2^20 - 1 /\ h.litBits \in -7 .. 0 /\ h.lmdBits \in -7 .. 0
      /\ h.lmdStates.l \in 0 .. 2^10 - 1 /\ h.lmdStates.m \in 0 .. 2^10 - 1 /\ h.lmdStates.d \in 0 .. 2^10 - 1
  BY DEF FitsV2
<1>2. /\ words[1] = V2!Or({<<h.nLiterals, 0>>, <<h.nLitPayload, 20>>, <<h.nMatches, 40>>, <<h.litBits + 7, 60>>})
      /\ words[2] = V2!Or(StateFields(h) \cup {<<h.nLMDPayload, 40>>, <<h.lmdBits + 7, 60>>})
      /\ words[3] = V2!Or({<<size, 0>>, <<h.lmdStates.l, 32>>, <<h.lmdStates.m, 42>>, <<h.lmdStates.d, 52>>})
  BY DEF V2!Pack, StateFields
<1>3. /\ V2!Field(words[1], 0, 20) = h.nLiterals /\ V2!Field(words[1], 20, 20) = h.nLitPayload
      /\ V2!Field(words[1], 40, 20) = h.nMatches /\ V2!Field(words[1], 60, 3) = h.litBits + 7
  <2>1. Slot(h.nLiterals, 0, 20) /\ Slot(h.nLitPayload, 20, 20) /\ Slot(h.nMatches, 40, 20)
        /\ Slot(h.litBits + 7, 60, 3)
    <3>1. 0 + 20 <= 64 /\ 20 + 20 <= 64 /\ 40 + 20 <= 64 /\ 0 \in Nat /\ 20 \in Nat /\ 40 \in Nat
      OBVIOUS
    <3> QED
      BY <1>1, <3>1, FieldSlot, BitsField
  <2>2. FourSlots(h.nLiterals, 0, 20, h.nLitPayload, 20, 20, h.nMatches, 40, 20, h.litBits + 7, 60, 3)
    BY <2>1 DEF FourSlots
  <2> QED
    BY <1>2, <2>2, FourFields
<1>4. /\ V2!Field(words[3], 0, 20) = size /\ V2!Field(words[3], 32, 10) = h.lmdStates.l
      /\ V2!Field(words[3], 42, 10) = h.lmdStates.m /\ V2!Field(words[3], 52, 10) = h.lmdStates.d
  <2>1. Slot(size, 0, 20) /\ Slot(h.lmdStates.l, 32, 10) /\ Slot(h.lmdStates.m, 42, 10) /\ Slot(h.lmdStates.d, 52, 10)
    <3>1. /\ 0 + 20 <= 64 /\ 32 + 10 <= 64 /\ 42 + 10 <= 64 /\ 52 + 10 <= 64
          /\ 0 \in Nat /\ 32 \in Nat /\ 42 \in Nat /\ 52 \in Nat
      OBVIOUS
    <3> QED
      BY <1>1, <3>1, FieldSlot
  <2>2. FourSlots(size, 0, 20, h.lmdStates.l, 32, 10, h.lmdStates.m, 42, 10, h.lmdStates.d, 52, 10)
    BY <2>1 DEF FourSlots
  <2> DEFINE a == h.lmdStates.l
             b == h.lmdStates.m
             c == h.lmdStates.d
             w == words[3]
  <2>3. FourSlots(size, 0, 20, a, 32, 10, b, 42, 10, c, 52, 10)
        /\ w = V2!Or({<<size, 0>>, <<a, 32>>, <<b, 42>>, <<c, 52>>})
    BY <1>2, <2>2
  <2> HIDE DEF a, b, c, w
  <2>4. /\ V2!Field(w, 0, 20) = size /\ V2!Field(w, 32, 10) = a
        /\ V2!Field(w, 42, 10) = b /\ V2!Field(w, 52, 10) = c
    BY <2>3, FourFields
  <2> QED
    BY <2>4 DEF a, b, c, w
<1>5. /\ \A j \in 1 .. Lanes : V2!Field(words[2], 10 * (j - 1), 10) = h.litStates[j]
      /\ V2!Field(words[2], 40, 20) = h.nLMDPayload /\ V2!Field(words[2], 60, 3) = h.lmdBits + 7
  BY <1>2, SecondWord
<1>6. UnpackedAs(x, words, freqs)
  BY UnpackFields
<1>7. (h.litBits + 7) - 7 = h.litBits /\ (h.lmdBits + 7) - 7 = h.lmdBits
  BY <1>1, BitsField
<1>8. SameFields(x, h)
  <2>1. /\ x.nLiterals = h.nLiterals /\ x.nMatches = h.nMatches
        /\ x.nLitPayload = h.nLitPayload /\ x.nLMDPayload = h.nLMDPayload
        /\ x.litBits = h.litBits /\ x.lmdBits = h.lmdBits
    BY <1>3, <1>5, <1>6, <1>7 DEF UnpackedAs
  <2>2. ASSUME NEW j \in 1 .. Lanes PROVE x.litStates[j] = h.litStates[j]
    <3>1. x.litStates = [k \in 1 .. Lanes |-> V2!Field(words[2], 10 * (k - 1), 10)]
      BY <1>6 DEF UnpackedAs
    <3> QED
      BY <1>5, <3>1
  <2>3. x.lmdStates.l = h.lmdStates.l /\ x.lmdStates.m = h.lmdStates.m /\ x.lmdStates.d = h.lmdStates.d
    <3>1. x.lmdStates = [l |-> V2!Field(words[3], 32, 10), m |-> V2!Field(words[3], 42, 10),
                         d |-> V2!Field(words[3], 52, 10)]
      BY <1>6 DEF UnpackedAs
    <3> QED
      BY <1>4, <3>1
  <2> QED
    BY <2>1, <2>2, <2>3 DEF SameFields
<1>9. x.headerSize = size /\ x.freqs = freqs
  BY <1>4, <1>6 DEF UnpackedAs
<1>10. DOMAIN x.litStates = 1 .. Lanes /\ DOMAIN x.lmdStates = LMD
  <2>1. x.litStates = [j \in 1 .. Lanes |-> V2!Field(words[2], 10 * (j - 1), 10)]
    BY <1>6 DEF UnpackedAs
  <2>2. x.lmdStates = [l |-> V2!Field(words[3], 32, 10), m |-> V2!Field(words[3], 42, 10),
                       d |-> V2!Field(words[3], 52, 10)]
    BY <1>6 DEF UnpackedAs
  <2>3. DOMAIN x.litStates = 1 .. Lanes
    BY <2>1
  <2>4. DOMAIN x.lmdStates = {"l", "m", "d"}
    BY <2>2
  <2> QED
    BY <2>3, <2>4 DEF LMD
<1>11. V2!HeaderSize(words) = size
  BY <1>4 DEF V2!HeaderSize
<1> QED
  BY <1>8, <1>9, <1>10, <1>11

-----------------------------------------------------------------------------
(***************************************************************************)
(* The frequency code: what a code of v begins is v, and what is read is   *)
(* the code of the value it is read as.                                    *)
(***************************************************************************)
CodeLen(v) == V2!FreqCode(v)[1]
CodeNum(v) == V2!FreqCode(v)[2]

\* Their codes, by the number of their bits.
LEMMA CodeShape ==
    ASSUME NEW v \in 0 .. 1047
    PROVE  \/ v \in 0 .. 1 /\ CodeLen(v) = 2 /\ CodeNum(v) = 2 * v
           \/ v \in 2 .. 3 /\ CodeLen(v) = 3 /\ CodeNum(v) = 4 * v - 7
           \/ v \in 4 .. 7 /\ CodeLen(v) = 5 /\ CodeNum(v) = (v - 4) * 8 + 3
           \/ v \in 8 .. 23 /\ CodeLen(v) = 8 /\ CodeNum(v) = (v - 8) * 16 + 7
           \/ v \in 24 .. 1047 /\ CodeLen(v) = 14 /\ CodeNum(v) = (v - 24) * 16 + 15
<1>1. CASE v \in 0 .. 3
  <2>1. V2!FreqCode(v) = <<<<2, 0>>, <<2, 2>>, <<3, 1>>, <<3, 5>>>>[v + 1]
    BY <1>1 DEF V2!FreqCode
  <2>2. v = 0 \/ v = 1 \/ v = 2 \/ v = 3
    BY <1>1
  <2>3. ASSUME v = 0 PROVE V2!FreqCode(v) = <<2, 0>>
    BY <2>1, <2>3
  <2>4. ASSUME v = 1 PROVE V2!FreqCode(v) = <<2, 2>>
    BY <2>1, <2>4
  <2>5. ASSUME v = 2 PROVE V2!FreqCode(v) = <<3, 1>>
    BY <2>1, <2>5
  <2>6. ASSUME v = 3 PROVE V2!FreqCode(v) = <<3, 5>>
    BY <2>1, <2>6
  <2> QED
    BY <2>2, <2>3, <2>4, <2>5, <2>6 DEF CodeLen, CodeNum
<1>2. CASE v > 3 /\ v <= 7
  BY <1>2 DEF V2!FreqCode, CodeLen, CodeNum
<1>3. CASE v > 7 /\ v <= 23
  BY <1>3 DEF V2!FreqCode, CodeLen, CodeNum
<1>4. CASE v > 23
  BY <1>4 DEF V2!FreqCode, CodeLen, CodeNum
<1> QED
  BY <1>1, <1>2, <1>3, <1>4

\* The tables of the reader by five bits: the length of the code, and the
\* value of the short ones.
Row(x, n, y) ==
    \/ n = 2 /\ x % 4 = 2 * y /\ y \in 0 .. 1
    \/ n = 3 /\ x % 8 = 4 * y - 7 /\ y \in 2 .. 3
    \/ n = 5 /\ x = (y - 4) * 8 + 3 /\ y \in 4 .. 7
    \/ n = 8 /\ x % 16 = 7
    \/ n = 14 /\ x % 16 = 15

LEMMA Rows ==
    ASSUME NEW x \in 0 .. 31
    PROVE  Row(x, V2!FreqNBits[x + 1], V2!FreqValue[x + 1])
<1>1. CASE x \in 0 .. 7
  <2>1. x = 0 \/ x = 1 \/ x = 2 \/ x = 3 \/ x = 4 \/ x = 5 \/ x = 6 \/ x = 7
    BY <1>1
  <2> QED
    BY <2>1 DEF V2!FreqNBits, V2!FreqValue, Row
<1>2. CASE x \in 8 .. 15
  <2>1. x = 8 \/ x = 9 \/ x = 10 \/ x = 11 \/ x = 12 \/ x = 13 \/ x = 14 \/ x = 15
    BY <1>2
  <2> QED
    BY <2>1 DEF V2!FreqNBits, V2!FreqValue, Row
<1>3. CASE x \in 16 .. 23
  <2>1. x = 16 \/ x = 17 \/ x = 18 \/ x = 19 \/ x = 20 \/ x = 21 \/ x = 22 \/ x = 23
    BY <1>3
  <2> QED
    BY <2>1 DEF V2!FreqNBits, V2!FreqValue, Row
<1>4. CASE x \in 24 .. 31
  <2>1. x = 24 \/ x = 25 \/ x = 26 \/ x = 27 \/ x = 28 \/ x = 29 \/ x = 30 \/ x = 31
    BY <1>4
  <2> QED
    BY <2>1 DEF V2!FreqNBits, V2!FreqValue, Row
<1> QED
  BY <1>1, <1>2, <1>3, <1>4

\* The next 2, 3, 5, 8 and 14 bits.
Windowed(a, b, x, y, z) ==
    /\ x \in 0 .. 31 /\ y \in 0 .. 255 /\ z \in 0 .. 16383
    /\ a = x % 4 /\ b = x % 8 /\ x = y % 32 /\ x = z % 32

\* The window of n bits among them.
Window(n, a, b, x, y, z) == IF n = 2 THEN a ELSE IF n = 3 THEN b ELSE IF n = 5 THEN x ELSE IF n = 8 THEN y ELSE z

\* What ReadOne takes them for.
LenRead(x) == V2!FreqNBits[x + 1]
ValueRead(x, y, z) ==
    IF LenRead(x) = 8 THEN 8 + (y \div 16) ELSE IF LenRead(x) = 14 THEN 24 + (z \div 16) ELSE V2!FreqValue[x + 1]

LEMMA CodeTaken ==
    ASSUME NEW a, NEW b, NEW x, NEW y, NEW z, Windowed(a, b, x, y, z)
    PROVE  /\ ValueRead(x, y, z) \in 0 .. 1047 /\ CodeLen(ValueRead(x, y, z)) = LenRead(x)
           /\ CodeNum(ValueRead(x, y, z)) = Window(LenRead(x), a, b, x, y, z)
<1> DEFINE n == LenRead(x)
           w == V2!FreqValue[x + 1]
           v == ValueRead(x, y, z)
<1>1. x \in 0 .. 31 /\ a = x % 4 /\ b = x % 8
  BY DEF Windowed
<1>y. y \in 0 .. 255 /\ x = y % 32
  BY DEF Windowed
<1>z. z \in 0 .. 16383 /\ x = z % 32
  BY DEF Windowed
<1>2. Row(x, n, w)
  <2>1. x \in 0 .. 31
    BY <1>1
  <2> QED
    BY <2>1, Rows DEF LenRead
<1>3. v = IF n = 8 THEN 8 + (y \div 16) ELSE IF n = 14 THEN 24 + (z \div 16) ELSE w
  BY DEF ValueRead
<1> HIDE DEF n, w, v
<1>4. CASE n = 2
  <2>1. v \in 0 .. 1 /\ a = 2 * v
    BY <1>1, <1>2, <1>3, <1>4 DEF Row
  <2>2. CodeLen(v) = 2 /\ CodeNum(v) = 2 * v
    BY <2>1, CodeShape
  <2> QED
    BY <1>4, <2>1, <2>2 DEF Window, n, v
<1>5. CASE n = 3
  <2>1. v \in 2 .. 3 /\ b = 4 * v - 7
    BY <1>1, <1>2, <1>3, <1>5 DEF Row
  <2>2. CodeLen(v) = 3 /\ CodeNum(v) = 4 * v - 7
    BY <2>1, CodeShape
  <2> QED
    BY <1>5, <2>1, <2>2 DEF Window, n, v
<1>6. CASE n = 5
  <2>1. v \in 4 .. 7 /\ x = (v - 4) * 8 + 3
    BY <1>1, <1>2, <1>3, <1>6 DEF Row
  <2>2. CodeLen(v) = 5 /\ CodeNum(v) = (v - 4) * 8 + 3
    BY <2>1, CodeShape
  <2> QED
    BY <1>6, <2>1, <2>2 DEF Window, n, v
<1>7. CASE n = 8
  <2>1. v = 8 + (y \div 16) /\ x % 16 = 7
    BY <1>2, <1>3, <1>7 DEF Row
  <2>2. y % 16 = 7 /\ y \div 16 \in 0 .. 15
    BY <1>y, <2>1
  <2>3. v \in 8 .. 23 /\ y = (v - 8) * 16 + 7
    BY <1>y, <2>1, <2>2
  <2>4. CodeLen(v) = 8 /\ CodeNum(v) = (v - 8) * 16 + 7
    BY <2>3, CodeShape
  <2> QED
    BY <1>7, <2>3, <2>4 DEF Window, n, v
<1>8. CASE n = 14
  <2>1. v = 24 + (z \div 16) /\ x % 16 = 15
    BY <1>2, <1>3, <1>8 DEF Row
  <2>a. z \in Nat /\ x = z % 32 /\ x % 16 = 15
    BY <1>z, <2>1
  <2>b. z % 16 = 15
    BY <2>a
  <2>c. z < 1024 * 16 /\ z \in Nat /\ 1024 \in Nat /\ 16 \in Nat \ {0}
    BY <1>z
  <2>d. z \div 16 \in Nat /\ z \div 16 < 1024
    BY <2>c, QuotientBelow, Division
  <2>2. z % 16 = 15 /\ z \div 16 \in 0 .. 1023
    BY <2>b, <2>d
  <2>3. v \in 24 .. 1047 /\ z = (v - 24) * 16 + 15
    BY <1>z, <2>1, <2>2
  <2>4. CodeLen(v) = 14 /\ CodeNum(v) = (v - 24) * 16 + 15
    BY <2>3, CodeShape
  <2> QED
    BY <1>8, <2>3, <2>4 DEF Window, n, v
<1> QED
  BY <1>2, <1>4, <1>5, <1>6, <1>7, <1>8 DEF Row

\* The windows show the code of v.
Shows(a, b, x, y, z, v) ==
    Windowed(a, b, x, y, z) /\ v \in 0 .. 1047 /\ Window(CodeLen(v), a, b, x, y, z) = CodeNum(v)

LEMMA CodeRead ==
    ASSUME NEW a, NEW b, NEW x, NEW y, NEW z, NEW v, Shows(a, b, x, y, z, v)
    PROVE  LenRead(x) = CodeLen(v) /\ ValueRead(x, y, z) = v
<1> DEFINE n == LenRead(x)
           w == V2!FreqValue[x + 1]
           u == ValueRead(x, y, z)
<1>0. Windowed(a, b, x, y, z) /\ v \in 0 .. 1047 /\ Window(CodeLen(v), a, b, x, y, z) = CodeNum(v)
  BY DEF Shows
<1>1. x \in 0 .. 31 /\ a = x % 4 /\ b = x % 8
  BY <1>0 DEF Windowed
<1>y. y \in 0 .. 255 /\ x = y % 32
  BY <1>0 DEF Windowed
<1>z. z \in 0 .. 16383 /\ x = z % 32
  BY <1>0 DEF Windowed
<1>2. Row(x, n, w)
  <2>1. x \in 0 .. 31
    BY <1>1
  <2> QED
    BY <2>1, Rows DEF LenRead
<1>3. u = IF n = 8 THEN 8 + (y \div 16) ELSE IF n = 14 THEN 24 + (z \div 16) ELSE w
  BY DEF ValueRead
<1> HIDE DEF n, w, u
<1>4. CASE v \in 0 .. 1
  <2>1. CodeLen(v) = 2 /\ CodeNum(v) = 2 * v
    BY <1>4, CodeShape
  <2>2. x % 4 = 2 * v
    BY <1>0, <1>1, <2>1 DEF Window
  <2>3. n = 2 /\ w = v
    <3>1. x \in 0 .. 31
      BY <1>1
    <3> QED
      BY <1>2, <1>4, <2>2, <3>1 DEF Row
  <2>4. u = w
    BY <1>3, <2>3
  <2> QED
    BY <2>1, <2>3, <2>4 DEF n, u
<1>5. CASE v \in 2 .. 3
  <2>1. CodeLen(v) = 3 /\ CodeNum(v) = 4 * v - 7
    BY <1>5, CodeShape
  <2>2. x % 8 = 4 * v - 7
    BY <1>0, <1>1, <2>1 DEF Window
  <2>3. n = 3 /\ w = v
    <3>1. x \in 0 .. 31
      BY <1>1
    <3> QED
      BY <1>2, <1>5, <2>2, <3>1 DEF Row
  <2>4. u = w
    BY <1>3, <2>3
  <2> QED
    BY <2>1, <2>3, <2>4 DEF n, u
<1>6. CASE v \in 4 .. 7
  <2>1. CodeLen(v) = 5 /\ CodeNum(v) = (v - 4) * 8 + 3
    BY <1>6, CodeShape
  <2>2. x = (v - 4) * 8 + 3
    BY <1>0, <1>1, <2>1 DEF Window
  <2>3. n = 5 /\ w = v
    <3>1. x \in 0 .. 31
      BY <1>1
    <3> QED
      BY <1>2, <1>6, <2>2, <3>1 DEF Row
  <2>4. u = w
    BY <1>3, <2>3
  <2> QED
    BY <2>1, <2>3, <2>4 DEF n, u
<1>7. CASE v \in 8 .. 23
  <2>1. CodeLen(v) = 8 /\ CodeNum(v) = (v - 8) * 16 + 7
    BY <1>7, CodeShape
  <2>2. y = (v - 8) * 16 + 7
    BY <1>0, <1>1, <2>1 DEF Window
  <2>3. x % 16 = 7 /\ y \div 16 = v - 8
    BY <1>y, <1>7, <2>2
  <2>4. n = 8
    <3>1. x \in 0 .. 31
      BY <1>1
    <3> QED
      BY <1>2, <2>3, <3>1 DEF Row
  <2> QED
    BY <1>3, <1>7, <2>1, <2>3, <2>4 DEF n, u
<1>8. CASE v \in 24 .. 1047
  <2>1. CodeLen(v) = 14 /\ CodeNum(v) = (v - 24) * 16 + 15
    BY <1>8, CodeShape
  <2>2. z = (v - 24) * 16 + 15
    BY <1>0, <1>1, <2>1 DEF Window
  <2>a. x = z % 32 /\ v - 24 \in Nat /\ 15 \in 0 .. 16 - 1 /\ 16 \in Nat \ {0}
    BY <1>z, <1>8
  <2>b. z \div 16 = v - 24 /\ z % 16 = 15
    <3> DEFINE q == v - 24
    <3>1. q \in Nat /\ 15 \in 0 .. 16 - 1 /\ 16 \in Nat \ {0} /\ z = q * 16 + 15
      BY <2>2, <2>a
    <3> HIDE DEF q
    <3>2. z \div 16 = q /\ z % 16 = 15
      BY <3>1, Quotient
    <3> QED
      BY <3>2 DEF q
  <2>c. z \in Nat
    BY <1>z
  <2>d. x % 16 = 15
    BY <2>a, <2>b, <2>c
  <2>3. x % 16 = 15 /\ z \div 16 = v - 24
    BY <2>b, <2>d
  <2>4. n = 14
    <3>1. x \in 0 .. 31
      BY <1>1
    <3> QED
      BY <1>2, <2>3, <3>1 DEF Row
  <2> QED
    BY <1>3, <1>8, <2>1, <2>3, <2>4 DEF n, u
<1> QED
  BY <1>0, <1>4, <1>5, <1>6, <1>7, <1>8

LEMMA SmallPowers == 2^2 = 4 /\ 2^3 = 8 /\ 2^5 = 32 /\ 2^8 = 256 /\ 2^9 = 512 /\ 2^14 = 16384 /\ Powers(20)
<1>1. Powers(20)
  <2>1. 20 \in Nat /\ 20 <= PrecisionBits
    BY EntropyAssumption
  <2> QED
    BY <2>1, WidePowers
<1>2. 2^1 = 2 /\ \A i, j \in 0 .. 20 : i + j <= 20 => 2^(i + j) = 2^i * 2^j
  BY <1>1 DEF Powers
<1> DEFINE p(i) == 2^i
<1>3. ASSUME NEW i \in 0 .. 20, NEW j \in 0 .. 20, NEW k, k = i + j, k <= 20 PROVE p(k) = p(i) * p(j)
  BY <1>2, <1>3
<1>4. p(1) = 2
  BY <1>2
<1> HIDE DEF p
<1>5. p(2) = p(1) * p(1)
  BY <1>3
<1>6. p(2) = 4
  BY <1>4, <1>5
<1>7. p(3) = p(2) * p(1) /\ p(5) = p(3) * p(2) /\ p(8) = p(5) * p(3) /\ p(9) = p(8) * p(1) /\ p(14) = p(9) * p(5)
  <2>1. 2 + 1 = 3 /\ 3 + 2 = 5 /\ 5 + 3 = 8 /\ 8 + 1 = 9 /\ 9 + 5 = 14
    OBVIOUS
  <2>2. p(3) = p(2) * p(1)
    BY <1>3
  <2>3. p(5) = p(3) * p(2)
    BY <1>3
  <2>4. p(8) = p(5) * p(3)
    BY <1>3
  <2>5. p(9) = p(8) * p(1)
    BY <1>3
  <2>6. p(14) = p(9) * p(5)
    BY <1>3
  <2> QED
    BY <2>2, <2>3, <2>4, <2>5, <2>6
<1>8. p(3) = 8
  BY <1>4, <1>6, <1>7
<1>9. p(5) = 32
  BY <1>6, <1>7, <1>8
<1>10. p(8) = 256
  BY <1>7, <1>8, <1>9
<1>11. p(9) = 512
  BY <1>4, <1>7, <1>10
<1>12. p(14) = 16384
  BY <1>7, <1>9, <1>11
<1> QED
  BY <1>1, <1>6, <1>8, <1>9, <1>10, <1>11, <1>12 DEF p

LEMMA WindowedAt ==
    ASSUME NEW bits \in Seq(Bit), NEW t \in Nat
    PROVE  Windowed(Value(bits, t, 2), Value(bits, t, 3), Value(bits, t, 5), Value(bits, t, 8), Value(bits, t, 14))
<1> DEFINE a == Value(bits, t, 2)
           b == Value(bits, t, 3)
           x == Value(bits, t, 5)
           y == Value(bits, t, 8)
           z == Value(bits, t, 14)
<1>1. \A k \in 0 .. 20 : Powers(k)
  BY SmallPowers, FewerPowers
<1>2. Powers(5) /\ Powers(8) /\ Powers(14)
  BY <1>1
<1>p2. 2^2 = 4
  BY SmallPowers
<1>p3. 2^3 = 8
  BY SmallPowers
<1>p5. 2^5 = 32
  BY SmallPowers
<1>p8. 2^8 = 256
  BY SmallPowers
<1>p9. 2^9 = 512
  BY SmallPowers
<1>p14. 2^14 = 16384
  BY SmallPowers
<1>3. /\ Splits(bits, t, 2, 3, 5, t + 2) /\ Splits(bits, t, 3, 2, 5, t + 3)
      /\ Splits(bits, t, 5, 3, 8, t + 5) /\ Splits(bits, t, 5, 9, 14, t + 5)
  <2>1. /\ 2 \in Nat /\ 3 \in Nat /\ 5 \in Nat /\ 9 \in Nat
        /\ 5 = 2 + 3 /\ 5 = 3 + 2 /\ 8 = 5 + 3 /\ 14 = 5 + 9
    OBVIOUS
  <2> QED
    BY <1>2, <2>1, Windows
<1>4. ASSUME NEW p \in Nat \ {0}, NEW u \in 0 .. p - 1, NEW r \in Nat, NEW w, w = u + p * r
      PROVE  w % p = u
  <2>1. w = r * p + u
    BY <1>4
  <2> QED
    BY <2>1, Quotient
<1>5. a = x % 4
  <2> DEFINE r == Value(bits, t + 2, 3)
  <2>1. x = a + 4 * r /\ a \in 0 .. 4 - 1 /\ r \in 0 .. 8 - 1
    <3>1. x = a + 2^2 * r /\ a \in 0 .. 2^2 - 1 /\ r \in 0 .. 2^3 - 1
      BY <1>3 DEF Splits
    <3> HIDE DEF a, x, r
    <3> QED
      BY <1>p2, <1>p3, <3>1
  <2> HIDE DEF a, x, r
  <2>2. 4 \in Nat \ {0} /\ r \in Nat
    BY <2>1
  <2> QED
    BY <1>4, <2>1, <2>2
<1>6. b = x % 8
  <2> DEFINE r == Value(bits, t + 3, 2)
  <2>1. x = b + 8 * r /\ b \in 0 .. 8 - 1 /\ r \in 0 .. 4 - 1
    <3>1. x = b + 2^3 * r /\ b \in 0 .. 2^3 - 1 /\ r \in 0 .. 2^2 - 1
      BY <1>3 DEF Splits
    <3> HIDE DEF b, x, r
    <3> QED
      BY <1>p3, <1>p2, <3>1
  <2> HIDE DEF b, x, r
  <2>2. 8 \in Nat \ {0} /\ r \in Nat
    BY <2>1
  <2> QED
    BY <1>4, <2>1, <2>2
<1>7. x = y % 32
  <2> DEFINE r == Value(bits, t + 5, 3)
  <2>1. y = x + 32 * r /\ x \in 0 .. 32 - 1 /\ r \in 0 .. 8 - 1
    <3>1. y = x + 2^5 * r /\ x \in 0 .. 2^5 - 1 /\ r \in 0 .. 2^3 - 1
      BY <1>3 DEF Splits
    <3> HIDE DEF x, y, r
    <3> QED
      BY <1>p5, <1>p3, <3>1
  <2> HIDE DEF y, x, r
  <2>2. 32 \in Nat \ {0} /\ r \in Nat
    BY <2>1
  <2> QED
    BY <1>4, <2>1, <2>2
<1>8. x = z % 32
  <2> DEFINE r == Value(bits, t + 5, 9)
  <2>1. z = x + 32 * r /\ x \in 0 .. 32 - 1 /\ r \in 0 .. 512 - 1
    <3>1. z = x + 2^5 * r /\ x \in 0 .. 2^5 - 1 /\ r \in 0 .. 2^9 - 1
      BY <1>3 DEF Splits
    <3> HIDE DEF x, z, r
    <3> QED
      BY <1>p5, <1>p9, <3>1
  <2> HIDE DEF z, x, r
  <2>2. 32 \in Nat \ {0} /\ r \in Nat
    BY <2>1
  <2> QED
    BY <1>4, <2>1, <2>2
<1>9. x \in 0 .. 31 /\ y \in 0 .. 255 /\ z \in 0 .. 16383
  <2>1. ASSUME NEW k \in {5, 8, 14} PROVE Value(bits, t, k) \in 0 .. 2^k - 1
    <3>1. k \in Nat /\ PowersUpTo(k)
      <4>1. k \in Nat /\ k <= PrecisionBits
        BY EntropyAssumption, PowersOfTwo
      <4> QED
        BY <4>1, WidePowers
    <3> QED
      BY <3>1, ValueIs
  <2>2. x \in 0 .. 2^5 - 1
    BY <2>1
  <2>3. y \in 0 .. 2^8 - 1
    BY <2>1
  <2>4. z \in 0 .. 2^14 - 1
    BY <2>1
  <2> HIDE DEF x, y, z
  <2>5. x \in 0 .. 32 - 1
    BY <1>p5, <2>2
  <2>6. y \in 0 .. 256 - 1
    BY <1>p8, <2>3
  <2>7. z \in 0 .. 16384 - 1
    <3> DEFINE p == 2^14
    <3>1. p = 16384 /\ z \in 0 .. p - 1
      BY <1>p14, <2>4
    <3> HIDE DEF p
    <3> QED
      BY <3>1
  <2>8. x \in 0 .. 31 /\ y \in 0 .. 255
    BY <2>5, <2>6
  <2>9. z \in 0 .. 16383
    BY <2>7
  <2> QED
    BY <2>8, <2>9
<1> HIDE DEF a, b, x, y, z
<1>10. Windowed(a, b, x, y, z)
  BY <1>5, <1>6, <1>7, <1>8, <1>9 DEF Windowed
<1> QED
  BY <1>10 DEF a, b, x, y, z

\* The bits of a window are those of the number it is.
LEMMA ValueBits ==
    ASSUME NEW bits \in Seq(Bit), NEW from \in Nat, NEW n \in Nat, Powers(n), NEW i \in 1 .. n
    PROVE  LowBits(n, Value(bits, from, n))[i] = BitOf(bits, from + i)
<1> DEFINE v == Value(bits, from, n)
           k == i - 1
           m == n - i
           low == Value(bits, from, k)
           here == Value(bits, from + k, m + 1)
           rest == Value(bits, (from + k) + 1, m)
           b == BitOf(bits, from + i)
           p == 2^k
<1>1. /\ k \in Nat /\ m \in Nat /\ m + 1 \in Nat /\ n = k + (m + 1) /\ m + 1 = 1 + m /\ from + k \in Nat
      /\ (from + k) + 1 = from + i /\ k \in 0 .. n /\ m + 1 \in 0 .. n /\ 1 \in Nat /\ from + i \in Nat \ {0}
  OBVIOUS
<1>2. Splits(bits, from, k, m + 1, n, from + k)
  BY <1>1, Windows
<1>3. Splits(bits, from + k, 1, m, m + 1, (from + k) + 1)
  <2>1. Powers(m + 1) /\ (from + k) + 1 = (from + k) + 1
    BY <1>1, FewerPowers
  <2> HIDE DEF k, m
  <2> QED
    BY <1>1, <2>1, Windows
<1>4. v = low + p * here /\ low \in 0 .. p - 1 /\ p \in Nat \ {0} /\ here \in Nat
  <2>1. v = low + 2^k * here /\ low \in 0 .. 2^k - 1 /\ 2^k \in Nat \ {0} /\ here \in 0 .. 2^(m + 1) - 1
    BY <1>2 DEF Splits
  <2> HIDE DEF v, low, here
  <2> QED
    BY <2>1
<1>5. here = Value(bits, from + k, 1) + 2 * rest /\ rest \in Nat
  <2> DEFINE one == Value(bits, from + k, 1)
  <2>1. /\ Value(bits, from + k, m + 1) = Value(bits, from + k, 1) + 2^1 * Value(bits, (from + k) + 1, m)
        /\ Value(bits, from + k, 1) \in 0 .. 2^1 - 1 /\ Value(bits, (from + k) + 1, m) \in 0 .. 2^m - 1
    BY <1>3 DEF Splits
  <2>2. 2^1 = 2
    BY DEF Powers
  <2>3. here = one + 2^1 * rest /\ one \in 0 .. 2^1 - 1
    BY <2>1
  <2>4. rest \in Nat
    <3> DEFINE q == 2^m
    <3>1. rest \in 0 .. q - 1
      BY <2>1
    <3> HIDE DEF q, rest
    <3> QED
      BY <3>1
  <2> HIDE DEF here, one, rest
  <2>5. here = one + 2 * rest
    BY <2>2, <2>3
  <2> QED
    BY <2>4, <2>5 DEF one
<1>6. Value(bits, from + k, 1) = b /\ b \in 0 .. 1
  <2>1. Powers(1)
    <3>1. 1 \in 0 .. n
      BY <1>1
    <3> QED
      BY <3>1, FewerPowers
  <2> DEFINE at == from + k
  <2>2. at \in Nat /\ at + 0 + 1 = from + i
    BY <1>1
  <2> HIDE DEF at
  <2>3. Value(bits, at, 0) = 0 /\ Value(bits, at, 0 + 1) = Value(bits, at, 0) + BitOf(bits, at + 0 + 1) * 2^0
    <3>1. 0 \in 0 .. 1 - 1
      OBVIOUS
    <3> QED
      BY <2>1, <2>2, <3>1, ValueNext, ZenonT(60)
  <2>4. 2^0 = 1 /\ 0 + 1 = 1
    BY DEF Powers
  <2>5. b \in 0 .. 1
    BY <1>1, BitOfIs
  <2> HIDE DEF b
  <2>6. BitOf(bits, at + 0 + 1) = b
    BY <2>2 DEF b
  <2>7. Value(bits, at, 1) = b
    BY <2>3, <2>4, <2>5, <2>6
  <2> QED
    BY <2>5, <2>7 DEF at
<1>7. LowBits(n, v)[i] = (v \div p) % 2
  BY DEF LowBits
<1> HIDE DEF v, low, here, rest, b, p, k, m
<1>8. v \div p = here
  <2>1. v = here * p + low
    BY <1>4
  <2> QED
    BY <1>4, <2>1, Quotient
<1>9. here % 2 = b
  BY <1>5, <1>6
<1> QED
  BY <1>7, <1>8, <1>9 DEF v, b

\* A code of v stands at place t of the data.
CodeAt(bits, t, v) == t + CodeLen(v) <= Len(bits) /\ Value(bits, t, CodeLen(v)) = CodeNum(v)

\* The data as far as it is loaded, with its codes.
LEMMA LoadedCodes ==
    ASSUME NEW bits \in Seq(Bit), NEW k \in 0 .. Len(bits), NEW t \in Nat, NEW n \in 0 .. 20, t + n <= k
    PROVE  Value(SubSeq(bits, 1, k), t, n) = Value(bits, t, n)
<1> DEFINE part == SubSeq(bits, 1, k)
<1>1. part \in Seq(Bit) /\ Len(part) = k /\ \A i \in 1 .. k : part[i] = bits[i]
  OBVIOUS
<1> HIDE DEF part
<1>2. Powers(n) /\ n \in Nat
  BY SmallPowers, FewerPowers
<1>3. SameBits(part, t, bits, t, n)
  <2>1. ASSUME NEW i \in 1 .. n PROVE BitOf(part, t + i) = BitOf(bits, t + i)
    <3>1. t + i \in 1 .. k /\ t + i <= Len(bits)
      OBVIOUS
    <3> QED
      BY <1>1, <3>1 DEF BitOf
  <2> QED
    BY <2>1 DEF SameBits
<1>4. Value(part, t, n) = Value(bits, t, n)
  BY <1>1, <1>2, <1>3, ValueAgrees
<1> QED
  BY <1>4 DEF part

\* One frequency v is read: its code is behind the reader.
Reads(r0, res, v) ==
    res.ok /\ res.taken = r0.taken + CodeLen(v) /\ res.freqs = Append(r0.freqs, v)

\* The frequencies that have a code.
Codable == 0 .. 1047

LEMMA CodeLens ==
    ASSUME NEW v \in Codable
    PROVE  CodeLen(v) \in {2, 3, 5, 8, 14}
BY CodeShape DEF Codable

\* The window as wide as a code is the number of its bits.
LEMMA WindowValue ==
    ASSUME NEW bits, NEW t, NEW n \in {2, 3, 5, 8, 14}
    PROVE  Window(n, Value(bits, t, 2), Value(bits, t, 3), Value(bits, t, 5), Value(bits, t, 8), Value(bits, t, 14))
             = Value(bits, t, n)
<1>1. n = 2 \/ n = 3 \/ n = 5 \/ n = 8 \/ n = 14
  OBVIOUS
<1> QED
  BY <1>1 DEF Window

\* A refill holds the longest code, or all there is.
LEMMA RefillHolds ==
    ASSUME NEW bits \in Seq(Bit), NEW i \in Nat, NEW r \in Readers(bits, i), r.loaded - r.taken < 14,
           NEW s, s = V2!Refill(r, bits)
    PROVE  /\ s \in Readers(bits, i) /\ s.ok = r.ok /\ s.taken = r.taken /\ s.freqs = r.freqs
           /\ s.loaded - s.taken >= 14 \/ s.loaded = Len(bits)
<1> DEFINE held == r.loaded - r.taken
           room == 8 * ((64 - held) \div 8)
           loaded == IF r.loaded + room < Len(bits) THEN r.loaded + room ELSE Len(bits)
<1>1. /\ r \in [ok : BOOLEAN, taken : Nat, loaded : Nat, freqs : Seq(Nat)]
      /\ r.taken <= r.loaded /\ r.loaded <= Len(bits)
  BY DEF Readers
<1>t. r.loaded \in Nat /\ r.taken \in Nat /\ Len(bits) \in Nat
  BY <1>1
<1>2. r.loaded \in Nat /\ r.taken \in Nat /\ Len(bits) \in Nat /\ held \in 0 .. 13
  <2> DEFINE p == r.loaded
             q == r.taken
  <2>1. p \in Nat /\ q \in Nat /\ q <= p /\ p - q < 14
    BY <1>1, <1>t
  <2> HIDE DEF p, q
  <2>2. p - q \in 0 .. 13
    BY <2>1
  <2> QED
    BY <1>t, <2>2 DEF p, q
<1>3. room \in Nat /\ room >= 48
  <2> HIDE DEF held
  <2> QED
    BY <1>2
<1>4. s = [r EXCEPT !.loaded = loaded]
  BY DEF V2!Refill, V2!Held, V2!HeaderByte, V2!HeaderWord
<1>5. s \in Readers(bits, i)
  BY RefillIs
<1> HIDE DEF room
<1>6. loaded = Len(bits) \/ loaded = r.loaded + room
  OBVIOUS
<1> HIDE DEF loaded
<1>7. s.ok = r.ok /\ s.taken = r.taken /\ s.freqs = r.freqs /\ s.loaded = loaded
  BY <1>1, <1>4
<1>8. loaded = Len(bits) \/ loaded - r.taken >= 14
  BY <1>1, <1>2, <1>3, <1>6
<1> QED
  BY <1>5, <1>7, <1>8

\* A code that stands there is read, and what is read is a code that stands there.
ReadStep(bits, r0, res) ==
    /\ \A v \in Codable : CodeAt(bits, r0.taken, v) => Reads(r0, res, v)
    /\ res.ok => \E v \in Codable : CodeAt(bits, r0.taken, v) /\ Reads(r0, res, v)

LEMMA ReadOneSteps ==
    ASSUME NEW bits \in Seq(Bit), NEW i \in Nat, NEW r0 \in Readers(bits, i), r0.ok,
           NEW res, res = V2!ReadOne(r0, bits)
    PROVE  ReadStep(bits, r0, res)
<1> DEFINE r == IF V2!Held(r0) < 14 THEN V2!Refill(r0, bits) ELSE r0
           part == SubSeq(bits, 1, r.loaded)
           a == Value(part, r.taken, 2)
           b == Value(part, r.taken, 3)
           x == Value(part, r.taken, 5)
           y == Value(part, r.taken, 8)
           z == Value(part, r.taken, 14)
           n == LenRead(x)
           w == ValueRead(x, y, z)
<1>1. /\ r \in Readers(bits, i) /\ r.ok /\ r.taken = r0.taken /\ r.freqs = r0.freqs
      /\ r.loaded - r.taken >= 14 \/ r.loaded = Len(bits)
  <2>1. CASE V2!Held(r0) < 14
    <3>1. r = V2!Refill(r0, bits) /\ r0.loaded - r0.taken < 14
      BY <2>1 DEF V2!Held
    <3> HIDE DEF r
    <3> QED
      BY <3>1, RefillHolds
  <2>2. CASE ~ (V2!Held(r0) < 14)
    <3>1. r = r0
      BY <2>2
    <3>2. r0.loaded \in Nat /\ r0.taken \in Nat
      BY DEF Readers
    <3> QED
      BY <2>2, <3>1, <3>2 DEF V2!Held
  <2> QED
    BY <2>1, <2>2
<1>2. res = IF n > V2!Held(r) THEN [r EXCEPT !.ok = FALSE]
            ELSE [r EXCEPT !.taken = @ + n, !.freqs = Append(@, w)]
  <2> DEFINE accum(k) == V2!Bits!Value(part, r.taken, k)
             lo == V2!FreqNBits[accum(5) + 1]
             val == IF lo = 8 THEN 8 + (accum(8) \div 16)
                    ELSE IF lo = 14 THEN 24 + (accum(14) \div 16)
                    ELSE V2!FreqValue[accum(5) + 1]
  <2>1. res = IF lo > V2!Held(r) THEN [r EXCEPT !.ok = FALSE]
              ELSE [r EXCEPT !.taken = @ + lo, !.freqs = Append(@, val)]
    BY DEF V2!ReadOne
  <2> HIDE DEF r, part
  <2>2. accum(5) = x /\ accum(8) = y /\ accum(14) = z
    BY SameValue
  <2> HIDE DEF accum, x, y, z
  <2>3. lo = n /\ val = w
    BY <2>2 DEF LenRead, ValueRead
  <2> HIDE DEF lo, val, n, w
  <2> QED
    BY <2>1, <2>3
<1> HIDE DEF r
<1>3. /\ r \in [ok : BOOLEAN, taken : Nat, loaded : Nat, freqs : Seq(Nat)]
      /\ r.taken <= r.loaded /\ r.loaded <= Len(bits)
      /\ r.loaded \in Nat /\ r.taken \in Nat /\ r.freqs \in Seq(Nat)
  BY <1>1 DEF Readers
<1>4. part \in Seq(Bit) /\ r.loaded \in 0 .. Len(bits)
  BY <1>3
<1>5. Windowed(a, b, x, y, z)
  <2> HIDE DEF part
  <2> QED
    BY <1>3, <1>4, WindowedAt
<1>6. ASSUME NEW k \in {2, 3, 5, 8, 14}, k <= r.loaded - r.taken
      PROVE  Window(k, a, b, x, y, z) = Value(bits, r.taken, k)
  <2>1. k \in 0 .. 20 /\ r.taken + k <= r.loaded
    BY <1>3, <1>6
  <2>2. Value(part, r.taken, k) = Value(bits, r.taken, k)
    BY <1>3, <1>4, <2>1, LoadedCodes
  <2> HIDE DEF part
  <2> QED
    BY <2>2, WindowValue
<1> HIDE DEF part, a, b, x, y, z, n, w
<1>7. ASSUME n <= r.loaded - r.taken, NEW v, w = v, CodeLen(v) = n PROVE Reads(r0, res, v)
  <2>1. res = [r EXCEPT !.taken = @ + n, !.freqs = Append(@, w)]
    <3>1. ~ (n > V2!Held(r))
      <4>1. n \in Nat
        <5>1. w \in Codable /\ CodeLen(w) = n
          BY <1>5, CodeTaken DEF n, w, Codable
        <5>2. CodeLen(w) \in {2, 3, 5, 8, 14}
          BY <5>1, CodeLens
        <5> QED
          BY <5>1, <5>2
      <4> QED
        BY <1>3, <1>7, <4>1 DEF V2!Held
    <3> QED
      BY <1>2, <3>1
  <2>2. res.ok = r.ok /\ res.taken = r.taken + n /\ res.freqs = Append(r.freqs, w)
    BY <1>3, <2>1
  <2> QED
    BY <1>1, <1>7, <2>2 DEF Reads
<1>8. ASSUME NEW v \in Codable, CodeAt(bits, r0.taken, v) PROVE Reads(r0, res, v)
  <2>1. CodeLen(v) \in {2, 3, 5, 8, 14}
    BY CodeLens
  <2>2. r.taken + CodeLen(v) <= Len(bits) /\ Value(bits, r.taken, CodeLen(v)) = CodeNum(v)
    BY <1>1, <1>8 DEF CodeAt
  <2>3. CodeLen(v) <= r.loaded - r.taken
    BY <1>1, <1>3, <2>1, <2>2
  <2>4. Window(CodeLen(v), a, b, x, y, z) = CodeNum(v)
    BY <1>6, <2>1, <2>2, <2>3
  <2>5. LenRead(x) = CodeLen(v) /\ ValueRead(x, y, z) = v
    <3>1. Shows(a, b, x, y, z, v)
      BY <1>5, <1>8, <2>4 DEF Shows, Codable
    <3> QED
      BY <3>1, CodeRead
  <2>6. n = CodeLen(v) /\ w = v
    BY <2>5 DEF n, w
  <2> QED
    BY <1>7, <2>3, <2>6
<1>9. ASSUME res.ok PROVE \E v \in Codable : CodeAt(bits, r0.taken, v) /\ Reads(r0, res, v)
  <2>1. /\ ValueRead(x, y, z) \in Codable /\ CodeLen(ValueRead(x, y, z)) = LenRead(x)
        /\ CodeNum(ValueRead(x, y, z)) = Window(LenRead(x), a, b, x, y, z)
    BY <1>5, CodeTaken DEF Codable
  <2>2. w \in Codable /\ CodeLen(w) = n /\ CodeNum(w) = Window(n, a, b, x, y, z)
    BY <2>1 DEF n, w
  <2>3. n \in {2, 3, 5, 8, 14}
    BY <2>2, CodeLens
  <2>4. n <= r.loaded - r.taken
    <3>1. ~ (n > V2!Held(r))
      <4> SUFFICES ASSUME n > V2!Held(r) PROVE FALSE
        OBVIOUS
      <4>1. res = [r EXCEPT !.ok = FALSE]
        BY <1>2
      <4>2. res.ok = FALSE
        BY <1>3, <4>1
      <4> QED
        BY <1>9, <4>2
    <3> QED
      BY <1>3, <2>3, <3>1 DEF V2!Held
  <2>5. Value(bits, r.taken, CodeLen(w)) = CodeNum(w)
    BY <1>6, <2>2, <2>3, <2>4
  <2>6. r.taken + CodeLen(w) <= Len(bits)
    BY <1>3, <2>2, <2>3, <2>4
  <2>7. CodeAt(bits, r0.taken, w)
    BY <1>1, <2>5, <2>6 DEF CodeAt
  <2>8. Reads(r0, res, w)
    BY <1>7, <2>2, <2>4
  <2> QED
    BY <2>2, <2>7, <2>8
<1> QED
  BY <1>8, <1>9, Zenon DEF ReadStep

\* Frequencies a code can hold; data that begins with the codes of fs, acc the
\* place of each.
Coded10(fs) == fs \in Seq(Nat) /\ \A k \in 1 .. Len(fs) : fs[k] \in Codable
CodedAt(bits, fs, acc) ==
    /\ acc[0] = 0 /\ \A k \in 0 .. Len(fs) : acc[k] \in Nat
    /\ \A k \in 1 .. Len(fs) : acc[k] = acc[k - 1] + CodeLen(fs[k]) /\ CodeAt(bits, acc[k - 1], fs[k])

\* A refill loads whole bytes of data that is whole bytes.
LEMMA LoadsWhole ==
    ASSUME NEW bits \in Seq(Bit), Len(bits) % 8 = 0, NEW i \in Nat, NEW r \in Readers(bits, i),
           r.loaded - r.taken < 14, r.loaded % 8 = 0
    PROVE  V2!Refill(r, bits).loaded % 8 = 0
<1> DEFINE room == 8 * ((64 - (r.loaded - r.taken)) \div 8)
           loaded == IF r.loaded + room < Len(bits) THEN r.loaded + room ELSE Len(bits)
           q == (64 - (r.loaded - r.taken)) \div 8
           m == r.loaded
<1>1. /\ r \in [ok : BOOLEAN, taken : Nat, loaded : Nat, freqs : Seq(Nat)] /\ r.loaded \in Nat /\ r.taken \in Nat
  BY DEF Readers
<1>2. V2!Refill(r, bits) = [r EXCEPT !.loaded = loaded]
  BY DEF V2!Refill, V2!Held, V2!HeaderByte, V2!HeaderWord
<1>3. q \in Int
  <2> DEFINE x == 64 - (r.loaded - r.taken)
  <2>1. x \in Int
    BY <1>1
  <2> HIDE DEF x
  <2>2. x \div 8 \in Int
    BY <2>1
  <2> QED
    BY <2>2 DEF x
<1>4. m \in Nat /\ m % 8 = 0
  BY <1>1
<1> HIDE DEF q, m
<1>5. (m + 8 * q) % 8 = 0
  BY <1>3, <1>4
<1>6. loaded = m + 8 * q \/ loaded = Len(bits)
  BY DEF m, q
<1>7. V2!Refill(r, bits).loaded = loaded
  <2> HIDE DEF loaded
  <2> QED
    BY <1>1, <1>2
<1> HIDE DEF loaded
<1> QED
  BY <1>5, <1>6, <1>7

LEMMA ReadOneLoads ==
    ASSUME NEW bits \in Seq(Bit), Len(bits) % 8 = 0, NEW i \in Nat, NEW r0 \in Readers(bits, i), r0.loaded % 8 = 0
    PROVE  V2!ReadOne(r0, bits).loaded % 8 = 0
<1> DEFINE r == IF V2!Held(r0) < 14 THEN V2!Refill(r0, bits) ELSE r0
           accum(k) == V2!Bits!Value(SubSeq(bits, 1, r.loaded), r.taken, k)
           n == V2!FreqNBits[accum(5) + 1]
           v == IF n = 8 THEN 8 + (accum(8) \div 16)
                ELSE IF n = 14 THEN 24 + (accum(14) \div 16)
                ELSE V2!FreqValue[accum(5) + 1]
           res == V2!ReadOne(r0, bits)
<1>1. r.loaded % 8 = 0 /\ r \in Readers(bits, i)
  BY LoadsWhole, RefillIs DEF V2!Held
<1>2. res = IF n > V2!Held(r) THEN [r EXCEPT !.ok = FALSE]
            ELSE [r EXCEPT !.taken = @ + n, !.freqs = Append(@, v)]
  BY DEF V2!ReadOne
<1> HIDE DEF r, n, v, res
<1>3. r \in [ok : BOOLEAN, taken : Nat, loaded : Nat, freqs : Seq(Nat)]
  BY <1>1 DEF Readers
<1>4. res.loaded = r.loaded
  <2>1. CASE n > V2!Held(r)
    <3>1. res = [r EXCEPT !.ok = FALSE]
      BY <1>2, <2>1
    <3> QED
      BY <1>3, <3>1
  <2>2. CASE ~ (n > V2!Held(r))
    <3>1. res = [r EXCEPT !.taken = @ + n, !.freqs = Append(@, v)]
      BY <1>2, <2>2
    <3> QED
      BY <1>3, <3>1
  <2> QED
    BY <2>1, <2>2
<1> QED
  BY <1>1, <1>4 DEF res

\* After k of the codes the reader stands behind them.
ReadTo(r, fs, acc, k) == r.ok /\ r.taken = acc[k] /\ r.freqs = SubSeq(fs, 1, k)

LEMMA ReadForward ==
    ASSUME NEW bits \in Seq(Bit), NEW fs, Coded10(fs), NEW acc, CodedAt(bits, fs, acc),
           NEW read, ReadBy(bits, Len(fs), read)
    PROVE  \A k \in 0 .. Len(fs) : ReadTo(read[k], fs, acc, k)
<1> DEFINE n == Len(fs)
           T == {k \in Nat : k <= n => ReadTo(read[k], fs, acc, k)}
<1>1. fs \in Seq(Nat) /\ n \in Nat
  BY DEF Coded10
<1>2. 0 \in T
  <2> DEFINE base == [ok |-> TRUE, taken |-> 0, loaded |-> 0, freqs |-> << >>]
  <2>1. base \in Readers(bits, 0) /\ base.loaded - base.taken < 14 /\ 0 \in Nat
        /\ base.ok = TRUE /\ base.taken = 0 /\ base.freqs = << >>
    BY DEF Readers
  <2>2. read[0] = V2!Refill(base, bits)
    BY DEF ReadBy
  <2> HIDE DEF base
  <2>3. read[0].ok = TRUE /\ read[0].taken = 0 /\ read[0].freqs = << >>
    BY <2>1, <2>2, RefillHolds
  <2>4. acc[0] = 0 /\ SubSeq(fs, 1, 0) = << >>
    BY <1>1 DEF CodedAt
  <2> QED
    BY <2>3, <2>4 DEF ReadTo
<1>3. ASSUME NEW k \in Nat, k \in T PROVE k + 1 \in T
  <2> SUFFICES ASSUME k + 1 <= n PROVE ReadTo(read[k + 1], fs, acc, k + 1)
    OBVIOUS
  <2>1. k + 1 \in 1 .. n /\ (k + 1) - 1 = k /\ k \in 0 .. n /\ k <= n
    BY <1>1
  <2>2. read[k].ok /\ read[k].taken = acc[k] /\ read[k].freqs = SubSeq(fs, 1, k)
    BY <1>3, <2>1 DEF ReadTo
  <2> HIDE DEF T, n
  <2>3. read[k] \in Readers(bits, k) /\ read[k + 1] = V2!ReadOne(read[k], bits)
    <3>1. read[k + 1] = IF read[(k + 1) - 1].ok THEN V2!ReadOne(read[(k + 1) - 1], bits) ELSE read[(k + 1) - 1]
      BY <2>1 DEF ReadBy, n
    <3>2. read[k] \in Readers(bits, k)
      BY <2>1 DEF ReadBy, n
    <3> QED
      BY <2>1, <2>2, <3>1, <3>2
  <2> DEFINE v == fs[k + 1]
  <2>4. v \in Codable /\ acc[k + 1] = acc[k] + CodeLen(v) /\ CodeAt(bits, acc[k], v)
    <3>1. v \in Codable
      BY <2>1 DEF Coded10, n
    <3>2. acc[k + 1] = acc[(k + 1) - 1] + CodeLen(v) /\ CodeAt(bits, acc[(k + 1) - 1], v)
      BY <2>1 DEF CodedAt, n
    <3> QED
      BY <2>1, <3>1, <3>2
  <2> HIDE DEF v
  <2>5. Reads(read[k], read[k + 1], v)
    <3>1. CodeAt(bits, read[k].taken, v)
      BY <2>2, <2>4
    <3>2. ReadStep(bits, read[k], read[k + 1])
      BY <2>2, <2>3, ReadOneSteps
    <3>3. v \in Codable
      BY <2>4
    <3> QED
      BY <3>1, <3>2, <3>3, Zenon DEF ReadStep
  <2>6. read[k + 1].ok /\ read[k + 1].taken = acc[k + 1] /\ read[k + 1].freqs = Append(SubSeq(fs, 1, k), v)
    BY <2>2, <2>4, <2>5 DEF Reads
  <2>7. Append(SubSeq(fs, 1, k), v) = SubSeq(fs, 1, k + 1)
    BY <1>1, <2>1 DEF n, v
  <2> QED
    BY <2>6, <2>7 DEF ReadTo
<1> QED
  <2> HIDE DEF T, n
  <2>1. Nat \subseteq T
    BY <1>2, <1>3, Induction
  <2>2. ASSUME NEW k \in 0 .. n PROVE ReadTo(read[k], fs, acc, k)
    <3>1. k \in T /\ k <= n
      BY <1>1, <2>1
    <3> QED
      BY <3>1 DEF T
  <2> QED
    BY <2>2 DEF n

\* What is read without an error stands in the data as codes.
ReadsOut(nsym, read, fs, acc) ==
    read[nsym].ok /\ fs = read[nsym].freqs /\ acc = [k \in 0 .. nsym |-> read[k].taken]
StandsAs(bits, nsym, fs, acc) == Coded10(fs) /\ Len(fs) = nsym /\ CodedAt(bits, fs, acc)

LEMMA ReadBackward ==
    ASSUME NEW bits \in Seq(Bit), NEW nsym \in Nat, NEW read, ReadBy(bits, nsym, read),
           NEW fs, NEW acc, ReadsOut(nsym, read, fs, acc)
    PROVE  StandsAs(bits, nsym, fs, acc)
<1> DEFINE T == {k \in Nat : k <= nsym => read[nsym - k].ok}
           One(i) == \E v \in Codable : CodeAt(bits, read[i - 1].taken, v) /\ Reads(read[i - 1], read[i], v)
<1>1. ASSUME NEW i \in 1 .. nsym PROVE /\ i - 1 \in 0 .. nsym /\ i \in 0 .. nsym /\ i - 1 \in Nat
                                       /\ read[i - 1] \in Readers(bits, i - 1)
                                       /\ read[i] = IF read[i - 1].ok THEN V2!ReadOne(read[i - 1], bits) ELSE read[i - 1]
  <2>1. i - 1 \in 0 .. nsym /\ i \in 0 .. nsym /\ i - 1 \in Nat
    OBVIOUS
  <2> QED
    BY <2>1 DEF ReadBy
<1>2. \A k \in 0 .. nsym : read[k].ok
  <2>1. 0 \in T
    <3>1. nsym - 0 = nsym
      OBVIOUS
    <3> QED
      BY <3>1 DEF ReadsOut
  <2>2. ASSUME NEW k \in Nat, k \in T PROVE k + 1 \in T
    <3> SUFFICES ASSUME k + 1 <= nsym PROVE read[nsym - (k + 1)].ok
      OBVIOUS
    <3> DEFINE i == nsym - k
    <3>1. i \in 1 .. nsym /\ i - 1 = nsym - (k + 1) /\ k <= nsym
      OBVIOUS
    <3>2. read[i].ok
      BY <2>2, <3>1
    <3> HIDE DEF i, T
    <3>3. read[i - 1].ok
      <4> SUFFICES ASSUME ~ read[i - 1].ok PROVE FALSE
        OBVIOUS
      <4>1. read[i] = read[i - 1]
        BY <1>1, <3>1
      <4> QED
        BY <3>2, <4>1
    <3> QED
      BY <3>1, <3>3
  <2> HIDE DEF T
  <2>3. Nat \subseteq T
    BY <2>1, <2>2, Induction
  <2>4. ASSUME NEW k \in 0 .. nsym PROVE read[k].ok
    <3> DEFINE j == nsym - k
    <3>1. j \in Nat /\ j <= nsym /\ nsym - j = k
      OBVIOUS
    <3> HIDE DEF j
    <3>2. j \in T
      BY <2>3, <3>1
    <3> QED
      BY <3>1, <3>2 DEF T
  <2> QED
    BY <2>4
<1>3. ASSUME NEW i \in 1 .. nsym PROVE One(i)
  <2>1. read[i - 1].ok /\ read[i].ok
    BY <1>1, <1>2
  <2>2. read[i] = V2!ReadOne(read[i - 1], bits) /\ read[i - 1] \in Readers(bits, i - 1) /\ i - 1 \in Nat
    BY <1>1, <2>1
  <2>3. ReadStep(bits, read[i - 1], read[i])
    BY <2>1, <2>2, ReadOneSteps
  <2> QED
    BY <2>1, <2>3, Zenon DEF ReadStep
<1>4. \A k \in 0 .. nsym : read[k].freqs \in Seq(Nat) /\ Len(read[k].freqs) = k /\ read[k].taken \in Nat
  <2>1. ASSUME NEW k \in 0 .. nsym
        PROVE  read[k].freqs \in Seq(Nat) /\ Len(read[k].freqs) = k /\ read[k].taken \in Nat
    <3>1. read[k] \in Readers(bits, k) /\ read[k].ok
      BY <1>2 DEF ReadBy
    <3> QED
      BY <3>1 DEF Readers
  <2> QED
    BY <2>1
<1>5. nsym \in 0 .. nsym /\ 0 \in 0 .. nsym
  OBVIOUS
<1>6. fs \in Seq(Nat) /\ Len(fs) = nsym
  BY <1>4, <1>5 DEF ReadsOut
<1> HIDE DEF One
\* Backwards from the end: what is read first is the beginning of all.
<1> DEFINE W == {k \in Nat : k <= nsym => read[nsym - k].freqs = SubSeq(fs, 1, nsym - k)}
<1>7. 0 \in W
  <2>1. nsym - 0 = nsym /\ SubSeq(fs, 1, nsym) = fs
    BY <1>6
  <2> QED
    BY <2>1 DEF ReadsOut
<1>8. ASSUME NEW k \in Nat, k \in W PROVE k + 1 \in W
  <2> SUFFICES ASSUME k + 1 <= nsym PROVE read[nsym - (k + 1)].freqs = SubSeq(fs, 1, nsym - (k + 1))
    OBVIOUS
  <2> DEFINE i == nsym - k
  <2>1. i \in 1 .. nsym /\ i - 1 = nsym - (k + 1) /\ k <= nsym /\ i \in 0 .. nsym /\ i - 1 \in 0 .. nsym
    OBVIOUS
  <2>2. read[i].freqs = SubSeq(fs, 1, i)
    BY <1>8, <2>1
  <2> HIDE DEF i, W
  <2>3. PICK v \in Codable : CodeAt(bits, read[i - 1].taken, v) /\ Reads(read[i - 1], read[i], v)
    BY <1>3, <2>1 DEF One
  <2> DEFINE p == read[i - 1].freqs
  <2>4. read[i].freqs = Append(p, v)
    BY <2>3 DEF Reads
  <2>5. p \in Seq(Nat) /\ Len(p) = i - 1
    BY <1>4, <2>1
  <2> HIDE DEF p
  <2>6. p = SubSeq(SubSeq(fs, 1, i), 1, i - 1)
    <3>1. p = SubSeq(Append(p, v), 1, i - 1)
      BY <2>1, <2>5
    <3> QED
      BY <2>2, <2>4, <3>1
  <2>7. SubSeq(SubSeq(fs, 1, i), 1, i - 1) = SubSeq(fs, 1, i - 1)
    BY <1>6, <2>1
  <2> QED
    BY <2>1, <2>6, <2>7 DEF p
<1>9. ASSUME NEW k \in 0 .. nsym PROVE read[k].freqs = SubSeq(fs, 1, k)
  <2> DEFINE j == nsym - k
  <2>1. j \in Nat /\ j <= nsym /\ nsym - j = k
    OBVIOUS
  <2> HIDE DEF j, W
  <2>2. j \in W
    BY <1>7, <1>8, <2>1, Induction
  <2> QED
    BY <2>1, <2>2 DEF W
<1>10. ASSUME NEW i \in 1 .. nsym
       PROVE  /\ fs[i] \in Codable /\ acc[i] = acc[i - 1] + CodeLen(fs[i]) /\ CodeAt(bits, acc[i - 1], fs[i])
  <2>1. i \in 0 .. nsym /\ i - 1 \in 0 .. nsym
    OBVIOUS
  <2>2. PICK v \in Codable : CodeAt(bits, read[i - 1].taken, v) /\ Reads(read[i - 1], read[i], v)
    BY <1>3 DEF One
  <2>3. v = fs[i]
    <3>1. Append(SubSeq(fs, 1, i - 1), v) = SubSeq(fs, 1, i)
      BY <1>9, <2>1, <2>2 DEF Reads
    <3>2. Append(SubSeq(fs, 1, i - 1), v)[i] = v /\ SubSeq(fs, 1, i)[i] = fs[i]
      BY <1>6
    <3> QED
      BY <3>1, <3>2
  <2>4. acc[i] = read[i].taken /\ acc[i - 1] = read[i - 1].taken
    BY <2>1 DEF ReadsOut
  <2>5. read[i].taken = read[i - 1].taken + CodeLen(v)
    BY <2>2 DEF Reads
  <2>6. fs[i] \in Codable
    BY <2>2, <2>3, Zenon
  <2>7. CodeAt(bits, read[i - 1].taken, fs[i])
    BY <2>2, <2>3
  <2> QED
    BY <2>3, <2>4, <2>5, <2>6, <2>7
<1>11. acc[0] = 0
  <2> DEFINE base == [ok |-> TRUE, taken |-> 0, loaded |-> 0, freqs |-> << >>]
  <2>1. base \in Readers(bits, 0) /\ base.loaded - base.taken < 14 /\ 0 \in Nat /\ base.taken = 0
    BY DEF Readers
  <2>2. read[0] = V2!Refill(base, bits)
    BY DEF ReadBy
  <2> HIDE DEF base
  <2>3. read[0].taken = 0
    BY <2>1, <2>2, RefillHolds
  <2> QED
    BY <1>5, <2>3 DEF ReadsOut
<1>12. \A k \in 0 .. nsym : acc[k] \in Nat
  BY <1>4 DEF ReadsOut
<1> HIDE DEF W, T
<1>13. Coded10(fs)
  BY <1>6, <1>10, Zenon DEF Coded10
<1>14. CodedAt(bits, fs, acc)
  BY <1>6, <1>10, <1>11, <1>12, Zenon DEF CodedAt
<1> QED
  BY <1>6, <1>13, <1>14 DEF StandsAs

LEMMA CodeFits ==
    ASSUME NEW v \in Codable
    PROVE  CodeLen(v) \in 2 .. 14 /\ Powers(CodeLen(v)) /\ CodeNum(v) \in 0 .. 2^CodeLen(v) - 1
<1>1. CodeLen(v) \in 2 .. 14
  <2>1. CodeLen(v) \in {2, 3, 5, 8, 14}
    BY CodeLens
  <2> QED
    BY <2>1
<1>2. Powers(CodeLen(v))
  <2> DEFINE n == CodeLen(v)
  <2>1. n \in 0 .. 20
    BY <1>1
  <2> HIDE DEF n
  <2>2. Powers(n)
    BY <2>1, SmallPowers, FewerPowers
  <2> QED
    BY <2>2 DEF n
<1> DEFINE p(n) == 2^n
           n == CodeLen(v)
           c == CodeNum(v)
<1>3. p(2) = 4 /\ p(3) = 8 /\ p(5) = 32 /\ p(8) = 256 /\ p(14) = 16384
  <2>1. 2^2 = 4
    BY SmallPowers
  <2>2. 2^3 = 8
    BY SmallPowers
  <2>3. 2^5 = 32
    BY SmallPowers
  <2>4. 2^8 = 256
    BY SmallPowers
  <2>5. 2^14 = 16384
    BY SmallPowers
  <2> QED
    BY <2>1, <2>2, <2>3, <2>4, <2>5
<1>4. \/ v \in 0 .. 1 /\ n = 2 /\ c = 2 * v
      \/ v \in 2 .. 3 /\ n = 3 /\ c = 4 * v - 7
      \/ v \in 4 .. 7 /\ n = 5 /\ c = (v - 4) * 8 + 3
      \/ v \in 8 .. 23 /\ n = 8 /\ c = (v - 8) * 16 + 7
      \/ v \in 24 .. 1047 /\ n = 14 /\ c = (v - 24) * 16 + 15
  BY CodeShape DEF Codable
<1> HIDE DEF p, n, c
<1>5. c \in 0 .. p(n) - 1
  <2>1. CASE v \in 0 .. 1 /\ n = 2 /\ c = 2 * v
    <3>1. p(n) = 4
      BY <1>3, <2>1
    <3> QED
      BY <2>1, <3>1
  <2>2. CASE v \in 2 .. 3 /\ n = 3 /\ c = 4 * v - 7
    <3>1. p(n) = 8
      BY <1>3, <2>2
    <3> QED
      BY <2>2, <3>1
  <2>3. CASE v \in 4 .. 7 /\ n = 5 /\ c = (v - 4) * 8 + 3
    <3>1. p(n) = 32
      BY <1>3, <2>3
    <3> QED
      BY <2>3, <3>1
  <2>4. CASE v \in 8 .. 23 /\ n = 8 /\ c = (v - 8) * 16 + 7
    <3>1. p(n) = 256
      BY <1>3, <2>4
    <3> QED
      BY <2>4, <3>1
  <2>5. CASE v \in 24 .. 1047 /\ n = 14 /\ c = (v - 24) * 16 + 15
    <3>1. p(n) = 16384
      BY <1>3, <2>5
    <3> QED
      BY <2>5, <3>1
  <2> QED
    BY <1>4, <2>1, <2>2, <2>3, <2>4, <2>5
<1> QED
  BY <1>1, <1>2, <1>5 DEF p, n, c

\* The codes of fs one behind the other.
CodeBits(v) == LowBits(CodeLen(v), CodeNum(v))
Codes(fs) == [k \in 1 .. Len(fs) |-> CodeBits(fs[k])]

LEMMA CodeBitsAre ==
    ASSUME NEW v \in Codable
    PROVE  /\ CodeBits(v) \in Seq(Bit) /\ Len(CodeBits(v)) = CodeLen(v) /\ CodeLen(v) \in Nat
           /\ Value(CodeBits(v), 0, CodeLen(v)) = CodeNum(v)
<1> DEFINE n == CodeLen(v)
           c == CodeNum(v)
<1>1. n \in 2 .. 14 /\ Powers(n) /\ c \in 0 .. 2^n - 1
  BY CodeFits
<1> HIDE DEF n, c
<1>2. n \in Nat
  BY <1>1
<1>3. c \in Nat /\ Value(LowBits(n, c), 0, n) = c
  BY <1>1, <1>2, LowBitsBack
<1>4. LowBits(n, c) \in Seq(Bit) /\ Len(LowBits(n, c)) = n
  BY <1>1, <1>2, <1>3, LowBitsValue
<1> QED
  BY <1>2, <1>3, <1>4 DEF n, c, CodeBits

\* f[k] is the first k codes; acc[k] where they end.
CodesJoined(fs, f) ==
    /\ f[0] = << >> /\ \A k \in 0 .. Len(fs) : f[k] \in Seq(Bit)
    /\ \A k \in 1 .. Len(fs) : f[k] = f[k - 1] \o CodeBits(fs[k])

LEMMA JoinedPrefix ==
    ASSUME NEW fs, Coded10(fs), NEW f, CodesJoined(fs, f), NEW k \in 0 .. Len(fs)
    PROVE  /\ Len(f[k]) <= Len(f[Len(fs)]) /\ Len(f[k]) \in Nat
           /\ \A i \in 1 .. Len(f[k]) : f[Len(fs)][i] = f[k][i]
<1> DEFINE n == Len(fs)
           last == f[n]
           Pre(j) == Len(f[j]) <= Len(last) /\ \A i \in 1 .. Len(f[j]) : last[i] = f[j][i]
           T == {m \in Nat : m <= n => Pre(n - m)}
<1>1. n \in Nat /\ n \in 0 .. n
  BY DEF Coded10
<1>2. \A j \in 0 .. n : f[j] \in Seq(Bit) /\ Len(f[j]) \in Nat
  BY DEF CodesJoined
<1>3. 0 \in T
  <2>1. n - 0 = n /\ Len(last) \in Nat
    BY <1>1, <1>2
  <2> QED
    BY <2>1
<1>4. ASSUME NEW m \in Nat, m \in T PROVE m + 1 \in T
  <2> SUFFICES ASSUME m + 1 <= n PROVE Pre(n - (m + 1))
    OBVIOUS
  <2> DEFINE j == n - m
  <2>1. j \in 1 .. n /\ j - 1 = n - (m + 1) /\ m <= n /\ j \in 0 .. n /\ j - 1 \in 0 .. n
    BY <1>1
  <2>2. Pre(j)
    BY <1>4, <2>1
  <2> HIDE DEF j, T
  <2> DEFINE b == CodeBits(fs[j])
             p == f[j - 1]
             q == f[j]
  <2>3. q = p \o b /\ p \in Seq(Bit) /\ b \in Seq(Bit)
    <3>1. fs[j] \in Codable
      BY <2>1 DEF Coded10
    <3>2. b \in Seq(Bit)
      BY <3>1, CodeBitsAre
    <3> QED
      BY <1>2, <2>1, <3>2 DEF CodesJoined
  <2> HIDE DEF b
  <2>4. Len(last) \in Nat /\ Len(q) <= Len(last) /\ \A i \in 1 .. Len(q) : last[i] = q[i]
    BY <1>1, <1>2, <2>2
  <2> HIDE DEF p, q, last
  <2>5. Len(q) = Len(p) + Len(b) /\ Len(p) \in Nat /\ Len(b) \in Nat /\ \A i \in 1 .. Len(p) : q[i] = p[i]
    BY <2>3, JoinIs
  <2>6. Len(p) <= Len(last) /\ \A i \in 1 .. Len(p) : last[i] = p[i]
    <3>1. Len(p) <= Len(last) /\ \A i \in 1 .. Len(p) : i \in 1 .. Len(q)
      BY <2>4, <2>5
    <3> QED
      BY <2>4, <2>5, <3>1
  <2>7. Pre(j - 1)
    BY <2>6 DEF p
  <2> QED
    BY <2>1, <2>7
<1>5. Pre(k)
  <2> DEFINE m == n - k
  <2>1. m \in Nat /\ m <= n /\ n - m = k
    BY <1>1
  <2> HIDE DEF m, T
  <2>2. m \in T
    BY <1>3, <1>4, <2>1, Induction
  <2> QED
    BY <2>1, <2>2 DEF T
<1> QED
  BY <1>2, <1>5

LEMMA CodesChain ==
    ASSUME NEW fs, Coded10(fs)
    PROVE  \E f : CodesJoined(fs, f) /\ FlattenSeq(Codes(fs)) = f[Len(fs)]
<1> DEFINE n == Len(fs)
           codes == Codes(fs)
<1>1. n \in Nat /\ \A k \in 1 .. n : CodeBits(fs[k]) \in Seq(Bit)
  <2>1. n \in Nat
    BY DEF Coded10
  <2>2. ASSUME NEW k \in 1 .. n PROVE CodeBits(fs[k]) \in Seq(Bit)
    <3>1. fs[k] \in Codable
      BY DEF Coded10
    <3> QED
      BY <3>1, CodeBitsAre
  <2> QED
    BY <2>1, <2>2
<1>2. codes \in Seq(Seq(Bit)) /\ Len(codes) = n /\ \A k \in 1 .. n : codes[k] = CodeBits(fs[k])
  <2>1. codes \in [1 .. n -> Seq(Bit)] /\ \A k \in 1 .. n : codes[k] = CodeBits(fs[k])
    BY <1>1 DEF Codes
  <2> HIDE DEF codes, n
  <2> QED
    BY <1>1, <2>1, AsSequence
<1> HIDE DEF codes
<1>3. PICK f \in [0 .. Len(codes) -> Seq(Bit)] :
        Chains(f, << >>, Len(codes), Links(codes, Bit)) /\ FlattenSeq(codes) = f[Len(codes)]
  BY <1>2, FlattenUnfold
<1>4. f[0] = << >> /\ \A k \in 0 .. n : f[k] \in Seq(Bit)
  <2>1. f[0] = << >>
    BY <1>3 DEF Chains
  <2>2. f \in [0 .. n -> Seq(Bit)]
    BY <1>2, <1>3
  <2> HIDE DEF n
  <2> QED
    BY <2>1, <2>2
<1>5. ASSUME NEW k \in 1 .. n PROVE f[k] = f[k - 1] \o CodeBits(fs[k])
  <2>1. k \in 1 .. Len(codes) /\ k - 1 \in 0 .. n
    BY <1>1, <1>2
  <2>2. f[k] = Links(codes, Bit)[k][f[k - 1]]
    BY <1>3, <2>1 DEF Chains
  <2>3. f[k - 1] \in Seq(Bit)
    BY <1>4, <2>1
  <2>4. Links(codes, Bit)[k] = [r \in Seq(Bit) |-> r \o codes[k]]
    BY <2>1 DEF Links
  <2>5. f[k] = f[k - 1] \o codes[k]
    BY <2>2, <2>3, <2>4
  <2> QED
    BY <1>2, <2>5
<1>6. CodesJoined(fs, f)
  BY <1>4, <1>5 DEF CodesJoined
<1>7. FlattenSeq(Codes(fs)) = f[Len(fs)]
  BY <1>2, <1>3 DEF codes
<1> QED
  BY <1>6, <1>7

\* A code in a longer sequence of bits.
LEMMA CodeStands ==
    ASSUME NEW v \in Codable, NEW w \in Seq(Bit), NEW t \in Nat, t + CodeLen(v) <= Len(w),
           \A i \in 1 .. CodeLen(v) : w[t + i] = CodeBits(v)[i]
    PROVE  CodeAt(w, t, v)
<1> DEFINE n == CodeLen(v)
           b == CodeBits(v)
<1>1. b \in Seq(Bit) /\ Len(b) = n /\ n \in Nat /\ Value(b, 0, n) = CodeNum(v)
  BY CodeBitsAre
<1>2. Powers(n)
  BY CodeFits
<1>3. t + n <= Len(w) /\ \A i \in 1 .. n : w[t + i] = b[i]
  OBVIOUS
<1> HIDE DEF n, b
<1>4. SameBits(w, t, b, 0, n)
  <2>1. ASSUME NEW i \in 1 .. n PROVE BitOf(w, t + i) = BitOf(b, 0 + i)
    <3>1. 0 + i = i /\ i <= Len(b) /\ t + i <= Len(w)
      BY <1>1, <1>3
    <3> QED
      BY <1>3, <3>1 DEF BitOf
  <2> QED
    BY <2>1 DEF SameBits
<1>5. Value(w, t, n) = Value(b, 0, n)
  <2>1. 0 \in Nat
    OBVIOUS
  <2> QED
    BY <1>1, <1>2, <1>4, <2>1, ValueAgrees
<1> QED
  BY <1>1, <1>3, <1>5 DEF CodeAt, n

WrittenAs(w, fs, acc) ==
    /\ w \in Seq(Bit) /\ Len(w) % 8 = 0 /\ CodedAt(w, fs, acc)
    /\ Len(w) - acc[Len(fs)] \in 0 .. 7 /\ acc[Len(fs)] <= 14 * Len(fs)

LEMMA WrittenCodes ==
    ASSUME NEW fs, Coded10(fs), NEW w, w = V2!WriteFreqs(fs)
    PROVE  \E acc : WrittenAs(w, fs, acc)
<1> DEFINE n == Len(fs)
           bits == FlattenSeq(Codes(fs))
           k == (-Len(bits)) % 8
           pad == [i \in 1 .. k |-> 0]
<1>1. w = bits \o pad
  <2> DEFINE code(i) == V2!Bits!LowBits(V2!FreqCode(fs[i])[1], V2!FreqCode(fs[i])[2])
             codes == [i \in 1 .. Len(fs) |-> code(i)]
             all == V2!FlattenSeq(codes)
  <2>1. w = all \o [i \in 1 .. (-Len(all)) % V2!HeaderByte |-> 0]
    BY DEF V2!WriteFreqs
  <2>2. \A i \in 1 .. Len(fs) : code(i) = CodeBits(fs[i])
    BY SameLowBits DEF CodeBits, CodeLen, CodeNum
  <2> HIDE DEF code
  <2>3. codes = Codes(fs)
    BY <2>2 DEF Codes
  <2>4. all = bits
    BY <2>3, SameFlattenSeq
  <2> HIDE DEF all, bits
  <2> QED
    BY <2>1, <2>4 DEF V2!HeaderByte
<1>2. PICK f : CodesJoined(fs, f) /\ bits = f[n]
  BY CodesChain
<1>3. n \in Nat /\ n \in 0 .. n /\ \A j \in 0 .. n : f[j] \in Seq(Bit) /\ Len(f[j]) \in Nat
  <2>1. n \in Nat
    BY DEF Coded10
  <2> QED
    BY <1>2, <2>1 DEF CodesJoined
<1>4. bits \in Seq(Bit) /\ Len(bits) \in Nat
  BY <1>2, <1>3
<1> HIDE DEF bits
<1>5. k \in 0 .. 7 /\ (Len(bits) + k) % 8 = 0
  <2> DEFINE L == Len(bits)
  <2>1. L \in Nat
    BY <1>4
  <2> HIDE DEF L
  <2>2. (-L) % 8 \in 0 .. 7 /\ (L + ((-L) % 8)) % 8 = 0
    BY <2>1
  <2> QED
    BY <2>2 DEF L
<1> HIDE DEF k
<1>6. pad \in Seq(Bit) /\ Len(pad) = k
  <2>1. pad \in [1 .. k -> Bit] /\ k \in Nat
    BY <1>5 DEF Bit
  <2> HIDE DEF pad
  <2> QED
    BY <2>1, AsSequence
<1> HIDE DEF pad
<1>7. w \in Seq(Bit) /\ Len(w) = Len(bits) + k /\ \A i \in 1 .. Len(bits) : w[i] = bits[i]
  <2>1. Len(w) = Len(bits) + Len(pad) /\ w \in Seq(Bit)
    <3>1. w = bits \o pad /\ bits \in Seq(Bit) /\ pad \in Seq(Bit)
      BY <1>1, <1>4, <1>6
    <3>2. Len(w) = Len(bits) + Len(pad)
      BY <3>1, JoinIs
    <3>3. w \in Seq(Bit)
      BY <3>1
    <3> QED
      BY <3>2, <3>3
  <2>2. \A i \in 1 .. Len(bits) : w[i] = bits[i]
    BY <1>1, <1>4, <1>6, JoinIs
  <2> QED
    BY <1>6, <2>1, <2>2
<1> DEFINE acc == [j \in 0 .. n |-> Len(f[j])]
<1>8. acc[0] = 0 /\ \A j \in 0 .. n : acc[j] = Len(f[j]) /\ acc[j] \in Nat
  <2>1. 0 \in 0 .. n /\ f[0] = << >>
    BY <1>2, <1>3 DEF CodesJoined
  <2> QED
    BY <1>3, <2>1
<1> HIDE DEF acc
<1>9. ASSUME NEW j \in 1 .. n
      PROVE  /\ acc[j] = acc[j - 1] + CodeLen(fs[j]) /\ CodeAt(w, acc[j - 1], fs[j])
             /\ CodeLen(fs[j]) \in 2 .. 14
  <2>1. j \in 0 .. n /\ j - 1 \in 0 .. n
    BY <1>3
  <2> DEFINE p == f[j - 1]
             q == f[j]
             b == CodeBits(fs[j])
             v == fs[j]
             t == acc[j - 1]
  <2>2. v \in Codable
    BY DEF Coded10
  <2>3. b \in Seq(Bit) /\ Len(b) = CodeLen(v) /\ CodeLen(v) \in Nat /\ CodeLen(v) \in 2 .. 14
    <3> HIDE DEF v
    <3> QED
      BY <2>2, CodeBitsAre, CodeFits DEF v
  <2>4. q = p \o b /\ p \in Seq(Bit) /\ t = Len(p) /\ acc[j] = Len(q)
    BY <1>2, <1>8, <2>1 DEF CodesJoined
  <2>5. Len(q) <= Len(bits) /\ \A i \in 1 .. Len(q) : bits[i] = q[i]
    BY <1>2, <2>1, JoinedPrefix
  <2>b. b = CodeBits(v)
    OBVIOUS
  <2> HIDE DEF p, q, b, t, v
  <2>6. /\ Len(q) = Len(p) + Len(b) /\ Len(p) \in Nat /\ Len(b) \in Nat
        /\ \A i \in 1 .. Len(b) : q[Len(p) + i] = b[i]
    <3>1. q = p \o b /\ p \in Seq(Bit) /\ b \in Seq(Bit)
      BY <2>3, <2>4
    <3>2. Len(q) = Len(p) + Len(b) /\ Len(p) \in Nat /\ Len(b) \in Nat
      BY <3>1, JoinIs
    <3>3. \A i \in 1 .. Len(b) : q[Len(p) + i] = b[i]
      BY <3>1, JoinIs
    <3> QED
      BY <3>2, <3>3
  <2>7. \A i \in 1 .. CodeLen(v) : w[t + i] = CodeBits(v)[i]
    <3> SUFFICES ASSUME NEW i \in 1 .. CodeLen(v) PROVE w[t + i] = CodeBits(v)[i]
      OBVIOUS
    <3>1. t + i \in 1 .. Len(q) /\ t + i \in 1 .. Len(bits) /\ i \in 1 .. Len(b)
      BY <1>4, <2>3, <2>4, <2>5, <2>6
    <3>2. w[t + i] = bits[t + i] /\ bits[t + i] = q[t + i] /\ q[t + i] = b[i]
      BY <1>7, <2>4, <2>5, <2>6, <3>1
    <3> QED
      BY <2>b, <3>2
  <2>8. t \in Nat /\ t + CodeLen(v) <= Len(w)
    <3> DEFINE lp == Len(p)
               lb == Len(b)
               lq == Len(q)
               lw == Len(w)
               ls == Len(bits)
    <3>1. t = lp /\ CodeLen(v) = lb /\ lq = lp + lb /\ lp \in Nat /\ lb \in Nat /\ lq <= ls /\ lw = ls + k /\ ls \in Nat
      BY <1>4, <1>7, <2>3, <2>4, <2>5, <2>6
    <3> HIDE DEF lp, lb, lq, lw, ls
    <3>2. lp + lb <= lw /\ lp \in Nat
      BY <1>5, <3>1
    <3> QED
      BY <3>1, <3>2 DEF lw
  <2>9. CodeAt(w, t, v)
    BY <1>7, <2>2, <2>7, <2>8, CodeStands
  <2>10. acc[j] = t + CodeLen(v)
    BY <2>3, <2>4, <2>6
  <2> QED
    BY <2>3, <2>9, <2>10 DEF t, v
<1>10. CodedAt(w, fs, acc)
  BY <1>8, <1>9 DEF CodedAt
<1>11. acc[n] <= 14 * n
  <2> DEFINE T == {j \in Nat : j <= n => acc[j] <= 14 * j}
  <2>1. 0 \in T
    BY <1>8
  <2>2. ASSUME NEW j \in Nat, j \in T PROVE j + 1 \in T
    <3> SUFFICES ASSUME j + 1 <= n PROVE acc[j + 1] <= 14 * (j + 1)
      OBVIOUS
    <3>1. j + 1 \in 1 .. n /\ (j + 1) - 1 = j /\ j \in 0 .. n /\ j <= n
      BY <1>3
    <3>2. acc[j] <= 14 * j /\ acc[j] \in Nat
      BY <1>8, <2>2, <3>1
    <3> HIDE DEF T
    <3>3. acc[j + 1] = acc[j] + CodeLen(fs[j + 1]) /\ CodeLen(fs[j + 1]) \in 2 .. 14
      BY <1>9, <3>1
    <3> DEFINE c == CodeLen(fs[j + 1])
               a == acc[j]
    <3>4. acc[j + 1] = a + c /\ c \in 2 .. 14 /\ a <= 14 * j /\ a \in Nat
      BY <3>2, <3>3
    <3> HIDE DEF c, a
    <3> QED
      BY <3>4
  <2> HIDE DEF T
  <2>3. n \in T
    BY <1>3, <2>1, <2>2, Induction
  <2> QED
    BY <1>3, <2>3 DEF T
<1>12. Len(w) - acc[n] \in 0 .. 7 /\ Len(w) % 8 = 0
  <2> DEFINE L == Len(bits)
  <2>1. acc[n] = L /\ L \in Nat /\ Len(w) = L + k
    BY <1>2, <1>3, <1>4, <1>7, <1>8
  <2> HIDE DEF L
  <2>2. (L + k) % 8 = 0
    BY <1>5 DEF L
  <2>3. (L + k) - L = k
    BY <1>5, <2>1
  <2> QED
    BY <1>5, <2>1, <2>2, <2>3
<1>13. WrittenAs(w, fs, acc)
  BY <1>7, <1>10, <1>11, <1>12 DEF WrittenAs
<1> QED
  BY <1>13

\* Data with the same codes is the same as far as they go.
LEMMA CodedSame ==
    ASSUME NEW fs, Coded10(fs), NEW a \in Seq(Bit), NEW b \in Seq(Bit), NEW p, CodedAt(a, fs, p),
           NEW q, CodedAt(b, fs, q)
    PROVE  p[Len(fs)] = q[Len(fs)] /\ \A i \in 1 .. p[Len(fs)] : BitOf(a, i) = BitOf(b, i)
<1> DEFINE n == Len(fs)
           T == {k \in Nat : k <= n => p[k] = q[k] /\ \A i \in 1 .. p[k] : BitOf(a, i) = BitOf(b, i)}
<1>1. n \in Nat /\ n \in 0 .. n
  BY DEF Coded10
<1>2. 0 \in T
  BY DEF CodedAt
<1>3. ASSUME NEW k \in Nat, k \in T PROVE k + 1 \in T
  <2> SUFFICES ASSUME k + 1 <= n
               PROVE  p[k + 1] = q[k + 1] /\ \A i \in 1 .. p[k + 1] : BitOf(a, i) = BitOf(b, i)
    OBVIOUS
  <2>1. k + 1 \in 1 .. n /\ (k + 1) - 1 = k /\ k \in 0 .. n /\ k <= n
    BY <1>1
  <2>2. p[k] = q[k] /\ \A i \in 1 .. p[k] : BitOf(a, i) = BitOf(b, i)
    BY <1>3, <2>1
  <2> DEFINE v == fs[k + 1]
             m == CodeLen(v)
             c == CodeNum(v)
             t == p[k]
  <2>3. v \in Codable
    BY <2>1 DEF Coded10
  <2>4. /\ p[k + 1] = p[(k + 1) - 1] + m /\ CodeAt(a, p[(k + 1) - 1], v)
        /\ q[k + 1] = q[(k + 1) - 1] + m /\ CodeAt(b, q[(k + 1) - 1], v) /\ p[k] \in Nat
    BY <2>1 DEF CodedAt
  <2>5. p[k + 1] = t + m /\ q[k + 1] = t + m /\ CodeAt(a, t, v) /\ CodeAt(b, t, v) /\ t \in Nat
    BY <2>1, <2>2, <2>4
  <2>6. Value(a, t, m) = c /\ Value(b, t, m) = c
    BY <2>5 DEF CodeAt
  <2>7. m \in Nat /\ Powers(m)
    <3>1. m \in 2 .. 14 /\ Powers(m)
      <4> HIDE DEF v
      <4> QED
        BY <2>3, CodeFits
    <3> HIDE DEF m
    <3> QED
      BY <3>1
  <2> HIDE DEF v, m, c, t, T, n
  <2>8. ASSUME NEW i \in 1 .. m PROVE BitOf(a, t + i) = BitOf(b, t + i)
    <3>1. LowBits(m, Value(a, t, m))[i] = BitOf(a, t + i)
      BY <2>5, <2>7, ValueBits
    <3>2. LowBits(m, Value(b, t, m))[i] = BitOf(b, t + i)
      BY <2>5, <2>7, ValueBits
    <3> QED
      BY <2>6, <3>1, <3>2
  <2>9. ASSUME NEW i \in 1 .. t + m PROVE BitOf(a, i) = BitOf(b, i)
    <3>1. CASE i <= t
      <4>1. i \in 1 .. t
        BY <2>5, <2>7, <3>1
      <4> QED
        BY <2>2, <4>1 DEF t
    <3>2. CASE i > t
      <4> DEFINE j == i - t
      <4>1. j \in 1 .. m /\ t + j = i
        BY <2>5, <2>7, <3>2
      <4> HIDE DEF j
      <4> QED
        BY <2>8, <4>1
    <3> QED
      BY <2>5, <2>7, <3>1, <3>2
  <2> QED
    BY <2>5, <2>9
<1> HIDE DEF T
<1>4. n \in T
  BY <1>1, <1>2, <1>3, Induction
<1> QED
  BY <1>1, <1>4 DEF T

\* What is written is read back.
LEMMA FreqsBack ==
    ASSUME NEW fs, Coded10(fs), NEW w, w = V2!WriteFreqs(fs)
    PROVE  /\ w \in Seq(Bit) /\ Len(w) % 8 = 0 /\ Len(w) <= 14 * Len(fs) + 7
           /\ V2!ReadFreqs(w, Len(fs)).ok /\ V2!ReadFreqs(w, Len(fs)).freqs = fs
<1> DEFINE n == Len(fs)
<1>1. PICK acc : WrittenAs(w, fs, acc)
  BY WrittenCodes
<1>2. /\ w \in Seq(Bit) /\ Len(w) % 8 = 0 /\ CodedAt(w, fs, acc)
      /\ Len(w) - acc[n] \in 0 .. 7 /\ acc[n] <= 14 * n
  BY <1>1 DEF WrittenAs
<1>3. n \in Nat /\ n \in 0 .. n /\ fs \in Seq(Nat) /\ Len(w) \in Nat
  BY <1>2 DEF Coded10
<1>4. acc[n] \in Nat
  BY <1>2, <1>3 DEF CodedAt
<1>5. PICK read : ReadBy(w, n, read)
  BY <1>2, <1>3, ReadSteps
<1>6. read[n].ok /\ read[n].taken = acc[n] /\ read[n].freqs = fs
  <2>1. ReadTo(read[n], fs, acc, n)
    BY <1>2, <1>3, <1>5, ReadForward
  <2>2. SubSeq(fs, 1, n) = fs
    BY <1>3
  <2> HIDE DEF n
  <2> QED
    BY <2>1, <2>2 DEF ReadTo
<1>7. read[n] \in Readers(w, n)
  BY <1>3, <1>5 DEF ReadBy
<1>8. read[n].loaded % 8 = 0
  <2> DEFINE T == {k \in Nat : k <= n => read[k].loaded % 8 = 0}
  <2>1. 0 \in T
    <3> DEFINE base == [ok |-> TRUE, taken |-> 0, loaded |-> 0, freqs |-> << >>]
    <3>1. base \in Readers(w, 0) /\ base.loaded - base.taken < 14 /\ 0 \in Nat /\ base.loaded % 8 = 0
      BY DEF Readers
    <3>2. read[0] = V2!Refill(base, w)
      BY <1>5 DEF ReadBy
    <3> HIDE DEF base
    <3>3. read[0].loaded % 8 = 0
      BY <1>2, <3>1, <3>2, LoadsWhole
    <3> QED
      BY <3>3
  <2>2. ASSUME NEW k \in Nat, k \in T PROVE k + 1 \in T
    <3> SUFFICES ASSUME k + 1 <= n PROVE read[k + 1].loaded % 8 = 0
      OBVIOUS
    <3>1. k + 1 \in 1 .. n /\ (k + 1) - 1 = k /\ k \in 0 .. n /\ k <= n
      BY <1>3
    <3>2. read[k].loaded % 8 = 0
      BY <2>2, <3>1
    <3> HIDE DEF T, n
    <3>3. read[k] \in Readers(w, k)
      BY <1>5, <3>1 DEF ReadBy
    <3>4. read[k + 1] = IF read[(k + 1) - 1].ok THEN V2!ReadOne(read[(k + 1) - 1], w) ELSE read[(k + 1) - 1]
      BY <1>5, <3>1 DEF ReadBy
    <3>5. V2!ReadOne(read[k], w).loaded % 8 = 0
      BY <1>2, <3>2, <3>3, ReadOneLoads
    <3>6. read[k + 1] = V2!ReadOne(read[k], w) \/ read[k + 1] = read[k]
      BY <3>1, <3>4
    <3> QED
      BY <3>2, <3>5, <3>6
  <2> HIDE DEF T
  <2>3. n \in T
    BY <1>3, <2>1, <2>2, Induction
  <2> QED
    BY <1>3, <2>3 DEF T
<1> HIDE DEF n
<1>9. V2!Held(read[n]) < V2!HeaderByte /\ read[n].loaded = Len(w)
  <2> DEFINE x == read[n].loaded
             y == acc[n]
             L == Len(w)
  <2>1. x \in Nat /\ y <= x /\ x <= L /\ read[n].taken = y
    BY <1>6, <1>7 DEF Readers
  <2>2. y \in Nat /\ L \in Nat /\ L - y \in 0 .. 7 /\ x % 8 = 0 /\ L % 8 = 0
    BY <1>2, <1>3, <1>4, <1>8
  <2>3. V2!Held(read[n]) = x - y
    BY <2>1 DEF V2!Held
  <2> HIDE DEF x, y, L
  <2>4. x = L
    BY <2>1, <2>2
  <2>5. x - y < 8
    BY <2>2, <2>4
  <2> QED
    BY <2>3, <2>4, <2>5 DEF x, L, V2!HeaderByte
<1>10. V2!ReadFreqs(w, n).ok /\ V2!ReadFreqs(w, n).freqs = fs
  BY <1>5, <1>6, <1>9, ReadEnd
<1>11. Len(w) <= 14 * n + 7
  <2> DEFINE y == acc[n]
             L == Len(w)
  <2>1. y \in Nat /\ L \in Nat /\ L - y \in 0 .. 7 /\ y <= 14 * n /\ n \in Nat
    BY <1>2, <1>3, <1>4
  <2> HIDE DEF y, L
  <2>2. L <= 14 * n + 7
    BY <2>1
  <2> QED
    BY <2>2 DEF L
<1> QED
  BY <1>2, <1>10, <1>11 DEF n

\* What is read is what is written for it, but for the padding of the last byte.
LEMMA FreqsCanonical ==
    ASSUME NEW bits \in Seq(Bit), Len(bits) % 8 = 0, NEW nsym \in Nat,
           NEW res, res = V2!ReadFreqs(bits, nsym), res.ok, NEW w, w = V2!WriteFreqs(res.freqs)
    PROVE  Len(w) = Len(bits) /\ \A i \in 1 .. Len(w) - 7 : w[i] = bits[i]
<1>1. PICK read : ReadBy(bits, nsym, read)
  BY ReadSteps
<1> DEFINE fs == read[nsym].freqs
           acc == [k \in 0 .. nsym |-> read[k].taken]
           t == read[nsym].taken
<1>2. /\ res.freqs = fs /\ read[nsym].ok /\ V2!Held(read[nsym]) < V2!HeaderByte
      /\ read[nsym].loaded = Len(bits)
  BY <1>1, ReadEnd
<1>3. t \in Nat /\ t <= Len(bits) /\ Len(bits) - t < 8
  <2>1. nsym \in 0 .. nsym
    OBVIOUS
  <2>2. read[nsym] \in Readers(bits, nsym)
    BY <1>1, <2>1 DEF ReadBy
  <2>3. read[nsym].taken \in Nat /\ read[nsym].taken <= read[nsym].loaded
    BY <2>2 DEF Readers
  <2> QED
    BY <1>2, <2>3 DEF V2!Held, V2!HeaderByte
<1>a. ReadsOut(nsym, read, fs, acc)
  BY <1>2 DEF ReadsOut
<1>b. acc[nsym] = t
  <2>1. nsym \in 0 .. nsym
    OBVIOUS
  <2> QED
    BY <2>1
<1> HIDE DEF fs, acc, t
<1>4. Coded10(fs) /\ Len(fs) = nsym /\ CodedAt(bits, fs, acc)
  BY <1>1, <1>a, ReadBackward DEF StandsAs
<1>5. w = V2!WriteFreqs(fs)
  BY <1>2
<1>6. PICK at : WrittenAs(w, fs, at)
  BY <1>4, <1>5, WrittenCodes
<1>7. w \in Seq(Bit) /\ Len(w) % 8 = 0 /\ CodedAt(w, fs, at) /\ Len(w) - at[nsym] \in 0 .. 7
  BY <1>4, <1>6 DEF WrittenAs
<1>8. at[nsym] = t /\ \A i \in 1 .. t : BitOf(w, i) = BitOf(bits, i)
  <2>1. at[Len(fs)] = acc[Len(fs)] /\ \A i \in 1 .. at[Len(fs)] : BitOf(w, i) = BitOf(bits, i)
    BY <1>4, <1>7, CodedSame
  <2> QED
    BY <1>4, <1>b, <2>1
<1> DEFINE L == Len(w)
           M == Len(bits)
<1>9. L \in Nat /\ M \in Nat /\ L - t \in 0 .. 7 /\ L % 8 = 0 /\ M % 8 = 0 /\ t \in Nat /\ t <= M /\ M - t < 8
  BY <1>3, <1>7, <1>8
<1> HIDE DEF L, M
<1>10. L = M
  <2>1. M - t \in 0 .. 7
    BY <1>9
  <2> QED
    BY <1>9, <2>1
<1>11. ASSUME NEW i \in 1 .. L - 7 PROVE w[i] = bits[i]
  <2>1. i \in 1 .. t /\ i <= L /\ i <= M
    BY <1>9, <1>10
  <2>2. BitOf(w, i) = BitOf(bits, i)
    BY <1>8, <2>1
  <2> QED
    BY <2>1, <2>2 DEF BitOf, L, M
<1> QED
  BY <1>10, <1>11 DEF L, M

-----------------------------------------------------------------------------
(***************************************************************************)
(* The four tables as one list of frequencies, and back.                   *)
(***************************************************************************)
LEMMA SymbolDomain ==
    ASSUME NEW c \in Range(Coders)
    PROVE  DOMAIN Base[c] = Before(NSym(c)) /\ NSym(c) \in Nat \ {0} /\ FirstOf[c] \in Nat
           /\ FirstOf[c] + NSym(c) <= AllSymbols
<1>1. DOMAIN Base[c] = Before(NSym(c))
  BY CoderFacts DEF CoderIs
<1>2. /\ FirstOf["l"] = 0 /\ FirstOf["m"] = NSym("l") /\ FirstOf["d"] = NSym("l") + NSym("m")
      /\ FirstOf["lit"] = NSym("l") + NSym("m") + NSym("d")
  BY DEF FirstOf
<1>3. c = "l" \/ c = "m" \/ c = "d" \/ c = "lit"
  BY TheCoders
<1> QED
  BY <1>1, <1>2, <1>3, SymbolCounts

\* The table of a coder stands in the list from its first symbol on.
Listed(all, freqs, c) == \A s \in Before(NSym(c)) : all[FirstOf[c] + s + 1] = freqs[c][s]

LEMMA AllFreqsAt ==
    ASSUME NEW freqs, Tables(freqs), NEW all, all = AllFreqs(freqs), NEW c \in Range(Coders)
    PROVE  Listed(all, freqs, c)
<1> DEFINE list(k) == [i \in 1 .. NSym(k) |-> freqs[k][i - 1]]
<1>1. ASSUME NEW k \in Range(Coders), NSym(k) \in Nat PROVE Numbers(list(k), NSym(k))
  <2>1. ASSUME NEW i \in 1 .. NSym(k) PROVE freqs[k][i - 1] \in Nat
    <3>1. i - 1 \in Before(NSym(k))
      BY <1>1 DEF Before
    <3> QED
      BY <3>1 DEF Tables
  <2>2. list(k) \in [1 .. NSym(k) -> Nat]
    BY <2>1
  <2> HIDE DEF list
  <2> QED
    BY <1>1, <2>2, AsSequence DEF Numbers
<1>2. all = list("l") \o list("m") \o list("d") \o list("lit")
  BY DEF AllFreqs
<1>e. ASSUME NEW k, NEW s \in Before(NSym(k)), NSym(k) \in Nat
      PROVE  s + 1 \in 1 .. NSym(k) /\ list(k)[s + 1] = freqs[k][s]
  <2>1. s + 1 \in 1 .. NSym(k) /\ (s + 1) - 1 = s
    BY <1>e DEF Before
  <2> QED
    BY <2>1
<1> HIDE DEF list
<1> DEFINE pl == list("l")
           pm == list("m")
           pd == list("d")
           pt == list("lit")
           nl == NSym("l")
           nm == NSym("m")
           nd == NSym("d")
           nt == NSym("lit")
           a == pl \o pm
           b == a \o pd
           x == nl + nm
           y == x + nd
<1>n. nl \in Nat /\ nm \in Nat /\ nd \in Nat /\ nt \in Nat
  BY SymbolCounts
<1>3. Numbers(pl, nl) /\ Numbers(pm, nm) /\ Numbers(pd, nd) /\ Numbers(pt, nt)
  BY <1>1, <1>n, TheCoders
<1>f. FirstOf["l"] = 0 /\ FirstOf["m"] = nl /\ FirstOf["d"] = x /\ FirstOf["lit"] = y
  BY DEF FirstOf
<1>q. a = pl \o pm /\ b = a \o pd /\ all = b \o pt
  BY <1>2
<1>x. x \in Nat /\ x = nl + nm /\ y = x + nd
  BY <1>n
<1>t. /\ Len(pl) = nl /\ Len(pm) = nm /\ Len(pd) = nd /\ Len(pt) = nt
  BY <1>3 DEF Numbers
<1>c. /\ pl = list("l") /\ nl = NSym("l") /\ pm = list("m") /\ nm = NSym("m")
      /\ pd = list("d") /\ nd = NSym("d") /\ pt = list("lit") /\ nt = NSym("lit")
  OBVIOUS
<1> HIDE DEF pl, pm, pd, pt, nl, nm, nd, nt, a, b, x, y
<1>y. y \in Nat
  BY <1>n, <1>x
<1>4. Numbers(a, x)
  BY <1>3, <1>n, <1>x, <1>q, Joined
<1>5. Numbers(b, y)
  BY <1>3, <1>4, <1>n, <1>x, <1>q, Joined
<1>6. Begins(all, all)
  BY DEF Begins
<1>7. Begins(all, b) /\ Placed(all, y, pt)
  BY <1>3, <1>5, <1>6, <1>n, <1>y, <1>q, Peel
<1>8. Begins(all, a) /\ Placed(all, x, pd)
  BY <1>3, <1>4, <1>7, <1>n, <1>x, <1>q, Peel
<1>9. Begins(all, pl) /\ Placed(all, nl, pm)
  BY <1>3, <1>8, <1>n, <1>q, Peel
<1>10. Placed(all, 0, pl)
  <2>1. \A i \in 1 .. Len(pl) : 0 + i = i
    BY <1>t, <1>n
  <2> QED
    BY <1>9, <2>1 DEF Begins, Placed
<1>11. ASSUME NEW k \in Range(Coders), NEW p, p = list(k), Placed(all, FirstOf[k], p), Len(p) = NSym(k),
              NSym(k) \in Nat, FirstOf[k] \in Nat
       PROVE  Listed(all, freqs, k)
  <2> SUFFICES ASSUME NEW s \in Before(NSym(k)) PROVE all[FirstOf[k] + s + 1] = freqs[k][s]
    BY DEF Listed
  <2>1. s + 1 \in 1 .. NSym(k) /\ list(k)[s + 1] = freqs[k][s]
    BY <1>e, <1>11
  <2>2. all[FirstOf[k] + (s + 1)] = p[s + 1]
    BY <1>11, <2>1 DEF Placed
  <2>3. FirstOf[k] + (s + 1) = FirstOf[k] + s + 1
    BY <1>11 DEF Before
  <2> QED
    BY <1>11, <2>1, <2>2, <2>3
<1>12. Listed(all, freqs, "l")
  <2>1. "l" \in Range(Coders) /\ FirstOf["l"] \in Nat /\ Placed(all, FirstOf["l"], pl)
    BY <1>10, <1>f, TheCoders
  <2> QED
    BY <1>11, <1>c, <1>t, <1>n, <2>1
<1>13. Listed(all, freqs, "m")
  <2>1. "m" \in Range(Coders) /\ FirstOf["m"] \in Nat /\ Placed(all, FirstOf["m"], pm)
    BY <1>9, <1>f, <1>n, TheCoders
  <2> QED
    BY <1>11, <1>c, <1>t, <1>n, <2>1
<1>14. Listed(all, freqs, "d")
  <2>1. "d" \in Range(Coders) /\ FirstOf["d"] \in Nat /\ Placed(all, FirstOf["d"], pd)
    BY <1>8, <1>f, <1>x, TheCoders
  <2> QED
    BY <1>11, <1>c, <1>t, <1>n, <2>1
<1>15. Listed(all, freqs, "lit")
  <2>1. "lit" \in Range(Coders) /\ FirstOf["lit"] \in Nat /\ Placed(all, FirstOf["lit"], pt)
    BY <1>7, <1>f, <1>y, TheCoders
  <2> QED
    BY <1>11, <1>c, <1>t, <1>n, <2>1
<1> QED
  BY <1>12, <1>13, <1>14, <1>15, TheCoders

LEMMA SplitBack ==
    ASSUME NEW freqs, Tables(freqs), NEW c \in Range(Coders)
    PROVE  SplitFreqs(AllFreqs(freqs))[c] = freqs[c]
<1> DEFINE all == AllFreqs(freqs)
<1>1. Listed(all, freqs, c)
  BY AllFreqsAt
<1>2. SplitFreqs(all)[c] = [s \in Before(NSym(c)) |-> all[FirstOf[c] + s + 1]]
  BY SymbolDomain DEF SplitFreqs
<1>3. freqs[c] \in [Before(NSym(c)) -> Nat]
  BY DEF Tables
<1> HIDE DEF all
<1>4. \A s \in Before(NSym(c)) : all[FirstOf[c] + s + 1] = freqs[c][s]
  BY <1>1 DEF Listed
<1>5. SplitFreqs(all)[c] = freqs[c]
  BY <1>2, <1>3, <1>4
<1> QED
  BY <1>5 DEF all

\* Every place of the list is that of a symbol of a coder.
LEMMA PlaceOf ==
    ASSUME NEW i \in 1 .. AllSymbols
    PROVE  \E c \in Range(Coders) : \E s \in Before(NSym(c)) : i = FirstOf[c] + s + 1
<1> DEFINE nl == NSym("l")
           nm == NSym("m")
           nd == NSym("d")
           nt == NSym("lit")
<1>1. /\ FirstOf["l"] = 0 /\ FirstOf["m"] = nl /\ FirstOf["d"] = nl + nm /\ FirstOf["lit"] = nl + nm + nd
  BY DEF FirstOf
<1>2. nl \in Nat /\ nm \in Nat /\ nd \in Nat /\ nt \in Nat /\ AllSymbols = nl + nm + nd + nt
  BY SymbolCounts
<1>3. ASSUME NEW c \in Range(Coders), FirstOf[c] < i, i <= FirstOf[c] + NSym(c), FirstOf[c] \in Nat, NSym(c) \in Nat
      PROVE  \E k \in Range(Coders) : \E s \in Before(NSym(k)) : i = FirstOf[k] + s + 1
  <2> DEFINE s == i - FirstOf[c] - 1
  <2>1. s \in Before(NSym(c)) /\ i = FirstOf[c] + s + 1
    BY <1>3 DEF Before
  <2> QED
    BY <2>1
<1>4. "l" \in Range(Coders) /\ "m" \in Range(Coders) /\ "d" \in Range(Coders) /\ "lit" \in Range(Coders)
  BY TheCoders
<1>5. CASE i <= nl
  <2>1. FirstOf["l"] < i /\ i <= FirstOf["l"] + NSym("l") /\ FirstOf["l"] \in Nat /\ NSym("l") \in Nat
    BY <1>1, <1>2, <1>5
  <2> QED
    BY <1>3, <1>4, <2>1
<1>6. CASE nl < i /\ i <= nl + nm
  <2>1. FirstOf["m"] < i /\ i <= FirstOf["m"] + NSym("m") /\ FirstOf["m"] \in Nat /\ NSym("m") \in Nat
    BY <1>1, <1>2, <1>6
  <2> QED
    BY <1>3, <1>4, <2>1
<1>7. CASE nl + nm < i /\ i <= nl + nm + nd
  <2>1. FirstOf["d"] < i /\ i <= FirstOf["d"] + NSym("d") /\ FirstOf["d"] \in Nat /\ NSym("d") \in Nat
    BY <1>1, <1>2, <1>7
  <2> QED
    BY <1>3, <1>4, <2>1
<1>8. CASE nl + nm + nd < i
  <2>1. FirstOf["lit"] < i /\ i <= FirstOf["lit"] + NSym("lit") /\ FirstOf["lit"] \in Nat /\ NSym("lit") \in Nat
    BY <1>1, <1>2, <1>8
  <2> QED
    BY <1>3, <1>4, <2>1
<1>9. i <= nl \/ (nl < i /\ i <= nl + nm) \/ (nl + nm < i /\ i <= nl + nm + nd) \/ nl + nm + nd < i
  BY <1>2
<1> HIDE DEF nl, nm, nd, nt
<1> QED
  BY <1>5, <1>6, <1>7, <1>8, <1>9

LEMMA AllBack ==
    ASSUME NEW all \in [1 .. AllSymbols -> Nat]
    PROVE  AllFreqs(SplitFreqs(all)) = all
<1> DEFINE freqs == SplitFreqs(all)
           back == AllFreqs(freqs)
<1>1. Tables(freqs)
  BY SplitFreqsAre
<1>2. ASSUME NEW c \in Range(Coders), NEW s \in Before(NSym(c)) PROVE freqs[c][s] = all[FirstOf[c] + s + 1]
  BY SymbolDomain DEF SplitFreqs
<1> HIDE DEF freqs
<1>3. back \in Seq(Nat) /\ Len(back) = AllSymbols
  BY <1>1, AllFreqsAre
<1>4. \A c \in Range(Coders) : Listed(back, freqs, c)
  BY <1>1, AllFreqsAt
<1> HIDE DEF back
<1>5. ASSUME NEW i \in 1 .. AllSymbols PROVE back[i] = all[i]
  <2>1. PICK c \in Range(Coders) : \E s \in Before(NSym(c)) : i = FirstOf[c] + s + 1
    BY PlaceOf
  <2>2. PICK s \in Before(NSym(c)) : i = FirstOf[c] + s + 1
    BY <2>1
  <2>3. back[FirstOf[c] + s + 1] = freqs[c][s]
    BY <1>4 DEF Listed
  <2> QED
    BY <1>2, <2>2, <2>3
<1>6. back \in [1 .. AllSymbols -> Nat]
  BY <1>3
<1>7. back = all
  <2> DEFINE n == AllSymbols
  <2>1. back = [i \in 1 .. n |-> back[i]] /\ all = [i \in 1 .. n |-> all[i]]
    BY <1>6
  <2>2. [i \in 1 .. n |-> back[i]] = [i \in 1 .. n |-> all[i]]
    BY <1>5
  <2> QED
    BY <2>1, <2>2
<1> QED
  BY <1>7 DEF back, freqs

-----------------------------------------------------------------------------
(***************************************************************************)
(* The header of a block the encoder makes.                                *)
(***************************************************************************)
\* What 10, 16 and 20 bits hold.
LEMMA FieldWidths == 2^10 = 1024 /\ 2^16 = Wide /\ 2^20 = 16 * Wide
<1> DEFINE p(i) == 2^i
<1>0. Powers(20)
  BY SmallPowers
<1>1. \A i, j \in 0 .. 20 : i + j <= 20 => 2^(i + j) = 2^i * 2^j
  BY <1>0 DEF Powers
<1>2. ASSUME NEW i \in 0 .. 20, NEW j \in 0 .. 20, NEW k, k = i + j, k <= 20 PROVE p(k) = p(i) * p(j)
  BY <1>1, <1>2
<1>3. p(2) = 4
  BY SmallPowers
<1>4. p(5) = 32
  BY SmallPowers
<1>5. p(8) = 256
  BY SmallPowers
<1> HIDE DEF p
<1>6. p(10) = p(5) * p(5)
  BY <1>2
<1>7. p(16) = p(8) * p(8)
  BY <1>2
<1>8. p(4) = p(2) * p(2)
  BY <1>2
<1>9. p(20) = p(4) * p(16)
  BY <1>2
<1>10. p(10) = 1024
  BY <1>4, <1>6
<1>11. p(16) = Wide
  BY <1>5, <1>7 DEF Wide
<1>12. p(4) = 16
  BY <1>3, <1>8
<1>13. p(20) = 16 * Wide
  BY <1>9, <1>11, <1>12
<1> QED
  BY <1>10, <1>11, <1>13 DEF p

\* A frequency is at most the number of states, which its code can hold.
LEMMA FreqWithin ==
    ASSUME NEW src, IsSource(src), NEW c \in Range(Coders), NEW s \in Before(NSym(c))
    PROVE  FreqsOf(src)[c][s] \in Codable
<1> DEFINE f == FreqsOf(src)[c]
           k == NSym(c)
<1>1. Normalized(FreqsOf(src), src)
  BY FreqsOfAre
<1>2. f \in [Before(k) -> Nat] /\ Total(f) = NStates[c]
  BY <1>1, NormalizedFor
<1>3. NStates[c] \in Nat /\ NStates[c] <= 1024
  <2>1. NStates[c] \in Nat
    BY CoderFacts DEF CoderIs
  <2>2. NStates[c] <= 2^10
    BY FieldsAssumption
  <2> QED
    BY <2>1, <2>2, FieldWidths
<1>4. k \in Nat
  BY SymbolDomain
<1> HIDE DEF f, k
<1>5. s \in Before(k)
  BY DEF k
<1>6. Offset(f, s) \in Nat /\ f[s] \in Nat /\ Offset(f, s) + f[s] <= Total(f)
  BY <1>2, <1>4, <1>5, RunWithin
<1>7. f[s] \in Codable
  BY <1>2, <1>3, <1>6 DEF Codable
<1> QED
  BY <1>7 DEF f

LEMMA ListedFreqs ==
    ASSUME NEW src, IsSource(src), NEW all, all = AllFreqs(FreqsOf(src))
    PROVE  /\ Tables(FreqsOf(src)) /\ Coded10(all) /\ Len(all) = AllSymbols
           /\ \A i \in 1 .. Len(all) : all[i] \in 0 .. Wide - 1
<1>1. Tables(FreqsOf(src))
  BY FreqsOfAre, NormalizedFor DEF Tables
<1>2. all \in Seq(Nat) /\ Len(all) = AllSymbols
  BY <1>1, AllFreqsAre
<1>3. ASSUME NEW i \in 1 .. AllSymbols PROVE all[i] \in Codable
  <2>1. PICK c \in Range(Coders) : \E s \in Before(NSym(c)) : i = FirstOf[c] + s + 1
    BY PlaceOf
  <2>2. PICK s \in Before(NSym(c)) : i = FirstOf[c] + s + 1
    BY <2>1
  <2>3. all[i] = FreqsOf(src)[c][s]
    BY <1>1, <2>2, AllFreqsAt DEF Listed
  <2> QED
    BY <2>3, FreqWithin
<1>4. Coded10(all)
  BY <1>2, <1>3 DEF Coded10
<1>5. \A v \in Codable : v \in 0 .. Wide - 1
  BY DEF Wide, Codable
<1>6. ASSUME NEW i \in 1 .. Len(all) PROVE all[i] \in 0 .. Wide - 1
  <2> DEFINE v == all[i]
  <2>1. v \in Codable
    BY <1>2, <1>3
  <2> QED
    BY <1>5, <2>1
<1> QED
  BY <1>1, <1>2, <1>4, <1>6

\* The size of a whole header.
SizeOf(freqData) == V2!FixedBytes + (Len(freqData) \div V2!HeaderByte)

LEMMA SizeWithin ==
    ASSUME NEW src, IsSource(src), NEW data, data = V2!WriteFreqs(AllFreqs(FreqsOf(src)))
    PROVE  /\ data \in Seq(Bit) /\ Len(data) % 8 = 0 /\ SizeOf(data) \in 0 .. 16 * Wide - 1
           /\ V2!HeaderByte * (SizeOf(data) - V2!FixedBytes) = Len(data)
           /\ V2!ReadFreqs(data, AllSymbols).ok /\ V2!ReadFreqs(data, AllSymbols).freqs = AllFreqs(FreqsOf(src))
<1> DEFINE all == AllFreqs(FreqsOf(src))
           L == Len(data)
           n == AllSymbols
<1>1. Coded10(all) /\ Len(all) = n
  BY ListedFreqs
<1> HIDE DEF all
<1>2. data = V2!WriteFreqs(all)
  BY DEF all
<1>3. /\ data \in Seq(Bit) /\ Len(data) % 8 = 0 /\ Len(data) <= 14 * Len(all) + 7
      /\ V2!ReadFreqs(data, Len(all)).ok /\ V2!ReadFreqs(data, Len(all)).freqs = all
  BY <1>1, <1>2, FreqsBack
<1>4. L \in Nat /\ L % 8 = 0 /\ L <= 14 * n + 7 /\ n \in Nat /\ n < Wide
  <2>1. n \in Nat
    BY SymbolCounts
  <2>2. n < 2^16
    BY FieldsAssumption
  <2>3. n < Wide
    BY <2>2, FieldWidths
  <2>4. L \in Nat
    BY <1>3
  <2> QED
    BY <1>1, <1>3, <2>1, <2>3, <2>4
<1> HIDE DEF L, n
<1>5. SizeOf(data) = 32 + (L \div 8)
  BY DEF SizeOf, V2!FixedBytes, V2!HeaderByte, L
<1>6. L \div 8 \in Nat /\ 8 * (L \div 8) = L
  BY <1>4
<1> DEFINE q == L \div 8
<1>7. q \in Nat /\ 8 * q = L
  BY <1>6
<1>8. 32 + q \in 0 .. 16 * Wide - 1
  <2> HIDE DEF q
  <2>1. Wide \in Nat /\ Wide >= 32
    BY DEF Wide
  <2>2. 8 * q <= 14 * n + 7
    BY <1>4, <1>7
  <2>3. q <= 2 * n + 7
    BY <1>4, <1>7, <2>2
  <2> QED
    BY <1>4, <1>7, <2>1, <2>3
<1>9. V2!HeaderByte * (SizeOf(data) - V2!FixedBytes) = Len(data)
  <2>1. SizeOf(data) = 32 + q
    BY <1>5
  <2> HIDE DEF q
  <2>2. 8 * ((32 + q) - 32) = L
    BY <1>7
  <2> QED
    BY <2>1, <2>2 DEF V2!HeaderByte, V2!FixedBytes, L
<1>10. V2!ReadFreqs(data, AllSymbols).ok /\ V2!ReadFreqs(data, AllSymbols).freqs = AllFreqs(FreqsOf(src))
  BY <1>1, <1>3 DEF all, n
<1> QED
  BY <1>3, <1>5, <1>8, <1>9, <1>10

\* A stream has at most a byte for every bit.
LEMMA FinishShort ==
    ASSUME NEW bits \in Seq(Bit), NEW f, f = Finish(bits, ByteBits)
    PROVE  Len(f.buf) \in Nat /\ Len(f.buf) <= Len(bits) /\ f.n \in -7 .. 0 /\ f.buf \in Seq(Byte)
<1> DEFINE L == Len(bits)
           m == Len(f.buf)
           p == -f.n
           B == ByteBits
<1>1. p \in 0 .. B - 1 /\ f.n \in Int /\ f.buf \in Seq(Byte) /\ B * m = L + p
  BY FinishFills
<1>2. L \in Nat /\ m \in Nat
  BY <1>1
<1>3. B \in Nat \ {0} /\ B <= 8
  BY WordIs, FieldsAssumption
<1>4. m <= L
  <2> SUFFICES ASSUME L + 1 <= m PROVE FALSE
    BY <1>2
  <2>1. B * (L + 1) <= B * m
    <3> DEFINE k == L + 1
    <3>1. k \in Nat /\ m \in Nat /\ k <= m
      BY <1>2
    <3> HIDE DEF k, m
    <3>2. ByteBits * k <= ByteBits * m
      BY <3>1, ByteTimes
    <3> QED
      BY <3>2 DEF k
  <2>2. B * (L + 1) = B * L + B
    BY <1>2, ByteTimes
  <2>3. L <= B * L /\ B * L \in Nat
    <3> HIDE DEF L, B, m, p
    <3> QED
      BY <1>2, <1>3
  <2> DEFINE x == B * L
             y == B * m
             z == B * (L + 1)
  <2>4. z <= y /\ z = x + B /\ L <= x /\ x \in Nat /\ y = L + p
    BY <1>1, <2>1, <2>2, <2>3
  <2> HIDE DEF L, B, m, p, x, y, z
  <2> QED
    BY <1>1, <1>2, <1>3, <2>4
<1>5. f.n \in -7 .. 0
  <2> DEFINE q == f.n
  <2>1. -q \in 0 .. B - 1 /\ q \in Int
    BY <1>1
  <2> HIDE DEF q, B
  <2> QED
    <3>1. q \in -7 .. 0
      BY <1>3, <2>1
    <3> QED
      BY <3>1 DEF q
<1> QED
  BY <1>1, <1>2, <1>4, <1>5

\* What the encoder means: the literals and values in the end of their traces.
Trail(src, lt, rt) ==
    IsSource(src) /\ WithinLimits(src) /\ LitTraced(src, lt, 0) /\ RecTraced(src, rt, 0)

LitEnd(lt) == Finish(lt[0].bits, ByteBits)
LMDEnd(rt) == Finish(rt[0].bits, ByteBits)

MeansAs(h, src, lt, rt) ==
    /\ h.nLiterals = Len(src.literals) /\ h.nMatches = Len(src.records)
    /\ h.nLitPayload = Len(LitEnd(lt).buf) /\ h.nLMDPayload = Len(LMDPadding \o LMDEnd(rt).buf)
    /\ h.litBits = LitEnd(lt).n /\ h.lmdBits = LMDEnd(rt).n
    /\ h.litStates = lt[0].states /\ h.lmdStates = rt[0].states

LEMMA TrailEnds ==
    ASSUME NEW src, NEW lt, NEW rt, Trail(src, lt, rt)
    PROVE  /\ lt[0].bits \in Seq(Bit) /\ lt[0].states \in LitStates
           /\ rt[0].bits \in Seq(Bit) /\ rt[0].states \in LMDStates
           /\ Len(src.literals) \in Nat /\ Len(src.records) \in Nat
<1>1. src.literals \in Seq(DOMAIN Base["lit"]) /\ src.records \in Seq([LMD -> Nat])
  BY DEF Trail, IsSource
<1>2. Len(src.literals) \in Nat /\ Len(src.records) \in Nat
  BY <1>1
<1>3. LitTraced(src, lt, 0) /\ RecTraced(src, rt, 0)
  BY DEF Trail
<1>4. 0 \in 0 .. Len(src.literals) /\ 0 \in 0 .. Len(src.records)
  BY <1>2
<1>5. lt[0].bits \in Seq(Bit) /\ lt[0].states \in LitStates
  BY <1>3, <1>4 DEF LitTraced
<1>6. rt[0].bits \in Seq(Bit) /\ rt[0].states \in LMDStates
  BY <1>3, <1>4 DEF RecTraced
<1> QED
  BY <1>2, <1>5, <1>6

LEMMA PaddingIs == LMDPadding \in Seq(Byte) /\ Len(LMDPadding) = WordBytes /\ \A i \in 1 .. WordBytes : LMDPadding[i] = 0
<1>1. WordBytes \in Nat /\ ByteBits \in Nat /\ ByteBits <= WordBits
  BY WordIs
<1>2. 2^ByteBits \in Nat \ {0}
  BY <1>1, WordPower
<1>3. 0 \in Byte
  BY <1>2 DEF Byte
<1>4. LMDPadding \in [1 .. WordBytes -> Byte]
  BY <1>3 DEF LMDPadding
<1>5. LMDPadding \in Seq(Byte) /\ Len(LMDPadding) = WordBytes
  BY <1>1, <1>4
<1>6. \A i \in 1 .. WordBytes : LMDPadding[i] = 0
  BY DEF LMDPadding
<1> QED
  BY <1>5, <1>6

\* The counts and sizes are within 20 bits.
LEMMA PayloadSizes ==
    ASSUME NEW src, NEW lt, NEW rt, Trail(src, lt, rt)
    PROVE  /\ Len(src.literals) \in 0 .. 16 * Wide - 1 /\ Len(src.records) \in 0 .. 16 * Wide - 1
           /\ Len(LitEnd(lt).buf) \in 0 .. 16 * Wide - 1
           /\ Len(LMDPadding \o LMDEnd(rt).buf) = WordBytes + Len(LMDEnd(rt).buf)
           /\ Len(LMDPadding \o LMDEnd(rt).buf) \in 0 .. 16 * Wide - 1
           /\ LitEnd(lt).n \in -7 .. 0 /\ LMDEnd(rt).n \in -7 .. 0
<1> DEFINE n == Len(src.literals)
           m == Len(src.records)
           W == 16 * Wide
           a == Len(LitEnd(lt).buf)
           b == Len(LMDEnd(rt).buf)
           x == n * MaxBits("lit")
           y == m * RecordBits
<1>1. n \in Nat /\ m \in Nat /\ lt[0].bits \in Seq(Bit) /\ rt[0].bits \in Seq(Bit)
  BY TrailEnds
<1>2. 2^20 = W
  BY FieldWidths
<1>3. n < W /\ x < W /\ m < W /\ WordBytes + y < W
  <2>1. WithinLimits(src)
    BY DEF Trail
  <2>2. n <= LiteralsPerBlock /\ m <= MatchesPerBlock /\ x < 2^20
    BY <2>1 DEF WithinLimits
  <2>3. WordBytes + y < 2^20
    BY <2>1 DEF WithinLimits, RecordBits
  <2>4. LiteralsPerBlock \in 0 .. W - 1 /\ MatchesPerBlock \in 0 .. W - 1
    BY <1>2, FieldsAssumption
  <2>5. W \in Nat
    BY WideIs
  <2> HIDE DEF n, m, W, x, y
  <2>6. n < W /\ m < W
    BY <1>1, <2>2, <2>4, <2>5
  <2> QED
    BY <1>2, <2>2, <2>3, <2>6
<1>4. a \in Nat /\ a <= Len(lt[0].bits) /\ LitEnd(lt).n \in -7 .. 0
  BY <1>1, FinishShort DEF LitEnd
<1>5. b \in Nat /\ b <= Len(rt[0].bits) /\ LMDEnd(rt).n \in -7 .. 0 /\ LMDEnd(rt).buf \in Seq(Byte)
  BY <1>1, FinishShort DEF LMDEnd
<1>6. Len(lt[0].bits) <= x
  BY LitTraceBits DEF Trail
<1>7. Len(rt[0].bits) <= y
  BY RecTraceBits DEF Trail
<1>8. Len(lt[0].bits) \in Nat /\ Len(rt[0].bits) \in Nat
  BY <1>1
<1>9. MaxBits("lit") \in Nat /\ MaxBits("l") \in Nat /\ MaxBits("m") \in Nat /\ MaxBits("d") \in Nat
  BY MaxBitsFit, TheCoders
<1>10. x \in Nat /\ y \in Nat
  <2>1. RecordBits \in Nat
    BY <1>9 DEF RecordBits
  <2> QED
    BY <1>1, <1>9, <2>1
<1>11. Len(LMDPadding \o LMDEnd(rt).buf) = WordBytes + b
  <2>1. LMDPadding \in Seq(Byte) /\ Len(LMDPadding) = WordBytes
    BY PaddingIs
  <2> QED
    BY <1>5, <2>1
<1>12. WordBytes \in Nat /\ W \in Nat
  BY WordIs, WideIs
<1> HIDE DEF n, m, W, a, b, x, y
<1>13. a \in 0 .. W - 1 /\ n \in 0 .. W - 1 /\ m \in 0 .. W - 1
  BY <1>1, <1>3, <1>4, <1>6, <1>8, <1>10, <1>12
<1>14. WordBytes + b \in 0 .. W - 1
  BY <1>3, <1>5, <1>7, <1>8, <1>10, <1>12
<1> QED
  BY <1>4, <1>5, <1>11, <1>13, <1>14 DEF n, m, W, a, b

\* As much of a header as the decoder looks at.
Says(h, src, lt, rt) ==
    /\ h.nLiterals = Len(src.literals) /\ h.nMatches = Len(src.records)
    /\ h.nLitPayload = Len(LitEnd(lt).buf) /\ h.nLMDPayload = WordBytes + Len(LMDEnd(rt).buf)
    /\ h.litBits = LitEnd(lt).n /\ h.lmdBits = LMDEnd(rt).n
    /\ \A j \in 1 .. Lanes : h.litStates[j] = lt[0].states[j]
    /\ h.lmdStates.l = rt[0].states["l"] /\ h.lmdStates.m = rt[0].states["m"] /\ h.lmdStates.d = rt[0].states["d"]

LEMMA StatesFitFields ==
    ASSUME NEW src, NEW lt, NEW rt, Trail(src, lt, rt)
    PROVE  /\ \A j \in 1 .. Lanes : lt[0].states[j] \in 0 .. 2^10 - 1 /\ lt[0].states[j] \in 0 .. Wide - 1
           /\ \A c \in LMD : rt[0].states[c] \in 0 .. 2^10 - 1 /\ rt[0].states[c] \in 0 .. Wide - 1
<1>1. lt[0].states \in [1 .. Lanes -> 0 .. NStates["lit"] - 1]
  BY TrailEnds DEF LitStates
<1>2. \A c \in LMD : rt[0].states[c] \in 0 .. NStates[c] - 1
  BY TrailEnds DEF LMDStates
<1>3. ASSUME NEW c \in Range(Coders), NEW v \in 0 .. NStates[c] - 1
      PROVE  v \in 0 .. 2^10 - 1 /\ v \in 0 .. Wide - 1
  <2> DEFINE N == NStates[c]
             M == 2^10
  <2>1. N \in Nat
    BY CoderFacts DEF CoderIs
  <2>2. N <= M
    BY FieldsAssumption
  <2>3. M = 1024
    BY FieldWidths
  <2>4. Wide \in Nat /\ 1024 <= Wide
    BY DEF Wide
  <2>5. v \in 0 .. N - 1
    BY <1>3
  <2> HIDE DEF N, M
  <2>6. v \in 0 .. M - 1 /\ v \in 0 .. Wide - 1
    BY <2>1, <2>2, <2>3, <2>4, <2>5
  <2> QED
    BY <2>6 DEF M
<1>4. "lit" \in Range(Coders) /\ \A c \in LMD : c \in Range(Coders)
  BY TheCoders DEF LMD
<1>5. ASSUME NEW j \in 1 .. Lanes PROVE lt[0].states[j] \in 0 .. 2^10 - 1 /\ lt[0].states[j] \in 0 .. Wide - 1
  <2>1. lt[0].states[j] \in 0 .. NStates["lit"] - 1
    BY <1>1
  <2> QED
    BY <1>3, <1>4, <2>1
<1>6. ASSUME NEW c \in LMD PROVE rt[0].states[c] \in 0 .. 2^10 - 1 /\ rt[0].states[c] \in 0 .. Wide - 1
  BY <1>2, <1>3, <1>4
<1> QED
  BY <1>5, <1>6

LEMMA SaysFits ==
    ASSUME NEW src, NEW lt, NEW rt, Trail(src, lt, rt), NEW h, Says(h, src, lt, rt),
           NEW size \in 0 .. 16 * Wide - 1
    PROVE  FitsV2(h, size)
<1> DEFINE W == 2^20
           S == 2^10
<1>1. W = 16 * Wide
  BY FieldWidths
<1>2. /\ Len(src.literals) \in 0 .. W - 1 /\ Len(src.records) \in 0 .. W - 1
      /\ Len(LitEnd(lt).buf) \in 0 .. W - 1 /\ WordBytes + Len(LMDEnd(rt).buf) \in 0 .. W - 1
      /\ LitEnd(lt).n \in -7 .. 0 /\ LMDEnd(rt).n \in -7 .. 0 /\ size \in 0 .. W - 1
  BY <1>1, PayloadSizes
<1>3. /\ \A j \in 1 .. Lanes : lt[0].states[j] \in 0 .. S - 1
      /\ \A c \in LMD : rt[0].states[c] \in 0 .. S - 1
  BY StatesFitFields
<1>4. "l" \in LMD /\ "m" \in LMD /\ "d" \in LMD
  BY DEF LMD
<1> HIDE DEF W, S
<1>5. /\ h.nLiterals \in 0 .. W - 1 /\ h.nMatches \in 0 .. W - 1
      /\ h.nLitPayload \in 0 .. W - 1 /\ h.nLMDPayload \in 0 .. W - 1 /\ size \in 0 .. W - 1
      /\ h.litBits \in -7 .. 0 /\ h.lmdBits \in -7 .. 0
  BY <1>2 DEF Says
<1>6. \A j \in 1 .. Lanes : h.litStates[j] \in 0 .. S - 1
  BY <1>3 DEF Says
<1>7. h.lmdStates.l \in 0 .. S - 1 /\ h.lmdStates.m \in 0 .. S - 1 /\ h.lmdStates.d \in 0 .. S - 1
  BY <1>3, <1>4 DEF Says
<1> QED
  BY <1>5, <1>6, <1>7 DEF FitsV2, W, S

LEMMA MeansSays ==
    ASSUME NEW src, NEW lt, NEW rt, Trail(src, lt, rt), NEW h, MeansAs(h, src, lt, rt)
    PROVE  FitsV1(h) /\ Says(h, src, lt, rt)
<1>1. Says(h, src, lt, rt)
  <2>1. Len(LMDPadding \o LMDEnd(rt).buf) = WordBytes + Len(LMDEnd(rt).buf)
    BY PayloadSizes
  <2>2. h.litStates = lt[0].states /\ h.lmdStates = rt[0].states
    BY DEF MeansAs
  <2>3. \A j \in 1 .. Lanes : h.litStates[j] = lt[0].states[j]
    BY <2>2
  <2>4. /\ h.lmdStates.l = rt[0].states["l"] /\ h.lmdStates.m = rt[0].states["m"]
        /\ h.lmdStates.d = rt[0].states["d"]
    BY <2>2
  <2> QED
    BY <2>1, <2>3, <2>4 DEF MeansAs, Says
<1>2. h.litStates \in Seq(Nat) /\ Len(h.litStates) = Lanes
  <2>1. lt[0].states \in [1 .. Lanes -> 0 .. NStates["lit"] - 1]
    BY TrailEnds DEF LitStates
  <2>2. Lanes \in Nat
    BY EntropyAssumption
  <2>3. h.litStates \in [1 .. Lanes -> Nat]
    BY <2>1 DEF MeansAs
  <2> QED
    BY <2>2, <2>3
<1> DEFINE W == 16 * Wide
<1>3. /\ h.nLiterals \in 0 .. W - 1 /\ h.nMatches \in 0 .. W - 1
      /\ h.nLitPayload \in 0 .. W - 1 /\ h.nLMDPayload \in 0 .. W - 1
      /\ h.litBits \in -7 .. 0 /\ h.lmdBits \in -7 .. 0
  <2>1. /\ Len(src.literals) \in 0 .. W - 1 /\ Len(src.records) \in 0 .. W - 1
        /\ Len(LitEnd(lt).buf) \in 0 .. W - 1 /\ Len(LMDPadding \o LMDEnd(rt).buf) \in 0 .. W - 1
        /\ LitEnd(lt).n \in -7 .. 0 /\ LMDEnd(rt).n \in -7 .. 0
    BY PayloadSizes
  <2> HIDE DEF W
  <2> QED
    BY <2>1 DEF MeansAs
<1>4. /\ \A j \in 1 .. Lanes : h.litStates[j] \in 0 .. Wide - 1
      /\ h.lmdStates.l \in 0 .. Wide - 1 /\ h.lmdStates.m \in 0 .. Wide - 1 /\ h.lmdStates.d \in 0 .. Wide - 1
  <2>1. "l" \in LMD /\ "m" \in LMD /\ "d" \in LMD
    BY DEF LMD
  <2>2. /\ \A j \in 1 .. Lanes : lt[0].states[j] \in 0 .. Wide - 1
        /\ \A c \in LMD : rt[0].states[c] \in 0 .. Wide - 1
    BY StatesFitFields
  <2> QED
    BY <1>1, <2>1, <2>2 DEF Says
<1> QED
  BY <1>1, <1>2, <1>3, <1>4 DEF FitsV1

LEMMA SaysSame ==
    ASSUME NEW src, NEW lt, NEW rt, NEW h, Says(h, src, lt, rt), NEW x, SameFields(x, h)
    PROVE  Says(x, src, lt, rt)
BY DEF Says, SameFields

\* What a block carries that the encoder made of src.
Carries(b, src, lt, rt) ==
    /\ b.version = 2 /\ b.payload = LitEnd(lt).buf \o (LMDPadding \o LMDEnd(rt).buf)
    /\ b.freqData = V2!WriteFreqs(AllFreqs(FreqsOf(src)))
    /\ \E h : /\ Says(h, src, lt, rt) /\ DOMAIN h.litStates = 1 .. Lanes
              /\ b.words = V2!Pack(h, SizeOf(b.freqData))

-----------------------------------------------------------------------------
(***************************************************************************)
(* A block of this encoder is accepted, whatever its version, and its      *)
(* streams open where the encoder finished them.                           *)
(***************************************************************************)
\* The V1 header is read back as it was meant, and packed so.
LEMMA CarriesMeant ==
    ASSUME NEW src, NEW lt, NEW rt, Trail(src, lt, rt), NEW h, MeansAs(h, src, lt, rt),
           NEW v1, v1 = V1!Read(V1!Write(h, AllFreqs(FreqsOf(src))), Lanes, AllSymbols),
           NEW b, b.version = 2, b.payload = LitEnd(lt).buf \o (LMDPadding \o LMDEnd(rt).buf),
           b.freqData = V2!WriteFreqs(v1.freqs), b.words = V2!Pack(v1, SizeOf(b.freqData))
    PROVE  Carries(b, src, lt, rt)
<1> DEFINE all == AllFreqs(FreqsOf(src))
<1>1. IsSource(src)
  BY DEF Trail
<1>2. all \in Seq(Nat) /\ Len(all) = AllSymbols /\ \A i \in 1 .. Len(all) : all[i] \in 0 .. Wide - 1
  BY <1>1, ListedFreqs DEF Coded10
<1>3. FitsV1(h) /\ Says(h, src, lt, rt)
  BY MeansSays
<1> HIDE DEF all
<1>4. v1 = V1!Read(V1!Write(h, all), Lanes, Len(all))
  BY <1>2 DEF all
<1>5. SameFields(v1, h) /\ v1.freqs = all
  BY <1>2, <1>3, <1>4, V1Back
<1>6. Says(v1, src, lt, rt)
  BY <1>3, <1>5, SaysSame
<1>7. DOMAIN v1.litStates = 1 .. Lanes
  <2>1. ReadAs(v1, V1!Write(h, all), Len(all))
    BY <1>4, V1ReadFields
  <2>2. v1.litStates = [j \in 1 .. Lanes |-> V1!Uint16(V1!Write(h, all), 32 + 2 * (j - 1))]
    BY <2>1 DEF ReadAs
  <2> QED
    BY <2>2
<1>8. b.freqData = V2!WriteFreqs(AllFreqs(FreqsOf(src)))
  BY <1>5 DEF all
<1> QED
  BY <1>6, <1>7, <1>8 DEF Carries

LEMMA HonestFreqs ==
    ASSUME NEW src, NEW lt, NEW rt, Trail(src, lt, rt), Carries(block, src, lt, rt)
    PROVE  FreqsRead.ok /\ FreqsRead.freqs = AllFreqs(FreqsOf(src))
<1> DEFINE data == block.freqData
           size == V2!HeaderByte * (V2!HeaderSize(block.words) - V2!FixedBytes)
<1>1. IsSource(src) /\ data = V2!WriteFreqs(AllFreqs(FreqsOf(src)))
  BY DEF Trail, Carries
<1> HIDE DEF data
<1>2. /\ data \in Seq(Bit) /\ SizeOf(data) \in 0 .. 16 * Wide - 1
      /\ V2!HeaderByte * (SizeOf(data) - V2!FixedBytes) = Len(data)
      /\ V2!ReadFreqs(data, AllSymbols).ok /\ V2!ReadFreqs(data, AllSymbols).freqs = AllFreqs(FreqsOf(src))
  BY <1>1, SizeWithin
<1>3. PICK h : /\ Says(h, src, lt, rt) /\ DOMAIN h.litStates = 1 .. Lanes
               /\ block.words = V2!Pack(h, SizeOf(data))
  BY DEF Carries, data
<1>4. FitsV2(h, SizeOf(data))
  BY <1>2, <1>3, SaysFits
<1>5. V2!HeaderSize(block.words) = SizeOf(data)
  BY <1>3, <1>4, PackBack
<1>6. size = Len(data)
  BY <1>2, <1>5
<1>7. 0 <= size /\ size <= Len(data)
  BY <1>2, <1>6
<1>8. SubSeq(data, 1, size) = data
  BY <1>2, <1>6
<1> HIDE DEF size
<1>9. FreqsRead = IF 0 <= size /\ size <= Len(data) THEN V2!ReadFreqs(SubSeq(data, 1, size), AllSymbols)
                  ELSE [ok |-> FALSE, freqs |-> << >>]
  BY DEF FreqsRead, size, data
<1>10. FreqsRead = V2!ReadFreqs(data, AllSymbols)
  BY <1>7, <1>8, <1>9
<1> QED
  BY <1>2, <1>10

\* A header read as the encoder meant it.
Announces(h, src, lt, rt) ==
    /\ Says(h, src, lt, rt) /\ h.litStates = lt[0].states /\ h.lmdStates = rt[0].states
    /\ h.freqs = SplitFreqs(AllFreqs(FreqsOf(src)))

WithSplit(u) == [u EXCEPT !.freqs = SplitFreqs(@)]

LEMMA WithOtherFreqs ==
    ASSUME NEW words, NEW freqs, NEW u, u = V2!Unpack(words, Lanes, freqs), NEW h, h = WithSplit(u)
    PROVE  /\ SameFields(h, u) /\ h.litStates = u.litStates /\ h.lmdStates = u.lmdStates
           /\ h.headerSize = u.headerSize /\ h.freqs = SplitFreqs(freqs)
<1>1. DOMAIN u = {"nLiterals", "nLitPayload", "nMatches", "litBits", "litStates", "nLMDPayload", "lmdBits",
                  "headerSize", "freqs", "lmdStates"}
  BY DEF V2!Unpack
<1>2. u.freqs = freqs
  BY DEF V2!Unpack
<1>3. /\ h.nLiterals = u.nLiterals /\ h.nMatches = u.nMatches
      /\ h.nLitPayload = u.nLitPayload /\ h.nLMDPayload = u.nLMDPayload
      /\ h.litBits = u.litBits /\ h.lmdBits = u.lmdBits
      /\ h.litStates = u.litStates /\ h.lmdStates = u.lmdStates
      /\ h.headerSize = u.headerSize
  BY <1>1 DEF WithSplit
<1>4. h.freqs = SplitFreqs(u.freqs)
  BY <1>1 DEF WithSplit
<1> QED
  BY <1>2, <1>3, <1>4 DEF SameFields

LEMMA HonestHeader ==
    ASSUME NEW src, NEW lt, NEW rt, Trail(src, lt, rt), Carries(block, src, lt, rt)
    PROVE  Announces(HeaderRead, src, lt, rt)
<1> DEFINE data == block.freqData
           u == V2!Unpack(block.words, Lanes, FreqsRead.freqs)
<1>1. IsSource(src) /\ data = V2!WriteFreqs(AllFreqs(FreqsOf(src)))
  BY DEF Trail, Carries
<1>2. PICK h : /\ Says(h, src, lt, rt) /\ DOMAIN h.litStates = 1 .. Lanes
               /\ block.words = V2!Pack(h, SizeOf(data))
  BY DEF Carries
<1> HIDE DEF data
<1>3. SizeOf(data) \in 0 .. 16 * Wide - 1
  BY <1>1, SizeWithin
<1>4. FitsV2(h, SizeOf(data))
  BY <1>2, <1>3, SaysFits
<1>5. SameFields(u, h)
  BY <1>2, <1>4, PackBack
<1>6. Says(u, src, lt, rt)
  BY <1>2, <1>5, SaysSame
<1>7. block.version = 2
  BY DEF Carries
<1>8. HeaderRead = [u EXCEPT !.freqs = SplitFreqs(@)]
  BY <1>7 DEF HeaderRead
<1>9. /\ SameFields(HeaderRead, u) /\ HeaderRead.litStates = u.litStates /\ HeaderRead.lmdStates = u.lmdStates
      /\ HeaderRead.freqs = SplitFreqs(FreqsRead.freqs)
  <2> DEFINE f == FreqsRead.freqs
             w == block.words
             h0 == HeaderRead
  <2>1. u = V2!Unpack(w, Lanes, f)
    OBVIOUS
  <2>2. h0 = WithSplit(u)
    BY <1>8 DEF WithSplit
  <2> HIDE DEF u, f, w, h0
  <2>3. /\ SameFields(h0, u) /\ h0.litStates = u.litStates /\ h0.lmdStates = u.lmdStates
        /\ h0.freqs = SplitFreqs(f)
    BY <2>1, <2>2, WithOtherFreqs
  <2> QED
    BY <2>3 DEF f, h0
<1>10. FreqsRead.freqs = AllFreqs(FreqsOf(src))
  BY HonestFreqs
<1>11. UnpackedAs(u, block.words, FreqsRead.freqs)
  BY UnpackFields
<1> HIDE DEF u
<1>12. Says(HeaderRead, src, lt, rt)
  BY <1>6, <1>9, SaysSame
<1>13. u.litStates = lt[0].states
  <2>1. u.litStates = [j \in 1 .. Lanes |-> V2!Field(block.words[2], 10 * (j - 1), 10)]
    BY <1>11 DEF UnpackedAs
  <2>2. lt[0].states \in [1 .. Lanes -> 0 .. NStates["lit"] - 1]
    BY TrailEnds DEF LitStates
  <2>3. \A j \in 1 .. Lanes : u.litStates[j] = lt[0].states[j]
    BY <1>6 DEF Says
  <2>4. u.litStates = [j \in 1 .. Lanes |-> u.litStates[j]] /\ lt[0].states = [j \in 1 .. Lanes |-> lt[0].states[j]]
    BY <2>1, <2>2
  <2>5. [j \in 1 .. Lanes |-> u.litStates[j]] = [j \in 1 .. Lanes |-> lt[0].states[j]]
    BY <2>3
  <2> QED
    BY <2>4, <2>5
<1>14. u.lmdStates = rt[0].states
  <2>1. DOMAIN u.lmdStates = LMD /\ u.lmdStates = [c \in LMD |-> u.lmdStates[c]]
    BY <1>11 DEF UnpackedAs, LMD
  <2>2. rt[0].states \in [LMD -> Nat]
    BY TrailEnds DEF LMDStates
  <2>3. \A c \in LMD : u.lmdStates[c] = rt[0].states[c]
    BY <1>6 DEF Says, LMD
  <2>4. rt[0].states = [c \in LMD |-> rt[0].states[c]]
    BY <2>2
  <2>5. [c \in LMD |-> u.lmdStates[c]] = [c \in LMD |-> rt[0].states[c]]
    BY <2>3
  <2> QED
    BY <2>1, <2>4, <2>5
<1> QED
  BY <1>9, <1>10, <1>12, <1>13, <1>14 DEF Announces

LEMMA AnnouncedFreqs ==
    ASSUME NEW src, NEW lt, NEW rt, Trail(src, lt, rt), NEW h, Announces(h, src, lt, rt), NEW c \in Range(Coders)
    PROVE  h.freqs[c] = FreqsOf(src)[c] /\ FitsTable(h.freqs[c], NStates[c])
<1>1. IsSource(src)
  BY DEF Trail
<1>2. Normalized(FreqsOf(src), src)
  BY <1>1, FreqsOfAre
<1>3. Tables(FreqsOf(src))
  BY <1>1, ListedFreqs
<1>4. h.freqs[c] = FreqsOf(src)[c]
  BY <1>3, SplitBack DEF Announces
<1>5. Total(FreqsOf(src)[c]) = NStates[c] /\ NStates[c] \in Nat
  BY <1>1, <1>2, NormalizedFor, CoderFacts DEF CoderIs
<1> QED
  BY <1>4, <1>5 DEF FitsTable

LEMMA HonestOK ==
    ASSUME NEW src, NEW lt, NEW rt, Trail(src, lt, rt), NEW h, Announces(h, src, lt, rt)
    PROVE  HeaderOK(h)
<1>1. h.nLiterals % Lanes = 0
  BY DEF Announces, Says, Trail, IsSource
<1>2. StatesFit(h)
  <2>1. lt[0].states \in [1 .. Lanes -> 0 .. NStates["lit"] - 1]
    BY TrailEnds DEF LitStates
  <2>2. \A c \in LMD : rt[0].states[c] \in 0 .. NStates[c] - 1
    BY TrailEnds DEF LMDStates
  <2>3. NStates["lit"] \in Nat /\ \A c \in LMD : NStates[c] \in Nat
    BY CoderFacts, TheCoders DEF CoderIs, LMD
  <2>4. ASSUME NEW j \in 1 .. Lanes PROVE h.litStates[j] < NStates["lit"]
    <3>1. lt[0].states[j] \in 0 .. NStates["lit"] - 1
      BY <2>1
    <3>2. h.litStates = lt[0].states
      BY DEF Announces
    <3>3. lt[0].states[j] < NStates["lit"]
      BY <2>3, <3>1
    <3> QED
      BY <3>2, <3>3
  <2>5. \A c \in LMD : h.lmdStates[c] < NStates[c]
    BY <2>2, <2>3 DEF Announces
  <2> QED
    BY <2>4, <2>5 DEF StatesFit
<1>3. \A c \in Range(Coders) : FitsTable(h.freqs[c], NStates[c])
  BY AnnouncedFreqs
<1>4. h.nLiterals <= LiteralsPerBlock /\ h.nMatches <= MatchesPerBlock
  <2>1. h.nLiterals = Len(src.literals) /\ h.nMatches = Len(src.records)
    BY DEF Announces, Says
  <2> QED
    BY <2>1 DEF Trail, WithinLimits
<1> QED
  BY <1>1, <1>2, <1>3, <1>4 DEF HeaderOK

\* A finished stream behind enough bytes is read from its end.
Opens(buf, before, s, p) ==
    s.ok /\ \E all : Backs(all, buf) /\ At(s, all, ByteBits * Len(before), p)

LEMMA StreamOpens ==
    ASSUME NEW before \in Seq(Byte), WordBytes <= Len(before), NEW p, p.bits \in Seq(Bit),
           NEW f, f = Finish(p.bits, ByteBits), NEW buf, buf = before \o f.buf,
           NEW s, s = InInit(buf, f.n)
    PROVE  buf \in Seq(Byte) /\ Opens(buf, before, s, p)
<1> DEFINE pre == ByteBits * Len(before)
           bits == p.bits
           e == pre + Len(bits)
           n == -f.n
<1>1. bits \in Seq(Bit) /\ f = Finish(bits, ByteBits) /\ pre = ByteBits * Len(before) /\ e = pre + Len(bits)
  OBVIOUS
<1>0. n = -f.n
  OBVIOUS
<1> HIDE DEF pre, bits, e, n
<1>11. EndsIn(buf, before, pre, bits, f, e, n)
  BY <1>0, <1>1 DEF EndsIn
<1>2. /\ buf \in Seq(Byte) /\ e = ByteBits * Len(buf) - n /\ pre \in Nat
      /\ \E all : FillsOut(buf, all, pre, bits, e, n)
  <2>1. FinishedAs(buf, pre, bits, e, n)
    BY <1>11, FinishedBits
  <2> QED
    BY <2>1 DEF FinishedAs
<1>3. n \in 0 .. ByteBits - 1 /\ f.n \in Int /\ f.buf \in Seq(Byte)
  BY <1>0, <1>1, FinishFills
<1>4. PICK all : FillsOut(buf, all, pre, bits, e, n)
  BY <1>2
<1>10. Backs(all, buf) /\ Holds(all, pre, bits) /\ Padded(all, e, n)
  BY <1>4 DEF FillsOut
<1>5. WordBytes <= Len(buf)
  <2>1. Len(buf) = Len(before) + Len(f.buf) /\ Len(before) \in Nat /\ Len(f.buf) \in Nat
    BY <1>3
  <2> QED
    BY <2>1, WordIs
<1>6. f.n = -n
  BY <1>0, <1>3
<1>7. s = InInit(buf, -n)
  BY <1>6
<1>12. Opening(buf, all, n, e)
  BY <1>2, <1>3, <1>5, <1>10 DEF Opening
<1>8. s.ok /\ Faithful(s, all) /\ UnreadOf(s) = e
  BY <1>7, <1>12, InitFaithful
<1>9. At(s, all, pre, p)
  BY <1>1, <1>8, <1>10 DEF At, bits
<1> QED
  BY <1>2, <1>8, <1>9, <1>10 DEF Opens, pre

\* The two streams of a block as the decoder cuts them.
LEMMA StreamsCut ==
    ASSUME NEW a \in Seq(Byte), NEW b \in Seq(Byte), NEW w, w = a \o b
    PROVE  /\ SubSeq(w, 1, Len(a)) = a /\ SubSeq(w, Len(a) + 1, Len(a) + Len(b)) = b
           /\ Len(a) + Len(b) <= Len(w)
<1>1. Len(w) = Len(a) + Len(b) /\ w \in Seq(Byte) /\ Len(a) \in Nat /\ Len(b) \in Nat
  OBVIOUS
<1>2. \A i \in 1 .. Len(a) : w[i] = a[i]
  OBVIOUS
<1>3. \A i \in 1 .. Len(b) : w[Len(a) + i] = b[i]
  OBVIOUS
<1>4. SubSeq(w, 1, Len(a)) = a
  <2> DEFINE x == SubSeq(w, 1, Len(a))
  <2>1. x \in Seq(Byte) /\ Len(x) = Len(a) /\ \A i \in 1 .. Len(a) : x[i] = w[i]
    BY <1>1
  <2>2. \A i \in 1 .. Len(a) : x[i] = a[i]
    BY <1>2, <2>1
  <2> HIDE DEF x
  <2>3. x = a
    BY <2>1, <2>2
  <2> QED
    BY <2>3 DEF x
<1>5. SubSeq(w, Len(a) + 1, Len(a) + Len(b)) = b
  <2> DEFINE x == SubSeq(w, Len(a) + 1, Len(a) + Len(b))
  <2>1. x \in Seq(Byte) /\ Len(x) = Len(b) /\ \A i \in 1 .. Len(b) : x[i] = w[Len(a) + i]
    BY <1>1
  <2>2. \A i \in 1 .. Len(b) : x[i] = b[i]
    BY <1>3, <2>1
  <2> HIDE DEF x
  <2>3. x = b
    BY <2>1, <2>2
  <2> QED
    BY <2>3 DEF x
<1> QED
  BY <1>1, <1>4, <1>5

LEMMA HonestStreams ==
    ASSUME NEW src, NEW lt, NEW rt, Trail(src, lt, rt), Carries(block, src, lt, rt), Announces(header, src, lt, rt)
    PROVE  /\ LitStream = HeaderTail \o LitEnd(lt).buf /\ LMDStream = LMDPadding \o LMDEnd(rt).buf
           /\ header.nLitPayload + header.nLMDPayload <= Len(block.payload)
           /\ header.litBits = LitEnd(lt).n /\ header.lmdBits = LMDEnd(rt).n
<1> DEFINE a == LitEnd(lt).buf
           b == LMDPadding \o LMDEnd(rt).buf
           w == block.payload
<1>1. a \in Seq(Byte)
  BY TrailEnds, FinishShort DEF LitEnd
<1>2. LMDEnd(rt).buf \in Seq(Byte)
  BY TrailEnds, FinishShort DEF LMDEnd
<1>3. b \in Seq(Byte)
  BY <1>2, PaddingIs
<1>4. Len(b) = WordBytes + Len(LMDEnd(rt).buf)
  BY PayloadSizes
<1>5. w = a \o b
  BY DEF Carries
<1>6. Says(header, src, lt, rt)
  BY DEF Announces
<1>7. header.nLitPayload = Len(a) /\ header.nLMDPayload = Len(b)
  BY <1>4, <1>6 DEF Says
<1>8. header.litBits = LitEnd(lt).n /\ header.lmdBits = LMDEnd(rt).n
  BY <1>6 DEF Says
<1>9. LitStream = HeaderTail \o SubSeq(w, 1, header.nLitPayload)
  BY DEF LitStream
<1>10. LMDStream = SubSeq(w, header.nLitPayload + 1, header.nLitPayload + header.nLMDPayload)
  BY DEF LMDStream
<1> HIDE DEF a, b, w
<1>11. /\ SubSeq(w, 1, Len(a)) = a /\ SubSeq(w, Len(a) + 1, Len(a) + Len(b)) = b
       /\ Len(a) + Len(b) <= Len(w)
  BY <1>1, <1>3, <1>5, StreamsCut
<1>12. LitStream = HeaderTail \o a
  BY <1>7, <1>9, <1>11
<1>13. LMDStream = b
  BY <1>7, <1>10, <1>11
<1>14. header.nLitPayload + header.nLMDPayload <= Len(w)
  BY <1>7, <1>11
<1> QED
  BY <1>8, <1>12, <1>13, <1>14 DEF a, b, w

LEMMA HonestOpens ==
    ASSUME NEW src, NEW lt, NEW rt, Trail(src, lt, rt), Carries(block, src, lt, rt), Announces(header, src, lt, rt)
    PROVE  /\ Opens(LitStream, HeaderTail, InInit(LitStream, header.litBits), lt[0])
           /\ Opens(LMDStream, LMDPadding, InInit(LMDStream, header.lmdBits), rt[0])
<1> DEFINE p == lt[0]
           q == rt[0]
           f == LitEnd(lt)
           g == LMDEnd(rt)
           a == LitStream
           b == LMDStream
           s == InInit(a, header.litBits)
           t == InInit(b, header.lmdBits)
<1>1. p.bits \in Seq(Bit) /\ q.bits \in Seq(Bit)
  BY TrailEnds
<1>2. f = Finish(p.bits, ByteBits) /\ g = Finish(q.bits, ByteBits)
  BY DEF LitEnd, LMDEnd
<1>3. a = HeaderTail \o f.buf /\ b = LMDPadding \o g.buf
  BY HonestStreams
<1>4. s = InInit(a, f.n) /\ t = InInit(b, g.n)
  BY HonestStreams
<1>5. HeaderTail \in Seq(Byte) /\ WordBytes <= Len(HeaderTail)
  <2>1. HeaderTail \in Seq(Byte) /\ Len(HeaderTail) >= WordBytes
    BY EntropyAssumption
  <2> QED
    BY <2>1, WordIs
<1>6. LMDPadding \in Seq(Byte) /\ WordBytes <= Len(LMDPadding)
  BY PaddingIs, WordIs
<1> HIDE DEF p, q, f, g, a, b, s, t
<1>7. Opens(a, HeaderTail, s, p)
  BY <1>1, <1>2, <1>3, <1>4, <1>5, StreamOpens
<1>8. Opens(b, LMDPadding, t, q)
  BY <1>1, <1>2, <1>3, <1>4, <1>6, StreamOpens
<1> QED
  BY <1>7, <1>8 DEF p, q, a, b, s, t

-----------------------------------------------------------------------------
(***************************************************************************)
(* The invariant of blocks of this encoder: what has been written follows  *)
(* a trace from the initial states, and what is read follows it back.      *)
(***************************************************************************)
\* A source is one of Queues, within its limits.
SourceInv == Honest => IsSource(block.source) /\ WithinLimits(block.source)

\* The tables in use are those of the source.
OwnTablesInv ==
    stage \in {"encode records", "encode literals"} => Honest /\ block.freqs = FreqsOf(block.source)

\* The encoder is where its trace is.
Reached(e, trace) == e.bits = trace[e.left].bits /\ e.states = trace[e.left].states

RecordsTracedInv ==
    stage = "encode records" => \E rt : RecTraced(block.source, rt, enc.left) /\ Reached(enc, rt)

LMDMade(rt) == RecTraced(block.source, rt, 0) /\ block.lmd = LMDEnd(rt) /\ block.lmdStates = rt[0].states

LiteralsTracedInv ==
    stage = "encode literals" =>
    /\ \E lt : LitTraced(block.source, lt, enc.left) /\ Reached(enc, lt)
    /\ \E rt : LMDMade(rt)

\* The decoder of literals is where the trace was: the rest is still to be read.
LiteralsAt(src, lt, buf, lits, st, s) ==
    LET i == Len(lits)
    IN  /\ i \in 0 .. Len(src.literals) /\ i % Lanes = 0 /\ lits = SubSeq(src.literals, 1, i)
        /\ st = lt[i].states /\ \E all : Backs(all, buf) /\ At(s, all, ByteBits * Len(HeaderTail), lt[i])

RecordsAt(src, rt, buf, lits, recs, st, s) ==
    LET i == Len(recs)
    IN  /\ lits = src.literals
        /\ i \in 0 .. Len(src.records) /\ recs = SubSeq(src.records, 1, i)
        /\ st = rt[i].states /\ \E all : Backs(all, buf) /\ At(s, all, ByteBits * WordBytes, rt[i])

Made(lt, rt) ==
    LET src == block.source
    IN  /\ Trail(src, lt, rt) /\ Carries(block, src, lt, rt)
        /\ stage # "header" => Announces(header, src, lt, rt)
        /\ stage \in {"decode literals", "decode records"} => BuiltFor(src, tables)
        /\ stage = "decode literals" => LiteralsAt(src, lt, LitStream, literals, states, in) /\ records = << >>
        /\ stage \in {"decode records", "decoded"} => RecordsAt(src, rt, LMDStream, literals, records, states, in)
        /\ stage = "decoded" => Len(records) = Len(src.records)

Decoding == {"header", "tables", "decode literals", "decode records", "decoded"}

MadeInv == stage \in Decoding /\ Honest => \E lt, rt : Made(lt, rt)

RefusedInv == stage = "error" => ~ Honest

\* An accepted V2 header is the one read, its frequency data well-formed.
ReadInv ==
    stage = "tables" /\ block.version = 2 => HeaderBlock(block) /\ FreqsRead.ok /\ header = HeaderRead

TraceInv ==
    /\ SourceInv /\ OwnTablesInv /\ RecordsTracedInv /\ LiteralsTracedInv /\ MadeInv /\ RefusedInv /\ ReadInv

LEMMA HeadWithin ==
    ASSUME QueueInv, queue # << >>, Head(queue).kind = "source"
    PROVE  IsSource(Head(queue)) /\ WithinLimits(Head(queue))
<1>1. Head(queue) \in AllBlocks
  BY DEF QueueInv
<1>2. PICK q \in Queues : Head(queue) \in Range(q)
  BY <1>1 DEF AllBlocks
<1>3. IsSource(Head(queue))
  BY HeadIs
<1> QED
  BY <1>2, <1>3, SourcesAssumption

LEMMA InitTraced ==
    ASSUME Init
    PROVE  TraceInv
<1>1. stage = "next" /\ block = None
  BY DEF Init
<1>2. ~ Honest
  BY <1>1 DEF Honest, None
<1>3. SourceInv /\ RefusedInv
  BY <1>2 DEF SourceInv, RefusedInv
<1>4. MadeInv
  BY <1>2 DEF MadeInv
<1>5. OwnTablesInv /\ RecordsTracedInv /\ LiteralsTracedInv /\ ReadInv
  BY <1>1 DEF OwnTablesInv, RecordsTracedInv, LiteralsTracedInv, ReadInv
<1> QED
  BY <1>3, <1>4, <1>5 DEF TraceInv

\* Only the encoder's stages, or none of them, are left.
LEMMA NotEncoding ==
    ASSUME stage' \notin {"encode records", "encode literals"}
    PROVE  OwnTablesInv' /\ RecordsTracedInv' /\ LiteralsTracedInv'
BY DEF OwnTablesInv, RecordsTracedInv, LiteralsTracedInv

LEMMA NotDecoding ==
    ASSUME stage' \in {"next", "encode records", "encode literals"}
    PROVE  MadeInv' /\ RefusedInv' /\ ReadInv'
<1>1. stage' # "header" /\ stage' # "tables" /\ stage' # "decode literals" /\ stage' # "decode records"
      /\ stage' # "decoded" /\ stage' # "error"
  OBVIOUS
<1>2. MadeInv'
  BY <1>1 DEF MadeInv, Decoding
<1>3. RefusedInv' /\ ReadInv'
  BY <1>1 DEF RefusedInv, ReadInv
<1> QED
  BY <1>2, <1>3

LEMMA BeginEncodeTraces ==
    ASSUME CodecInv, CodecInv', TraceInv, BeginEncode
    PROVE  TraceInv'
<1> DEFINE src == Head(queue)
           n == Len(src.records)
           rt == [i \in {n} |-> enc']
<1>1. stage' = "encode records"
  BY DEF BeginEncode
<1>2. IsSource(src) /\ WithinLimits(src)
  BY HeadWithin DEF BeginEncode, CodecInv
<1>3. block'.kind = "source" /\ block'.source = src /\ block'.freqs = FreqsOf(src)
  BY DEF BeginEncode, FreqsOf
<1>4. enc'.left = n /\ enc'.bits = << >> /\ enc'.states = [c \in LMD |-> 0]
  BY DEF BeginEncode
<1> HIDE DEF src
<1>5. n \in Nat
  BY <1>2 DEF IsSource
<1>6. enc' \in Encoders(LMDStates)
  BY <1>1 DEF CodecInv, RecordsLeftInv
<1>7. enc'.bits \in Seq(Bit) /\ enc'.states \in LMDStates
  BY <1>6 DEF Encoders
<1>8. rt[n] = enc'
  OBVIOUS
<1> HIDE DEF n, rt
<1>9. RecTraced(src, rt, n)
  <2>1. \A i \in n .. n : i = n
    BY <1>5
  <2>2. \A i \in n + 1 .. n : FALSE
    BY <1>5
  <2> QED
    BY <1>4, <1>7, <1>8, <2>1, <2>2 DEF RecTraced, n
<1>10. RecordsTracedInv'
  <2>1. RecTraced(block'.source, rt, enc'.left) /\ Reached(enc', rt)
    BY <1>3, <1>4, <1>8, <1>9 DEF Reached
  <2> QED
    BY <2>1 DEF RecordsTracedInv
<1>11. SourceInv' /\ OwnTablesInv'
  BY <1>2, <1>3 DEF SourceInv, OwnTablesInv, Honest
<1>12. LiteralsTracedInv'
  BY <1>1 DEF LiteralsTracedInv
<1>13. MadeInv' /\ RefusedInv' /\ ReadInv'
  BY <1>1, NotDecoding
<1> QED
  BY <1>10, <1>11, <1>12, <1>13 DEF TraceInv

\* What is written before the count of what is left is adjusted.
LEMMA LeftOf ==
    ASSUME NEW St, NEW e \in Encoders(St), NEW k \in Int, NEW t, t = [e EXCEPT !.left = @ - k]
    PROVE  t.left = e.left - k /\ t.bits = e.bits /\ t.states = e.states
BY DEF Encoders

LEMMA EncodeRecordTraces ==
    ASSUME CodecInv, TraceInv, EncodeRecord
    PROVE  TraceInv'
<1> DEFINE src == block.source
           left == enc.left
           r == src.records[left]
           e == PutValue(PutValue(PutValue(enc, "d", r.d), "m", r.m), "l", r.l)
<1>0. enc' = [e EXCEPT !.left = @ - 1]
  BY DEF EncodeRecord
<1>1. stage = "encode records" /\ stage' = "encode records" /\ enc.left > 0 /\ block' = block
  BY DEF EncodeRecord
<1>2. /\ IsSource(src) /\ enc \in Encoders(LMDStates) /\ left <= Len(src.records)
  BY <1>1 DEF CodecInv, EncodingInv, RecordsLeftInv
<1>3. Honest /\ block.freqs = FreqsOf(src)
  BY <1>1 DEF TraceInv, OwnTablesInv
<1>4. WithinLimits(src)
  BY <1>3 DEF TraceInv, SourceInv
<1>5. PICK rt : RecTraced(src, rt, left) /\ Reached(enc, rt)
  BY <1>1 DEF TraceInv, RecordsTracedInv
<1>6. left \in Nat
  BY <1>2 DEF Encoders
<1>7. Len(src.records) \in Nat
  BY <1>2 DEF IsSource
<1> HIDE DEF src, r, e
<1>8. left \in 1 .. Len(src.records)
  <2> DEFINE n == Len(src.records)
  <2>1. n \in Nat /\ left \in Nat /\ left > 0 /\ left <= n
    BY <1>1, <1>2, <1>6, <1>7
  <2> HIDE DEF n, left
  <2>2. left \in 1 .. n
    BY <2>1
  <2> QED
    BY <2>2 DEF n
<1>9. e \in Encoders(LMDStates) /\ e.left = left /\ RecWrote(FreqsOf(src), r, enc, e)
  <2>1. r = src.records[left] /\ e = PutValue(PutValue(PutValue(enc, "d", r.d), "m", r.m), "l", r.l)
    BY DEF r, e
  <2> QED
    BY <1>2, <1>3, <1>4, <1>8, <2>1, RecordPut
<1>10. enc.bits = rt[left].bits /\ enc.states = rt[left].states
  BY <1>5 DEF Reached
<1>11. RecWrote(FreqsOf(src), src.records[left], enc, e)
  BY <1>9 DEF r
<1> HIDE DEF left
<1>12. PICK more : /\ RecTraced(src, more, left - 1)
                   /\ e.bits = more[left - 1].bits /\ e.states = more[left - 1].states
  BY <1>2, <1>5, <1>8, <1>9, <1>10, <1>11, RecordTraced
<1>13. enc'.left = left - 1 /\ enc'.bits = e.bits /\ enc'.states = e.states
  BY <1>0, <1>9, LeftOf
<1>14. RecordsTracedInv'
  <2>1. RecTraced(block'.source, more, enc'.left) /\ Reached(enc', more)
    BY <1>1, <1>12, <1>13 DEF Reached, src
  <2> QED
    BY <2>1 DEF RecordsTracedInv
<1>15. SourceInv' /\ OwnTablesInv'
  BY <1>1 DEF TraceInv, SourceInv, OwnTablesInv, Honest
<1>16. LiteralsTracedInv'
  BY <1>1 DEF LiteralsTracedInv
<1>17. MadeInv' /\ RefusedInv' /\ ReadInv'
  BY <1>1, NotDecoding
<1> QED
  BY <1>14, <1>15, <1>16, <1>17 DEF TraceInv

LEMMA FinishRecordsTraces ==
    ASSUME CodecInv, CodecInv', TraceInv, FinishRecords
    PROVE  TraceInv'
<1> DEFINE src == block.source
           n == Len(src.literals)
           lt == [i \in {n} |-> enc']
<1>1. stage = "encode records" /\ stage' = "encode literals" /\ enc.left = 0
  BY DEF FinishRecords
<1>2. /\ block'.kind = "source" /\ block'.source = src /\ block'.freqs = block.freqs
      /\ block'.lmdStates = enc.states /\ block'.lmd = Finish(enc.bits, ByteBits)
  BY DEF FinishRecords
<1>3. enc'.left = n /\ enc'.bits = << >> /\ enc'.states = Zeros
  BY DEF FinishRecords
<1>4. Honest /\ block.freqs = FreqsOf(src)
  BY <1>1 DEF TraceInv, OwnTablesInv
<1>5. IsSource(src) /\ WithinLimits(src)
  BY <1>4 DEF TraceInv, SourceInv
<1>6. PICK rt : RecTraced(src, rt, enc.left) /\ Reached(enc, rt)
  BY <1>1 DEF TraceInv, RecordsTracedInv
<1>7. RecTraced(src, rt, 0) /\ enc.bits = rt[0].bits /\ enc.states = rt[0].states
  BY <1>1, <1>6 DEF Reached
<1> HIDE DEF src
<1>8. n \in Nat
  BY <1>5 DEF IsSource
<1>9. enc' \in Encoders(LitStates)
  BY <1>1 DEF CodecInv, LiteralsLeftInv
<1>10. enc'.bits \in Seq(Bit) /\ enc'.states \in LitStates
  BY <1>9 DEF Encoders
<1>11. lt[n] = enc'
  OBVIOUS
<1> HIDE DEF n, lt
<1>12. LitTraced(src, lt, n)
  <2>1. \A i \in n .. n : i = n
    BY <1>8
  <2>2. \A i \in n + 1 .. n : FALSE
    BY <1>8
  <2> QED
    BY <1>3, <1>10, <1>11, <2>1, <2>2 DEF LitTraced, n
<1>13. LitTraced(block'.source, lt, enc'.left) /\ Reached(enc', lt)
  BY <1>2, <1>3, <1>11, <1>12 DEF Reached, src
<1>14. LMDMade(rt)'
  BY <1>2, <1>7 DEF LMDMade, LMDEnd, src
<1>15. LiteralsTracedInv'
  BY <1>13, <1>14 DEF LiteralsTracedInv
<1>16. SourceInv' /\ OwnTablesInv'
  BY <1>2, <1>4, <1>5 DEF SourceInv, OwnTablesInv, Honest, src
<1>17. RecordsTracedInv'
  BY <1>1 DEF RecordsTracedInv
<1>18. MadeInv' /\ RefusedInv' /\ ReadInv'
  BY <1>1, NotDecoding
<1> QED
  BY <1>15, <1>16, <1>17, <1>18 DEF TraceInv

\* Whole groups: at least one is left.
LEMMA GroupLeft ==
    ASSUME NEW k \in Nat, k > 0, k % Lanes = 0
    PROVE  Lanes <= k /\ k - Lanes \in Nat
<1>1. Lanes \in Nat \ {0}
  BY EntropyAssumption
<1>2. k \div Lanes \in Nat /\ k = (k \div Lanes) * Lanes + (k % Lanes)
  BY <1>1, Division
<1> DEFINE q == k \div Lanes
           p == q - 1
<1>3. q \in Nat /\ k = q * Lanes
  <2>1. k % Lanes = 0
    OBVIOUS
  <2> HIDE DEF q
  <2>2. q * Lanes \in Nat
    BY <1>1, <1>2 DEF q
  <2> QED
    BY <1>2, <2>1, <2>2 DEF q
<1> HIDE DEF q
<1>4. q # 0
  BY <1>1, <1>3
<1>5. p \in Nat /\ q = p + 1
  BY <1>3, <1>4
<1> HIDE DEF p
<1>6. k = p * Lanes + Lanes /\ p * Lanes \in Nat
  BY <1>1, <1>3, <1>5
<1> DEFINE x == p * Lanes
<1>7. x \in Nat /\ k = x + Lanes
  BY <1>6
<1> HIDE DEF x
<1> QED
  BY <1>1, <1>7

LEMMA EncodeGroupTraces ==
    ASSUME CodecInv, TraceInv, EncodeGroup
    PROVE  TraceInv'
<1> DEFINE src == block.source
           left == enc.left
           Puts(g) == [j \in 0 .. Lanes |-> IF j = 0 THEN enc
                         ELSE PutLiteral(g[j - 1], Lanes - j + 1, block.source.literals[enc.left - j + 1])]
           put == CHOOSE g : g = Puts(g)
           e == put[Lanes]
<1>0. enc' = [e EXCEPT !.left = @ - Lanes]
  BY DEF EncodeGroup
<1>1. stage = "encode literals" /\ stage' = "encode literals" /\ enc.left > 0 /\ block' = block
  BY DEF EncodeGroup
<1>2. /\ IsSource(src) /\ Normalized(block.freqs, src) /\ enc \in Encoders(LitStates)
      /\ left <= Len(src.literals) /\ left % Lanes = 0
  BY <1>1 DEF CodecInv, EncodingInv, LiteralsLeftInv
<1>3. Honest /\ block.freqs = FreqsOf(src)
  BY <1>1 DEF TraceInv, OwnTablesInv
<1>4. PICK lt : LitTraced(src, lt, left) /\ Reached(enc, lt)
  BY <1>1 DEF TraceInv, LiteralsTracedInv
<1>5. PICK rt : LMDMade(rt)
  BY <1>1 DEF TraceInv, LiteralsTracedInv
<1>6. left \in Nat /\ left > 0
  BY <1>1, <1>2 DEF Encoders
<1>7. Lanes <= left /\ Lanes \in Nat
  <2>1. left % Lanes = 0 /\ Lanes \in Nat
    BY <1>2, EntropyAssumption
  <2> HIDE DEF left
  <2> QED
    BY <1>6, <2>1, GroupLeft
<1>8. e \in Encoders(LitStates) /\ e.left = left /\ put[0] = enc /\ \A j \in 1 .. Lanes : PutOne(put, j)
  BY <1>2, <1>7, GroupPut
<1> HIDE DEF put, Puts
<1>9. enc.bits = lt[left].bits /\ enc.states = lt[left].states
  BY <1>4 DEF Reached
<1>10. PICK more : /\ LitTraced(src, more, enc.left - Lanes)
                   /\ put[Lanes].bits = more[enc.left - Lanes].bits
                   /\ put[Lanes].states = more[enc.left - Lanes].states
  BY <1>2, <1>3, <1>4, <1>7, <1>8, <1>9, GroupTraced
<1> HIDE DEF e
<1>11. enc'.left = left - Lanes /\ enc'.bits = e.bits /\ enc'.states = e.states
  BY <1>0, <1>7, <1>8, LeftOf
<1>12. LitTraced(block'.source, more, enc'.left) /\ Reached(enc', more)
  BY <1>1, <1>10, <1>11 DEF Reached, e
<1>13. LMDMade(rt)'
  BY <1>1, <1>5 DEF LMDMade
<1>14. LiteralsTracedInv'
  BY <1>12, <1>13 DEF LiteralsTracedInv
<1>15. SourceInv' /\ OwnTablesInv'
  BY <1>1 DEF TraceInv, SourceInv, OwnTablesInv, Honest
<1>16. RecordsTracedInv'
  BY <1>1 DEF RecordsTracedInv
<1>17. MadeInv' /\ RefusedInv' /\ ReadInv'
  BY <1>1, NotDecoding
<1> QED
  BY <1>14, <1>15, <1>16, <1>17 DEF TraceInv

LEMMA FinishLiteralsTraces ==
    ASSUME CodecInv, TraceInv, FinishLiterals
    PROVE  TraceInv'
<1> DEFINE src == block.source
           lit == Finish(enc.bits, ByteBits)
           lmdPayload == LMDPadding \o block.lmd.buf
           h == [nLiterals |-> Len(block.source.literals), nMatches |-> Len(block.source.records),
                      nLitPayload |-> Len(lit.buf), nLMDPayload |-> Len(lmdPayload),
                      litBits |-> lit.n, lmdBits |-> block.lmd.n,
                      litStates |-> enc.states, lmdStates |-> block.lmdStates]
           v1 == V1!Read(V1!Write(h, AllFreqs(block.freqs)), Lanes, AllSymbols)
           freqData == V2!WriteFreqs(v1.freqs)
           payload == lit.buf \o lmdPayload
           words == V2!Pack(v1, V2!FixedBytes + Len(freqData) \div V2!HeaderByte)
<1>1. stage = "encode literals" /\ stage' = "header" /\ enc.left = 0
  BY DEF FinishLiterals
<1>2. block' = [kind |-> "source", source |-> block.source, version |-> 2,
                words |-> words, freqData |-> freqData, payload |-> payload]
  BY DEF FinishLiterals
<1>3. Honest /\ block.freqs = FreqsOf(src)
  BY <1>1 DEF TraceInv, OwnTablesInv
<1>4. IsSource(src) /\ WithinLimits(src)
  BY <1>3 DEF TraceInv, SourceInv
<1>5. PICK lt : LitTraced(src, lt, enc.left) /\ Reached(enc, lt)
  BY <1>1 DEF TraceInv, LiteralsTracedInv
<1>6. PICK rt : LMDMade(rt)
  BY <1>1 DEF TraceInv, LiteralsTracedInv
<1>7. LitTraced(src, lt, 0) /\ enc.bits = lt[0].bits /\ enc.states = lt[0].states
  BY <1>1, <1>5 DEF Reached
<1>8. RecTraced(src, rt, 0) /\ block.lmd = LMDEnd(rt) /\ block.lmdStates = rt[0].states
  BY <1>6 DEF LMDMade
<1>9. Trail(src, lt, rt)
  BY <1>4, <1>7, <1>8 DEF Trail
<1>10. lit = LitEnd(lt) /\ lmdPayload = LMDPadding \o LMDEnd(rt).buf
  BY <1>7, <1>8 DEF LitEnd
<1>11. MeansAs(h, src, lt, rt)
  BY <1>7, <1>8, <1>10 DEF MeansAs
<1>12. /\ block'.kind = "source" /\ block'.source = src /\ block'.version = 2
       /\ block'.words = words /\ block'.freqData = freqData /\ block'.payload = payload
  BY <1>2
<1> HIDE DEF h, src
<1>13. v1 = V1!Read(V1!Write(h, AllFreqs(FreqsOf(src))), Lanes, AllSymbols)
  BY <1>3
<1> DEFINE b == block'
<1>14. /\ b.version = 2 /\ b.payload = LitEnd(lt).buf \o (LMDPadding \o LMDEnd(rt).buf)
       /\ b.freqData = V2!WriteFreqs(v1.freqs) /\ b.words = V2!Pack(v1, SizeOf(b.freqData))
  <2>1. b.words = V2!Pack(v1, V2!FixedBytes + (Len(b.freqData) \div V2!HeaderByte))
    BY <1>12
  <2>2. payload = LitEnd(lt).buf \o (LMDPadding \o LMDEnd(rt).buf)
    BY <1>10
  <2> HIDE DEF payload, v1
  <2> QED
    BY <1>12, <2>1, <2>2 DEF SizeOf
<1> HIDE DEF v1, b
<1>15. Carries(b, src, lt, rt)
  BY <1>9, <1>11, <1>13, <1>14, CarriesMeant
<1>16. Made(lt, rt)'
  <2>1. Trail(block'.source, lt, rt) /\ Carries(block', block'.source, lt, rt)
    BY <1>9, <1>12, <1>15 DEF b
  <2>2. stage' = "header"
    BY <1>1
  <2> QED
    BY <2>1, <2>2 DEF Made
<1>17. MadeInv'
  BY <1>16 DEF MadeInv
<1>18. SourceInv'
  BY <1>4, <1>12 DEF SourceInv
<1>19. OwnTablesInv' /\ RecordsTracedInv' /\ LiteralsTracedInv'
  BY <1>1, NotEncoding
<1>20. RefusedInv' /\ ReadInv'
  BY <1>1 DEF RefusedInv, ReadInv
<1> QED
  BY <1>17, <1>18, <1>19, <1>20 DEF TraceInv

LEMMA BeginForeignTraces ==
    ASSUME CodecInv, TraceInv, BeginForeign
    PROVE  TraceInv'
<1>1. stage' = "header" /\ block'.kind = "foreign"
  BY DEF BeginForeign
<1>2. ~ Honest'
  BY <1>1 DEF Honest
<1>3. SourceInv' /\ MadeInv' /\ RefusedInv'
  BY <1>2 DEF SourceInv, MadeInv, RefusedInv
<1>4. OwnTablesInv' /\ RecordsTracedInv' /\ LiteralsTracedInv'
  BY <1>1, NotEncoding
<1>5. ReadInv'
  BY <1>1 DEF ReadInv
<1> QED
  BY <1>3, <1>4, <1>5 DEF TraceInv

LEMMA NextBlockTraces ==
    ASSUME CodecInv, TraceInv, NextBlock
    PROVE  TraceInv'
<1>1. stage' = "next" /\ block' = None
  BY DEF NextBlock
<1>2. ~ Honest'
  BY <1>1 DEF Honest, None
<1>3. SourceInv' /\ MadeInv' /\ RefusedInv'
  BY <1>2 DEF SourceInv, MadeInv, RefusedInv
<1>4. OwnTablesInv' /\ RecordsTracedInv' /\ LiteralsTracedInv'
  BY <1>1, NotEncoding
<1>5. ReadInv'
  BY <1>1 DEF ReadInv
<1> QED
  BY <1>3, <1>4, <1>5 DEF TraceInv

\* The block and what follows from it alone stay as they are.
LEMMA SameBlock ==
    ASSUME TraceInv, block' = block
    PROVE  SourceInv' /\ (Honest' <=> Honest) /\ FreqsRead' = FreqsRead /\ HeaderRead' = HeaderRead
<1>1. SourceInv'
  BY DEF TraceInv, SourceInv, Honest
<1>2. Honest' <=> Honest
  BY DEF Honest
<1>3. FreqsRead' = FreqsRead
  BY DEF FreqsRead
<1>4. HeaderRead' = HeaderRead
  BY <1>3 DEF HeaderRead
<1> QED
  BY <1>1, <1>2, <1>3, <1>4

\* A block of this encoder that is being decoded has its traces.
LEMMA MadeNow ==
    ASSUME TraceInv, stage \in Decoding, Honest
    PROVE  \E lt, rt : Made(lt, rt)
BY DEF TraceInv, MadeInv

LEMMA ReadHeaderTraces ==
    ASSUME CodecInv, TraceInv, ReadHeader
    PROVE  TraceInv'
<1> DEFINE good == (block.version = 2 => FreqsRead.ok) /\ HeaderOK(HeaderRead)
<1>1. stage = "header" /\ block' = block
  BY DEF ReadHeader
<1>2. \/ good /\ stage' = "tables" /\ header' = HeaderRead
      \/ ~ good /\ stage' = "error"
  BY DEF ReadHeader
<1>3. SourceInv' /\ (Honest' <=> Honest) /\ FreqsRead' = FreqsRead /\ HeaderRead' = HeaderRead
  BY <1>1, SameBlock
<1>4. HeaderBlock(block)
  BY <1>1 DEF CodecInv, HeaderInv
<1>5. ASSUME NEW lt, NEW rt, Made(lt, rt)
      PROVE  good /\ Announces(HeaderRead, block.source, lt, rt)
  <2>1. Trail(block.source, lt, rt) /\ Carries(block, block.source, lt, rt)
    BY <1>5 DEF Made
  <2>2. FreqsRead.ok
    BY <2>1, HonestFreqs
  <2>3. Announces(HeaderRead, block.source, lt, rt)
    BY <2>1, HonestHeader
  <2>4. HeaderOK(HeaderRead)
    BY <2>1, <2>3, HonestOK
  <2> QED
    BY <2>2, <2>3, <2>4
<1>6. stage' \notin {"encode records", "encode literals"}
  BY <1>2
<1>7. OwnTablesInv' /\ RecordsTracedInv' /\ LiteralsTracedInv'
  BY <1>6, NotEncoding
<1> HIDE DEF good
<1>8. Honest => \E lt, rt : Made(lt, rt)
  <2>1. stage \in Decoding
    BY <1>1 DEF Decoding
  <2> QED
    BY <2>1, MadeNow
<1>9. RefusedInv'
  <2>1. Honest => good
    BY <1>5, <1>8
  <2> QED
    BY <1>2, <1>3, <2>1 DEF RefusedInv
<1>10. MadeInv'
  <2> SUFFICES ASSUME Honest', stage' \in Decoding PROVE \E lt, rt : Made(lt, rt)'
    BY DEF MadeInv
  <2>1. PICK lt, rt : Made(lt, rt)
    BY <1>3, <1>8
  <2>2. stage' = "tables" /\ header' = HeaderRead
    BY <1>2, <1>3, <1>5, <1>8
  <2>3. Trail(block'.source, lt, rt) /\ Carries(block', block'.source, lt, rt)
    BY <1>1, <2>1 DEF Made
  <2>4. Announces(header', block'.source, lt, rt)
    BY <1>1, <1>5, <2>1, <2>2
  <2>5. Made(lt, rt)'
    BY <2>2, <2>3, <2>4 DEF Made
  <2> QED
    BY <2>5
<1>11. ReadInv'
  <2> SUFFICES ASSUME stage' = "tables", block'.version = 2
               PROVE  HeaderBlock(block') /\ FreqsRead'.ok /\ header' = HeaderRead'
    BY DEF ReadInv
  <2>1. good /\ header' = HeaderRead
    BY <1>2
  <2>2. FreqsRead.ok
    BY <1>1, <2>1 DEF good
  <2> QED
    BY <1>1, <1>3, <1>4, <2>1, <2>2
<1> QED
  BY <1>3, <1>7, <1>9, <1>10, <1>11 DEF TraceInv

\* A source's literals, before any is read.
LEMMA LiteralsBegin ==
    ASSUME NEW src, IsSource(src), NEW lt, NEW st, st = lt[0].states, NEW buf, NEW s, Opens(buf, HeaderTail, s, lt[0])
    PROVE  LiteralsAt(src, lt, buf, << >>, st, s)
<1>1. src.literals \in Seq(DOMAIN Base["lit"]) /\ Len(src.literals) \in Nat
  BY DEF IsSource
<1>2. SubSeq(src.literals, 1, 0) = << >>
  BY <1>1
<1>3. 0 % Lanes = 0
  BY EntropyAssumption
<1>4. Len(<< >>) = 0
  OBVIOUS
<1>5. PICK all : Backs(all, buf) /\ At(s, all, ByteBits * Len(HeaderTail), lt[0])
  BY DEF Opens
<1> QED
  BY <1>1, <1>2, <1>3, <1>4, <1>5 DEF LiteralsAt

LEMMA BuildTablesTraces ==
    ASSUME CodecInv, TraceInv, BuildTables
    PROVE  TraceInv'
<1> DEFINE lit == InInit(LitStream, header.litBits)
           Fits == \A c \in Range(Coders) : FitsTable(header.freqs[c], NStates[c])
           Within == header.nLitPayload + header.nLMDPayload <= Len(block.payload)
<1>1. stage = "tables" /\ block' = block /\ header' = header
  BY DEF BuildTables
<1>2. \/ /\ Within /\ lit.ok /\ Fits /\ stage' = "decode literals"
         /\ tables' = [c \in Range(Coders) |->
              DecoderTable(header.freqs[c], NStates[c], Extra[c], Base[c], tables[c])]
         /\ in' = lit /\ states' = header.litStates
         /\ literals' = << >> /\ records' = << >>
      \/ ~ (Within /\ lit.ok /\ Fits) /\ stage' = "error"
  BY DEF BuildTables
<1> HIDE DEF lit, Fits, Within
<1>3. SourceInv' /\ (Honest' <=> Honest)
  BY <1>1, SameBlock
<1>4. ASSUME NEW lt, NEW rt, Made(lt, rt)
      PROVE  /\ Within /\ lit.ok /\ Fits /\ Announces(header, block.source, lt, rt)
             /\ Trail(block.source, lt, rt) /\ Carries(block, block.source, lt, rt)
             /\ Opens(LitStream, HeaderTail, lit, lt[0])
             /\ \A c \in Range(Coders) : header.freqs[c] = FreqsOf(block.source)[c]
  <2>1. Trail(block.source, lt, rt) /\ Carries(block, block.source, lt, rt) /\ Announces(header, block.source, lt, rt)
    BY <1>1, <1>4 DEF Made
  <2>2. Within
    BY <2>1, HonestStreams DEF Within
  <2>3. Opens(LitStream, HeaderTail, lit, lt[0])
    BY <2>1, HonestOpens DEF lit
  <2>4. \A c \in Range(Coders) : header.freqs[c] = FreqsOf(block.source)[c] /\ FitsTable(header.freqs[c], NStates[c])
    BY <2>1, AnnouncedFreqs
  <2>5. lit.ok
    BY <2>3 DEF Opens
  <2> QED
    BY <2>1, <2>2, <2>3, <2>4, <2>5 DEF Fits
<1>5. stage' \notin {"encode records", "encode literals"}
  BY <1>2
<1>6. OwnTablesInv' /\ RecordsTracedInv' /\ LiteralsTracedInv'
  BY <1>5, NotEncoding
<1>7. Honest => \E lt, rt : Made(lt, rt)
  <2>1. stage \in Decoding
    BY <1>1 DEF Decoding
  <2> QED
    BY <2>1, MadeNow
<1>8. RefusedInv'
  <2>1. Honest => Within /\ lit.ok /\ Fits
    BY <1>4, <1>7
  <2> QED
    BY <1>2, <1>3, <2>1 DEF RefusedInv
<1>9. MadeInv'
  <2> SUFFICES ASSUME Honest', stage' \in Decoding PROVE \E lt, rt : Made(lt, rt)'
    BY DEF MadeInv
  <2>1. PICK lt, rt : Made(lt, rt)
    BY <1>3, <1>7
  <2> DEFINE src == block.source
  <2>2. /\ Within /\ lit.ok /\ Fits /\ Announces(header, src, lt, rt)
        /\ Trail(src, lt, rt) /\ Carries(block, src, lt, rt)
        /\ Opens(LitStream, HeaderTail, lit, lt[0])
        /\ \A c \in Range(Coders) : header.freqs[c] = FreqsOf(src)[c]
    BY <1>4, <2>1
  <2>3. /\ stage' = "decode literals" /\ in' = lit /\ states' = header.litStates
        /\ literals' = << >> /\ records' = << >>
        /\ tables' = [c \in Range(Coders) |->
              DecoderTable(header.freqs[c], NStates[c], Extra[c], Base[c], tables[c])]
    BY <1>2, <2>2
  <2>4. block'.source = src /\ LitStream' = LitStream
    BY <1>1 DEF LitStream
  <2> HIDE DEF src
  <2>5. Trail(block'.source, lt, rt) /\ Carries(block', block'.source, lt, rt) /\ Announces(header', block'.source, lt, rt)
    BY <1>1, <2>2, <2>4
  <2>6. BuiltFor(block'.source, tables')
    <3>1. \A c \in Range(Coders) :
            tables'[c] = DecoderTable(FreqsOf(src)[c], NStates[c], Extra[c], Base[c], tables[c])
      BY <2>2, <2>3
    <3> QED
      BY <2>4, <3>1 DEF BuiltFor
  <2>7. LiteralsAt(block'.source, lt, LitStream', literals', states', in')
    <3>1. IsSource(src) /\ states' = lt[0].states
      BY <2>2, <2>3 DEF Trail, Announces
    <3>2. LiteralsAt(src, lt, LitStream, << >>, states', lit)
      BY <2>2, <3>1, LiteralsBegin
    <3> QED
      BY <2>3, <2>4, <3>2
  <2>8. stage' = "decode literals" /\ records' = << >>
    BY <2>3
  <2>9. Made(lt, rt)'
    BY <2>5, <2>6, <2>7, <2>8 DEF Made
  <2> QED
    BY <2>9
<1>10. ReadInv'
  BY <1>2 DEF ReadInv
<1> QED
  BY <1>3, <1>6, <1>8, <1>9, <1>10 DEF TraceInv

LEMMA NextGroup ==
    ASSUME NEW i \in Nat, i % Lanes = 0, NEW n \in Nat, n % Lanes = 0, i < n
    PROVE  i + Lanes <= n /\ (i + Lanes) % Lanes = 0
<1>1. Lanes \in Nat \ {0}
  BY EntropyAssumption
<1> DEFINE a == i \div Lanes
           b == n \div Lanes
<1>2. a \in Nat /\ i = a * Lanes + (i % Lanes) /\ b \in Nat /\ n = b * Lanes + (n % Lanes)
  BY <1>1, Division
<1> HIDE DEF a, b
<1>3. a * Lanes \in Nat /\ b * Lanes \in Nat
  BY <1>1, <1>2
<1>4. i = a * Lanes /\ n = b * Lanes
  BY <1>2, <1>3
<1> DEFINE c == a + 1
<1>5. c \in Nat /\ c * Lanes = a * Lanes + Lanes
  BY <1>1, <1>2
<1>6. c <= b
  <2>1. SUFFICES ASSUME b <= a PROVE FALSE
    BY <1>2
  <2>2. b * Lanes <= a * Lanes
    BY <1>1, <1>2, <2>1
  <2> QED
    BY <1>3, <1>4, <2>2
<1> HIDE DEF c
<1>7. c * Lanes <= b * Lanes
  BY <1>1, <1>2, <1>5, <1>6
<1>8. (c * Lanes + 0) % Lanes = 0
  <2>1. 0 \in 0 .. Lanes - 1
    BY <1>1
  <2> QED
    BY <1>1, <1>5, <2>1, Quotient
<1>9. c * Lanes + 0 = i + Lanes
  <2> DEFINE x == a * Lanes
             y == c * Lanes
  <2>1. x \in Nat /\ y = x + Lanes /\ i = x
    BY <1>3, <1>4, <1>5
  <2> HIDE DEF x, y
  <2>2. y + 0 = i + Lanes
    BY <1>1, <2>1
  <2> QED
    BY <2>2 DEF y
<1>10. i + Lanes <= n
  <2> DEFINE x == a * Lanes
             y == c * Lanes
             z == b * Lanes
  <2>1. x \in Nat /\ y = x + Lanes /\ i = x /\ n = z /\ z \in Nat /\ y <= z
    BY <1>3, <1>4, <1>5, <1>7
  <2> HIDE DEF x, y, z
  <2> QED
    BY <1>1, <2>1
<1> QED
  BY <1>8, <1>9, <1>10

\* A prefix, and the elements that follow it.
Continues(S, s, i, n, v) ==
    /\ s \in Seq(S) /\ i \in Nat /\ n \in Nat /\ i + n <= Len(s)
    /\ v \in Seq(S) /\ Len(v) = n /\ \A k \in 1 .. n : v[k] = s[i + k]

StartOf(p, s, n) == p = SubSeq(s, 1, n)
JoinOf(u, p, v) == u = p \o v

LEMMA LongerPrefix ==
    ASSUME NEW S, NEW s, NEW i, NEW n, NEW v, Continues(S, s, i, n, v),
           NEW p, StartOf(p, s, i), NEW u, JoinOf(u, p, v)
    PROVE  StartOf(u, s, i + n)
<1> DEFINE q == SubSeq(s, 1, i + n)
<1>0. /\ s \in Seq(S) /\ i \in Nat /\ n \in Nat /\ i + n <= Len(s)
      /\ v \in Seq(S) /\ Len(v) = n /\ \A k \in 1 .. n : v[k] = s[i + k]
  BY DEF Continues
<1>1. i <= Len(s) /\ i + n \in Nat
  BY <1>0
<1>2. p \in Seq(S) /\ Len(p) = i /\ \A k \in 1 .. i : p[k] = s[k]
  BY <1>0, <1>1 DEF StartOf
<1>3. q \in Seq(S) /\ Len(q) = i + n /\ \A k \in 1 .. i + n : q[k] = s[k]
  BY <1>0, <1>1
<1> HIDE DEF q
<1>4. u = p \o v /\ p \in Seq(S) /\ v \in Seq(S)
  BY <1>0, <1>2 DEF JoinOf
<1>5. /\ u \in Seq(S) /\ Len(u) = i + n
      /\ \A k \in 1 .. i : u[k] = p[k]
      /\ \A k \in 1 .. n : u[i + k] = v[k]
  <2>1. /\ u \in Seq(S) /\ Len(u) = Len(p) + Len(v)
        /\ \A k \in 1 .. Len(p) : u[k] = p[k]
        /\ \A k \in 1 .. Len(v) : u[Len(p) + k] = v[k]
    BY <1>4, JoinIs
  <2>2. Len(p) = i /\ Len(v) = n
    BY <1>0, <1>2
  <2> QED
    BY <2>1, <2>2
<1>6. ASSUME NEW k \in 1 .. i + n PROVE u[k] = q[k]
  <2>1. CASE k <= i
    <3>1. k \in 1 .. i
      BY <1>0, <2>1
    <3>2. u[k] = p[k] /\ p[k] = s[k] /\ q[k] = s[k]
      BY <1>2, <1>3, <1>5, <3>1
    <3> QED
      BY <3>2
  <2>2. CASE k > i
    <3> DEFINE j == k - i
    <3>1. j \in 1 .. n /\ k = i + j
      BY <1>0, <2>2
    <3> HIDE DEF j
    <3>2. u[i + j] = v[j]
      BY <1>5, <3>1
    <3>3. v[j] = s[i + j]
      BY <1>0, <3>1
    <3>4. q[i + j] = s[i + j]
      BY <1>3, <3>1
    <3> QED
      BY <3>1, <3>2, <3>3, <3>4
  <2> QED
    BY <1>0, <2>1, <2>2
<1>7. Len(u) = Len(q)
  BY <1>3, <1>5
<1>8. u = q
  <2>1. u \in Seq(S) /\ q \in Seq(S) /\ Len(u) = Len(q) /\ Len(q) = i + n
    BY <1>3, <1>5
  <2> DEFINE m == i + n
  <2>2. \A k \in 1 .. m : u[k] = q[k]
    BY <1>0, <1>6
  <2>3. Len(q) = m
    BY <2>1
  <2> HIDE DEF m
  <2>4. \A k \in 1 .. Len(q) : u[k] = q[k]
    BY <2>2, <2>3
  <2> QED
    BY <2>1, <2>4
<1> QED
  BY <1>8 DEF q, StartOf

\* A group more of the literals, read from where the trace was.
LEMMA LiteralsRead ==
    ASSUME NEW src, IsSource(src), NEW lt, NEW buf, NEW lits, NEW st, NEW s, LiteralsAt(src, lt, buf, lits, st, s),
           NEW i, i = Len(lits), i < Len(src.literals),
           NEW vals, vals \in Seq(DOMAIN Base["lit"]), Len(vals) = Lanes,
           \A k \in 1 .. Lanes : vals[k] = src.literals[i + k],
           NEW all, Backs(all, buf), NEW t, At(t, all, ByteBits * Len(HeaderTail), lt[i + Lanes])
    PROVE  LiteralsAt(src, lt, buf, lits \o vals, lt[i + Lanes].states, t)
<1>1. src.literals \in Seq(DOMAIN Base["lit"]) /\ Len(src.literals) \in Nat /\ Len(src.literals) % Lanes = 0
  BY DEF IsSource
<1>2. i \in 0 .. Len(src.literals) /\ i % Lanes = 0 /\ lits = SubSeq(src.literals, 1, i)
  BY DEF LiteralsAt
<1>3. i \in Nat
  BY <1>1, <1>2
<1>4. i + Lanes <= Len(src.literals) /\ (i + Lanes) % Lanes = 0
  BY <1>1, <1>2, <1>3, NextGroup
<1>5. Lanes \in Nat
  BY EntropyAssumption
<1>6. lits \o vals = SubSeq(src.literals, 1, i + Lanes)
  <2> DEFINE S == DOMAIN Base["lit"]
             all2 == src.literals
  <2>1. all2 \in Seq(S) /\ vals \in Seq(S)
    BY <1>1
  <2>2. i + Lanes <= Len(all2) /\ \A k \in 1 .. Lanes : vals[k] = all2[i + k]
    BY <1>4
  <2>3. lits = SubSeq(all2, 1, i)
    BY <1>2
  <2> HIDE DEF S, all2
  <2>4. Continues(S, all2, i, Lanes, vals)
    BY <1>3, <1>5, <2>1, <2>2 DEF Continues
  <2> DEFINE new == lits \o vals
  <2>5. StartOf(lits, all2, i) /\ JoinOf(new, lits, vals)
    BY <2>3 DEF StartOf, JoinOf
  <2> HIDE DEF new
  <2>6. StartOf(new, all2, i + Lanes)
    BY <2>4, <2>5, LongerPrefix
  <2> QED
    BY <2>6 DEF all2, StartOf, new
<1>7. Len(lits \o vals) = i + Lanes
  BY <1>1, <1>3, <1>4, <1>5, <1>6
<1> DEFINE new == lits \o vals
           m == i + Lanes
<1>8. new = SubSeq(src.literals, 1, m) /\ Len(new) = m
  BY <1>6, <1>7
<1>9. m \in 0 .. Len(src.literals) /\ m % Lanes = 0
  BY <1>1, <1>3, <1>4, <1>5
<1>10. At(t, all, ByteBits * Len(HeaderTail), lt[m])
  OBVIOUS
<1> HIDE DEF new, m
<1>11. LiteralsAt(src, lt, buf, new, lt[m].states, t)
  BY <1>8, <1>9, <1>10 DEF LiteralsAt
<1> QED
  BY <1>11 DEF new, m

\* The values of a group, as a sequence.
ValuesOf(vals, taken) == vals = [k \in 1 .. Lanes |-> taken[k].value]

LEMMA GroupValues ==
    ASSUME NEW src, IsSource(src), NEW i \in Nat, i + Lanes <= Len(src.literals), NEW taken,
           GroupOf(src, i, taken), NEW vals, ValuesOf(vals, taken)
    PROVE  /\ vals \in Seq(DOMAIN Base["lit"]) /\ Len(vals) = Lanes
           /\ \A k \in 1 .. Lanes : vals[k] = src.literals[i + k]
<1>1. Lanes \in Nat
  BY EntropyAssumption
<1> DEFINE lits == src.literals
           S == DOMAIN Base["lit"]
<1>2. lits \in Seq(S)
  BY DEF IsSource
<1>3. \A k \in 1 .. Lanes : vals[k] = lits[i + k]
  BY DEF GroupOf, ValuesOf
<1>4. i + Lanes <= Len(lits)
  OBVIOUS
<1> HIDE DEF lits, S
<1>5. ASSUME NEW k \in 1 .. Lanes PROVE lits[i + k] \in S
  <2>1. i + k \in 1 .. Len(lits)
    BY <1>1, <1>2, <1>4
  <2> QED
    BY <1>2, <2>1
<1>6. vals \in [1 .. Lanes -> S]
  <2>1. \A k \in 1 .. Lanes : vals[k] \in S
    BY <1>3, <1>5
  <2>2. vals = [k \in 1 .. Lanes |-> taken[k].value] /\ \A k \in 1 .. Lanes : vals[k] = taken[k].value
    BY DEF ValuesOf
  <2> QED
    BY <2>1, <2>2
<1>7. vals \in Seq(S) /\ Len(vals) = Lanes
  BY <1>1, <1>6
<1> QED
  BY <1>3, <1>7 DEF S, lits

\* What DecodeGroup takes of a block of this encoder.
LEMMA HonestGroup ==
    ASSUME NEW src, NEW lt, IsSource(src), LitTraced(src, lt, 0), BuiltFor(src, tables),
           header.nLiterals = Len(src.literals), Len(literals) < header.nLiterals,
           LitStream \in Seq(Byte), Sound(in, LitStream),
           LiteralsAt(src, lt, LitStream, literals, states, in),
           NEW taken, NEW s, s = InFlush(in, LitStream),
           AllTaken(taken, s, tables["lit"], states, LitStream), NEW vals, ValuesOf(vals, taken)
    PROVE  LiteralsAt(src, lt, LitStream, literals \o vals, LanesOf(taken), taken[Lanes].stream)
<1> DEFINE i == Len(literals)
           buf == LitStream
           pre == ByteBits * Len(HeaderTail)
           table == tables["lit"]
<1>1. /\ i \in 0 .. Len(src.literals) /\ i % Lanes = 0 /\ states = lt[i].states
      /\ \E all : Backs(all, buf) /\ At(in, all, pre, lt[i])
  BY DEF LiteralsAt
<1>2. PICK all : Backs(all, buf) /\ At(in, all, pre, lt[i])
  BY <1>1
<1>3. PICK olds : \A c \in Range(Coders) :
                    tables[c] = DecoderTable(FreqsOf(src)[c], NStates[c], Extra[c], Base[c], olds[c])
  BY DEF BuiltFor
<1>4. LitTable(src, table)
  <2>1. table = DecoderTable(FreqsOf(src)["lit"], NStates["lit"], Extra["lit"], Base["lit"], olds["lit"])
    BY <1>3, TheCoders
  <2> QED
    BY <2>1 DEF LitTable
<1>5. i \in Nat /\ i < Len(src.literals) /\ Len(src.literals) \in Nat /\ Len(src.literals) % Lanes = 0
  <2>1. Len(src.literals) \in Nat /\ Len(src.literals) % Lanes = 0
    BY DEF IsSource
  <2>2. i < Len(src.literals)
    OBVIOUS
  <2> QED
    BY <1>1, <2>1, <2>2
<1>6. i + Lanes <= Len(src.literals)
  <2> HIDE DEF i
  <2> QED
    BY <1>1, <1>5, NextGroup
<1>7. buf \in Seq(Byte) /\ Sound(in, buf) /\ s = InFlush(in, buf)
  OBVIOUS
<1> HIDE DEF buf, pre, table, i
<1>8. At(s, all, pre, lt[i])
  BY <1>2, <1>7, FlushAt
<1>9. all \in Seq(Bit) /\ pre \in Nat
  <2>1. all \in Seq(Bit)
    BY <1>2 DEF Backs
  <2>2. Len(HeaderTail) \in Nat
    BY EntropyAssumption
  <2> QED
    BY <2>1, <2>2, ByteTimes DEF pre
<1>10. AllTaken(taken, s, table, lt[i].states, buf)
  BY <1>1 DEF table, buf
<1>11. /\ At(taken[Lanes].stream, all, pre, lt[i + Lanes])
       /\ GroupOf(src, i, taken) /\ LanesOf(taken) = lt[i + Lanes].states
  <2>1. GroupDue(src, i)
    BY <1>1, <1>5, <1>6 DEF GroupDue
  <2>2. GroupGot(src, lt, i, all, pre, taken)
    BY <1>4, <1>8, <1>9, <1>10, <2>1, GroupBack
  <2> QED
    BY <2>2 DEF GroupGot
<1>12. /\ vals \in Seq(DOMAIN Base["lit"]) /\ Len(vals) = Lanes
       /\ \A k \in 1 .. Lanes : vals[k] = src.literals[i + k]
  BY <1>5, <1>6, <1>11, GroupValues
<1>13. i = Len(literals)
  BY DEF i
<1>14. At(taken[Lanes].stream, all, ByteBits * Len(HeaderTail), lt[i + Lanes])
  BY <1>11 DEF pre
<1>15. LiteralsAt(src, lt, buf, literals, states, in)
  BY DEF buf
<1>16. LiteralsAt(src, lt, buf, literals \o vals, lt[i + Lanes].states, taken[Lanes].stream)
  BY <1>2, <1>5, <1>12, <1>13, <1>14, <1>15, LiteralsRead
<1> QED
  BY <1>11, <1>16 DEF buf

\* The group a state of the decoder takes, from GroupTaken.
LEMMA GroupDecoded ==
    ASSUME CodecInv, DecodeGroup
    PROVE  \E taken, vals :
             /\ LitStream \in Seq(Byte) /\ Sound(in, LitStream)
             /\ AllTaken(taken, InFlush(in, LitStream), tables["lit"], states, LitStream)
             /\ in' = taken[Lanes].stream /\ states' = LanesOf(taken)
             /\ ValuesOf(vals, taken) /\ literals' = literals \o vals
<1> DEFINE s == InFlush(in, LitStream)
           table == tables["lit"]
           GroupFrom(g) == [j \in 1 .. Lanes |->
                          Take(IF j = 1 THEN InFlush(in, LitStream) ELSE g[j - 1].stream, tables["lit"], states[j])]
           taken == CHOOSE g : g = GroupFrom(g)
           vals == [j \in 1 .. Lanes |-> taken[j].value]
<1>1. stage = "decode literals"
  BY DEF DecodeGroup
<1>2. in' = taken[Lanes].stream /\ states' = [j \in 1 .. Lanes |-> taken[j].state] /\ literals' = literals \o vals
  BY DEF DecodeGroup
<1>3. /\ block.payload \in Seq(Byte) /\ FieldsRead(header)
      /\ header.nLitPayload + header.nLMDPayload <= Len(block.payload)
      /\ Sound(in, LitStream) /\ Ready(in, 0)
  BY <1>1 DEF CodecInv, AcceptedInv, PayloadInv, LitStreamInv
<1>4. LitStream \in Seq(Byte)
  BY <1>3, StreamsAre DEF FieldsRead
<1> DEFINE x == Lanes * MaxBits("lit")
<1>5. x \in Nat /\ x <= WordBits - ByteBits
  <2>1. MaxBits("lit") \in Nat /\ Lanes \in Nat
    <3>1. Lanes \in Nat
      BY EntropyAssumption
    <3> QED
      BY <3>1, MaxBitsFit, TheCoders
  <2>2. \A a, b \in Nat : a * b \in Nat
    OBVIOUS
  <2>3. x <= WordBits - ByteBits
    BY EntropyAssumption
  <2> QED
    BY <2>1, <2>2, <2>3
<1> HIDE DEF x
<1>6. Sound(s, LitStream) /\ Ready(s, x)
  BY <1>3, <1>4, <1>5, FlushedIs
<1>7. TableOK(table, "lit")
  BY TheCoders DEF CodecInv, TablesInv
<1>8. \A j \in 1 .. Lanes : states[j] \in 0 .. NStates["lit"] - 1
  BY <1>1 DEF CodecInv, StatesInTables
<1> HIDE DEF s, table
<1>9. \A j \in 1 .. Lanes :
        TakenOne(taken[j], IF j = 1 THEN s ELSE taken[j - 1].stream, table, states[j], LitStream)
  <2>1. Ready(s, Lanes * MaxBits("lit"))
    BY <1>6 DEF x
  <2> QED
    BY <1>6, <1>7, <1>8, <2>1, GroupTaken DEF s, table
<1> HIDE DEF taken
<1>10. AllTaken(taken, s, table, states, LitStream)
  BY <1>9 DEF AllTaken
<1>11. states' = LanesOf(taken)
  BY <1>2 DEF LanesOf
<1>12. ValuesOf(vals, taken)
  BY DEF ValuesOf
<1> HIDE DEF vals
<1>13. /\ LitStream \in Seq(Byte) /\ Sound(in, LitStream)
       /\ AllTaken(taken, InFlush(in, LitStream), tables["lit"], states, LitStream)
       /\ in' = taken[Lanes].stream /\ states' = LanesOf(taken)
       /\ ValuesOf(vals, taken) /\ literals' = literals \o vals
  BY <1>2, <1>3, <1>4, <1>10, <1>11, <1>12 DEF s, table
<1> QED
  BY <1>13

LEMMA DecodeGroupTraces ==
    ASSUME CodecInv, TraceInv, DecodeGroup
    PROVE  TraceInv'
<1>1. /\ stage = "decode literals" /\ Len(literals) < header.nLiterals
      /\ UNCHANGED <<queue, stage, block, header, enc, tables, records>>
  BY DEF DecodeGroup
<1>2. SourceInv' /\ (Honest' <=> Honest) /\ LitStream' = LitStream
  <2>1. LitStream' = LitStream
    BY <1>1 DEF LitStream
  <2> QED
    BY <1>1, <2>1, SameBlock
<1>3. PICK taken, vals :
             /\ LitStream \in Seq(Byte) /\ Sound(in, LitStream)
             /\ AllTaken(taken, InFlush(in, LitStream), tables["lit"], states, LitStream)
             /\ in' = taken[Lanes].stream /\ states' = LanesOf(taken)
             /\ ValuesOf(vals, taken) /\ literals' = literals \o vals
  BY GroupDecoded
<1>4. MadeInv'
  <2> SUFFICES ASSUME Honest', stage' \in Decoding PROVE \E lt, rt : Made(lt, rt)'
    BY DEF MadeInv
  <2>1. PICK lt, rt : Made(lt, rt)
    <3>1. stage \in Decoding
      BY <1>1
    <3> QED
      BY <1>2, <3>1, MadeNow
  <2> DEFINE src == block.source
  <2>2. /\ Trail(src, lt, rt) /\ Carries(block, src, lt, rt) /\ Announces(header, src, lt, rt)
        /\ BuiltFor(src, tables) /\ LiteralsAt(src, lt, LitStream, literals, states, in) /\ records = << >>
    BY <1>1, <2>1 DEF Made
  <2>3. block'.source = src
    BY <1>1
  <2> HIDE DEF src
  <2>4. IsSource(src) /\ LitTraced(src, lt, 0) /\ header.nLiterals = Len(src.literals)
    BY <2>2 DEF Trail, Announces, Says
  <2>5. LiteralsAt(src, lt, LitStream, literals \o vals, LanesOf(taken), taken[Lanes].stream)
    BY <1>1, <1>3, <2>2, <2>4, HonestGroup
  <2>6. LiteralsAt(block'.source, lt, LitStream', literals', states', in')
    BY <1>2, <1>3, <2>3, <2>5
  <2>7. /\ Trail(block'.source, lt, rt) /\ Carries(block', block'.source, lt, rt)
        /\ Announces(header', block'.source, lt, rt) /\ BuiltFor(block'.source, tables') /\ records' = << >>
    BY <1>1, <2>2, <2>3
  <2>8. stage' = "decode literals"
    BY <1>1
  <2>9. Made(lt, rt)'
    BY <2>6, <2>7, <2>8 DEF Made
  <2> QED
    BY <2>9
<1>5. OwnTablesInv' /\ RecordsTracedInv' /\ LiteralsTracedInv'
  <2>1. stage' \notin {"encode records", "encode literals"}
    BY <1>1
  <2> QED
    BY <2>1, NotEncoding
<1>6. RefusedInv' /\ ReadInv'
  BY <1>1 DEF RefusedInv, ReadInv
<1> QED
  BY <1>2, <1>4, <1>5, <1>6 DEF TraceInv

\* A source's records, when its literals are all read.
LEMMA RecordsBegin ==
    ASSUME NEW src, IsSource(src), NEW lt, NEW rt, NEW before, NEW st, NEW s,
           NEW lits, Len(lits) = Len(src.literals), LiteralsAt(src, lt, before, lits, st, s),
           NEW u, u = rt[0].states, NEW buf, NEW t, Opens(buf, LMDPadding, t, rt[0])
    PROVE  RecordsAt(src, rt, buf, lits, << >>, u, t)
<1>1. /\ src.literals \in Seq(DOMAIN Base["lit"]) /\ Len(src.literals) \in Nat
      /\ src.records \in Seq([LMD -> Nat]) /\ Len(src.records) \in Nat
  BY DEF IsSource
<1>2. lits = SubSeq(src.literals, 1, Len(src.literals))
  BY DEF LiteralsAt
<1>3. lits = src.literals
  BY <1>1, <1>2
<1>4. SubSeq(src.records, 1, 0) = << >> /\ Len(<< >>) = 0 /\ 0 \in 0 .. Len(src.records)
  BY <1>1
<1>5. Len(LMDPadding) = WordBytes
  BY PaddingIs
<1>6. PICK all : Backs(all, buf) /\ At(t, all, ByteBits * WordBytes, rt[0])
  BY <1>5 DEF Opens
<1> QED
  BY <1>3, <1>4, <1>6 DEF RecordsAt

LEMMA StartRecordsTraces ==
    ASSUME CodecInv, TraceInv, StartRecords
    PROVE  TraceInv'
<1> DEFINE lmd == InInit(LMDStream, header.lmdBits)
<1>1. /\ stage = "decode literals" /\ Len(literals) = header.nLiterals
      /\ UNCHANGED <<queue, block, header, enc, tables, literals, records>>
  BY DEF StartRecords
<1>2. \/ lmd.ok /\ stage' = "decode records" /\ in' = lmd /\ states' = header.lmdStates
      \/ ~ lmd.ok /\ stage' = "error"
  BY DEF StartRecords
<1> HIDE DEF lmd
<1>3. SourceInv' /\ (Honest' <=> Honest) /\ LMDStream' = LMDStream
  <2>1. LMDStream' = LMDStream
    BY <1>1 DEF LMDStream
  <2> QED
    BY <1>1, <2>1, SameBlock
<1>4. ASSUME NEW lt, NEW rt, Made(lt, rt)
      PROVE  /\ Trail(block.source, lt, rt) /\ Carries(block, block.source, lt, rt)
             /\ Announces(header, block.source, lt, rt) /\ BuiltFor(block.source, tables)
             /\ LiteralsAt(block.source, lt, LitStream, literals, states, in) /\ records = << >>
             /\ Opens(LMDStream, LMDPadding, lmd, rt[0]) /\ lmd.ok
  <2>1. /\ Trail(block.source, lt, rt) /\ Carries(block, block.source, lt, rt)
        /\ Announces(header, block.source, lt, rt) /\ BuiltFor(block.source, tables)
        /\ LiteralsAt(block.source, lt, LitStream, literals, states, in) /\ records = << >>
    BY <1>1, <1>4 DEF Made
  <2>2. Opens(LMDStream, LMDPadding, lmd, rt[0])
    BY <2>1, HonestOpens DEF lmd
  <2> QED
    BY <2>1, <2>2 DEF Opens
<1>5. Honest => \E lt, rt : Made(lt, rt)
  <2>1. stage \in Decoding
    BY <1>1 DEF Decoding
  <2> QED
    BY <2>1, MadeNow
<1>6. RefusedInv'
  <2>1. Honest => lmd.ok
    BY <1>4, <1>5
  <2> QED
    BY <1>2, <1>3, <2>1 DEF RefusedInv
<1>7. MadeInv'
  <2> SUFFICES ASSUME Honest', stage' \in Decoding PROVE \E lt, rt : Made(lt, rt)'
    BY DEF MadeInv
  <2>1. PICK lt, rt : Made(lt, rt)
    BY <1>3, <1>5
  <2> DEFINE src == block.source
  <2>2. /\ Trail(src, lt, rt) /\ Carries(block, src, lt, rt) /\ Announces(header, src, lt, rt)
        /\ BuiltFor(src, tables) /\ LiteralsAt(src, lt, LitStream, literals, states, in) /\ records = << >>
        /\ Opens(LMDStream, LMDPadding, lmd, rt[0]) /\ lmd.ok
    BY <1>4, <2>1
  <2>3. block'.source = src
    BY <1>1
  <2> HIDE DEF src
  <2>4. stage' = "decode records" /\ in' = lmd /\ states' = header.lmdStates
    BY <1>2, <2>2
  <2>5. IsSource(src) /\ header.nLiterals = Len(src.literals) /\ header.lmdStates = rt[0].states
    BY <2>2 DEF Trail, Announces, Says
  <2>6. RecordsAt(src, rt, LMDStream, literals, << >>, header.lmdStates, lmd)
    <3>1. Len(literals) = Len(src.literals)
      BY <1>1, <2>5
    <3> QED
      BY <2>2, <2>5, <3>1, RecordsBegin
  <2>7. RecordsAt(block'.source, rt, LMDStream', literals', records', states', in')
    BY <1>1, <1>3, <2>2, <2>3, <2>4, <2>6
  <2>8. /\ Trail(block'.source, lt, rt) /\ Carries(block', block'.source, lt, rt)
        /\ Announces(header', block'.source, lt, rt) /\ BuiltFor(block'.source, tables')
    BY <1>1, <2>2, <2>3
  <2>9. stage' = "decode records"
    BY <2>4
  <2>10. Made(lt, rt)'
    BY <2>7, <2>8, <2>9 DEF Made
  <2> QED
    BY <2>10
<1>8. OwnTablesInv' /\ RecordsTracedInv' /\ LiteralsTracedInv'
  <2>1. stage' \notin {"encode records", "encode literals"}
    BY <1>2
  <2> QED
    BY <2>1, NotEncoding
<1>9. ReadInv'
  BY <1>2 DEF ReadInv
<1> QED
  BY <1>3, <1>6, <1>7, <1>8, <1>9 DEF TraceInv

LEMMA OneLongerPrefix ==
    ASSUME NEW S, NEW s \in Seq(S), NEW i \in Nat, i < Len(s), NEW p, StartOf(p, s, i), NEW v, v = s[i + 1]
    PROVE  StartOf(Append(p, v), s, i + 1)
<1> DEFINE m == i + 1
           q == SubSeq(s, 1, m)
           u == Append(p, v)
<1>1. m \in 1 .. Len(s) /\ i \in 0 .. Len(s) /\ m - 1 = i
  OBVIOUS
<1>2. v \in S
  <2>1. s[m] \in S
    BY <1>1
  <2> QED
    BY <2>1
<1>3. p \in Seq(S) /\ Len(p) = i /\ \A k \in 1 .. i : p[k] = s[k]
  BY <1>1 DEF StartOf
<1>4. q \in Seq(S) /\ Len(q) = m /\ \A k \in 1 .. m : q[k] = s[k]
  BY <1>1
<1>5. u \in Seq(S) /\ Len(u) = Len(p) + 1 /\ u[Len(p) + 1] = v /\ \A k \in 1 .. Len(p) : u[k] = p[k]
  BY <1>2, <1>3
<1>6. Len(u) = m /\ u[m] = v /\ \A k \in 1 .. i : u[k] = p[k]
  BY <1>3, <1>5
<1>7. v = s[m]
  OBVIOUS
<1> HIDE DEF q, u, m
<1>8. ASSUME NEW k \in 1 .. m PROVE u[k] = q[k]
  <2>1. CASE k = m
    BY <1>1, <1>4, <1>6, <1>7, <2>1
  <2>2. CASE k # m
    <3>1. k \in 1 .. i
      BY <1>1, <2>2
    <3> QED
      BY <1>3, <1>4, <1>6, <3>1
  <2> QED
    BY <2>1, <2>2
<1>9. \A k \in 1 .. Len(q) : u[k] = q[k]
  BY <1>4, <1>8
<1>10. u = q
  BY <1>4, <1>5, <1>6, <1>9
<1> QED
  BY <1>10 DEF StartOf, u, q, m

\* A record more, read from where the trace was.
LEMMA RecordsRead ==
    ASSUME NEW src, IsSource(src), NEW rt, NEW buf, NEW lits, NEW recs, NEW st, NEW s,
           RecordsAt(src, rt, buf, lits, recs, st, s), NEW i, i = Len(recs), i < Len(src.records),
           NEW r, r = src.records[i + 1],
           NEW all, Backs(all, buf), NEW t, At(t, all, ByteBits * WordBytes, rt[i + 1])
    PROVE  RecordsAt(src, rt, buf, lits, Append(recs, r), rt[i + 1].states, t)
<1> DEFINE S == [LMD -> Nat]
           rs == src.records
           new == Append(recs, r)
           m == i + 1
<1>1. rs \in Seq(S) /\ Len(rs) \in Nat
  BY DEF IsSource
<1>2. lits = src.literals /\ i \in 0 .. Len(rs) /\ StartOf(recs, rs, i)
  BY DEF RecordsAt, StartOf
<1>3. i \in Nat /\ i < Len(rs) /\ r = rs[i + 1] /\ m \in 0 .. Len(rs)
  BY <1>1, <1>2
<1> HIDE DEF S, rs
<1>4. StartOf(Append(recs, r), rs, i + 1)
  BY <1>1, <1>2, <1>3, OneLongerPrefix
<1>5. StartOf(new, rs, m)
  BY <1>4
<1>6. Len(new) = m
  <2> HIDE DEF new, m
  <2> QED
    BY <1>1, <1>3, <1>5 DEF StartOf
<1>7. At(t, all, ByteBits * WordBytes, rt[m])
  OBVIOUS
<1> HIDE DEF new, m
<1>8. RecordsAt(src, rt, buf, lits, new, rt[m].states, t)
  BY <1>2, <1>3, <1>5, <1>6, <1>7 DEF RecordsAt, StartOf, rs
<1> QED
  BY <1>8 DEF new, m

\* What DecodeRecord takes of a block of this encoder.
RecordsDue(src, rt) ==
    /\ stage = "decode records"
    /\ IsSource(src) /\ WithinLimits(src) /\ RecTraced(src, rt, 0) /\ BuiltFor(src, tables)
    /\ Len(records) < Len(src.records) /\ RecordsAt(src, rt, LMDStream, literals, records, states, in)

LEMMA HonestRecord ==
    ASSUME CodecInv, NEW src, NEW rt, RecordsDue(src, rt), NEW l, NEW m, NEW d, RecTaken(tables, LMDStream, in, states, l, m, d)
    PROVE  RecordsAt(src, rt, LMDStream, literals, Append(records, [l |-> l.value, m |-> m.value, d |-> d.value]),
                     [l |-> l.state, m |-> m.state, d |-> d.state], d.stream)
<1> DEFINE i == Len(records)
           buf == LMDStream
           pre == ByteBits * WordBytes
           r == [l |-> l.value, m |-> m.value, d |-> d.value]
           st == [l |-> l.state, m |-> m.state, d |-> d.state]
<1>0. /\ IsSource(src) /\ WithinLimits(src) /\ RecTraced(src, rt, 0) /\ BuiltFor(src, tables)
      /\ i < Len(src.records) /\ RecordsAt(src, rt, buf, literals, records, states, in)
  BY DEF RecordsDue
<1>1. i \in 0 .. Len(src.records) /\ states = rt[i].states /\ i < Len(src.records)
  BY <1>0 DEF RecordsAt
<1>2. PICK all : Backs(all, buf) /\ At(in, all, pre, rt[i])
  BY <1>0 DEF RecordsAt
<1>3. src.records \in Seq([LMD -> Nat]) /\ Len(src.records) \in Nat
  BY <1>0 DEF IsSource
<1>4. /\ block.payload \in Seq(Byte) /\ FieldsRead(header)
      /\ header.nLitPayload + header.nLMDPayload <= Len(block.payload)
      /\ Sound(in, LMDStream) /\ Ready(in, 0)
  <2>1. stage = "decode records"
    BY DEF RecordsDue
  <2> QED
    BY <2>1 DEF CodecInv, AcceptedInv, PayloadInv, LMDStreamInv
<1>5. LMDStream \in Seq(Byte)
  BY <1>4, StreamsAre DEF FieldsRead
<1>6. \A c \in LMD : TableOK(tables[c], c)
  <2>1. \A c \in LMD : c \in Range(Coders)
    BY TheCoders DEF LMD
  <2> QED
    BY <2>1 DEF CodecInv, TablesInv
<1>7. pre \in Nat
  BY WordIs, ByteTimes
<1>14. i = Len(records)
  BY DEF i
<1> HIDE DEF pre, i
<1>8. i \in Nat
  BY <1>1, <1>3
<1>9. RecTaken(tables, buf, in, rt[i].states, l, m, d)
  BY <1>1
<1>10. RecordDue(src, rt, i, tables, buf, all, pre, in, l, m, d)
  BY <1>0, <1>1, <1>2, <1>4, <1>5, <1>6, <1>7, <1>8, <1>9 DEF RecordDue
<1>11. /\ At(d.stream, all, pre, rt[i + 1])
       /\ l.value = src.records[i + 1]["l"] /\ m.value = src.records[i + 1]["m"]
       /\ d.value = src.records[i + 1]["d"]
       /\ st = rt[i + 1].states
  <2>1. RecordGot(src, rt, i, all, pre, l, m, d)
    BY <1>10, RecordBack
  <2> QED
    BY <2>1 DEF RecordGot
<1>12. r = src.records[i + 1]
  <2>1. i + 1 \in 1 .. Len(src.records)
    BY <1>1, <1>3, <1>8
  <2> DEFINE w == src.records[i + 1]
  <2>2. w \in [LMD -> Nat]
    BY <1>3, <2>1
  <2>3. r.l = w["l"] /\ r.m = w["m"] /\ r.d = w["d"]
    BY <1>11
  <2> HIDE DEF w
  <2>4. w = [c \in LMD |-> w[c]] /\ LMD = {"l", "m", "d"}
    BY <2>2 DEF LMD
  <2>5. r = [c \in LMD |-> r[c]]
    BY DEF LMD
  <2>6. \A c \in LMD : r[c] = w[c]
    BY <2>3 DEF LMD
  <2> HIDE DEF r
  <2>7. r = w
    BY <2>4, <2>5, <2>6
  <2> QED
    BY <2>7 DEF w
<1>13. At(d.stream, all, ByteBits * WordBytes, rt[i + 1])
  BY <1>11 DEF pre
<1> HIDE DEF buf, r, st
<1>16. RecordsAt(src, rt, buf, literals, Append(records, r), rt[i + 1].states, d.stream)
  BY <1>0, <1>1, <1>2, <1>12, <1>13, <1>14, RecordsRead DEF buf
<1>17. RecordsAt(src, rt, LMDStream, literals, Append(records, r), st, d.stream)
  BY <1>11, <1>16 DEF buf
<1> QED
  BY <1>17 DEF r, st

LEMMA DecodeRecordTraces ==
    ASSUME CodecInv, TraceInv, DecodeRecord
    PROVE  TraceInv'
<1> DEFINE l == Take(InFlush(in, LMDStream), tables["l"], states["l"])
           m == Take(l.stream, tables["m"], states["m"])
           d == Take(InFlush(m.stream, LMDStream), tables["d"], states["d"])
<1>1. /\ stage = "decode records" /\ Len(records) < header.nMatches
      /\ UNCHANGED <<queue, stage, block, header, enc, tables, literals>>
  BY DEF DecodeRecord
<1>2. /\ in' = d.stream /\ states' = [l |-> l.state, m |-> m.state, d |-> d.state]
      /\ records' = Append(records, [l |-> l.value, m |-> m.value, d |-> d.value])
  BY DEF DecodeRecord
<1>3. RecTaken(tables, LMDStream, in, states, l, m, d)
  BY DEF RecTaken
<1> HIDE DEF l, m, d
<1>4. SourceInv' /\ (Honest' <=> Honest) /\ LMDStream' = LMDStream
  <2>1. LMDStream' = LMDStream
    BY <1>1 DEF LMDStream
  <2> QED
    BY <1>1, <2>1, SameBlock
<1>5. MadeInv'
  <2> SUFFICES ASSUME Honest', stage' \in Decoding PROVE \E lt, rt : Made(lt, rt)'
    BY DEF MadeInv
  <2>1. PICK lt, rt : Made(lt, rt)
    <3>1. stage \in Decoding
      BY <1>1
    <3> QED
      BY <1>4, <3>1, MadeNow
  <2> DEFINE src == block.source
  <2>2. /\ Trail(src, lt, rt) /\ Carries(block, src, lt, rt) /\ Announces(header, src, lt, rt)
        /\ BuiltFor(src, tables) /\ RecordsAt(src, rt, LMDStream, literals, records, states, in)
    BY <1>1, <2>1 DEF Made
  <2>3. block'.source = src
    BY <1>1
  <2> HIDE DEF src
  <2>4. RecordsDue(src, rt)
    <3>1. IsSource(src) /\ WithinLimits(src) /\ RecTraced(src, rt, 0) /\ header.nMatches = Len(src.records)
      BY <2>2 DEF Trail, Announces, Says
    <3> QED
      BY <1>1, <2>2, <3>1 DEF RecordsDue
  <2>5. RecordsAt(src, rt, LMDStream, literals, records', states', in')
    BY <1>2, <1>3, <2>4, HonestRecord
  <2>6. RecordsAt(block'.source, rt, LMDStream', literals', records', states', in')
    BY <1>1, <1>4, <2>3, <2>5
  <2>7. /\ Trail(block'.source, lt, rt) /\ Carries(block', block'.source, lt, rt)
        /\ Announces(header', block'.source, lt, rt) /\ BuiltFor(block'.source, tables')
    BY <1>1, <2>2, <2>3
  <2>8. stage' = "decode records"
    BY <1>1
  <2>9. Made(lt, rt)'
    BY <2>6, <2>7, <2>8 DEF Made
  <2> QED
    BY <2>9
<1>6. OwnTablesInv' /\ RecordsTracedInv' /\ LiteralsTracedInv'
  <2>1. stage' \notin {"encode records", "encode literals"}
    BY <1>1
  <2> QED
    BY <2>1, NotEncoding
<1>7. RefusedInv' /\ ReadInv'
  BY <1>1 DEF RefusedInv, ReadInv
<1> QED
  BY <1>4, <1>5, <1>6, <1>7 DEF TraceInv

LEMMA EndBlockTraces ==
    ASSUME CodecInv, TraceInv, EndBlock
    PROVE  TraceInv'
<1>1. /\ stage = "decode records" /\ Len(records) = header.nMatches /\ stage' = "decoded"
      /\ UNCHANGED <<queue, block, header, enc, tables, in, states, literals, records>>
  BY DEF EndBlock, decoding
<1>2. SourceInv' /\ (Honest' <=> Honest) /\ LMDStream' = LMDStream
  <2>1. LMDStream' = LMDStream
    BY <1>1 DEF LMDStream
  <2> QED
    BY <1>1, <2>1, SameBlock
<1>3. MadeInv'
  <2> SUFFICES ASSUME Honest', stage' \in Decoding PROVE \E lt, rt : Made(lt, rt)'
    BY DEF MadeInv
  <2>1. PICK lt, rt : Made(lt, rt)
    <3>1. stage \in Decoding
      BY <1>1 DEF Decoding
    <3> QED
      BY <1>2, <3>1, MadeNow
  <2> DEFINE src == block.source
  <2>2. /\ Trail(src, lt, rt) /\ Carries(block, src, lt, rt) /\ Announces(header, src, lt, rt)
        /\ RecordsAt(src, rt, LMDStream, literals, records, states, in)
    BY <1>1, <2>1 DEF Made
  <2>3. block'.source = src
    BY <1>1
  <2> HIDE DEF src
  <2>4. header.nMatches = Len(src.records)
    BY <2>2 DEF Announces, Says
  <2>5. Len(records') = Len(block'.source.records)
    BY <1>1, <2>3, <2>4
  <2>6. /\ Trail(block'.source, lt, rt) /\ Carries(block', block'.source, lt, rt)
        /\ Announces(header', block'.source, lt, rt)
        /\ RecordsAt(block'.source, rt, LMDStream', literals', records', states', in')
    BY <1>1, <1>2, <2>2, <2>3
  <2>7. stage' = "decoded"
    BY <1>1
  <2>8. Made(lt, rt)'
    BY <2>5, <2>6, <2>7 DEF Made
  <2> QED
    BY <2>8
<1>4. OwnTablesInv' /\ RecordsTracedInv' /\ LiteralsTracedInv'
  <2>1. stage' \notin {"encode records", "encode literals"}
    BY <1>1
  <2> QED
    BY <2>1, NotEncoding
<1>5. RefusedInv' /\ ReadInv'
  BY <1>1 DEF RefusedInv, ReadInv
<1> QED
  BY <1>2, <1>3, <1>4, <1>5 DEF TraceInv

LEMMA StutterTraces ==
    ASSUME TraceInv, UNCHANGED vars
    PROVE  TraceInv'
<1>1. UNCHANGED <<queue, stage, block, header, enc, tables, in, states, literals, records>>
  BY DEF vars
<1>2. LitStream' = LitStream /\ LMDStream' = LMDStream
  BY <1>1 DEF LitStream, LMDStream
<1>3. SourceInv' /\ (Honest' <=> Honest) /\ FreqsRead' = FreqsRead /\ HeaderRead' = HeaderRead
  BY <1>1, SameBlock
<1>4. OwnTablesInv' /\ RecordsTracedInv'
  BY <1>1, <1>3 DEF TraceInv, OwnTablesInv, RecordsTracedInv
<1>5. LiteralsTracedInv'
  BY <1>1 DEF TraceInv, LiteralsTracedInv, LMDMade
<1>6. RefusedInv' /\ ReadInv'
  BY <1>1, <1>3 DEF TraceInv, RefusedInv, ReadInv
<1>7. MadeInv'
  <2> SUFFICES ASSUME Honest', stage' \in Decoding PROVE \E lt, rt : Made(lt, rt)'
    BY DEF MadeInv
  <2>1. PICK lt, rt : Made(lt, rt)
    BY <1>1, <1>3, MadeNow
  <2>2. Made(lt, rt)'
    BY <1>1, <1>2, <2>1 DEF Made
  <2> QED
    BY <2>2
<1> QED
  BY <1>3, <1>4, <1>5, <1>6, <1>7 DEF TraceInv

-----------------------------------------------------------------------------
(***************************************************************************)
(* What TraceInv gives                                                     *)
(***************************************************************************)
\* What is written and read of the blocks of this encoder follows a trace of
\* encodeBlock and the trace back, in every reachable state.
THEOREM TraceInvHolds == Spec => []TraceInv
<1>1. Init => TraceInv
  BY InitTraced
<1>2. CodecInv /\ CodecInv' /\ TraceInv /\ [Next]_vars => TraceInv'
  <2> SUFFICES ASSUME CodecInv, CodecInv', TraceInv, [Next]_vars PROVE TraceInv'
    OBVIOUS
  <2>1. CASE BeginEncode BY <2>1, BeginEncodeTraces
  <2>2. CASE EncodeRecord BY <2>2, EncodeRecordTraces
  <2>3. CASE FinishRecords BY <2>3, FinishRecordsTraces
  <2>4. CASE EncodeGroup BY <2>4, EncodeGroupTraces
  <2>5. CASE FinishLiterals BY <2>5, FinishLiteralsTraces
  <2>6. CASE BeginForeign BY <2>6, BeginForeignTraces
  <2>7. CASE ReadHeader BY <2>7, ReadHeaderTraces
  <2>8. CASE BuildTables BY <2>8, BuildTablesTraces
  <2>9. CASE DecodeGroup BY <2>9, DecodeGroupTraces
  <2>10. CASE StartRecords BY <2>10, StartRecordsTraces
  <2>11. CASE DecodeRecord BY <2>11, DecodeRecordTraces
  <2>12. CASE EndBlock BY <2>12, EndBlockTraces
  <2>13. CASE NextBlock BY <2>13, NextBlockTraces
  <2>14. CASE UNCHANGED vars BY <2>14, StutterTraces
  <2> QED
    BY <2>1, <2>2, <2>3, <2>4, <2>5, <2>6, <2>7, <2>8, <2>9, <2>10, <2>11, <2>12, <2>13, <2>14 DEF Next
<1> QED
  BY <1>1, <1>2, CodecInvHolds, PTL DEF Spec

\* Every block of encodeBlock passes the checks of decodeCompressedBlock and
\* decodes to its own literals and its own L, M, D values: for all tables, all
\* sources within the limits of a block, and whatever blocks came before.
THEOREM RestoredHolds == Spec => []Restored
<1>1. TraceInv => Restored
  <2> SUFFICES ASSUME TraceInv, stage = "decoded", Honest
               PROVE  literals = block.source.literals /\ records = block.source.records
    BY DEF TraceInv, RefusedInv, Restored
  <2> DEFINE src == block.source
  <2>1. PICK lt, rt : Made(lt, rt)
    <3>1. stage \in Decoding
      BY DEF Decoding
    <3> QED
      BY <3>1, MadeNow
  <2>2. Trail(src, lt, rt) /\ RecordsAt(src, rt, LMDStream, literals, records, states, in) /\ Len(records) = Len(src.records)
    BY <2>1 DEF Made
  <2> HIDE DEF src
  <2>3. IsSource(src)
    BY <2>2 DEF Trail
  <2>4. src.records \in Seq([LMD -> Nat])
    BY <2>3 DEF IsSource
  <2>5. literals = src.literals /\ StartOf(records, src.records, Len(records))
    BY <2>2 DEF RecordsAt, StartOf
  <2> DEFINE rs == src.records
             S == [LMD -> Nat]
  <2>6. rs \in Seq(S) /\ StartOf(records, rs, Len(rs))
    BY <2>2, <2>4, <2>5
  <2> HIDE DEF rs, S
  <2>7. records = rs
    BY <2>6 DEF StartOf
  <2> QED
    BY <2>5, <2>7 DEF src, rs
<1> QED
  BY <1>1, TraceInvHolds, PTL

\* A trace ends with nothing written, in the initial states.
LEMMA NothingLeft ==
    ASSUME NEW s, NEW all, NEW pre \in Nat, NEW p, p.bits = << >>, At(s, all, pre, p)
    PROVE  UnreadOf(s) = pre
<1>1. UnreadOf(s) = pre + Len(p.bits) /\ Len(p.bits) = 0
  BY DEF At
<1> QED
  BY <1>1

\* The decoder of a block of encodeBlock ends in the initial states of the
\* encoder and leaves unread only what precedes the payloads.
THEOREM ConsumedExactlyHolds == Spec => []ConsumedExactly
<1>1. ASSUME TraceInv, Honest, stage = "decode literals", Len(literals) = header.nLiterals
      PROVE  states = Zeros /\ Unread = ByteBits * Len(HeaderTail)
  <2> DEFINE src == block.source
             n == Len(src.literals)
             pre == ByteBits * Len(HeaderTail)
  <2>1. PICK lt, rt : Made(lt, rt)
    <3>1. stage \in Decoding
      BY <1>1 DEF Decoding
    <3> QED
      BY <1>1, <3>1, MadeNow
  <2>2. /\ Trail(src, lt, rt) /\ Announces(header, src, lt, rt)
        /\ LiteralsAt(src, lt, LitStream, literals, states, in)
    BY <1>1, <2>1 DEF Made
  <2> HIDE DEF src
  <2>3. LitTraced(src, lt, 0) /\ header.nLiterals = n
    BY <2>2 DEF Trail, Announces, Says
  <2>4. lt[n].bits = << >> /\ lt[n].states = Zeros
    BY <2>3 DEF LitTraced
  <2>5. Len(literals) = n
    BY <1>1, <2>3
  <2> HIDE DEF n
  <2>6. states = lt[n].states /\ \E all : At(in, all, ByteBits * Len(HeaderTail), lt[n])
    BY <2>2, <2>5 DEF LiteralsAt
  <2>7. PICK all : At(in, all, pre, lt[n])
    BY <2>6
  <2>8. pre \in Nat
    <3>1. Len(HeaderTail) \in Nat
      BY EntropyAssumption
    <3> QED
      BY <3>1, ByteTimes
  <2> HIDE DEF pre
  <2>9. UnreadOf(in) = pre
    BY <2>4, <2>7, <2>8, NothingLeft
  <2>10. Unread = UnreadOf(in)
    BY DEF Unread, UnreadOf
  <2> QED
    BY <2>4, <2>6, <2>9, <2>10 DEF pre
<1>2. ASSUME TraceInv, Honest, stage = "decoded"
      PROVE  states = [c \in LMD |-> 0] /\ Unread = ByteBits * WordBytes
  <2> DEFINE src == block.source
             n == Len(src.records)
             pre == ByteBits * WordBytes
  <2>1. PICK lt, rt : Made(lt, rt)
    <3>1. stage \in Decoding
      BY <1>2 DEF Decoding
    <3> QED
      BY <1>2, <3>1, MadeNow
  <2>2. Trail(src, lt, rt) /\ RecordsAt(src, rt, LMDStream, literals, records, states, in) /\ Len(records) = n
    BY <1>2, <2>1 DEF Made
  <2> HIDE DEF src
  <2>3. RecTraced(src, rt, 0)
    BY <2>2 DEF Trail
  <2>4. rt[n].bits = << >> /\ rt[n].states = [c \in LMD |-> 0]
    BY <2>3 DEF RecTraced
  <2> HIDE DEF n
  <2>5. states = rt[n].states /\ \E all : At(in, all, ByteBits * WordBytes, rt[n])
    BY <2>2 DEF RecordsAt
  <2>6. PICK all : At(in, all, pre, rt[n])
    BY <2>5
  <2>7. pre \in Nat
    BY WordIs, ByteTimes
  <2> HIDE DEF pre
  <2>8. UnreadOf(in) = pre
    BY <2>4, <2>6, <2>7, NothingLeft
  <2>9. Unread = UnreadOf(in)
    BY DEF Unread, UnreadOf
  <2> QED
    BY <2>4, <2>5, <2>8, <2>9 DEF pre
<1>3. TraceInv => ConsumedExactly
  BY <1>1, <1>2 DEF ConsumedExactly
<1> QED
  BY <1>3, TraceInvHolds, PTL

\* The header read of a V2 block has its size and its frequencies.
LEMMA HeaderReadHas ==
    ASSUME HeaderBlock(block), block.version = 2, FreqsRead.ok
    PROVE  HeaderRead.headerSize = V2!HeaderSize(block.words) /\ AllFreqs(HeaderRead.freqs) = FreqsRead.freqs
<1> DEFINE f == FreqsRead.freqs
           w == block.words
           u == V2!Unpack(w, Lanes, f)
           h == HeaderRead
<1>1. h = [u EXCEPT !.freqs = SplitFreqs(@)]
  BY DEF HeaderRead
<1>2. h = WithSplit(u)
  BY <1>1 DEF WithSplit
<1>3. u = V2!Unpack(w, Lanes, f)
  OBVIOUS
<1>4. u.headerSize = V2!HeaderSize(w)
  BY DEF V2!Unpack
<1>5. f \in [1 .. AllSymbols -> Nat]
  BY FreqsReadAre
<1> HIDE DEF f, w, u, h
<1>6. h.headerSize = u.headerSize /\ h.freqs = SplitFreqs(f)
  BY <1>2, <1>3, WithOtherFreqs
<1>7. AllFreqs(h.freqs) = f
  BY <1>5, <1>6, AllBack
<1> QED
  BY <1>4, <1>6, <1>7 DEF f, w, h

\* The data whose frequencies are read, and their size.
LEMMA FreqsReadOf ==
    ASSUME HeaderBlock(block), block.version = 2, FreqsRead.ok
    PROVE  \E size \in Nat, bits \in Seq(Bit) :
             /\ size = V2!HeaderByte * (V2!HeaderSize(block.words) - V2!FixedBytes)
             /\ bits = SubSeq(block.freqData, 1, size) /\ Len(bits) = size /\ Len(bits) % 8 = 0
             /\ FreqsRead = V2!ReadFreqs(bits, AllSymbols)
             /\ \A i \in 1 .. size : bits[i] = block.freqData[i]
<1> DEFINE data == block.freqData
           k == V2!HeaderSize(block.words) - V2!FixedBytes
           size == V2!HeaderByte * k
           bits == SubSeq(data, 1, size)
<1>1. FreqsRead = IF 0 <= size /\ size <= Len(data) THEN V2!ReadFreqs(bits, AllSymbols)
                  ELSE [ok |-> FALSE, freqs |-> << >>]
  BY DEF FreqsRead
<1>2. data \in Seq(Bit) /\ V2!HeaderSize(block.words) \in Nat
  <2>1. data \in Seq(Bit) /\ block.words \in [1 .. 3 -> [1 .. V2!HeaderWord -> Bit]]
    BY DEF HeaderBlock
  <2> QED
    BY <2>1, V2UnpackIs
<1>3. k \in Int
  <2>1. V2!FixedBytes = 32
    BY DEF V2!FixedBytes
  <2> QED
    BY <1>2, <2>1
<1>4. size = 8 * k
  BY DEF V2!HeaderByte
<1>5. V2!HeaderByte * (V2!HeaderSize(block.words) - V2!FixedBytes) = size
  OBVIOUS
<1> HIDE DEF k, size
<1>6. 0 <= size /\ size <= Len(data)
  <2>1. [ok |-> FALSE, freqs |-> << >>].ok = FALSE
    OBVIOUS
  <2> HIDE DEF bits, data
  <2> QED
    BY <1>1, <2>1
<1>7. size \in Nat /\ k \in Nat
  BY <1>3, <1>4, <1>6
<1>8. bits \in Seq(Bit) /\ Len(bits) = size /\ \A i \in 1 .. size : bits[i] = data[i]
  BY <1>2, <1>6, <1>7
<1>9. FreqsRead = V2!ReadFreqs(bits, AllSymbols)
  <2> HIDE DEF bits, data
  <2> QED
    BY <1>1, <1>6
<1>10. Len(bits) % 8 = 0
  <2>1. (8 * k) % 8 = 0
    BY <1>7
  <2> QED
    BY <1>4, <1>8, <2>1
<1>11. bits = SubSeq(block.freqData, 1, size)
  OBVIOUS
<1> HIDE DEF bits
<1> QED
  BY <1>5, <1>7, <1>8, <1>9, <1>10, <1>11

\* decodeV2Header accepts frequency data only if it is what makeV2Block writes
\* for the tables read, but for the padding of its last byte: for every header
\* a stream can hold.
THEOREM HeaderCanonicalHolds == Spec => []HeaderCanonical
<1>1. ASSUME TraceInv, stage = "tables", block.version = 2
      PROVE  LET written == V2!WriteFreqs(AllFreqs(header.freqs))
             IN /\ Len(written) = V2!HeaderByte * (header.headerSize - V2!FixedBytes)
                /\ \A i \in 1 .. Len(written) - 7 : written[i] = block.freqData[i]
                /\ Honest => written = block.freqData
  <2> DEFINE written == V2!WriteFreqs(AllFreqs(header.freqs))
  <2>1. HeaderBlock(block) /\ FreqsRead.ok /\ header = HeaderRead
    BY <1>1 DEF TraceInv, ReadInv
  <2>2. header.headerSize = V2!HeaderSize(block.words) /\ AllFreqs(header.freqs) = FreqsRead.freqs
    BY <1>1, <2>1, HeaderReadHas
  <2>3. PICK size \in Nat, bits \in Seq(Bit) :
             /\ size = V2!HeaderByte * (V2!HeaderSize(block.words) - V2!FixedBytes)
             /\ bits = SubSeq(block.freqData, 1, size) /\ Len(bits) = size /\ Len(bits) % 8 = 0
             /\ FreqsRead = V2!ReadFreqs(bits, AllSymbols)
             /\ \A i \in 1 .. size : bits[i] = block.freqData[i]
    BY <1>1, <2>1, FreqsReadOf
  <2> DEFINE res == FreqsRead
             n == AllSymbols
  <2>4. written = V2!WriteFreqs(res.freqs)
    BY <2>2
  <2>5. /\ res = V2!ReadFreqs(bits, n) /\ res.ok /\ n \in Nat
        /\ bits \in Seq(Bit) /\ Len(bits) % 8 = 0
    BY <2>1, <2>3, SymbolCounts
  <2> HIDE DEF written, res, n
  <2>6. Len(written) = Len(bits) /\ \A i \in 1 .. Len(written) - 7 : written[i] = bits[i]
    BY <2>4, <2>5, FreqsCanonical
  <2>7. Len(written) = V2!HeaderByte * (header.headerSize - V2!FixedBytes)
    BY <2>2, <2>3, <2>6
  <2>8. \A i \in 1 .. Len(written) - 7 : written[i] = block.freqData[i]
    <3>1. Len(written) = size
      BY <2>3, <2>6
    <3>2. \A i \in 1 .. size - 7 : written[i] = bits[i]
      BY <2>6, <3>1
    <3>3. \A i \in 1 .. size - 7 : i \in 1 .. size
      OBVIOUS
    <3>4. \A i \in 1 .. size - 7 : written[i] = block.freqData[i]
      BY <2>3, <3>2, <3>3
    <3> QED
      BY <3>1, <3>4
  <2>9. ASSUME Honest PROVE written = block.freqData
    <3> DEFINE src == block.source
    <3>1. PICK lt, rt : Made(lt, rt)
      <4>1. stage \in Decoding
        BY <1>1 DEF Decoding
      <4> QED
        BY <1>1, <2>9, <4>1, MadeNow
    <3>2. Trail(src, lt, rt) /\ Carries(block, src, lt, rt)
      BY <3>1 DEF Made
    <3> HIDE DEF src
    <3>3. res.freqs = AllFreqs(FreqsOf(src))
      BY <3>2, HonestFreqs DEF res
    <3>4. block.freqData = V2!WriteFreqs(AllFreqs(FreqsOf(src)))
      BY <3>2 DEF Carries
    <3> QED
      BY <2>4, <3>3, <3>4
  <2> QED
    BY <2>7, <2>8, <2>9 DEF written
<1>2. TraceInv => HeaderCanonical
  BY <1>1 DEF HeaderCanonical
<1> QED
  BY <1>2, TraceInvHolds, PTL
=============================================================================
