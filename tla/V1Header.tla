------------------------------ MODULE V1Header ------------------------------
(***************************************************************************)
(* The V1 block header (readV1Header, writeV1Header of src/lzfse.go): bytes*)
(* at fixed offsets, little-endian.  encodeBlock writes one for every      *)
(* block, and makeV2Block is given what is read back from it.  The magic   *)
(* and the raw byte count belong to StreamDecoder; a count has 31 of its   *)
(* 32 bits here, the range of the model checker's integers.                *)
(***************************************************************************)
EXTENDS Integers, Sequences

ByteSize == 256
Byte == 0 .. ByteSize - 1

FreqsAt == 52        \* the frequencies follow the fixed fields, two bytes each
Size(nsym) == FreqsAt + 2 * nsym

\* The two low bytes of a number, and the four.
Half == ByteSize * ByteSize
Bytes2(v) == <<v % ByteSize, (v \div ByteSize) % ByteSize>>
Bytes4(v) == Bytes2(v) \o Bytes2(v \div Half)

Blank(n) == [i \in 1 .. n |-> 0]

Uint16s(values) == [i \in 1 .. 2 * Len(values) |-> Bytes2(values[(i + 1) \div 2])[2 - (i % 2)]]

Write(h, freqs) ==
  Blank(8) \o Bytes4(h.nLitPayload + h.nLMDPayload)
  \o Bytes4(h.nLiterals) \o Bytes4(h.nMatches)
  \o Bytes4(h.nLitPayload) \o Bytes4(h.nLMDPayload)
  \o Bytes4(h.litBits) \o Uint16s(h.litStates) \o Blank(8 - 2 * Len(h.litStates))
  \o Bytes4(h.lmdBits) \o Uint16s(<<h.lmdStates.l, h.lmdStates.m, h.lmdStates.d>>) \o Blank(2)
  \o Uint16s(freqs)

Uint16(b, at) == b[at + 1] + ByteSize * b[at + 2]

Uint32(b, at) == Uint16(b, at) + Half * Uint16(b, at + 2)

Int32(b, at) ==
  LET high == Uint16(b, at + 2)
  IN Uint16(b, at) + Half * (IF high < Half \div 2 THEN high ELSE high - Half)

Read(b, lanes, nsym) ==
  [nLiterals |-> Uint32(b, 12), nMatches |-> Uint32(b, 16),
   nLitPayload |-> Uint32(b, 20), nLMDPayload |-> Uint32(b, 24),
   litBits |-> Int32(b, 28), lmdBits |-> Int32(b, 40),
   litStates |-> [j \in 1 .. lanes |-> Uint16(b, 32 + 2 * (j - 1))],
   lmdStates |-> [l |-> Uint16(b, 44), m |-> Uint16(b, 46), d |-> Uint16(b, 48)],
   freqs |-> [i \in 1 .. nsym |-> Uint16(b, FreqsAt + 2 * (i - 1))]]
=============================================================================
