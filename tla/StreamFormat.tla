---------------------------- MODULE StreamFormat ----------------------------
(***************************************************************************)
(* The stream as a sequence of cells, one for each byte: a block header is *)
(* a record in the cell of its first byte, every other byte is Data.  A    *)
(* header's fields say what they say, whether or not the bytes behind it   *)
(* bear it out.  Compress (src/lzfse.go) as the streams it can return for  *)
(* n bytes, those that its own decoder refuses or misreads included.       *)
(***************************************************************************)
EXTENDS Integers, Sequences, SequencesExt

CONSTANTS
    MagicSize, StoredHeader, LzvnHeader, V1HeaderSize, V2HeaderMin,   \* 4, 8, 12, 772, 32
    Expansion,        \* lzvnMaxExpansion (136)
    MaxRun,           \* the longest literal run an LZVN opcode can say (271)
    MatchesPerBlock,  \* records that a header may declare (10000)
    FieldSize,        \* 2^32: the sizes in a header are uint32
    LzvnThreshold,    \* encodeLZVNThreshold (4096)
    BlockSizes,       \* bytes of the source that the splitter may put in a block
    CodedSizes        \* bytes that a payload or a V2 header's tables may take

ASSUME FormatAssumption ==
    /\ {MagicSize, StoredHeader, LzvnHeader, V1HeaderSize, V2HeaderMin, Expansion} \subseteq Nat \ {0}
    /\ MagicSize <= StoredHeader /\ MagicSize <= LzvnHeader
    /\ MagicSize <= V1HeaderSize /\ MagicSize <= V2HeaderMin
    /\ LzvnThreshold \in Nat /\ MaxRun \in Nat /\ MatchesPerBlock \in Nat /\ FieldSize \in Nat
    /\ CodedSizes \subseteq Nat /\ BlockSizes \subseteq Nat \ {0}

Data == [magic |-> "data"]

EndMark == [magic |-> "end"]

\* An error of the entropy or LZVN decoder in place of a number of bytes.
Error == -1

\* A header, the bytes it announces, and what they decode to.  `within` says
\* of a block of Compress that its runs are within what an LZVN opcode says and
\* its records within what a header may declare: LzvnCodec!RoundTrip and
\* BlockCodec!DecodedIsSource promise the source back for such a block only.
StoredBlock(n) ==
  [magic |-> "stored", headerSize |-> StoredHeader, payload |-> n, raw |-> n, yields |-> n,
   within |-> TRUE]
LzvnBlock(n, payload) ==
  [magic |-> "lzvn", headerSize |-> LzvnHeader, payload |-> payload, raw |-> n, yields |-> n,
   within |-> TRUE]
V2Block(n, headerSize, payload) ==
  [magic |-> "v2", headerSize |-> headerSize, payload |-> payload, raw |-> n,
   symbolsOK |-> TRUE, fits |-> TRUE, yields |-> n, within |-> TRUE]

\* A literal run that wraps its length byte: literals are read as opcodes, and
\* the payload fails or ends early, at what looks like an end of stream.
Misread(b, yields) == [b EXCEPT !.yields = yields, !.within = FALSE]

\* The run after the last match takes more records than were reserved for it:
\* decodeV2Header refuses the block.
Overfull(b) == [b EXCEPT !.symbolsOK = FALSE, !.within = FALSE]

Bytes(blocks) ==
  FlattenSeq([i \in 1 .. Len(blocks) |->
                <<blocks[i]>> \o [j \in 1 .. blocks[i].headerSize + blocks[i].payload - 1 |-> Data]])

EndBytes == <<EndMark>> \o [j \in 1 .. MagicSize - 1 |-> Data]

Stream(blocks) == Bytes(blocks) \o EndBytes

Overhead == StoredHeader + MagicSize       \* uncompressedOverhead

\* compressLZVN: one block.  Its payload says the whole of the source, no byte of
\* it more than 136 bytes, and a run of literals is in the payload as it is: only
\* a payload longer than MaxRun can have one that wraps.
LzvnBlocksFor(n) ==
  LET sizes == { p \in CodedSizes : n <= Expansion * p }
  IN { LzvnBlock(n, p) : p \in sizes }
     \cup { Misread(LzvnBlock(n, p), y) : p \in { q \in sizes : q > MaxRun }, y \in {Error} \cup 0 .. n }

CompressLZVN(n) == { <<b>> : b \in LzvnBlocksFor(n) }

\* The block of n bytes of the source, stored if it has no match.  A record is
\* of one byte at least.
BlocksFor(n) ==
  LET coded == { V2Block(n, V2HeaderMin + h, p) : h, p \in CodedSizes }
  IN {StoredBlock(n)} \cup coded
     \cup IF n > MatchesPerBlock THEN { Overfull(b) : b \in coded } ELSE {}

\* compressLZFSE: the splitter's partition of the source into blocks,
\* each stored or entropy coded.
CompressLZFSE(n) ==
  LET parts[k \in 0 .. n] ==
        IF k = 0 THEN { << >> }
        ELSE UNION { { Append(blocks, b) : blocks \in parts[k - i], b \in BlocksFor(i) } :
                     i \in { j \in BlockSizes : j <= k } }
  IN parts[n]

\* Mutant of Compress: there is no fallback.
CompressOnly(n) == IF n <= LzvnThreshold THEN CompressLZVN(n) ELSE CompressLZFSE(n)

\* The coded form, or the source stored if that is not longer.
Compress(n) ==
  LET coded == IF n <= LzvnThreshold THEN CompressLZVN(n) ELSE CompressLZFSE(n)
  IN { IF Len(Stream(blocks)) >= n + Overhead THEN <<StoredBlock(n)>> ELSE blocks : blocks \in coded }
=============================================================================
