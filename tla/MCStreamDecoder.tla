--------------------------- MODULE MCStreamDecoder ---------------------------
(***************************************************************************)
(* TLC instance of StreamDecoder: streams that Compress returns for up to  *)
(* 12 bytes, cut anywhere, and streams of up to three blocks whose headers  *)
(* declare what they like, cut anywhere.  A magic has two bytes.           *)
(***************************************************************************)
EXTENDS StreamDecoder

Cut(cs) == { SubSeq(cs, 1, k) : k \in 0 .. Len(cs) }

Own ==
  UNION { { [own |-> TRUE, n |-> n, blocks |-> blocks, cells |-> cs] : cs \in Cut(Stream(blocks)) } :
          <<n, blocks>> \in UNION { { <<n, bs>> : bs \in Compress(n) } : n \in (0 .. 6) \cup {10, 11, 12} } }

\* V1 and V2 headers, right and wrong.
Entropy(magic, sizes, raws) ==
  { [magic |-> magic, headerSize |-> size, payload |-> p, raw |-> raw,
     symbolsOK |-> ok # 1, fits |-> ok # 2, yields |-> IF ok = 3 THEN Error ELSE raw] :
      size \in sizes, p \in {0, 2}, raw \in raws, ok \in 0 .. 3 }

ForeignBlocks ==
  { StoredBlock(n) : n \in {0, 1, 3, 9} }
  \cup { [LzvnBlock(raw, p) EXCEPT !.yields = IF y > raw THEN Error ELSE y] :
           raw \in {0, 3, 8, 20}, p \in {0, 1, 2}, y \in {0, 3, 8} }
  \cup Entropy("v2", {0, 3, 4, 7}, {0, 1, 9}) \cup Entropy("v1", {V1HeaderSize}, {0, 9})

\* A block lies in the stream as its header says, or one byte short of it.
Laid(b) ==
  LET size == FixedSize(b.magic) + b.payload
  IN { <<b>> \o [j \in 1 .. k |-> Data] : k \in {size - 1, size - 2} }

Laids(blocks) == UNION { Laid(b) : b \in blocks }

ForeignCells ==
  LET first == Laids({ StoredBlock(1), LzvnBlock(8, 2), StoredBlock(0) })
      last == Laids({ b \in ForeignBlocks : b.yields # Error /\ b.payload > 0 })
  IN UNION { Cut(c) : c \in Laids(ForeignBlocks) }
     \cup { a \o EndBytes \o <<Data>> : a \in Laids(ForeignBlocks) }
     \cup { a \o b \o EndBytes : a \in first, b \in Laids(ForeignBlocks) }
     \cup { a \o b \o c : a \in first, b \in first, c \in last }

Foreign == { [own |-> FALSE, cells |-> cs] : cs \in ForeignCells }

MCSources == Own \cup Foreign
MCMaxOuts == {-1, 0, 3, 8, 11}
=============================================================================
