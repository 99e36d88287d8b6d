---------------------------- MODULE StreamDecoder ----------------------------
(***************************************************************************)
(* DecompressLimit (src/lzfse.go): the whole loop over the blocks of a     *)
(* stream, with every truncation, unknown magic, size check and limit.     *)
(* What a block's payload decodes to is a field of its header here: what   *)
(* BlockDecoder, EntropyCodec and LzvnDecoder say of it is that a V1 or V2 *)
(* block yields its declared size or an error, an LZVN block at most its   *)
(* declared size or an error.                                              *)
(***************************************************************************)
EXTENDS StreamFormat

CONSTANTS
    Sources,        \* the streams that may come in: [cells, own] and, for
                    \* those of Compress, [n, blocks]
    MaxOuts,        \* the values of maxOut, negative ones included
    UintSize        \* the size of a uint64, 2^64

ASSUME StreamAssumption ==
    /\ MaxOuts \subseteq Int /\ UintSize \in Nat \ {0}
    /\ \A s \in Sources : Len(s.cells) \in Nat
    /\ \A s \in Sources : \A i \in 1 .. Len(s.cells) :
         LET h == s.cells[i] IN
         /\ h.magic \in {"data", "end", "stored", "lzvn", "v1", "v2"}
         /\ h.magic \in {"stored", "lzvn", "v1", "v2"} => h.payload \in Nat /\ h.raw \in Nat
         /\ h.magic = "stored" => h.payload = h.raw /\ h.yields = h.raw /\ h.headerSize = StoredHeader
         /\ h.magic = "lzvn" => h.yields \in {Error} \cup 0 .. h.raw /\ h.headerSize = LzvnHeader
         /\ h.magic \in {"v1", "v2"} => h.yields \in {Error, h.raw} /\ h.headerSize \in Nat
         /\ h.magic = "v1" => h.headerSize = V1HeaderSize

\* Compress's own streams, whole or cut, of sources whose length a header can
\* say.
ASSUME OwnAssumption ==
    \A s \in Sources : s.own =>
      /\ s.n \in 0 .. FieldSize - 1 /\ s.blocks \in Compress(s.n)
      /\ s.cells \in Seq(Range(s.cells)) /\ IsPrefix(s.cells, Stream(s.blocks))

VARIABLES
    src,        \* the stream given
    maxOut,
    pos,        \* position in it
    out,        \* the output: what block each part is from, where it lies, its size
    read,       \* the end of the bytes looked at so far
    reserved,   \* bytes allocated on the word of LZVN headers
    verdict     \* "running", "ok", "malformed", "too large"

vars == <<src, maxOut, pos, out, read, reserved, verdict>>

cells == src.cells
Size(parts) == IF parts = << >> THEN 0 ELSE Last(parts).from + Last(parts).n

\* uint64(maxOut).
Limit == maxOut % UintSize

Init ==
    /\ src \in Sources /\ maxOut \in MaxOuts
    /\ pos = 0 /\ out = << >> /\ read = 0 /\ reserved = 0 /\ verdict = "running"
-----------------------------------------------------------------------------
Avail(at, n) == at + n <= Len(cells)

\* Mutant of Fits: each block is held against the limit alone.
FitsAlone(n) == n <= Limit

Fits(n) == Size(out) + n <= Limit

Return(how) == verdict' = how /\ UNCHANGED <<src, maxOut, pos, out, reserved>>

\* The magic that `pos` is at.
At(magic) ==
    /\ verdict = "running" /\ Avail(pos, MagicSize)
    /\ cells[pos + 1].magic = magic

Header == cells[pos + 1]

EndOfInput ==
    /\ verdict = "running" /\ pos >= Len(cells)
    /\ Return("ok") /\ UNCHANGED read

EndOfStream == At("end") /\ Return("ok") /\ read' = pos + MagicSize

\* Mutant of Truncated: a rest too short for a magic is ignored.
IgnoreRest ==
    /\ verdict = "running" /\ pos < Len(cells) /\ ~ Avail(pos, MagicSize)
    /\ Return("ok") /\ UNCHANGED read

Truncated ==
    /\ verdict = "running" /\ pos < Len(cells) /\ ~ Avail(pos, MagicSize)
    /\ Return("malformed") /\ UNCHANGED read

UnknownMagic == At("data") /\ Return("malformed") /\ read' = pos + MagicSize

\* The bytes of a header, as far as it has to be there to be read.
FixedSize(magic) ==
  [stored |-> StoredHeader, lzvn |-> LzvnHeader, v1 |-> V1HeaderSize, v2 |-> V2HeaderMin][magic]

RefuseTruncatedHeader ==
    \E magic \in {"stored", "lzvn", "v1", "v2"} :
      /\ At(magic) /\ ~ Avail(pos, FixedSize(magic))
      /\ Return("malformed") /\ read' = pos + MagicSize

HeaderThere(magic) == At(magic) /\ Avail(pos, FixedSize(magic))

BlockHere == \E magic \in {"stored", "lzvn", "v1", "v2"} : HeaderThere(magic)

\* What decodeV2Header checks of the header's size; with symbolsOK, of the
\* tables, counts and states. V1 has checks of its own for the latter.
HeaderValid(h) ==
    h.magic \in {"v1", "v2"} =>
      /\ V2HeaderMin <= h.headerSize /\ Avail(pos, h.headerSize)
      /\ h.symbolsOK

Start(h) == pos + h.headerSize
End(h) == Start(h) + h.payload

\* Mutant of RawPlausible: an LZVN header is believed.
RawPlausibleV1(h) == h.magic \in {"v1", "v2"} => h.fits

\* The declared size is one the payload can produce: rawFitsBlock, or for LZVN
\* the most an opcode expands to.
RawPlausible(h) ==
    /\ h.magic \in {"v1", "v2"} => h.fits
    /\ h.magic = "lzvn" => h.raw <= Expansion * h.payload

\* Mutant of WellFormed: the payload is measured from the header's start.
WellFormedFromHeader(h) == HeaderValid(h) /\ Avail(pos, h.payload) /\ RawPlausible(h)

WellFormed(h) == HeaderValid(h) /\ Avail(Start(h), h.payload) /\ RawPlausible(h)

RefuseMalformed ==
    /\ BlockHere /\ ~ WellFormed(Header)
    /\ Return("malformed")
    /\ read' = IF HeaderValid(Header) THEN Start(Header) ELSE pos + FixedSize(Header.magic)

RefuseTooLarge ==
    /\ BlockHere /\ WellFormed(Header) /\ ~ Fits(Header.raw)
    /\ Return("too large") /\ read' = Start(Header)

\* An LZVN block is decoded into a buffer of its declared size.
Reserve(h) == reserved' = IF h.magic = "lzvn" THEN reserved + h.raw ELSE reserved

DecodeFails ==
    /\ BlockHere /\ WellFormed(Header) /\ Fits(Header.raw) /\ Header.yields = Error
    /\ Reserve(Header) /\ read' = End(Header) /\ verdict' = "malformed"
    /\ UNCHANGED <<src, maxOut, pos, out>>

AcceptBlock ==
    /\ BlockHere /\ WellFormed(Header) /\ Fits(Header.raw) /\ Header.yields # Error
    /\ out' = IF Header.yields = 0 THEN out ELSE Append(out, [at |-> pos, from |-> Size(out), n |-> Header.yields])
    /\ Reserve(Header) /\ read' = End(Header) /\ pos' = End(Header)
    /\ UNCHANGED <<src, maxOut, verdict>>

Next ==
    \/ EndOfInput \/ EndOfStream \/ Truncated \/ UnknownMagic \/ RefuseTruncatedHeader
    \/ RefuseMalformed \/ RefuseTooLarge \/ DecodeFails \/ AcceptBlock

Spec == Init /\ [][Next]_vars /\ WF_vars(Next)
-----------------------------------------------------------------------------
(* What is checked *)

\* Nothing is read beyond the end of the stream, wherever it is cut and
\* whatever its headers declare.
ReadsInside == pos <= Len(cells) /\ read <= Len(cells)

\* Memory is taken on the word of LZVN headers only in proportion to the
\* input: each block may declare more than it produces and stay within the
\* limit, and all of them together still never make the call allocate more
\* than the expansion bound times what has been read.
AllocationBounded == reserved <= Expansion * read

\* The stream is not cut; the first j of its blocks are within their limits.
Entire == Len(cells) = Len(Stream(src.blocks))
Within(j) == \A i \in 1 .. j : src.blocks[i].within

\* What Compress returns is longer than its input by the stored form's
\* overhead at most, and the limit decides whether it is too large, by what it
\* declares.  If all its blocks are within their limits it is decompressed in
\* full or too large.  If one is not (a wrapped LZVN run, a block of too many
\* records) it may be called malformed; but less than the source comes back as
\* a success only from an LZVN stream, so from no source above the threshold.
CompressedAccepted ==
    src.own /\ Entire =>
    /\ Len(cells) <= src.n + Overhead
    /\ verdict = "ok" => src.n <= Limit
    /\ verdict = "too large" => src.n > Limit
    /\ verdict = "malformed" => ~ Within(Len(src.blocks))
    /\ verdict = "ok" /\ (Within(Len(src.blocks)) \/ src.n > LzvnThreshold) => Size(out) = src.n

\* The bytes that the first j blocks take, what they hold, and the part of the
\* output that block i makes.
BytesOf(j) == Len(Bytes(SubSeq(src.blocks, 1, j)))
HeldBy(j) == SumFunction([k \in 1 .. j |-> src.blocks[k].raw])
PartOf(i) == [at |-> BytesOf(i - 1), from |-> HeldBy(i - 1), n |-> src.blocks[i].raw]

\* The output is what the first j blocks make, in their order; an empty block
\* makes nothing.
Delivered(j) ==
    /\ Range(out) = { PartOf(i) : i \in { k \in 1 .. j : src.blocks[k].raw > 0 } }
    /\ \A a, b \in DOMAIN out : a < b => out[a].from < out[b].from

\* A cut stream is refused or yields its first blocks whole, and the cut then
\* is between blocks or in the end marker: the marker may be missing.  The one
\* exception is the block of an LZVN stream with a wrapped run, which may come
\* out short, cut or not: the loop does not compare what lzvnDecode wrote with
\* what the header declares.
CutYieldsPrefix ==
    src.own /\ verdict = "ok" =>
    \E j \in 0 .. Len(src.blocks) :
      /\ Delivered(j) \/ (src.n <= LzvnThreshold /\ ~ Within(j))
      /\ Len(cells) = BytesOf(j) \/ (j = Len(src.blocks) /\ Entire)

\* The loop does what BoundedOutput promises, and returns: every block moves
\* the position on.
Promise == INSTANCE BoundedOutput WITH limit <- Limit, delivered <- Size(out)

ImplementsBoundedOutput == Promise!Spec
=============================================================================
