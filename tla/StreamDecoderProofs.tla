------------------------ MODULE StreamDecoderProofs ------------------------
(***************************************************************************)
(* Safety of StreamDecoder for every set of streams, every limit and every *)
(* size of headers, by one inductive invariant, and the refinement of      *)
(* BoundedOutput.  Then, by a second one, what becomes of the streams of   *)
(* Compress: the whole is given back, a cut one by whole blocks.           *)
(***************************************************************************)
EXTENDS StreamDecoder, LibraryLemmas

Part == [at : Nat, from : Nat, n : Nat]

Typing ==
    /\ src \in Sources /\ maxOut \in MaxOuts
    /\ pos \in Nat /\ read \in Nat /\ reserved \in Nat
    /\ out \in Seq(Part)

(***************************************************************************)
(* While the loop runs, the position is the end of what has been read: so  *)
(* what a block adds to the bytes read is at least its payload, and what   *)
(* it reserves is paid for by that.                                        *)
(***************************************************************************)
Accounted ==
    /\ verdict = "running" => read = pos
    /\ reserved <= Expansion * read
    /\ Size(out) <= Limit

IInv == Typing /\ ReadsInside /\ Accounted

-----------------------------------------------------------------------------
\* The limit is a natural number, whatever the sign of maxOut.
LEMMA LimitIsNat ==
    ASSUME maxOut \in MaxOuts
    PROVE  Limit \in Nat
BY StreamAssumption DEF Limit

\* More bytes read pay for more bytes reserved.
LEMMA Monotone ==
    ASSUME NEW c \in Nat, NEW a \in Nat, NEW b \in Nat, a <= b
    PROVE  c * a <= c * b
<1>1. PICK d \in Nat : b = a + d
  BY b - a \in Nat
<1>2. c * b = c * a + c * d /\ c * d \in Nat /\ c * a \in Nat
  BY <1>1
<1> QED
  BY <1>2

\* And for what is within the bound already.
LEMMA Covers ==
    ASSUME NEW c \in Nat, NEW a \in Nat, NEW b \in Nat, a <= b, NEW r \in Nat, r <= c * a
    PROVE  r <= c * b
<1>1. c * a <= c * b
  BY Monotone
<1>2. c * a \in Nat /\ c * b \in Nat
  OBVIOUS
<1> QED
  BY <1>1, <1>2

\* Products, for the provers.
LEMMA Distributes ==
    ASSUME NEW c \in Nat, NEW a \in Nat, NEW b \in Nat
    PROVE  c * (a + b) = c * a + c * b /\ c * a \in Nat /\ c * b \in Nat
OBVIOUS

\* The size of the output is that of its parts up to the last.
LEMMA SizeIsNat ==
    ASSUME NEW parts \in Seq(Part)
    PROVE  Size(parts) \in Nat
<1>1. CASE parts = << >>
  BY <1>1 DEF Size
<1>2. CASE parts # << >>
  <2>1. parts[Len(parts)] \in Part
    BY <1>2
  <2> QED
    BY <1>2, <2>1 DEF Size, Last, Part
<1> QED
  BY <1>1, <1>2

\* A part appended is the last.
LEMMA SizeOfAppend ==
    ASSUME NEW parts \in Seq(Part), NEW part \in Part
    PROVE  Size(Append(parts, part)) = part.from + part.n
<1>1. Append(parts, part) # << >> /\ Last(Append(parts, part)) = part
  BY DEF Last
<1> QED
  BY <1>1 DEF Size

-----------------------------------------------------------------------------
\* What can be assumed of the header that the position is at.
LEMMA HeaderFacts ==
    ASSUME Typing, BlockHere
    PROVE  /\ Header.magic \in {"stored", "lzvn", "v1", "v2"}
           /\ Header.headerSize \in Nat /\ Header.payload \in Nat /\ Header.raw \in Nat
           /\ Header.magic = "stored" => Header.headerSize = StoredHeader
           /\ Header.magic = "lzvn" => Header.headerSize = LzvnHeader
           /\ Header.yields = Error \/ Header.yields \in 0 .. Header.raw
           /\ Avail(pos, FixedSize(Header.magic))
           /\ verdict = "running" /\ FixedSize(Header.magic) \in Nat
<1>1. PICK magic \in {"stored", "lzvn", "v1", "v2"} : HeaderThere(magic)
  BY DEF BlockHere
<1>2. Header.magic = magic /\ verdict = "running" /\ pos + MagicSize <= Len(cells)
  BY <1>1 DEF HeaderThere, At, Header, Avail
<1>3. pos + 1 \in 1 .. Len(cells)
  BY <1>2, FormatAssumption, StreamAssumption DEF Typing, cells
<1>4. Avail(pos, FixedSize(Header.magic))
  BY <1>1, <1>2 DEF HeaderThere
<1>5. /\ Header.payload \in Nat /\ Header.raw \in Nat
      /\ Header.magic = "stored" => Header.yields = Header.raw /\ Header.headerSize = StoredHeader
      /\ Header.magic = "lzvn" => Header.yields \in {Error} \cup 0 .. Header.raw /\ Header.headerSize = LzvnHeader
      /\ Header.magic \in {"v1", "v2"} => Header.yields \in {Error, Header.raw} /\ Header.headerSize \in Nat
  BY <1>2, <1>3, StreamAssumption DEF Typing, cells, Header
<1>6. FixedSize(Header.magic) \in Nat
  BY <1>2, FormatAssumption DEF FixedSize
<1> QED
  BY <1>2, <1>4, <1>5, <1>6, FormatAssumption

\* A header is inside the stream as far as it is read.
LEMMA StartInside ==
    ASSUME Typing, BlockHere, HeaderValid(Header)
    PROVE  Start(Header) \in Nat /\ pos <= Start(Header) /\ Start(Header) <= Len(cells)
<1>1. Len(cells) \in Nat /\ pos \in Nat
  BY StreamAssumption DEF Typing, cells
<1>2. Avail(pos, Header.headerSize)
  <2>1. CASE Header.magic \in {"v1", "v2"}
    BY <2>1 DEF HeaderValid
  <2>2. CASE Header.magic \in {"stored", "lzvn"}
    BY <2>2, HeaderFacts DEF FixedSize
  <2> QED
    BY <2>1, <2>2, HeaderFacts
<1> QED
  BY <1>1, <1>2, HeaderFacts DEF Avail, Start

\* And so is the payload of a block that is decoded.
LEMMA EndInside ==
    ASSUME Typing, BlockHere, WellFormed(Header)
    PROVE  End(Header) \in Nat /\ pos + Header.payload <= End(Header) /\ End(Header) <= Len(cells)
<1>1. HeaderValid(Header) /\ Avail(Start(Header), Header.payload)
  BY DEF WellFormed
<1>2. Len(cells) \in Nat /\ pos \in Nat /\ Header.payload \in Nat
  BY StreamAssumption, HeaderFacts DEF Typing, cells
<1> QED
  BY <1>1, <1>2, StartInside DEF Avail, End

\* What a block reserves is paid for by its payload.
LEMMA ReservePaid ==
    ASSUME IInv, BlockHere, WellFormed(Header), Reserve(Header)
    PROVE  reserved' \in Nat /\ reserved' <= Expansion * End(Header)
<1>1. /\ verdict = "running" /\ read = pos /\ pos \in Nat /\ reserved \in Nat
      /\ reserved <= Expansion * pos
      /\ Header.payload \in Nat /\ Header.raw \in Nat
      /\ Expansion \in Nat
  BY HeaderFacts, FormatAssumption DEF IInv, Typing, Accounted
<1>2. Expansion * (pos + Header.payload) <= Expansion * End(Header)
  <2>1. End(Header) \in Nat /\ pos + Header.payload <= End(Header) /\ pos + Header.payload \in Nat
    BY <1>1, EndInside DEF IInv
  <2> QED
    BY <2>1, <1>1, Monotone
<1>3. /\ Expansion * (pos + Header.payload) = Expansion * pos + Expansion * Header.payload
      /\ Expansion * pos \in Nat /\ Expansion * Header.payload \in Nat
  BY <1>1, Distributes
<1>4. Expansion * End(Header) \in Nat
  BY <1>1, EndInside DEF IInv
<1>5. CASE Header.magic = "lzvn"
  <2>1. reserved' = reserved + Header.raw /\ Header.raw <= Expansion * Header.payload
    BY <1>5 DEF Reserve, WellFormed, RawPlausible
  <2> QED
    BY <2>1, <1>1, <1>2, <1>3, <1>4
<1>6. CASE Header.magic # "lzvn"
  <2>1. reserved' = reserved
    BY <1>6 DEF Reserve
  <2> QED
    BY <2>1, <1>1, <1>2, <1>3, <1>4
<1> QED
  BY <1>5, <1>6
-----------------------------------------------------------------------------
\* The invariant of every stream holds at the start and is kept.
LEMMA Initial == Init => IInv
<1> SUFFICES ASSUME Init PROVE IInv
  OBVIOUS
<1>1. Limit \in Nat /\ Len(cells) \in Nat /\ Expansion \in Nat
  BY LimitIsNat, StreamAssumption, FormatAssumption DEF Init, cells
<1>2. Size(out) = 0 /\ Expansion * 0 = 0
  BY <1>1 DEF Init, Size
<1> QED
  BY <1>1, <1>2 DEF Init, IInv, Typing, ReadsInside, Accounted

\* A step that returns after reading on, but without moving, keeps the
\* invariant.
LEMMA Returning ==
    ASSUME IInv, verdict = "running", read' \in Nat, pos <= read', read' <= Len(cells),
           verdict' # "running", UNCHANGED <<src, maxOut, pos, out, reserved>>
    PROVE  IInv'
<1>1. /\ reserved \in Nat /\ read \in Nat /\ Expansion \in Nat /\ read <= read'
      /\ reserved <= Expansion * read
  BY FormatAssumption DEF IInv, Typing, Accounted
<1>2. reserved <= Expansion * read'
  BY <1>1, Covers
<1>3. reserved' <= Expansion * read'
  BY <1>2
<1>4. Limit' = Limit /\ Size(out)' = Size(out) /\ cells' = cells
  BY DEF Limit, Size, cells
<1> QED
  BY <1>3, <1>4 DEF IInv, Typing, ReadsInside, Accounted

\* A block appended stays within the limit and moves the position to its end.
LEMMA Accepting ==
    ASSUME IInv, AcceptBlock
    PROVE  IInv' /\ verdict' = "running" /\ Limit' = Limit
                 /\ (Size(out)' = Size(out) \/ \E k \in 1 .. Limit - Size(out) : Size(out)' = Size(out) + k)
<1>1. /\ Typing /\ BlockHere /\ WellFormed(Header) /\ Reserve(Header) /\ Fits(Header.raw)
      /\ Header.yields # Error /\ verdict = "running"
  BY HeaderFacts DEF AcceptBlock, IInv
<1>2. /\ End(Header) \in Nat /\ End(Header) <= Len(cells)
      /\ reserved' \in Nat /\ reserved' <= Expansion * End(Header)
  BY <1>1, EndInside, ReservePaid
<1>3. pos' = End(Header) /\ read' = End(Header) /\ UNCHANGED <<src, maxOut, verdict>>
  BY DEF AcceptBlock
<1>4. Limit' = Limit /\ cells' = cells
  BY <1>3 DEF Limit, cells
<1>5. /\ Size(out) \in Nat /\ Limit \in Nat /\ Size(out) + Header.raw <= Limit
      /\ Header.yields \in Nat /\ Header.yields <= Header.raw /\ Header.raw \in Nat
  BY <1>1, SizeIsNat, LimitIsNat, HeaderFacts DEF Typing, Fits, Error
<1>6. /\ out' \in Seq(Part)
      /\ Size(out)' = Size(out) + Header.yields
  <2>1. CASE Header.yields = 0
    BY <2>1, <1>1, <1>5 DEF AcceptBlock, Typing, Size
  <2>2. CASE Header.yields # 0
    <3> DEFINE part == [at |-> pos, from |-> Size(out), n |-> Header.yields]
    <3>1. part \in Part /\ out' = Append(out, part) /\ out \in Seq(Part)
      BY <2>2, <1>1, <1>5 DEF AcceptBlock, Typing, Part
    <3>2. Size(Append(out, part)) = Size(out) + Header.yields
      BY <3>1, SizeOfAppend
    <3>3. Size(out)' = Size(out')
      BY DEF Size
    <3> QED
      BY <3>1, <3>2, <3>3
  <2> QED
    BY <2>1, <2>2
<1>7. Size(out)' = Size(out) \/ \E k \in 1 .. Limit - Size(out) : Size(out)' = Size(out) + k
  <2>1. CASE Header.yields = 0
    BY <2>1, <1>5, <1>6
  <2>2. CASE Header.yields # 0
    <3>1. Header.yields \in 1 .. Limit - Size(out)
      BY <2>2, <1>5
    <3> QED
      BY <3>1, <1>6
  <2> QED
    BY <2>1, <2>2
<1>8. Size(out)' <= Limit
  BY <1>5, <1>6
<1> QED
  BY <1>1, <1>2, <1>3, <1>4, <1>6, <1>7, <1>8 DEF IInv, Typing, ReadsInside, Accounted

\* Every other action returns, having read inside the stream.
LEMMA Others ==
    ASSUME IInv, Next, ~ AcceptBlock
    PROVE  /\ verdict = "running" /\ verdict' \in {"ok", "malformed", "too large"}
           /\ read' \in Nat /\ pos <= read' /\ read' <= Len(cells)
           /\ UNCHANGED <<src, maxOut, pos, out>>
           /\ reserved' = reserved \/ DecodeFails
<1>1. /\ Typing /\ pos \in Nat /\ Len(cells) \in Nat /\ pos <= Len(cells)
      /\ MagicSize \in Nat
      /\ verdict = "running" => read = pos
  BY StreamAssumption, FormatAssumption DEF IInv, Typing, ReadsInside, Accounted, cells
<1>2. CASE EndOfInput \/ Truncated
  <2>1. verdict = "running" /\ read' = read /\ (Return("ok") \/ Return("malformed"))
    BY <1>2 DEF EndOfInput, Truncated
  <2>2. verdict' \in {"ok", "malformed", "too large"} /\ UNCHANGED <<src, maxOut, pos, out, reserved>>
    BY <2>1 DEF Return
  <2>3. read' \in Nat /\ pos <= read' /\ read' <= Len(cells)
    BY <2>1, <1>1
  <2> QED
    BY <2>1, <2>2, <2>3
<1>3. CASE EndOfStream \/ UnknownMagic \/ RefuseTruncatedHeader
  <2>1. /\ verdict = "running" /\ pos + MagicSize <= Len(cells)
        /\ read' = pos + MagicSize /\ (Return("ok") \/ Return("malformed"))
    BY <1>3 DEF EndOfStream, UnknownMagic, RefuseTruncatedHeader, At, Avail
  <2>2. verdict' \in {"ok", "malformed", "too large"} /\ UNCHANGED <<src, maxOut, pos, out, reserved>>
    BY <2>1 DEF Return
  <2>3. read' \in Nat /\ pos <= read' /\ read' <= Len(cells)
    BY <2>1, <1>1
  <2> QED
    BY <2>1, <2>2, <2>3
<1>4. CASE RefuseMalformed
  <2>1. BlockHere /\ Return("malformed")
        /\ read' = IF HeaderValid(Header) THEN Start(Header) ELSE pos + FixedSize(Header.magic)
    BY <1>4 DEF RefuseMalformed
  <2>2. read' \in Nat /\ pos <= read' /\ read' <= Len(cells)
    <3>1. CASE HeaderValid(Header)
      BY <3>1, <2>1, <1>1, StartInside
    <3>2. CASE ~ HeaderValid(Header)
      BY <3>2, <2>1, <1>1, HeaderFacts DEF Avail
    <3> QED
      BY <3>1, <3>2
  <2> QED
    BY <2>1, <2>2, <1>1, HeaderFacts DEF Return
<1>5. CASE RefuseTooLarge
  <2>1. BlockHere /\ HeaderValid(Header) /\ Return("too large") /\ read' = Start(Header)
    BY <1>5 DEF RefuseTooLarge, WellFormed
  <2> QED
    BY <2>1, <1>1, HeaderFacts, StartInside DEF Return
<1>6. CASE DecodeFails
  <2>1. BlockHere /\ WellFormed(Header) /\ read' = End(Header) /\ verdict' = "malformed"
        /\ UNCHANGED <<src, maxOut, pos, out>>
    BY <1>6 DEF DecodeFails
  <2>2. verdict = "running" /\ Header.payload \in Nat
    BY <2>1, <1>1, HeaderFacts
  <2>3. End(Header) \in Nat /\ pos <= End(Header) /\ End(Header) <= Len(cells)
    BY <2>1, <2>2, <1>1, EndInside
  <2> QED
    BY <2>1, <2>2, <2>3, <1>6
<1> QED
  BY <1>2, <1>3, <1>4, <1>5, <1>6 DEF Next

\* Each action keeps the invariant.
LEMMA Preserved == IInv /\ [Next]_vars => IInv'
<1> SUFFICES ASSUME IInv, [Next]_vars PROVE IInv'
  OBVIOUS
<1>1. CASE UNCHANGED vars
  BY <1>1 DEF vars, IInv, Typing, ReadsInside, Accounted, Limit, Size, cells
<1>2. CASE AcceptBlock
  BY <1>2, Accepting
<1>3. CASE DecodeFails /\ ~ AcceptBlock
  <2>1. BlockHere /\ WellFormed(Header) /\ Reserve(Header) /\ read' = End(Header)
    BY <1>3 DEF DecodeFails
  <2>2. reserved' \in Nat /\ reserved' <= Expansion * read'
    BY <2>1, ReservePaid
  <2>3. /\ verdict' # "running" /\ read' \in Nat /\ pos <= read' /\ read' <= Len(cells)
        /\ UNCHANGED <<src, maxOut, pos, out>>
    BY <1>3, Others DEF Next
  <2>4. Limit' = Limit /\ Size(out)' = Size(out) /\ cells' = cells
    BY <2>3 DEF Limit, Size, cells
  <2> QED
    BY <2>2, <2>3, <2>4 DEF IInv, Typing, ReadsInside, Accounted
<1>4. CASE Next /\ ~ AcceptBlock /\ ~ DecodeFails
  <2>1. /\ verdict = "running" /\ verdict' # "running"
        /\ read' \in Nat /\ pos <= read' /\ read' <= Len(cells)
        /\ UNCHANGED <<src, maxOut, pos, out, reserved>>
    BY <1>4, Others
  <2> QED
    BY <2>1, Returning
<1> QED
  BY <1>1, <1>2, <1>3, <1>4

\* For every stream, own or foreign, and every limit, the bytes reserved are
\* paid for by those read and the output is within the limit.
THEOREM Invariance == Spec => []IInv
BY Initial, Preserved, PTL DEF Spec

\* Nothing beyond the end of the stream is read, for every stream: headers
\* cut short, sizes that do not fit, payloads that are not there.
THEOREM ReadsInsideHolds == Spec => []ReadsInside
BY Invariance, PTL DEF IInv

\* What is allocated on the word of LZVN headers is at most the expansion
\* bound times the bytes read, for every stream and limit.
THEOREM AllocationBoundedHolds == Spec => []AllocationBounded
<1>1. IInv => AllocationBounded
  BY DEF IInv, Accounted, AllocationBounded
<1> QED
  BY Invariance, <1>1, PTL

\* A block is a delivery, any other action a return.
LEMMA StepRefines == IInv /\ [Next]_vars => [Promise!Next]_<<Limit, Size(out), verdict>>
<1> SUFFICES ASSUME IInv, [Next]_vars PROVE [Promise!Next]_<<Limit, Size(out), verdict>>
  OBVIOUS
<1>1. CASE UNCHANGED vars
  BY <1>1 DEF vars, Limit, Size
<1>2. CASE AcceptBlock
  <2>1. /\ verdict' = verdict /\ verdict' = "running" /\ Limit' = Limit
        /\ Size(out)' = Size(out) \/ \E k \in 1 .. Limit - Size(out) : Size(out)' = Size(out) + k
    BY <1>2, Accepting DEF AcceptBlock
  <2> QED
    BY <2>1 DEF Promise!Next, Promise!Deliver
<1>3. CASE Next /\ ~ AcceptBlock
  <2>1. /\ verdict = "running" /\ verdict' \in {"ok", "malformed", "too large"}
        /\ UNCHANGED <<maxOut, out>>
    BY <1>3, Others
  <2>2. Limit' = Limit /\ Size(out)' = Size(out)
    BY <2>1 DEF Limit, Size
  <2> QED
    BY <2>1, <2>2 DEF Promise!Next, Promise!Return
<1> QED
  BY <1>1, <1>2, <1>3

\* The safety half of ImplementsBoundedOutput: whatever the stream declares,
\* output is only ever appended to, and stays within the limit.
THEOREM RefinesBoundedOutput ==
    Spec => Promise!Init /\ [][Promise!Next]_<<Limit, Size(out), verdict>>
<1>1. Init => Promise!Init
  BY LimitIsNat DEF Init, Promise!Init, Size
<1> QED
  BY <1>1, Invariance, StepRefines, PTL DEF Spec

-----------------------------------------------------------------------------
(***************************************************************************)
(* The streams of Compress: blocks one after the other, each as long as    *)
(* its header says.                                                        *)
(***************************************************************************)
Payloads == {b \in {LzvnBlock(n, p) : n, p \in Nat} : b.raw <= Expansion * b.payload}
Coded == {V2Block(n, h, p) : n, p \in Nat, h \in {x \in Nat : V2HeaderMin <= x}}

\* Those of compressLZFSE, and all.
SplitBlocks == {StoredBlock(n) : n \in Nat} \cup Coded \cup {Overfull(b) : b \in Coded}
OwnBlocks == SplitBlocks \cup Payloads \cup {Misread(b, y) : b \in Payloads, y \in {Error} \cup Nat}

\* What the decoder finds of a header: it yields what it declares, unless its
\* runs or records are beyond their limits; then it is an LZVN block,
\* or refused.
Acceptable(b) ==
    /\ b.magic \in {"stored", "lzvn", "v2"}
    /\ b.headerSize \in Nat /\ b.payload \in Nat /\ b.raw \in Nat /\ b.within \in BOOLEAN
    /\ b.within => b.yields = b.raw
    /\ MagicSize <= b.headerSize /\ FixedSize(b.magic) <= b.headerSize
    /\ b.magic = "stored" => b.within
    /\ b.magic = "v2" => V2HeaderMin <= b.headerSize /\ b.fits /\ b.yields = b.raw /\ (b.symbolsOK <=> b.within)
    /\ b.magic = "lzvn" => b.raw <= Expansion * b.payload

\* The blocks of Compress are of that kind.
LEMMA OwnBlocksAre ==
    ASSUME NEW b \in OwnBlocks
    PROVE  Acceptable(b) /\ (b \in SplitBlocks => b.magic # "lzvn")
<1>0. /\ MagicSize <= StoredHeader /\ MagicSize <= LzvnHeader /\ MagicSize <= V2HeaderMin
      /\ StoredHeader \in Nat /\ LzvnHeader \in Nat /\ V2HeaderMin \in Nat /\ MagicSize \in Nat
  BY FormatAssumption
<1>1. ASSUME NEW n \in Nat, NEW c, c = StoredBlock(n) PROVE Acceptable(c) /\ c.magic = "stored"
  BY <1>0, <1>1 DEF StoredBlock, Acceptable, FixedSize
<1>2. ASSUME NEW c \in Payloads
      PROVE  /\ Acceptable(c) /\ \A y : Acceptable(Misread(c, y))
  <2>1. PICK n \in Nat, p \in Nat : c = LzvnBlock(n, p) /\ c.raw <= Expansion * c.payload
    BY DEF Payloads
  <2>2. Acceptable(c)
    BY <1>0, <2>1 DEF LzvnBlock, Acceptable, FixedSize
  <2>3. ASSUME NEW y PROVE Acceptable(Misread(c, y))
    BY <1>0, <2>1 DEF LzvnBlock, Misread, Acceptable, FixedSize
  <2> QED
    BY <2>2, <2>3
<1>3. ASSUME NEW c \in Coded
      PROVE  /\ Acceptable(c) /\ Acceptable(Overfull(c))
             /\ c.magic = "v2" /\ Overfull(c).magic = "v2"
  <2>1. PICK n \in Nat, p \in Nat, h \in Nat : V2HeaderMin <= h /\ c = V2Block(n, h, p)
    BY DEF Coded
  <2> QED
    BY <1>0, <2>1 DEF V2Block, Overfull, Acceptable, FixedSize
<1>4. ASSUME b \in SplitBlocks PROVE Acceptable(b) /\ b.magic # "lzvn"
  BY <1>1, <1>3, <1>4 DEF SplitBlocks
<1>5. ASSUME b \notin SplitBlocks PROVE Acceptable(b)
  BY <1>2, <1>5 DEF OwnBlocks
<1> QED
  BY <1>4, <1>5

\* The cells of a stream and the bytes of a block.
Cells == OwnBlocks \cup {Data}
Whole(b) == <<b>> \o [j \in 1 .. b.headerSize + b.payload - 1 |-> Data]

\* A block takes its header and its payload.
LEMMA WholeIs ==
    ASSUME NEW b \in OwnBlocks
    PROVE  /\ Whole(b) \in Seq(Cells) /\ Len(Whole(b)) = b.headerSize + b.payload
           /\ Whole(b)[1] = b /\ b.headerSize + b.payload \in Nat /\ b.headerSize + b.payload > 0
<1> DEFINE k == b.headerSize + b.payload - 1
           rest == [j \in 1 .. k |-> Data]
<1>1. b.headerSize \in Nat /\ b.payload \in Nat /\ b.headerSize > 0
  BY OwnBlocksAre, FormatAssumption DEF Acceptable
<1>2. k \in Nat /\ k + 1 = b.headerSize + b.payload
  BY <1>1
<1> HIDE DEF k
<1>3. rest \in Seq(Cells) /\ Len(rest) = k
  <2>1. rest \in [1 .. k -> Cells]
    BY DEF Cells
  <2> HIDE DEF rest
  <2> QED
    BY <1>2, <2>1, AsSequence
<1>4. <<b>> \in Seq(Cells) /\ Len(<<b>>) = 1
  BY DEF Cells
<1> HIDE DEF rest
<1>5. <<b>> \o rest \in Seq(Cells) /\ Len(<<b>> \o rest) = 1 + k /\ (<<b>> \o rest)[1] = b
  BY <1>2, <1>3, <1>4
<1>6. Whole(b) = <<b>> \o rest
  BY DEF Whole, rest, k
<1> QED
  BY <1>1, <1>2, <1>5, <1>6

\* The bytes of blocks, one block more at a time.
LEMMA BytesEmpty == Bytes(<< >>) = << >>
<1>1. [i \in 1 .. Len(<< >>) |->
         <<(<< >>)[i]>> \o [j \in 1 .. (<< >>)[i].headerSize + (<< >>)[i].payload - 1 |-> Data]] = << >>
  OBVIOUS
<1> QED
  BY <1>1, FlattenEmpty DEF Bytes

\* One block more.
LEMMA BytesAppend ==
    ASSUME NEW bs \in Seq(OwnBlocks), NEW b \in OwnBlocks
    PROVE  /\ Bytes(bs) \in Seq(Cells)
           /\ Bytes(Append(bs, b)) = Bytes(bs) \o Whole(b)
<1> DEFINE all(s) == [i \in 1 .. Len(s) |-> Whole(s[i])]
<1>1. \A s : Bytes(s) = FlattenSeq(all(s))
  BY DEF Bytes, Whole
<1>2. Append(bs, b) \in Seq(OwnBlocks) /\ Len(Append(bs, b)) = Len(bs) + 1 /\ Len(bs) \in Nat
      /\ Append(bs, b)[Len(bs) + 1] = b /\ \A i \in 1 .. Len(bs) : Append(bs, b)[i] = bs[i]
  OBVIOUS
<1>3. all(bs) \in Seq(Seq(Cells)) /\ Len(all(bs)) = Len(bs)
  <2>1. all(bs) \in [1 .. Len(bs) -> Seq(Cells)]
    BY WholeIs
  <2> HIDE DEF all
  <2> QED
    BY <1>2, <2>1, AsSequence
<1>4. all(Append(bs, b)) = Append(all(bs), Whole(b))
  <2>1. Append(all(bs), Whole(b))
          = [i \in 1 .. Len(bs) + 1 |-> IF i <= Len(bs) THEN all(bs)[i] ELSE Whole(b)]
    <3> HIDE DEF all
    <3> QED
      BY <1>3, AppendIs
  <2>2. all(Append(bs, b)) = [i \in 1 .. Len(bs) + 1 |-> Whole(Append(bs, b)[i])]
    BY <1>2
  <2>3. ASSUME NEW i \in 1 .. Len(bs) + 1
        PROVE  Whole(Append(bs, b)[i]) = IF i <= Len(bs) THEN all(bs)[i] ELSE Whole(b)
    <3>1. CASE i <= Len(bs)
      BY <1>2, <3>1
    <3>2. CASE ~ (i <= Len(bs))
      <4>1. i = Len(bs) + 1
        BY <1>2, <3>2
      <4> QED
        BY <1>2, <3>2, <4>1
    <3> QED
      BY <3>1, <3>2
  <2> HIDE DEF all
  <2> QED
    BY <2>1, <2>2, <2>3
<1>5. Whole(b) \in Seq(Cells)
  BY WholeIs
<1> HIDE DEF all
<1>6. FlattenSeq(all(bs)) \in Seq(Cells)
      /\ FlattenSeq(Append(all(bs), Whole(b))) = FlattenSeq(all(bs)) \o Whole(b)
  BY <1>3, <1>5, FlattenAppend
<1> QED
  BY <1>1, <1>4, <1>6

\* The first blocks of a stream, one more at a time.
LEMMA OneMore ==
    ASSUME NEW S, NEW bs \in Seq(S)
    PROVE  /\ SubSeq(bs, 1, 0) = << >> /\ SubSeq(bs, 1, Len(bs)) = bs /\ Len(bs) \in Nat
           /\ \A j \in 0 .. Len(bs) : SubSeq(bs, 1, j) \in Seq(S) /\ Len(SubSeq(bs, 1, j)) = j
           /\ \A j \in 0 .. Len(bs) - 1 :
                bs[j + 1] \in S /\ SubSeq(bs, 1, j + 1) = Append(SubSeq(bs, 1, j), bs[j + 1])
<1>1. Len(bs) \in Nat /\ SubSeq(bs, 1, 0) = << >> /\ SubSeq(bs, 1, Len(bs)) = bs
  OBVIOUS
<1>2. ASSUME NEW j \in 0 .. Len(bs) PROVE SubSeq(bs, 1, j) \in Seq(S) /\ Len(SubSeq(bs, 1, j)) = j
  BY <1>1
<1>3. ASSUME NEW j \in 0 .. Len(bs) - 1
      PROVE  bs[j + 1] \in S /\ SubSeq(bs, 1, j + 1) = Append(SubSeq(bs, 1, j), bs[j + 1])
  <2> DEFINE a == SubSeq(bs, 1, j)
             c == SubSeq(bs, 1, j + 1)
  <2>1. j + 1 \in 1 .. Len(bs) /\ j + 1 \in 0 .. Len(bs) /\ j \in 0 .. Len(bs) /\ bs[j + 1] \in S
    BY <1>1
  <2>2. a \in Seq(S) /\ Len(a) = j /\ c \in Seq(S) /\ Len(c) = j + 1
    BY <1>2, <2>1
  <2>3. \A i \in 1 .. j : a[i] = bs[i]
    BY <1>1, <2>1
  <2>4. \A i \in 1 .. j + 1 : c[i] = bs[i]
    BY <1>1, <2>1
  <2> HIDE DEF a, c
  <2>5. Append(a, bs[j + 1]) \in Seq(S) /\ Len(Append(a, bs[j + 1])) = j + 1
        /\ Append(a, bs[j + 1])[j + 1] = bs[j + 1]
        /\ \A i \in 1 .. j : Append(a, bs[j + 1])[i] = a[i]
    BY <2>1, <2>2
  <2>6. \A i \in 1 .. j + 1 : Append(a, bs[j + 1])[i] = c[i]
    BY <2>1, <2>3, <2>4, <2>5
  <2>7. c = Append(a, bs[j + 1])
    BY <2>2, <2>5, <2>6, SeqEqual
  <2> QED
    BY <2>1, <2>7 DEF a, c
<1> QED
  BY <1>1, <1>2, <1>3

\* s is the beginning of t.
Begins(s, t) == Len(s) <= Len(t) /\ \A i \in 1 .. Len(s) : t[i] = s[i]

\* A concatenation, as far as positions go.
LEMMA Joins ==
    ASSUME NEW S, NEW s \in Seq(S), NEW t \in Seq(S)
    PROVE  /\ s \o t \in Seq(S) /\ Len(s \o t) = Len(s) + Len(t) /\ Begins(s, s \o t)
           /\ \A i \in 1 .. Len(t) : (s \o t)[Len(s) + i] = t[i]
<1>1. s \o t \in Seq(S) /\ Len(s \o t) = Len(s) + Len(t) /\ Len(s) \in Nat /\ Len(t) \in Nat
  OBVIOUS
<1>2. \A i \in 1 .. Len(s) : (s \o t)[i] = s[i]
  OBVIOUS
<1>3. \A i \in 1 .. Len(t) : (s \o t)[Len(s) + i] = t[i]
  OBVIOUS
<1> QED
  BY <1>1, <1>2, <1>3 DEF Begins

\* Block j + 1 lies behind the first j.
LEMMA NextBlockAt ==
    ASSUME NEW bs \in Seq(OwnBlocks), NEW j \in 0 .. Len(bs) - 1
    PROVE  LET s == Bytes(SubSeq(bs, 1, j))
               t == Bytes(SubSeq(bs, 1, j + 1))
               b == bs[j + 1]
           IN /\ s \in Seq(Cells) /\ t \in Seq(Cells) /\ Begins(s, t)
              /\ Len(t) = Len(s) + b.headerSize + b.payload /\ t[Len(s) + 1] = b /\ Len(s) + 1 <= Len(t)
<1> DEFINE a == SubSeq(bs, 1, j)
           b == bs[j + 1]
           s == Bytes(a)
           w == Whole(b)
           size == b.headerSize + b.payload
<1>1. a \in Seq(OwnBlocks) /\ b \in OwnBlocks /\ SubSeq(bs, 1, j + 1) = Append(a, b)
  BY OneMore
<1>2. s \in Seq(Cells) /\ Bytes(Append(a, b)) = s \o w
  BY <1>1, BytesAppend
<1>3. w \in Seq(Cells) /\ Len(w) = size /\ w[1] = b /\ size \in Nat /\ size > 0
  BY <1>1, WholeIs
<1> HIDE DEF s, w
<1>4. s \o w \in Seq(Cells) /\ Len(s \o w) = Len(s) + Len(w) /\ Begins(s, s \o w)
      /\ \A i \in 1 .. Len(w) : (s \o w)[Len(s) + i] = w[i]
  <2>1. s \in Seq(Cells) /\ w \in Seq(Cells)
    BY <1>2, <1>3
  <2> QED
    BY <2>1, Joins, Zenon
<1>5. Len(s) \in Nat /\ 1 \in 1 .. Len(w)
  BY <1>2, <1>3
<1>6. b.headerSize \in Nat /\ b.payload \in Nat
  BY <1>1, OwnBlocksAre DEF Acceptable
<1>7. (s \o w)[Len(s) + 1] = b /\ Len(s \o w) = Len(s) + b.headerSize + b.payload
      /\ Len(s) + 1 <= Len(s \o w)
  BY <1>3, <1>4, <1>5, <1>6 DEF size
<1> QED
  BY <1>1, <1>2, <1>4, <1>7 DEF s

\* The bytes of the first blocks begin those of more blocks.
LEMMA FirstBytes ==
    ASSUME NEW bs \in Seq(OwnBlocks), NEW j \in 0 .. Len(bs), NEW k \in j .. Len(bs)
    PROVE  /\ Begins(Bytes(SubSeq(bs, 1, j)), Bytes(SubSeq(bs, 1, k)))
           /\ Bytes(SubSeq(bs, 1, k)) \in Seq(Cells)
<1> DEFINE B(i) == Bytes(SubSeq(bs, 1, i))
           T == {i \in Nat : j + i <= Len(bs) => Begins(B(j), B(j + i))}
<1>0. \A i \in 0 .. Len(bs) : B(i) \in Seq(Cells)
  <2>1. B(0) \in Seq(Cells)
    <3>1. SubSeq(bs, 1, 0) = << >>
      BY OneMore
    <3>2. << >> \in Seq(Cells)
      OBVIOUS
    <3> QED
      BY <3>1, <3>2, BytesEmpty, Zenon
  <2>2. ASSUME NEW i \in 0 .. Len(bs) - 1 PROVE B(i + 1) \in Seq(Cells)
    BY NextBlockAt
  <2> HIDE DEF B
  <2>3. ASSUME NEW i \in 0 .. Len(bs) PROVE B(i) \in Seq(Cells)
    <3>1. CASE i = 0
      BY <2>1, <3>1
    <3>2. CASE i > 0
      <4>1. i - 1 \in 0 .. Len(bs) - 1 /\ (i - 1) + 1 = i
        BY <3>2
      <4> QED
        BY <2>2, <4>1
    <3> QED
      BY <3>1, <3>2
  <2> QED
    BY <2>3
<1>1. 0 \in T
  <2>1. Begins(B(j), B(j))
    BY <1>0 DEF Begins
  <2>2. j + 0 = j
    OBVIOUS
  <2> QED
    BY <2>1, <2>2
<1>2. ASSUME NEW i \in Nat, i \in T PROVE i + 1 \in T
  <2> SUFFICES ASSUME j + (i + 1) <= Len(bs) PROVE Begins(B(j), B(j + (i + 1)))
    OBVIOUS
  <2>1. j + i \in 0 .. Len(bs) - 1 /\ (j + i) + 1 = j + (i + 1) /\ Len(bs) \in Nat
    OBVIOUS
  <2>2. Begins(B(j), B(j + i))
    BY <1>2, <2>1
  <2>3. Begins(B(j + i), B((j + i) + 1))
    BY <2>1, NextBlockAt
  <2>4. Len(B(j)) \in Nat /\ Len(B(j + i)) \in Nat /\ Len(B((j + i) + 1)) \in Nat
    <3>1. j \in 0 .. Len(bs) /\ j + i \in 0 .. Len(bs) /\ (j + i) + 1 \in 0 .. Len(bs)
      BY <2>1
    <3> HIDE DEF B
    <3> QED
      BY <1>0, <3>1
  <2> HIDE DEF B
  <2>5. Begins(B(j), B((j + i) + 1))
    BY <2>2, <2>3, <2>4 DEF Begins
  <2> QED
    BY <2>1, <2>5
<1>3. k - j \in T /\ j + (k - j) = k /\ k \in 0 .. Len(bs)
  <2>1. k - j \in Nat /\ j + (k - j) = k /\ k \in 0 .. Len(bs)
    OBVIOUS
  <2> HIDE DEF T
  <2> QED
    BY <1>1, <1>2, <2>1, Induction
<1>4. Begins(B(j), B(k)) /\ B(k) \in Seq(Cells)
  <2> HIDE DEF B
  <2>1. j + (k - j) <= Len(bs)
    BY <1>3
  <2> QED
    BY <1>0, <1>3, <2>1
<1> QED
  BY <1>4

\* The stream is the bytes of the blocks and the end marker.
LEMMA StreamIs ==
    ASSUME NEW bs \in Seq(OwnBlocks)
    PROVE  /\ Bytes(bs) \in Seq(Cells) /\ Stream(bs) \in Seq(Cells \cup {EndMark})
           /\ Len(Stream(bs)) = Len(Bytes(bs)) + MagicSize /\ Begins(Bytes(bs), Stream(bs))
           /\ Stream(bs)[Len(Bytes(bs)) + 1] = EndMark
<1> DEFINE C == Cells \cup {EndMark}
           k == MagicSize - 1
           rest == [j \in 1 .. k |-> Data]
<1>0. k \in Nat /\ k + 1 = MagicSize
  BY FormatAssumption
<1> HIDE DEF k
<1>1. rest \in Seq(C) /\ Len(rest) = k
  <2>1. rest \in [1 .. k -> C]
    BY DEF Cells
  <2> HIDE DEF rest, C
  <2> QED
    BY <1>0, <2>1, AsSequence
<1>2. <<EndMark>> \in Seq(C) /\ Len(<<EndMark>>) = 1
  OBVIOUS
<1>3. EndBytes = <<EndMark>> \o rest
  BY DEF EndBytes, rest, k
<1>4. Bytes(bs) \in Seq(Cells)
  <2>1. SubSeq(bs, 1, Len(bs)) = bs /\ Len(bs) \in Nat
    BY OneMore
  <2>2. Len(bs) \in 0 .. Len(bs) /\ Len(bs) \in Len(bs) .. Len(bs)
    BY <2>1
  <2>3. Bytes(SubSeq(bs, 1, Len(bs))) \in Seq(Cells)
    BY <2>2, FirstBytes
  <2> QED
    BY <2>1, <2>3
<1>5. Bytes(bs) \in Seq(C)
  BY <1>4
<1> HIDE DEF rest, C
<1>6. /\ <<EndMark>> \o rest \in Seq(C) /\ Len(<<EndMark>> \o rest) = 1 + k
      /\ (<<EndMark>> \o rest)[1] = EndMark
  BY <1>0, <1>1, <1>2
<1>7. /\ EndBytes \in Seq(C) /\ Len(EndBytes) = MagicSize /\ EndBytes[1] = EndMark
      /\ 1 \in 1 .. Len(EndBytes)
  BY <1>0, <1>3, <1>6
<1>8. /\ Bytes(bs) \o EndBytes \in Seq(C)
      /\ Len(Bytes(bs) \o EndBytes) = Len(Bytes(bs)) + Len(EndBytes)
      /\ Begins(Bytes(bs), Bytes(bs) \o EndBytes)
      /\ \A i \in 1 .. Len(EndBytes) : (Bytes(bs) \o EndBytes)[Len(Bytes(bs)) + i] = EndBytes[i]
  BY <1>5, <1>7, Joins
<1> QED
  BY <1>4, <1>7, <1>8 DEF Stream, C

-----------------------------------------------------------------------------
(***************************************************************************)
(* What Compress returns: blocks that hold its source, and no more bytes   *)
(* than the source stored takes.                                           *)
(***************************************************************************)
Raws(bs) == [k \in 1 .. Len(bs) |-> bs[k].raw]
Holding(S, n) == {bs \in Seq(S) : SumFunction(Raws(bs)) = n}

\* A block appended adds what it holds.
LEMMA HoldsMore ==
    ASSUME NEW bs \in Seq(OwnBlocks), NEW b \in OwnBlocks
    PROVE  /\ Append(bs, b) \in Seq(OwnBlocks)
           /\ SumFunction(Raws(bs)) \in Int
           /\ SumFunction(Raws(Append(bs, b))) = SumFunction(Raws(bs)) + b.raw
<1> DEFINE a == Append(bs, b)
<1>1. a \in Seq(OwnBlocks) /\ Len(a) = Len(bs) + 1 /\ Len(bs) \in Nat
      /\ a[Len(bs) + 1] = b /\ \A i \in 1 .. Len(bs) : a[i] = bs[i]
  OBVIOUS
<1>2. \A x \in OwnBlocks : x.raw \in Int
  BY OwnBlocksAre DEF Acceptable
<1>3. Raws(bs) \in Seq(Int) /\ Len(Raws(bs)) = Len(bs)
  <2>1. Raws(bs) \in [1 .. Len(bs) -> Int]
    BY <1>2 DEF Raws
  <2> QED
    BY <1>1, <2>1, AsSequence
<1> HIDE DEF a
<1>4. Raws(a) = Append(Raws(bs), b.raw)
  <2>1. Append(Raws(bs), b.raw)
          = [i \in 1 .. Len(bs) + 1 |-> IF i <= Len(bs) THEN Raws(bs)[i] ELSE b.raw]
    BY <1>3, AppendIs
  <2>2. Raws(a) = [i \in 1 .. Len(bs) + 1 |-> a[i].raw]
    BY <1>1 DEF Raws
  <2>3. ASSUME NEW i \in 1 .. Len(bs) + 1
        PROVE  a[i].raw = IF i <= Len(bs) THEN Raws(bs)[i] ELSE b.raw
    <3>1. CASE i <= Len(bs)
      BY <1>1, <3>1 DEF Raws
    <3>2. CASE ~ (i <= Len(bs))
      <4>1. i = Len(bs) + 1
        BY <1>1, <3>2
      <4> QED
        BY <1>1, <3>2, <4>1
    <3> QED
      BY <3>1, <3>2
  <2> QED
    BY <2>1, <2>2, <2>3
<1>5. b.raw \in Int
  BY <1>2
<1> QED
  BY <1>1, <1>3, <1>4, <1>5, SumAppend DEF a

\* No blocks hold nothing.
LEMMA HoldsNothing == SumFunction(Raws(<< >>)) = 0
<1>1. DOMAIN Raws(<< >>) = {}
  BY DEF Raws
<1> QED
  BY <1>1, SumEmpty DEF SumFunction

\* A partition of n bytes into blocks holds n bytes.
LEMMA PartsHold ==
    ASSUME NEW n \in Nat
    PROVE  CompressLZFSE(n) \subseteq Holding(SplitBlocks, n)
<1> DEFINE Of(g, k, i) == {Append(blocks, b) : blocks \in g[k - i], b \in BlocksFor(i)}
           Sizes(k) == {j \in BlockSizes : j <= k}
           Val(g, k) == IF k = 0 THEN { << >> } ELSE UNION {Of(g, k, i) : i \in Sizes(k)}
           Loads(g) == [k \in 0 .. n |-> Val(g, k)]
           parts == CHOOSE g : g = Loads(g)
           T == {m \in Nat : \E f : f = [k \in 0 .. m |-> Val(f, k)]}
<1>0. \A k \in Nat : \A i \in Sizes(k) : i \in Nat \ {0} /\ k - i \in 0 .. k - 1
  BY FormatAssumption
<1>1. ASSUME NEW f, NEW g, NEW k \in Nat, \A e \in 0 .. k - 1 : f[e] = g[e]
      PROVE  Val(f, k) = Val(g, k)
  <2>1. \A i \in Sizes(k) : Of(f, k, i) = Of(g, k, i)
    BY <1>0, <1>1
  <2> HIDE DEF Of, Sizes
  <2>2. {Of(f, k, i) : i \in Sizes(k)} = {Of(g, k, i) : i \in Sizes(k)}
    BY <2>1
  <2> QED
    BY <2>2
<1>2. 0 \in T
  <2> DEFINE f == [k \in 0 .. 0 |-> { << >> }]
  <2>1. \A k \in 0 .. 0 : Val(f, k) = { << >> }
    OBVIOUS
  <2> HIDE DEF Val
  <2>2. f = [k \in 0 .. 0 |-> Val(f, k)]
    BY <2>1
  <2> QED
    BY <2>2
<1>3. ASSUME NEW m \in Nat, m \in T PROVE m + 1 \in T
  <2>1. PICK f : f = [k \in 0 .. m |-> Val(f, k)]
    BY <1>3
  <2> DEFINE h == [k \in 0 .. m + 1 |-> IF k <= m THEN f[k] ELSE Val(f, m + 1)]
  <2>2. \A e \in 0 .. m : h[e] = f[e]
    OBVIOUS
  <2>3. ASSUME NEW k \in 0 .. m + 1 PROVE h[k] = Val(h, k)
    <3>1. Val(h, k) = Val(f, k)
      <4>1. \A e \in 0 .. k - 1 : h[e] = f[e]
        BY <2>2
      <4>2. k \in Nat
        OBVIOUS
      <4> HIDE DEF h, Val
      <4> QED
        BY <1>1, <4>1, <4>2
    <3>2. h[k] = Val(f, k)
      <4> HIDE DEF Val
      <4>1. CASE k <= m
        <5>1. k \in 0 .. m
          BY <4>1
        <5>2. f[k] = Val(f, k)
          BY <2>1, <5>1
        <5> QED
          BY <2>2, <5>1, <5>2
      <4>2. CASE ~ (k <= m)
        <5>1. k = m + 1
          BY <4>2
        <5> QED
          BY <5>1
      <4> QED
        BY <4>1, <4>2
    <3> QED
      BY <3>1, <3>2
  <2> HIDE DEF Val
  <2>4. h = [k \in 0 .. m + 1 |-> h[k]]
    OBVIOUS
  <2> HIDE DEF h
  <2>5. h = [k \in 0 .. m + 1 |-> Val(h, k)]
    BY <2>3, <2>4
  <2> QED
    BY <2>5
<1>4. parts = Loads(parts)
  <2>1. n \in T
    <3> HIDE DEF T
    <3> QED
      BY <1>2, <1>3, Induction
  <2>2. \E g : g = Loads(g)
    BY <2>1
  <2> HIDE DEF Loads
  <2> QED
    BY <2>2
<1> DEFINE U == {m \in Nat : m <= n => \A k \in 0 .. m : parts[k] \subseteq Holding(SplitBlocks, k)}
<1>5. ASSUME NEW i \in Nat, NEW b \in BlocksFor(i) PROVE b \in SplitBlocks /\ b.raw = i
  <2>1. CASE b = StoredBlock(i)
    BY <2>1 DEF SplitBlocks, StoredBlock
  <2>2. ASSUME NEW h \in CodedSizes, NEW p \in CodedSizes
        PROVE  LET c == V2Block(i, V2HeaderMin + h, p)
               IN c \in Coded /\ c.raw = i /\ Overfull(c).raw = i
    <3>1. V2HeaderMin + h \in {x \in Nat : V2HeaderMin <= x} /\ p \in Nat
      BY FormatAssumption
    <3>2. V2Block(i, V2HeaderMin + h, p) \in Coded
      BY <3>1 DEF Coded
    <3> QED
      BY <3>2 DEF V2Block, Overfull
  <2>3. b = StoredBlock(i) \/ \E h, p \in CodedSizes :
          b = V2Block(i, V2HeaderMin + h, p) \/ b = Overfull(V2Block(i, V2HeaderMin + h, p))
    BY DEF BlocksFor
  <2> QED
    BY <2>1, <2>2, <2>3 DEF SplitBlocks
<1>6. \A k \in 0 .. n : parts[k] = Val(parts, k)
  <2> HIDE DEF parts, Val
  <2> QED
    BY <1>4
<1> HIDE DEF parts
<1>7. ASSUME NEW k \in 0 .. n, k > 0, \A e \in 0 .. k - 1 : parts[e] \subseteq Holding(SplitBlocks, e)
      PROVE  parts[k] \subseteq Holding(SplitBlocks, k)
  <2> SUFFICES ASSUME NEW bs \in parts[k] PROVE bs \in Holding(SplitBlocks, k)
    OBVIOUS
  <2>1. PICK i \in Sizes(k) : bs \in Of(parts, k, i)
    <3>1. bs \in UNION {Of(parts, k, i) : i \in Sizes(k)}
      <4>1. parts[k] = Val(parts, k)
        <5> HIDE DEF Val
        <5> QED
          BY <1>6
      <4>2. k # 0
        BY <1>7
      <4> HIDE DEF Of, Sizes
      <4> QED
        BY <4>1, <4>2
    <3> HIDE DEF Of, Sizes
    <3> QED
      BY <3>1
  <2>2. PICK first \in parts[k - i], b \in BlocksFor(i) : bs = Append(first, b)
    BY <2>1
  <2>3. i \in Nat /\ k - i \in 0 .. k - 1 /\ k \in Nat
    BY <1>0
  <2>4. first \in Seq(SplitBlocks) /\ SumFunction(Raws(first)) = k - i
    BY <1>7, <2>2, <2>3 DEF Holding
  <2>5. b \in SplitBlocks /\ b.raw = i
    BY <1>5, <2>2, <2>3
  <2>6. bs \in Seq(SplitBlocks) /\ SumFunction(Raws(bs)) = (k - i) + i
    <3>1. first \in Seq(OwnBlocks) /\ b \in OwnBlocks
      BY <2>4, <2>5 DEF OwnBlocks
    <3>2. Append(first, b) \in Seq(SplitBlocks)
      BY <2>4, <2>5
    <3> QED
      BY <2>2, <2>4, <2>5, <3>1, <3>2, HoldsMore
  <2>7. (k - i) + i = k
    BY <2>3
  <2> QED
    BY <2>6, <2>7 DEF Holding
<1>8. 0 \in U
  <2>1. parts[0] = { << >> }
    <3>1. parts[0] = Val(parts, 0)
      <4> HIDE DEF Val
      <4> QED
        BY <1>6
    <3> HIDE DEF Of, Sizes
    <3> QED
      BY <3>1
  <2>2. << >> \in Holding(SplitBlocks, 0)
    BY HoldsNothing DEF Holding
  <2> QED
    BY <2>1, <2>2
<1>9. ASSUME NEW m \in Nat, m \in U PROVE m + 1 \in U
  <2> SUFFICES ASSUME m + 1 <= n, NEW k \in 0 .. m + 1 PROVE parts[k] \subseteq Holding(SplitBlocks, k)
    OBVIOUS
  <2>1. \A e \in 0 .. m : parts[e] \subseteq Holding(SplitBlocks, e)
    BY <1>9
  <2>2. CASE k <= m
    BY <2>1, <2>2
  <2>3. CASE k = m + 1
    <3>1. k \in 0 .. n /\ k > 0 /\ k - 1 = m
      BY <2>3
    <3> QED
      BY <1>7, <2>1, <3>1
  <2> QED
    BY <2>2, <2>3
<1>10. parts[n] \subseteq Holding(SplitBlocks, n)
  <2>1. n \in U
    <3> HIDE DEF U
    <3> QED
      BY <1>8, <1>9, Induction
  <2> QED
    BY <2>1
<1>11. CompressLZFSE(n) = parts[n]
  BY DEF CompressLZFSE, parts
<1> QED
  BY <1>10, <1>11

\* So does the one block of compressLZVN,
LEMMA LzvnHolds ==
    ASSUME NEW n \in Nat, NEW bs \in CompressLZVN(n)
    PROVE  bs \in Holding(OwnBlocks, n) /\ Len(bs) = 1
<1>1. PICK b \in LzvnBlocksFor(n) : bs = <<b>>
  BY DEF CompressLZVN
<1>2. ASSUME NEW p \in CodedSizes, n <= Expansion * p
      PROVE  LET c == LzvnBlock(n, p)
             IN c \in Payloads /\ c.raw = n /\ \A y : Misread(c, y).raw = n
  <2>1. p \in Nat
    BY FormatAssumption
  <2>2. LzvnBlock(n, p) \in {LzvnBlock(x, y) : x, y \in Nat}
    BY <2>1
  <2> QED
    BY <1>2, <2>2 DEF LzvnBlock, Misread, Payloads
<1>3. \E p \in CodedSizes :
        /\ n <= Expansion * p
        /\ b = LzvnBlock(n, p) \/ \E y \in {Error} \cup Nat : b = Misread(LzvnBlock(n, p), y)
  BY DEF LzvnBlocksFor
<1>4. b \in OwnBlocks /\ b.raw = n
  BY <1>2, <1>3 DEF OwnBlocks
<1>5. << >> \in Seq(OwnBlocks) /\ Append(<< >>, b) = <<b>>
  OBVIOUS
<1>6. <<b>> \in Seq(OwnBlocks) /\ SumFunction(Raws(<<b>>)) = SumFunction(Raws(<< >>)) + n
  BY <1>4, <1>5, HoldsMore
<1>7. SumFunction(Raws(<<b>>)) = n
  BY <1>6, HoldsNothing
<1> QED
  BY <1>1, <1>6, <1>7 DEF Holding

\* and the stored block, which costs the overhead.
LEMMA StoredHolds ==
    ASSUME NEW n \in Nat
    PROVE  /\ <<StoredBlock(n)>> \in Holding(OwnBlocks, n)
           /\ Len(Stream(<<StoredBlock(n)>>)) = n + Overhead
<1> DEFINE b == StoredBlock(n)
<1>1. b \in OwnBlocks /\ b.raw = n /\ b.headerSize = StoredHeader /\ b.payload = n
  <2>1. b \in SplitBlocks
    BY DEF SplitBlocks
  <2>2. b.raw = n /\ b.headerSize = StoredHeader /\ b.payload = n
    BY DEF StoredBlock
  <2> HIDE DEF b
  <2> QED
    BY <2>1, <2>2 DEF OwnBlocks
<1> HIDE DEF b
<1>2. << >> \in Seq(OwnBlocks) /\ Append(<< >>, b) = <<b>>
  OBVIOUS
<1>3. <<b>> \in Seq(OwnBlocks) /\ SumFunction(Raws(<<b>>)) = SumFunction(Raws(<< >>)) + n
  BY <1>1, <1>2, HoldsMore
<1>4. SumFunction(Raws(<<b>>)) = n
  BY <1>3, HoldsNothing
<1>5. Bytes(<<b>>) = << >> \o Whole(b)
  BY <1>1, <1>2, BytesAppend, BytesEmpty
<1>6. Whole(b) \in Seq(Cells) /\ Len(Whole(b)) = StoredHeader + n
  BY <1>1, WholeIs
<1>7. Len(Bytes(<<b>>)) = StoredHeader + n
  BY <1>5, <1>6
<1>8. Len(Stream(<<b>>)) = Len(Bytes(<<b>>)) + MagicSize
  BY <1>3, StreamIs
<1>9. Len(Stream(<<b>>)) = n + Overhead
  BY <1>7, <1>8, FormatAssumption DEF Overhead
<1> QED
  BY <1>3, <1>4, <1>9 DEF Holding, b

\* Compress: its blocks hold the source, and the stream is longer by the
\* stored form's overhead at most.  An LZVN block is alone, and of a short source.
LEMMA CompressHolds ==
    ASSUME NEW n \in Nat, NEW bs \in Compress(n)
    PROVE  /\ bs \in Seq(OwnBlocks) /\ SumFunction(Raws(bs)) = n
           /\ Len(Stream(bs)) <= n + Overhead
           /\ \A i \in 1 .. Len(bs) : bs[i].magic = "lzvn" => Len(bs) = 1 /\ n <= LzvnThreshold
<1> DEFINE coded == IF n <= LzvnThreshold THEN CompressLZVN(n) ELSE CompressLZFSE(n)
<1>0. PICK c \in coded :
         bs = IF Len(Stream(c)) >= n + Overhead THEN <<StoredBlock(n)>> ELSE c
  BY DEF Compress
<1>1. /\ c \in Holding(OwnBlocks, n)
      /\ \A i \in 1 .. Len(c) : c[i].magic = "lzvn" => Len(c) = 1 /\ n <= LzvnThreshold
  <2>1. CASE n <= LzvnThreshold
    BY <1>0, <2>1, LzvnHolds
  <2>2. CASE ~ (n <= LzvnThreshold)
    <3>1. c \in Seq(SplitBlocks) /\ SumFunction(Raws(c)) = n
      BY <1>0, <2>2, PartsHold DEF Holding
    <3>2. c \in Seq(OwnBlocks)
      BY <3>1 DEF OwnBlocks
    <3>3. \A i \in 1 .. Len(c) : c[i].magic # "lzvn"
      <4>1. ASSUME NEW i \in 1 .. Len(c) PROVE c[i].magic # "lzvn"
        <5>1. c[i] \in SplitBlocks /\ c[i] \in OwnBlocks
          BY <3>1, <3>2
        <5> QED
          BY <5>1, OwnBlocksAre
      <4> QED
        BY <4>1
    <3> QED
      BY <3>1, <3>2, <3>3 DEF Holding
  <2> QED
    BY <2>1, <2>2
<1> HIDE DEF coded
<1>2. n + Overhead \in Nat
  BY FormatAssumption DEF Overhead
<1>3. c \in Seq(OwnBlocks) /\ SumFunction(Raws(c)) = n
  BY <1>1 DEF Holding
<1>4. Len(Stream(c)) \in Nat
  BY <1>3, StreamIs
<1>5. CASE Len(Stream(c)) >= n + Overhead
  <2>1. bs = <<StoredBlock(n)>>
    BY <1>0, <1>5
  <2>2. \A i \in 1 .. Len(bs) : bs[i].magic = "stored"
    BY <2>1 DEF StoredBlock
  <2> QED
    BY <1>2, <2>1, <2>2, StoredHolds DEF Holding
<1>6. CASE ~ (Len(Stream(c)) >= n + Overhead)
  BY <1>0, <1>1, <1>2, <1>3, <1>4, <1>6
<1> QED
  BY <1>5, <1>6

\* What the first j blocks hold.
Held(bs, j) == SumFunction([k \in 1 .. j |-> bs[k].raw])

\* It grows block by block, up to what all of them hold.
LEMMA HeldIs ==
    ASSUME NEW bs \in Seq(OwnBlocks)
    PROVE  /\ Held(bs, 0) = 0 /\ Held(bs, Len(bs)) = SumFunction(Raws(bs))
           /\ \A j \in 0 .. Len(bs) : Held(bs, j) \in Nat
           /\ \A j \in 0 .. Len(bs) - 1 : Held(bs, j + 1) = Held(bs, j) + bs[j + 1].raw
           /\ \A j \in 0 .. Len(bs) : \A i \in 0 .. j : Held(bs, i) <= Held(bs, j)
<1>1. ASSUME NEW j \in 0 .. Len(bs) PROVE Held(bs, j) = SumFunction(Raws(SubSeq(bs, 1, j)))
  <2>1. SubSeq(bs, 1, j) \in Seq(OwnBlocks) /\ Len(SubSeq(bs, 1, j)) = j
    BY OneMore
  <2>2. \A k \in 1 .. j : SubSeq(bs, 1, j)[k] = bs[k]
    OBVIOUS
  <2>3. Raws(SubSeq(bs, 1, j)) = [k \in 1 .. j |-> bs[k].raw]
    BY <2>1, <2>2 DEF Raws
  <2> QED
    BY <2>3 DEF Held
<1>2. Len(bs) \in Nat /\ SubSeq(bs, 1, 0) = << >> /\ SubSeq(bs, 1, Len(bs)) = bs
  BY OneMore
<1>3. Held(bs, 0) = 0 /\ Held(bs, Len(bs)) = SumFunction(Raws(bs))
  <2>1. 0 \in 0 .. Len(bs) /\ Len(bs) \in 0 .. Len(bs)
    BY <1>2
  <2> QED
    BY <1>1, <1>2, <2>1, HoldsNothing
<1>4. ASSUME NEW j \in 0 .. Len(bs) - 1
      PROVE  Held(bs, j + 1) = Held(bs, j) + bs[j + 1].raw /\ bs[j + 1].raw \in Nat
  <2> DEFINE a == SubSeq(bs, 1, j)
             b == bs[j + 1]
  <2>1. a \in Seq(OwnBlocks) /\ b \in OwnBlocks /\ SubSeq(bs, 1, j + 1) = Append(a, b)
    BY OneMore
  <2>2. j \in 0 .. Len(bs) /\ j + 1 \in 0 .. Len(bs)
    BY <1>2
  <2>3. Held(bs, j) = SumFunction(Raws(a)) /\ Held(bs, j + 1) = SumFunction(Raws(SubSeq(bs, 1, j + 1)))
    BY <1>1, <2>2
  <2>4. b.raw \in Nat
    BY <2>1, OwnBlocksAre DEF Acceptable
  <2> HIDE DEF a, b
  <2>5. Held(bs, j + 1) = Held(bs, j) + b.raw
    BY <2>1, <2>3, HoldsMore
  <2> QED
    BY <2>4, <2>5 DEF b
<1>5. ASSUME NEW j \in 0 .. Len(bs) PROVE Held(bs, j) \in Nat /\ \A i \in 0 .. j : Held(bs, i) <= Held(bs, j)
  <2> DEFINE T == {k \in Nat : k <= Len(bs) =>
                      Held(bs, k) \in Nat /\ \A i \in 0 .. k : Held(bs, i) \in 0 .. Held(bs, k)}
  <2>1. 0 \in T
    BY <1>3
  <2>2. ASSUME NEW k \in Nat, k \in T PROVE k + 1 \in T
    <3> SUFFICES ASSUME k + 1 <= Len(bs)
                 PROVE  /\ Held(bs, k + 1) \in Nat
                        /\ \A i \in 0 .. k + 1 : Held(bs, i) \in 0 .. Held(bs, k + 1)
      OBVIOUS
    <3>1. Held(bs, k) \in Nat /\ \A i \in 0 .. k : Held(bs, i) \in 0 .. Held(bs, k)
      BY <1>2, <2>2
    <3>2. k \in 0 .. Len(bs) - 1
      BY <1>2
    <3>3. Held(bs, k + 1) = Held(bs, k) + bs[k + 1].raw /\ bs[k + 1].raw \in Nat
      BY <1>4, <3>2
    <3>4. ASSUME NEW i \in 0 .. k + 1 PROVE Held(bs, i) \in 0 .. Held(bs, k + 1)
      <4>1. CASE i = k + 1
        BY <3>1, <3>3, <4>1
      <4>2. CASE i # k + 1
        <5>1. i \in 0 .. k
          BY <4>2
        <5>2. Held(bs, i) \in 0 .. Held(bs, k)
          BY <3>1, <5>1
        <5> QED
          BY <3>1, <3>3, <5>2
      <4> QED
        BY <4>1, <4>2
    <3> QED
      BY <3>1, <3>3, <3>4
  <2>3. j \in T
    <3>1. j \in Nat
      OBVIOUS
    <3> HIDE DEF T
    <3> QED
      BY <2>1, <2>2, <3>1, Induction
  <2> QED
    BY <2>3
<1> QED
  BY <1>3, <1>4, <1>5
-----------------------------------------------------------------------------
(***************************************************************************)
(* On a stream of Compress, whole or cut, the loop is always between two   *)
(* of its blocks: it has passed those before, and the output is what they  *)
(* hold, if they are within their limits.  A block that is not is passed   *)
(* only if it is the one of an LZVN stream.                                *)
(***************************************************************************)
Passed(j) == \A i \in 1 .. j : src.blocks[i].within \/ src.blocks[i].magic = "lzvn"

\* Where a loop that has returned may be.
Ended(j) ==
    /\ verdict = "ok" => pos >= Len(cells) \/ (j = Len(src.blocks) /\ Entire)
    /\ verdict = "too large" => src.n > Limit
    /\ Entire => (verdict = "malformed" => ~ Within(Len(src.blocks))) /\ (verdict = "ok" => j = Len(src.blocks))

OwnAt(j) ==
    /\ pos = BytesOf(j) /\ Passed(j)
    /\ HeldBy(j) <= Limit
    /\ Within(j) => Size(out) = HeldBy(j) /\ Delivered(j)
    /\ Ended(j)

OwnInv == src.own => \E j \in 0 .. Len(src.blocks) : OwnAt(j)

\* What a stream of Compress is.
OwnStream ==
    /\ src.n \in Nat /\ src.blocks \in Seq(OwnBlocks) /\ Len(src.blocks) \in Nat
    /\ HeldBy(Len(src.blocks)) = src.n
    /\ \A i \in 1 .. Len(src.blocks) :
         src.blocks[i].magic = "lzvn" => Len(src.blocks) = 1 /\ src.n <= LzvnThreshold
    /\ Len(Stream(src.blocks)) <= src.n + Overhead
    /\ Len(cells) \in Nat /\ Len(cells) <= Len(Stream(src.blocks))
    /\ \A i \in 1 .. Len(cells) : cells[i] = Stream(src.blocks)[i]
    /\ Len(Stream(src.blocks)) = BytesOf(Len(src.blocks)) + MagicSize
    /\ \A j \in 0 .. Len(src.blocks) : BytesOf(j) \in Nat /\ BytesOf(j) <= BytesOf(Len(src.blocks))

\* OwnAssumption and CompressHolds give it.
LEMMA OwnFacts ==
    ASSUME src \in Sources, src.own
    PROVE  OwnStream
<1> DEFINE bs == src.blocks
<1>1. /\ src.n \in Nat /\ bs \in Compress(src.n) /\ cells \in Seq(Range(cells))
      /\ IsPrefix(cells, Stream(bs))
  BY OwnAssumption, FormatAssumption DEF cells
<1>2. /\ bs \in Seq(OwnBlocks) /\ SumFunction(Raws(bs)) = src.n /\ Len(Stream(bs)) <= src.n + Overhead
      /\ \A i \in 1 .. Len(bs) : bs[i].magic = "lzvn" => Len(bs) = 1 /\ src.n <= LzvnThreshold
  BY <1>1, CompressHolds
<1> HIDE DEF bs
<1>3. Len(bs) \in Nat /\ SubSeq(bs, 1, Len(bs)) = bs
  BY <1>2, OneMore
<1>4. Held(bs, Len(bs)) = src.n
  BY <1>2, HeldIs
<1>5. /\ Bytes(bs) \in Seq(Cells) /\ Stream(bs) \in Seq(Cells \cup {EndMark})
      /\ Len(Stream(bs)) = Len(Bytes(bs)) + MagicSize
  BY <1>2, StreamIs
<1>6. ASSUME NEW j \in 0 .. Len(bs)
      PROVE  /\ Len(Bytes(SubSeq(bs, 1, j))) \in Nat
             /\ Len(Bytes(SubSeq(bs, 1, j))) <= Len(Bytes(SubSeq(bs, 1, Len(bs))))
  <2>1. Len(bs) \in j .. Len(bs) /\ j \in j .. Len(bs)
    BY <1>3
  <2>2. /\ Begins(Bytes(SubSeq(bs, 1, j)), Bytes(SubSeq(bs, 1, Len(bs))))
        /\ Bytes(SubSeq(bs, 1, j)) \in Seq(Cells)
    BY <1>2, <2>1, FirstBytes
  <2> QED
    BY <2>2 DEF Begins
<1>7. /\ Len(cells) \in Nat /\ Len(cells) <= Len(Stream(bs))
      /\ \A i \in 1 .. Len(cells) : cells[i] = Stream(bs)[i]
  <2> DEFINE c == cells
             s == Stream(bs)
  <2>1. c \in Seq(Range(c)) /\ s \in Seq(Cells \cup {EndMark})
    BY <1>1, <1>5 DEF bs
  <2>2. Len(c) <= Len(s) /\ SubSeq(c, 1, Len(c)) = SubSeq(s, 1, Len(c))
    BY <1>1 DEF IsPrefix, bs
  <2> HIDE DEF c, s
  <2>3. Len(c) \in Nat /\ Len(s) \in Nat
    BY <2>1
  <2>4. ASSUME NEW i \in 1 .. Len(c) PROVE c[i] = s[i]
    <3>1. SubSeq(c, 1, Len(c))[i] = c[i]
      BY <2>1, <2>3
    <3>2. SubSeq(s, 1, Len(c))[i] = s[i]
      BY <2>1, <2>2, <2>3
    <3> QED
      BY <3>1, <3>2, <2>2
  <2> QED
    BY <2>2, <2>3, <2>4 DEF c, s
<1> QED
  BY <1>1, <1>2, <1>3, <1>4, <1>5, <1>6, <1>7 DEF OwnStream, HeldBy, Held, BytesOf, bs

\* Where the loop is, a block begins, or the end marker if all are passed.
AtBlock(j) ==
    /\ j + 1 \in 1 .. Len(src.blocks) /\ j + 1 \in 0 .. Len(src.blocks)
    /\ Header = src.blocks[j + 1] /\ Acceptable(Header)
    /\ BytesOf(j + 1) = pos + Header.headerSize + Header.payload
    /\ HeldBy(j + 1) = HeldBy(j) + Header.raw /\ HeldBy(j + 1) <= src.n

AtEnd(j) == j = Len(src.blocks) /\ Header = EndMark /\ Entire

\* One or the other, wherever the loop has a magic to read.
LEMMA HeaderIs ==
    ASSUME Typing, OwnStream, NEW j \in 0 .. Len(src.blocks), pos = BytesOf(j), Avail(pos, MagicSize)
    PROVE  AtBlock(j) \/ AtEnd(j)
<1> DEFINE bs == src.blocks
           s == Bytes(SubSeq(bs, 1, j))
           t == Bytes(SubSeq(bs, 1, j + 1))
           b == bs[j + 1]
<1>1. bs \in Seq(OwnBlocks) /\ Len(bs) \in Nat /\ Len(cells) \in Nat /\ Len(cells) <= Len(Stream(bs))
      /\ pos = Len(s) /\ pos \in Nat
  BY DEF OwnStream, BytesOf, Typing
<1>2. MagicSize \in Nat \ {0} /\ pos + MagicSize <= Len(cells)
  BY FormatAssumption DEF Avail
<1>3. Header = Stream(bs)[pos + 1]
  <2>1. pos + 1 \in 1 .. Len(cells)
    BY <1>1, <1>2
  <2> QED
    BY <2>1 DEF OwnStream, Header
<1>4. /\ Len(Stream(bs)) = Len(Bytes(bs)) + MagicSize /\ Begins(Bytes(bs), Stream(bs))
      /\ Stream(bs)[Len(Bytes(bs)) + 1] = EndMark /\ SubSeq(bs, 1, Len(bs)) = bs
  BY <1>1, StreamIs, OneMore
<1>5. CASE j = Len(bs)
  <2>1. s = Bytes(bs)
    BY <1>4, <1>5
  <2> HIDE DEF s, bs
  <2>2. Header = EndMark /\ Len(cells) = Len(Stream(bs))
    BY <1>1, <1>2, <1>3, <1>4, <2>1
  <2> QED
    BY <1>5, <2>2 DEF AtEnd, Entire, bs
<1>6. CASE j # Len(bs)
  <2>1. j \in 0 .. Len(bs) - 1 /\ j + 1 \in 0 .. Len(bs) /\ j + 1 \in 1 .. Len(bs) /\ Len(bs) \in (j + 1) .. Len(bs)
    BY <1>1, <1>6
  <2>2. t \in Seq(Cells) /\ Len(t) = Len(s) + b.headerSize + b.payload /\ t[Len(s) + 1] = b
        /\ Len(s) + 1 <= Len(t) /\ s \in Seq(Cells)
    BY <1>1, <2>1, NextBlockAt
  <2>3. Begins(t, Bytes(bs))
    BY <1>1, <1>4, <2>1, FirstBytes
  <2>4. b \in OwnBlocks /\ Acceptable(b)
    BY <1>1, <2>1, OwnBlocksAre, OneMore
  <2>5. Header = b
    <3>1. pos + 1 \in 1 .. Len(t) /\ Len(t) \in Nat
      BY <1>1, <2>2
    <3>2. Bytes(bs)[pos + 1] = b /\ Len(t) <= Len(Bytes(bs))
      BY <1>1, <2>2, <2>3, <3>1 DEF Begins
    <3>3. Bytes(bs) \in Seq(Cells)
      BY <1>1, StreamIs
    <3>4. pos + 1 \in 1 .. Len(Bytes(bs))
      BY <3>1, <3>2, <3>3
    <3> QED
      BY <1>3, <1>4, <3>2, <3>4 DEF Begins
  <2>6. BytesOf(j + 1) = pos + Header.headerSize + Header.payload
    BY <1>1, <2>2, <2>5 DEF BytesOf
  <2>7. Held(bs, j + 1) = Held(bs, j) + b.raw /\ Held(bs, j + 1) <= Held(bs, Len(bs))
    <3>1. Len(bs) \in 0 .. Len(bs) /\ j + 1 \in 0 .. Len(bs)
      BY <1>1, <2>1
    <3> QED
      BY <1>1, <2>1, <3>1, HeldIs
  <2>8. HeldBy(j + 1) = HeldBy(j) + Header.raw /\ HeldBy(j + 1) <= src.n
    BY <2>5, <2>7 DEF HeldBy, Held, OwnStream
  <2> QED
    BY <2>1, <2>4, <2>5, <2>6, <2>8 DEF AtBlock
<1> QED
  BY <1>5, <1>6

\* The actions that read a header all find the magic there.
LEMMA MagicThere ==
    ASSUME Typing
    PROVE  /\ BlockHere => Avail(pos, MagicSize) /\ verdict = "running"
           /\ \A magic : At(magic) => Avail(pos, MagicSize) /\ Header.magic = magic /\ verdict = "running"
<1>1. \A magic : At(magic) => Avail(pos, MagicSize) /\ Header.magic = magic /\ verdict = "running"
  BY DEF At, Header
<1> QED
  BY <1>1 DEF BlockHere, HeaderThere

\* The stream and the limit do not change.
LEMMA OwnSame ==
    ASSUME src' = src, maxOut' = maxOut
    PROVE  /\ cells' = cells /\ Entire' = Entire /\ Limit' = Limit
           /\ \A j : BytesOf(j)' = BytesOf(j) /\ HeldBy(j)' = HeldBy(j) /\ PartOf(j)' = PartOf(j)
           /\ \A j : Within(j)' = Within(j) /\ Passed(j)' = Passed(j)
BY DEF cells, Entire, Limit, BytesOf, HeldBy, PartOf, Within, Passed

\* A block that is not within its limits has none behind it.
LEMMA AlonePassed ==
    ASSUME OwnStream, NEW j \in 0 .. Len(src.blocks), AtBlock(j), Passed(j)
    PROVE  Within(j)
<1> SUFFICES ASSUME NEW i \in 1 .. j, ~ src.blocks[i].within PROVE FALSE
  BY DEF Within
<1>1. src.blocks[i].magic = "lzvn" /\ i \in 1 .. Len(src.blocks) /\ j + 1 \in 1 .. Len(src.blocks)
  BY DEF Passed, AtBlock
<1>2. Len(src.blocks) = 1
  BY <1>1 DEF OwnStream
<1> QED
  BY <1>1, <1>2

\* No block is passed at the start.
LEMMA OwnInitial == Init => OwnInv
<1> SUFFICES ASSUME Init, src.own PROVE 0 \in 0 .. Len(src.blocks) /\ OwnAt(0)
  BY DEF OwnInv
<1>1. OwnStream
  BY OwnFacts DEF Init
<1>2. Len(src.blocks) \in Nat /\ src.blocks \in Seq(OwnBlocks)
  BY <1>1 DEF OwnStream
<1>3. BytesOf(0) = 0
  <2>1. SubSeq(src.blocks, 1, 0) = << >>
    BY <1>2, OneMore
  <2>2. Bytes(SubSeq(src.blocks, 1, 0)) = << >> /\ Len(<< >>) = 0
    BY <2>1, BytesEmpty
  <2> QED
    BY <2>2 DEF BytesOf
<1>4. HeldBy(0) = 0
  <2>1. Held(src.blocks, 0) = 0
    BY <1>2, HeldIs
  <2> QED
    BY <2>1 DEF HeldBy, Held
<1>5. Delivered(0)
  <2>1. out = << >> /\ Range(<< >>) = {}
    BY DEF Init, Range
  <2>2. { PartOf(i) : i \in { k \in 1 .. 0 : src.blocks[k].raw > 0 } } = {}
    OBVIOUS
  <2> QED
    BY <2>1, <2>2 DEF Delivered
<1>6. pos = 0 /\ Size(out) = 0 /\ verdict = "running" /\ 0 <= Limit
  BY LimitIsNat DEF Init, Size
<1>7. Passed(0)
  BY DEF Passed
<1> QED
  BY <1>2, <1>3, <1>4, <1>5, <1>6, <1>7 DEF OwnAt, Ended

\* What an accepted block adds to the output.
LEMMA DeliversMore ==
    ASSUME Typing, OwnStream, NEW j \in 0 .. Len(src.blocks), AtBlock(j), Header.within,
           pos = BytesOf(j), Size(out) = HeldBy(j), Delivered(j), UNCHANGED <<src, maxOut>>,
           out' = IF Header.yields = 0 THEN out
                  ELSE Append(out, [at |-> pos, from |-> Size(out), n |-> Header.yields])
    PROVE  Delivered(j + 1)' /\ Size(out)' = HeldBy(j + 1)
<1> DEFINE bs == src.blocks
           Some(m) == { PartOf(i) : i \in { k \in 1 .. m : bs[k].raw > 0 } }
           p == [at |-> pos, from |-> Size(out), n |-> Header.yields]
<1>1. /\ Header = bs[j + 1] /\ Header.raw \in Nat /\ Header.yields = Header.raw /\ j \in Nat
      /\ HeldBy(j + 1) = HeldBy(j) + Header.raw /\ out \in Seq(Part) /\ pos \in Nat
      /\ Len(bs) \in Nat /\ bs \in Seq(OwnBlocks) /\ j + 1 \in 0 .. Len(bs)
  BY DEF AtBlock, Acceptable, Typing, OwnStream
<1>2. Size(out) \in Nat /\ Size(out)' = Size(out')
  BY <1>1, SizeIsNat DEF Size
<1>3. PartOf(j + 1) = [at |-> BytesOf(j), from |-> HeldBy(j), n |-> bs[j + 1].raw]
  <2>1. (j + 1) - 1 = j
    BY <1>1
  <2> QED
    BY <2>1 DEF PartOf
<1>4. Range(out) = Some(j) /\ \A a, b \in DOMAIN out : a < b => out[a].from < out[b].from
  BY DEF Delivered
<1>5. /\ \A m : { PartOf(i) : i \in { k \in 1 .. m : src.blocks[k].raw > 0 } }' = Some(m)
  BY OwnSame
<1>6. CASE Header.yields = 0
  <2>1. { k \in 1 .. j + 1 : bs[k].raw > 0 } = { k \in 1 .. j : bs[k].raw > 0 }
    <3>1. bs[j + 1].raw = 0
      BY <1>1, <1>6
    <3>2. ~ (bs[j + 1].raw > 0)
      BY <3>1
    <3>3. 1 .. j + 1 = (1 .. j) \cup {j + 1}
      BY <1>1
    <3> HIDE DEF bs
    <3> QED
      BY <3>2, <3>3
  <2>2. out' = out
    BY <1>6
  <2>3. Some(j + 1) = Some(j)
    BY <2>1
  <2> HIDE DEF Some
  <2> QED
    BY <1>1, <1>2, <1>4, <1>5, <1>6, <2>2, <2>3 DEF Delivered
<1>7. CASE Header.yields # 0
  <2>1. p = PartOf(j + 1) /\ p \in Part /\ out' = Append(out, p)
    BY <1>1, <1>2, <1>3, <1>7 DEF Part
  <2>2. Size(out') = HeldBy(j + 1)
    BY <1>1, <2>1, SizeOfAppend
  <2>3. Some(j + 1) = Some(j) \cup {p}
    <3>1. { k \in 1 .. j + 1 : bs[k].raw > 0 } = { k \in 1 .. j : bs[k].raw > 0 } \cup {j + 1}
      BY <1>1, <1>7
    <3> QED
      BY <2>1, <3>1
  <2>4. ASSUME NEW a \in DOMAIN out PROVE out[a].from < p.from
    <3>1. out[a] \in Some(j)
      BY <1>4 DEF Range
    <3>2. PICK i \in 1 .. j : bs[i].raw > 0 /\ out[a] = PartOf(i)
      BY <3>1
    <3>3. i \in 0 .. j /\ i - 1 \in 0 .. Len(bs) - 1 /\ (i - 1) + 1 = i /\ j \in 0 .. Len(bs)
      BY <1>1
    <3>4. /\ Held(bs, i - 1) \in Nat /\ Held(bs, i) = Held(bs, i - 1) + bs[i].raw
          /\ Held(bs, i) <= Held(bs, j) /\ Held(bs, i) \in Nat /\ Held(bs, j) \in Nat
      <4>1. i - 1 \in 0 .. Len(bs) /\ i \in 0 .. Len(bs)
        BY <1>1, <3>3
      <4> QED
        BY <1>1, <3>3, <4>1, HeldIs
    <3>5. bs[i].raw \in Nat
      <4>1. bs[i] \in OwnBlocks
        BY <1>1, <3>3
      <4> QED
        BY <4>1, OwnBlocksAre DEF Acceptable
    <3>6. out[a].from = Held(bs, i - 1) /\ p.from = Held(bs, j)
      BY <3>2 DEF PartOf, HeldBy, Held
    <3> QED
      BY <3>2, <3>4, <3>5, <3>6
  <2> HIDE DEF Some, p
  <2>5. /\ Len(Append(out, p)) = Len(out) + 1 /\ Append(out, p)[Len(out) + 1] = p
        /\ \A a \in 1 .. Len(out) : Append(out, p)[a] = out[a]
        /\ DOMAIN Append(out, p) = 1 .. Len(out) + 1 /\ DOMAIN out = 1 .. Len(out) /\ Len(out) \in Nat
    BY <1>1, <2>1
  <2>6. Range(out') = Some(j + 1)
    <3>1. Range(out') = Range(out) \cup {p}
      BY <2>1, <2>5 DEF Range
    <3> QED
      BY <1>4, <2>3, <3>1
  <2>7. ASSUME NEW a \in DOMAIN out', NEW b \in DOMAIN out', a < b PROVE out'[a].from < out'[b].from
    <3>1. a \in 1 .. Len(out) /\ out'[a] = out[a]
      BY <2>1, <2>5, <2>7
    <3>2. CASE b = Len(out) + 1
      BY <2>1, <2>4, <2>5, <3>1, <3>2
    <3>3. CASE b # Len(out) + 1
      BY <1>4, <2>1, <2>5, <2>7, <3>1, <3>3
    <3> QED
      BY <3>2, <3>3
  <2>8. Size(out)' = HeldBy(j + 1)
    BY <1>2, <2>2
  <2> QED
    BY <1>5, <2>6, <2>7, <2>8 DEF Delivered
<1> QED
  BY <1>6, <1>7

\* Returning leaves the loop where it is.
LEMMA OwnReturns ==
    ASSUME NEW j, OwnAt(j), UNCHANGED <<src, maxOut, pos, out>>, Ended(j)'
    PROVE  OwnAt(j)'
<1>1. Within(j) => Delivered(j)'
  BY OwnSame DEF OwnAt, Delivered
<1>2. Size(out)' = Size(out)
  BY DEF Size
<1> QED
  BY <1>1, <1>2, OwnSame DEF OwnAt

\* A block of a whole stream lies inside it and is well formed, if it is
\* within its limits.
LEMMA OwnWellFormed ==
    ASSUME Typing, OwnStream, NEW j \in 0 .. Len(src.blocks), AtBlock(j), Entire
    PROVE  Avail(pos, FixedSize(Header.magic)) /\ (Header.within => WellFormed(Header))
<1>1. /\ pos \in Nat /\ Header.headerSize \in Nat /\ Header.payload \in Nat
      /\ FixedSize(Header.magic) <= Header.headerSize
      /\ BytesOf(j + 1) = pos + Header.headerSize + Header.payload
      /\ j + 1 \in 0 .. Len(src.blocks) /\ Header.magic \in {"stored", "lzvn", "v2"}
  BY DEF Typing, AtBlock, Acceptable
<1>2. BytesOf(j + 1) <= Len(cells) /\ Len(cells) \in Nat
  <2>1. BytesOf(j + 1) \in Nat /\ BytesOf(j + 1) <= BytesOf(Len(src.blocks))
    BY <1>1 DEF OwnStream
  <2>2. /\ Len(cells) = BytesOf(Len(src.blocks)) + MagicSize /\ Len(cells) \in Nat
        /\ BytesOf(Len(src.blocks)) \in Nat /\ MagicSize \in Nat
    <3>1. Len(src.blocks) \in 0 .. Len(src.blocks)
      BY DEF OwnStream
    <3> QED
      BY <3>1, FormatAssumption DEF OwnStream, Entire
  <2> QED
    BY <2>1, <2>2
<1>3. FixedSize(Header.magic) \in Nat
  BY <1>1, FormatAssumption DEF FixedSize
<1>4. Avail(pos, FixedSize(Header.magic)) /\ Avail(pos, Header.headerSize) /\ Avail(Start(Header), Header.payload)
  BY <1>1, <1>2, <1>3 DEF Avail, Start
<1>5. Header.within => HeaderValid(Header)
  BY <1>1, <1>4 DEF HeaderValid, AtBlock, Acceptable
<1>6. RawPlausible(Header)
  BY <1>1 DEF RawPlausible, AtBlock, Acceptable
<1> QED
  BY <1>4, <1>5, <1>6 DEF WellFormed

\* Each action that returns, from where the loop is.
LEMMA OwnEnds ==
    ASSUME IInv, OwnStream, NEW j \in 0 .. Len(src.blocks), OwnAt(j), Next, ~ AcceptBlock,
           UNCHANGED <<src, maxOut, pos, out>>
    PROVE  Ended(j)'
<1>1. /\ Typing /\ pos = BytesOf(j) /\ pos \in Nat /\ Len(cells) \in Nat /\ pos <= Len(cells)
      /\ MagicSize \in Nat \ {0} /\ Limit \in Nat /\ Size(out) \in Nat /\ Passed(j)
      /\ BytesOf(j) <= BytesOf(Len(src.blocks)) /\ BytesOf(Len(src.blocks)) \in Nat
      /\ Len(src.blocks) \in Nat
  <2>1. Typing /\ pos <= Len(cells) /\ pos = BytesOf(j) /\ Passed(j)
    BY DEF IInv, OwnAt, ReadsInside
  <2>2. Limit \in Nat /\ Size(out) \in Nat
    BY <2>1, LimitIsNat, SizeIsNat DEF Typing
  <2>3. Len(src.blocks) \in 0 .. Len(src.blocks)
    BY DEF OwnStream
  <2> QED
    BY <2>1, <2>2, <2>3, FormatAssumption DEF Typing, OwnStream
<1>2. Entire => Len(cells) = BytesOf(Len(src.blocks)) + MagicSize
  BY DEF Entire, OwnStream
<1>3. Avail(pos, MagicSize) => AtBlock(j) \/ AtEnd(j)
  BY <1>1, HeaderIs
<1>4. SUFFICES /\ verdict' = "ok" => pos >= Len(cells) \/ (j = Len(src.blocks) /\ Entire)
               /\ verdict' = "too large" => src.n > Limit
               /\ Entire => (verdict' = "malformed" => ~ Within(Len(src.blocks))) /\ (verdict' = "ok" => j = Len(src.blocks))
  <2>1. /\ src' = src /\ pos' = pos /\ cells' = cells /\ Entire' = Entire /\ Limit' = Limit
        /\ \A k : Within(k)' = Within(k)
    BY OwnSame
  <2> QED
    BY <1>4, <2>1 DEF Ended
<1>5. CASE EndOfInput
  <2>1. verdict' = "ok" /\ pos >= Len(cells)
    BY <1>5 DEF EndOfInput, Return
  <2>2. ~ Entire
    BY <1>1, <1>2, <2>1
  <2> QED
    BY <2>1, <2>2
<1>6. CASE EndOfStream
  <2>1. verdict' = "ok" /\ Avail(pos, MagicSize) /\ Header.magic = "end"
    BY <1>6, <1>1, MagicThere DEF EndOfStream, Return
  <2>2. AtEnd(j)
    BY <2>1, <1>3 DEF AtBlock, Acceptable
  <2> QED
    BY <2>1, <2>2 DEF AtEnd
<1>7. CASE Truncated
  <2>1. verdict' = "malformed" /\ ~ Avail(pos, MagicSize)
    BY <1>7 DEF Truncated, Return
  <2>2. ~ Entire
    BY <1>1, <1>2, <2>1 DEF Avail
  <2> QED
    BY <2>1, <2>2
<1>8. CASE UnknownMagic
  <2>1. Avail(pos, MagicSize) /\ Header.magic = "data"
    BY <1>8, <1>1, MagicThere DEF UnknownMagic
  <2>2. FALSE
    <3>1. AtBlock(j) => Header.magic # "data"
      BY DEF AtBlock, Acceptable
    <3>2. AtEnd(j) => Header.magic # "data"
      BY DEF AtEnd, EndMark
    <3> QED
      BY <1>3, <2>1, <3>1, <3>2
  <2> QED
    BY <2>2
<1>9. CASE RefuseTruncatedHeader
  <2>1. PICK magic \in {"stored", "lzvn", "v1", "v2"} :
          At(magic) /\ ~ Avail(pos, FixedSize(magic)) /\ Return("malformed")
    BY <1>9 DEF RefuseTruncatedHeader
  <2>2. Avail(pos, MagicSize) /\ Header.magic = magic /\ verdict' = "malformed"
    BY <2>1, <1>1, MagicThere DEF Return
  <2>3. AtBlock(j)
    BY <2>2, <1>3 DEF AtEnd, EndMark
  <2>4. ~ Entire
    BY <2>1, <2>2, <2>3, <1>1, OwnWellFormed
  <2> QED
    BY <2>2, <2>4
<1>10. CASE RefuseMalformed \/ RefuseTooLarge \/ DecodeFails
  <2>1. BlockHere
    BY <1>10 DEF RefuseMalformed, RefuseTooLarge, DecodeFails
  <2>2. AtBlock(j)
    BY <2>1, <1>1, <1>3, MagicThere, HeaderFacts DEF AtEnd, EndMark
  <2>a. ~ Header.within => ~ Within(Len(src.blocks))
    BY <2>2 DEF AtBlock, Within
  <2>3. CASE RefuseMalformed
    <3>1. verdict' = "malformed" /\ ~ WellFormed(Header)
      BY <2>3 DEF RefuseMalformed, Return
    <3> QED
      BY <3>1, <2>2, <2>a, <1>1, OwnWellFormed
  <2>4. CASE RefuseTooLarge
    <3>1. verdict' = "too large" /\ ~ Fits(Header.raw)
      BY <2>4 DEF RefuseTooLarge, Return
    <3>2. ~ Fits(Header.raw)
      BY <3>1
    <3>3. HeldBy(j) + Header.raw <= src.n /\ Header.raw \in Nat /\ src.n \in Nat
      BY <2>2 DEF AtBlock, Acceptable, OwnStream
    <3>a. Size(out) = HeldBy(j)
      BY <2>2, <1>1, AlonePassed DEF OwnAt
    <3>4. src.n > Limit
      BY <3>2, <3>3, <3>a, <1>1 DEF Fits
    <3> QED
      BY <3>1, <3>4
  <2>5. CASE DecodeFails
    <3>1. Header.yields = Error /\ verdict' = "malformed"
      BY <2>5 DEF DecodeFails
    <3>2. ~ Header.within
      BY <3>1, <2>2 DEF AtBlock, Acceptable, Error
    <3> QED
      BY <3>1, <3>2, <2>a
  <2> QED
    BY <1>10, <2>3, <2>4, <2>5
<1> QED
  BY <1>5, <1>6, <1>7, <1>8, <1>9, <1>10 DEF Next

\* Each action passes a block or returns.
LEMMA OwnPreserved == IInv /\ OwnInv /\ [Next]_vars => OwnInv'
<1> SUFFICES ASSUME IInv, OwnInv, [Next]_vars, src'.own PROVE OwnInv'
  BY DEF OwnInv
<1>1. src' = src /\ maxOut' = maxOut
  <2>1. CASE AcceptBlock
    BY <2>1 DEF AcceptBlock
  <2>2. CASE Next /\ ~ AcceptBlock
    BY <2>2, Others
  <2> QED
    BY <2>1, <2>2 DEF vars
<1>2. PICK j \in 0 .. Len(src.blocks) : OwnAt(j)
  BY <1>1 DEF OwnInv
<1>3. OwnStream /\ Typing
  BY <1>1, OwnFacts DEF IInv, Typing
<1>4. CASE UNCHANGED vars
  <2>0. /\ src' = src /\ maxOut' = maxOut /\ pos' = pos /\ out' = out /\ verdict' = verdict
    BY <1>4 DEF vars
  <2>1. UNCHANGED <<src, maxOut, pos, out>> /\ Ended(j)'
    <3>1. /\ cells' = cells /\ Entire' = Entire /\ Limit' = Limit
          /\ \A k : Within(k)' = Within(k)
      BY <2>0, OwnSame
    <3>2. Ended(j)
      BY <1>2 DEF OwnAt
    <3> QED
      BY <2>0, <3>1, <3>2 DEF Ended
  <2>2. OwnAt(j)'
    BY <1>2, <2>1, OwnReturns
  <2> QED
    BY <1>1, <2>2 DEF OwnInv
<1>5. CASE AcceptBlock
  <2>1. /\ BlockHere /\ UNCHANGED <<src, maxOut, verdict>> /\ pos' = End(Header)
        /\ out' = IF Header.yields = 0 THEN out
                  ELSE Append(out, [at |-> pos, from |-> Size(out), n |-> Header.yields])
    BY <1>5 DEF AcceptBlock
  <2>2. pos = BytesOf(j) /\ Passed(j) /\ pos \in Nat
    BY <1>2, <1>3 DEF OwnAt, Typing
  <2>3. Avail(pos, MagicSize) /\ verdict = "running"
    BY <1>3, <2>1, MagicThere
  <2>4. AtBlock(j)
    BY <1>3, <2>1, <2>2, <2>3, HeaderIs, HeaderFacts DEF AtEnd, EndMark
  <2>5. Within(j) /\ Size(out) = HeldBy(j) /\ Delivered(j)
    BY <1>2, <1>3, <2>2, <2>4, AlonePassed DEF OwnAt
  <2>6. pos' = BytesOf(j + 1) /\ j + 1 \in 0 .. Len(src.blocks)
    BY <2>1, <2>4 DEF AtBlock, End, Start
  <2>7. verdict' = "running"
    BY <2>1, <2>3
  <2>8. Ended(j + 1)'
    BY <2>7 DEF Ended
  <2>9. HeldBy(j + 1) <= Limit
    <3>1. Fits(Header.raw) /\ HeldBy(j + 1) = HeldBy(j) + Header.raw
      BY <1>5, <2>4 DEF AcceptBlock, AtBlock
    <3> QED
      BY <3>1, <2>5 DEF Fits
  <2>10. Header = src.blocks[j + 1] /\ Acceptable(Header) /\ 1 .. j + 1 = (1 .. j) \cup {j + 1}
    BY <2>4 DEF AtBlock
  <2>11. Passed(j + 1)
    <3>1. Header.within \/ Header.magic = "lzvn"
      <4>1. Header.magic = "v2" => Header.symbolsOK
        BY <1>5 DEF AcceptBlock, WellFormed, HeaderValid
      <4> QED
        BY <4>1, <2>10 DEF Acceptable
    <3> QED
      BY <3>1, <2>2, <2>10 DEF Passed
  <2>12. Within(j + 1) => Delivered(j + 1)' /\ Size(out)' = HeldBy(j + 1)
    <3>1. Within(j + 1) => Header.within
      BY <2>10 DEF Within
    <3> QED
      BY <1>3, <2>1, <2>2, <2>4, <2>5, <3>1, DeliversMore
  <2>13. OwnAt(j + 1)'
    BY <1>1, <2>6, <2>8, <2>9, <2>11, <2>12, OwnSame DEF OwnAt
  <2> QED
    BY <1>1, <2>6, <2>13 DEF OwnInv
<1>6. CASE Next /\ ~ AcceptBlock
  <2>1. UNCHANGED <<src, maxOut, pos, out>>
    BY <1>6, Others
  <2>2. Ended(j)'
    BY <1>2, <1>3, <1>6, <2>1, OwnEnds
  <2>3. OwnAt(j)'
    BY <1>2, <2>1, <2>2, OwnReturns
  <2> QED
    BY <1>1, <2>3 DEF OwnInv
<1> QED
  BY <1>4, <1>5, <1>6

\* The second invariant, for every stream of Compress.
LEMMA OwnInvariance == Spec => []OwnInv
BY OwnInitial, OwnPreserved, Invariance, PTL DEF Spec

\* What Compress returns for n bytes is longer than them by the stored form's
\* overhead at most, for every n that a header can say, every limit, every choice
\* the splitter and the coders make.  If its runs and records are within their
\* limits DecompressLimit gives n bytes back from it, or says that they
\* exceed the limit.  If not it may refuse it; it returns less only for an
\* LZVN stream, so for no n above the threshold.
THEOREM CompressedAcceptedHolds == Spec => []CompressedAccepted
<1>1. IInv /\ OwnInv => CompressedAccepted
  <2> SUFFICES ASSUME IInv, OwnInv, src.own, Entire PROVE CompressedAccepted
    BY DEF CompressedAccepted
  <2>1. OwnStream
    BY OwnFacts DEF IInv, Typing
  <2>2. PICK j \in 0 .. Len(src.blocks) : OwnAt(j)
    BY DEF OwnInv
  <2>3. Len(cells) <= src.n + Overhead /\ HeldBy(Len(src.blocks)) = src.n
    BY <2>1 DEF OwnStream, Entire
  <2>4. Passed(j) /\ HeldBy(j) <= Limit /\ (Within(j) => Size(out) = HeldBy(j)) /\ Ended(j)
    BY <2>2 DEF OwnAt
  <2>5. src.n > LzvnThreshold => Within(j)
    <3> SUFFICES ASSUME src.n > LzvnThreshold, NEW i \in 1 .. j PROVE src.blocks[i].within
      BY DEF Within
    <3>1. i \in 1 .. Len(src.blocks) /\ src.n \in Nat /\ LzvnThreshold \in Nat
      BY <2>1, FormatAssumption DEF OwnStream
    <3>2. src.blocks[i].magic # "lzvn"
      BY <2>1, <3>1 DEF OwnStream
    <3> QED
      BY <2>4, <3>2 DEF Passed
  <2>6. verdict = "ok" => j = Len(src.blocks)
    BY <2>4 DEF Ended
  <2>7. /\ verdict = "too large" => src.n > Limit
        /\ verdict = "malformed" => ~ Within(Len(src.blocks))
    BY <2>4 DEF Ended
  <2> QED
    BY <2>3, <2>4, <2>5, <2>6, <2>7 DEF CompressedAccepted
<1> QED
  BY <1>1, Invariance, OwnInvariance, PTL

\* A stream of Compress cut anywhere is refused, unless the cut is between two
\* blocks or at the end: then the output is what the blocks before it hold,
\* in their order, and nothing else - or the stream is an LZVN block
\* with a run that wraps.
THEOREM CutYieldsPrefixHolds == Spec => []CutYieldsPrefix
<1>1. IInv /\ OwnInv => CutYieldsPrefix
  <2> SUFFICES ASSUME IInv, OwnInv, src.own, verdict = "ok" PROVE CutYieldsPrefix
    BY DEF CutYieldsPrefix
  <2>1. PICK j \in 0 .. Len(src.blocks) : OwnAt(j)
    BY DEF OwnInv
  <2>2. /\ pos = BytesOf(j) /\ (pos >= Len(cells) \/ (j = Len(src.blocks) /\ Entire))
        /\ Passed(j) /\ (Within(j) => Delivered(j))
    BY <2>1 DEF OwnAt, Ended
  <2>3. OwnStream /\ pos \in Nat /\ Len(cells) \in Nat /\ pos <= Len(cells)
    BY OwnFacts DEF IInv, Typing, ReadsInside, OwnStream
  <2>4. Len(cells) = BytesOf(j) \/ (j = Len(src.blocks) /\ Entire)
    BY <2>2, <2>3
  <2>5. ~ Within(j) => src.n <= LzvnThreshold
    <3> SUFFICES ASSUME NEW i \in 1 .. j, ~ src.blocks[i].within PROVE src.n <= LzvnThreshold
      BY DEF Within
    <3>1. src.blocks[i].magic = "lzvn" /\ i \in 1 .. Len(src.blocks)
      BY <2>2, <2>3 DEF Passed, OwnStream
    <3> QED
      BY <2>3, <3>1 DEF OwnStream
  <2> QED
    BY <2>2, <2>4, <2>5 DEF CutYieldsPrefix
<1> QED
  BY <1>1, Invariance, OwnInvariance, PTL
=============================================================================
