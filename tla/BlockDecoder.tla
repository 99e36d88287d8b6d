---------------------------- MODULE BlockDecoder ----------------------------
(***************************************************************************)
(* Decoding the blocks of a stream into one growing output: the block      *)
(* cases of DecompressLimit that write output themselves, and the L,M,D    *)
(* loop of decodeCompressedBlock with growOut and matchCopyInto            *)
(* (src/lzfse.go).  A frame is a block as its header and entropy decoder   *)
(* present it: the literals, the L,M,D records and the declared size.      *)
(*                                                                         *)
(* The output slice is out.mem, its backing array up to its capacity, and  *)
(* out.len.  Bytes are any values; Zero is the zero byte.                  *)
(***************************************************************************)
EXTENDS Integers, Sequences, SequencesExt

CONSTANTS
    Frames,         \* the frames that may follow each other in a stream
    Lanes,          \* interleaved literal streams (4)
    Over,           \* copyOvershoot, and the width of a fixed copy (16)
    MaxMValue,      \* the longest match of one record (2359)
    LiteralsPerBlock,   \* literalsPerBlock (40000)
    RecordsPerBlock,    \* matchesPerBlock (10000)
    MaxOut,         \* maxOut of DecompressLimit
    Bytes, Zero     \* the bytes of the literals, the zero byte

(***************************************************************************)
(* What the symbol tables can express: the records have naturals for their *)
(* fields and a match of at most MaxMValue.  A stored block is as long as  *)
(* it says; what a compressed one declares need not fit its records.       *)
(***************************************************************************)
IsFrame(f) ==
    /\ f.kind \in {"stored", "v2"}
    /\ f.nRaw \in Nat
    /\ f.literals \in Seq(Bytes) /\ Len(f.recs) \in Nat
    /\ f.kind = "stored" => Len(f.literals) = f.nRaw
    /\ \A k \in 1 .. Len(f.recs) :
         /\ f.recs[k].L \in Nat /\ f.recs[k].D \in Nat
         /\ f.recs[k].M \in 0 .. MaxMValue

ASSUME DecoderAssumption ==
    /\ LiteralsPerBlock \in Nat /\ RecordsPerBlock \in Nat
    /\ Over \in Nat /\ Lanes \in Nat \ {0} /\ MaxMValue \in Nat /\ MaxOut \in Nat
    /\ Zero \in Bytes
    /\ \A f \in Frames : IsFrame(f)

VARIABLES
    frame,       \* the block being decoded
    out,         \* the output slice: [mem, len]
    di,          \* write position
    blockStart,  \* di when the block began
    litPos,      \* literals of the block used
    D,           \* distance of the last record that carried one
    rec,         \* records of the block decoded
    pc

decoderVars == <<frame, out, di, blockStart, litPos, D, rec, pc>>

Failed == {"block limits", "too many raw bytes", "too large", "literal count",
           "literal index", "distance", "length"}

Literals == frame.literals

NoFrame == [kind |-> "none", nRaw |-> 0, literals |-> << >>, recs |-> << >>]

Init ==
    /\ frame = NoFrame
    /\ out = [mem |-> << >>, len |-> 0]
    /\ di = 0 /\ blockStart = 0 /\ litPos = 0 /\ D = 0 /\ rec = 0
    /\ pc = "block"
-----------------------------------------------------------------------------
\* m with bytes written at offset at; m[from:to].
Write(m, at, bytes) ==
    [j \in 1 .. Len(m) |->
        IF at < j /\ j <= at + Len(bytes) THEN bytes[j - at] ELSE m[j]]

Slice(m, from, to) == SubSeq(m, from + 1, to)

Capacity(o) == Len(o.mem)

\* Mutant of Realloc: the last used byte is not copied.
ReallocShort(o, used, c) ==
    [j \in 1 .. c |-> IF j < used THEN o.mem[j] ELSE Zero]

\* The backing array o.mem[:used] followed by zeros up to capacity c.
Realloc(o, used, c) ==
    [j \in 1 .. c |-> IF j <= used THEN o.mem[j] ELSE Zero]

\* Mutant of GrowOut: doubling alone, even when the need is larger.
GrowByDoubling(o, used, extra) ==
    LET need == used + extra
    IN  [len |-> need,
         mem |-> IF need <= Capacity(o) THEN o.mem
                 ELSE Realloc(o, used, 2 * Capacity(o))]

GrowOut(o, used, extra) ==
    LET need == used + extra
        grow == IF 2 * Capacity(o) < need THEN need ELSE 2 * Capacity(o)
    IN  [len |-> need,
         mem |-> IF need <= Capacity(o) THEN o.mem ELSE Realloc(o, used, grow)]

\* copy(expanded[n:], expanded[:n]) where the n bytes are the pattern: once more
\* the pattern, or as much of it as fits the region.
CopyForward(pattern, region) ==
    Slice(pattern \o pattern, 0, IF 2 * Len(pattern) < region THEN 2 * Len(pattern) ELSE region)

\* matchCopyInto: one disjoint copy, or the pattern doubled until it fills
\* the region: for n := d; n < len(expanded); n *= 2.
MatchCopy(m, at, mpos, M) ==
    LET d == at - mpos
        expanded[k \in 0 .. M] ==   \* what of the region is filled after k doublings
            IF k = 0 THEN Slice(m, mpos, at) ELSE CopyForward(expanded[k - 1], d + M)
    IN  IF d >= M THEN Write(m, at, Slice(m, mpos, mpos + M))
                  ELSE Write(m, mpos, expanded[M])
-----------------------------------------------------------------------------
RawFitsBlock(f) == f.nRaw <= Len(f.literals) + Len(f.recs) * MaxMValue

\* Mutant of FitsLimit: the block alone is compared with the limit.
FitsLimitAlone(k) == k <= MaxOut

FitsLimit(k) == out.len + k <= MaxOut

Fail(why) ==
    /\ pc' = why
    /\ UNCHANGED <<out, di, blockStart, litPos, D, rec>>

\* A stored block: append(out, src...).  How far append over-allocates is the
\* runtime's choice.
Stored(f) ==
    /\ pc = "block" /\ f.kind = "stored"
    /\ frame' = NoFrame
    /\ IF ~ FitsLimit(f.nRaw) THEN Fail("too large")
       ELSE LET need == out.len + f.nRaw
            IN  /\ \E slack \in {0, Over} :
                     out' = [len |-> need,
                             mem |-> Write(IF need <= Capacity(out) THEN out.mem
                                           ELSE Realloc(out, out.len, need + slack),
                                           out.len, f.literals)]
                /\ di' = need
                /\ UNCHANGED <<blockStart, litPos, D, rec, pc>>

\* What is wrong with the header of a V1 or V2 block.  The two kinds check
\* in different orders, which decides only which of several errors is reported.
Complaints(f) ==
    {why \in Failed :
        \/ /\ why = "block limits"
           /\ \/ Len(f.literals) > LiteralsPerBlock
              \/ Len(f.recs) > RecordsPerBlock
        \/ why = "literal count" /\ Len(f.literals) % Lanes # 0
        \/ why = "too many raw bytes" /\ ~ RawFitsBlock(f)
        \/ why = "too large" /\ ~ FitsLimit(f.nRaw)}

\* A V1 or V2 block: its size is checked and reserved before the loop starts.
Compressed(f) ==
    /\ pc = "block" /\ f.kind = "v2"
    /\ IF Complaints(f) # {}
       THEN frame' = NoFrame /\ \E why \in Complaints(f) : Fail(why)
       ELSE /\ frame' = f
            /\ out' = GrowOut(out, out.len, f.nRaw + Over)
            /\ di' = out.len /\ blockStart' = out.len
            /\ litPos' = 0 /\ D' = 0 /\ rec' = 0
            /\ pc' = "records"

(***************************************************************************)
(* One iteration of the L,M,D loop: the record, the distance it implies,   *)
(* the output after growOut, and the widths of its two copies.             *)
(***************************************************************************)
Rec == frame.recs[rec + 1]
AtRecord == pc = "records" /\ rec < Len(frame.recs)
MatchAt == di + Rec.L

\* Mutant of Dist: a record without a match does not set the distance.
DistOfMatch == IF Rec.D # 0 /\ Rec.M > 0 THEN Rec.D ELSE D

Dist == IF Rec.D # 0 THEN Rec.D ELSE D

\* Mutant of Room: no room is kept for a fixed copy.
RoomExact == IF di + Rec.L + Rec.M > out.len
             THEN GrowOut(out, di, Rec.L + Rec.M) ELSE out

Room == IF di + Rec.L + Rec.M + Over > out.len
        THEN GrowOut(out, di, Rec.L + Rec.M + Over) ELSE out

LitWidth == IF Rec.L <= Over /\ litPos + Over <= Len(Literals) THEN Over ELSE Rec.L

\* Mutant of MatchIsShort: the distance is not looked at.
MatchIsShortAnyDistance == Rec.M <= Over

MatchIsShort == Rec.M <= Over /\ Dist >= Over

LiteralsExhausted == litPos + Rec.L > Len(Literals)
DistanceInvalid == Rec.M > 0 /\ (Dist <= 0 \/ Dist > MatchAt)

AfterLiterals == Write(Room.mem, di, Slice(Literals, litPos, litPos + LitWidth))

AfterMatch ==
    LET mpos == MatchAt - Dist
    IN  IF Rec.M = 0 THEN AfterLiterals
        ELSE IF MatchIsShort
        THEN Write(AfterLiterals, MatchAt, Slice(AfterLiterals, mpos, mpos + Over))
        ELSE MatchCopy(AfterLiterals, MatchAt, mpos, Rec.M)

DecodeRecord ==
    /\ AtRecord
    /\ ~ LiteralsExhausted /\ ~ DistanceInvalid
    /\ out' = [len |-> Room.len, mem |-> AfterMatch]
    /\ di' = MatchAt + Rec.M
    /\ litPos' = litPos + Rec.L
    /\ D' = Dist
    /\ rec' = rec + 1
    /\ UNCHANGED <<frame, blockStart, pc>>

RejectRecord ==
    /\ AtRecord
    /\ \/ LiteralsExhausted /\ Fail("literal index")
       \/ ~ LiteralsExhausted /\ DistanceInvalid /\ Fail("distance")
    /\ UNCHANGED frame

\* The locals of decodeCompressedBlock, back to what they are outside it.
LocalsEnd ==
    /\ frame' = NoFrame
    /\ blockStart' = 0 /\ litPos' = 0 /\ D' = 0 /\ rec' = 0

\* Mutant of EndBlock: the produced length is not checked.
EndBlockUnchecked ==
    /\ pc = "records"
    /\ rec >= Len(frame.recs)
    /\ out' = [out EXCEPT !.len = di]
    /\ pc' = "block"
    /\ di' = di
    /\ LocalsEnd

\* After the loop: the length check, then out[:di].
EndBlock ==
    /\ pc = "records"
    /\ rec >= Len(frame.recs)
    /\ IF di - blockStart # frame.nRaw THEN Fail("length") /\ UNCHANGED frame
       ELSE /\ out' = [out EXCEPT !.len = di]
            /\ pc' = "block"
            /\ di' = di
            /\ LocalsEnd

\* The end-of-stream magic, or the end of the input.
EndOfStream ==
    /\ pc = "block"
    /\ pc' = "done"
    /\ UNCHANGED <<frame, out, di, blockStart, litPos, D, rec>>

Next ==
    \/ \E f \in Frames : Stored(f) \/ Compressed(f)
    \/ DecodeRecord \/ RejectRecord
    \/ EndBlock
    \/ EndOfStream

Spec == Init /\ [][Next]_decoderVars /\ WF_decoderVars(Next)
-----------------------------------------------------------------------------
(***************************************************************************)
(* Type correctness.                                                       *)
(***************************************************************************)
TypeOK ==
    /\ frame.nRaw \in Nat /\ frame.literals \in Seq(Bytes)
    /\ out.mem \in Seq(Bytes)
    /\ out.len \in Nat /\ out.len <= Capacity(out)
    /\ di \in Nat /\ blockStart \in Nat /\ litPos \in Nat /\ D \in Nat
    /\ rec \in Nat
    /\ pc \in {"block", "records", "done"} \cup Failed

(***************************************************************************)
(* No slice of the loop leaves the buffer, whatever the records say: a     *)
(* fixed copy that starts inside the output also ends inside the backing   *)
(* array, for the literals and for the match, and a match is read from     *)
(* bytes that were written.  (A slice past the capacity panics.)           *)
(***************************************************************************)
SlicesStayInBuffer ==
    AtRecord /\ ~ LiteralsExhausted /\ ~ DistanceInvalid =>
        /\ di + LitWidth <= Capacity(Room)
        /\ litPos + LitWidth <= Len(Literals)
        /\ Rec.M > 0 =>
             /\ 0 <= MatchAt - Dist
             /\ MatchAt + (IF MatchIsShort THEN Over ELSE Rec.M) <= Capacity(Room)
             /\ MatchIsShort => MatchAt - Dist + Over <= MatchAt

(***************************************************************************)
(* A block produces at most what its literals and records can: what        *)
(* rawFitsBlock assumes when it refuses a declared size.  So the output is *)
(* bounded by the limit plus one block's worth of records, even when the   *)
(* declared size is a lie.                                                 *)
(***************************************************************************)
ProducedWithinBound ==
    pc = "records" => /\ di - blockStart <= litPos + rec * MaxMValue
                      /\ litPos <= Len(Literals) /\ rec <= Len(frame.recs)
                      /\ blockStart + frame.nRaw <= MaxOut

(***************************************************************************)
(* Between blocks the stream holds exactly what the accepted blocks        *)
(* declared, within the limit, and what was decoded before a block is      *)
(* never touched by it (growOut preserves it, the over-copies do not reach *)
(* back).                                                                  *)
(***************************************************************************)
OutputWithinLimit == pc \in {"block", "done"} => out.len = di /\ di <= MaxOut

PrefixKept ==
    [][ \A j \in 1 .. di : j <= Capacity(out)' /\ out.mem'[j] = out.mem[j] ]_decoderVars
=============================================================================
