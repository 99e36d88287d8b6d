---------------------------- MODULE LzvnDecoder ----------------------------
(***************************************************************************)
(* lzvnDecode and lzvnCopyMatch (src/lzvn.go): one step per opcode.  dst   *)
(* is the written part of the output, for which dEnd bytes are allocated.  *)
(***************************************************************************)
EXTENDS LzvnFormat

CONSTANTS
    Payloads,    \* the payloads that may arrive, sequences of items
    Rooms,       \* the sizes that may have been allocated for the output
    Expansion    \* lzvnMaxExpansion (136)

ASSUME DecoderAssumption ==
    /\ Payloads \subseteq Seq(Nat)
    /\ Rooms \subseteq Nat
    /\ Expansion \in Nat
    /\ 2 * Expansion >= LargeBase + 255 /\ Expansion >= 15

VARIABLES
    stream,   \* the payload, a sequence of items
    dEnd,     \* len(dst) of the code
    spos,     \* items read
    dpos,     \* bytes written
    dst,      \* bytes written, as the items they were copied from
    dPrev,    \* previous match distance, 0 for none
    pc

decoderVars == <<stream, dEnd, spos, dpos, dst, dPrev, pc>>

Rejected == {"truncated", "no prior distance", "zero distance", "literal overflow",
             "invalid distance", "match overflow"}

At(k) == stream[k + 1]
sEnd == Len(stream)
Opcode == At(spos)

AtOpcode == pc = "opcode" /\ spos < sEnd

\* Operand bytes of an opcode; D's of lrg_d and med_d take two.
Operands(opc) ==
    IF opc \in {240, 224} THEN 1
    ELSE IF opc >= 225 THEN 0
    ELSE IF opc \in 160 .. 191 \/ opc % 8 = 7 THEN 2
    ELSE IF opc % 8 = 6 THEN 0 ELSE 1

\* The k-th operand.
Operand(k) == At(spos + k)

\* An opcode or operand about to be read is a literal byte of the source.
OutOfStep ==
    AtOpcode /\ (IsLiteral(Opcode) \/
       \E k \in 1 .. Operands(Opcode) : spos + k < sEnd /\ IsLiteral(Operand(k)))

\* What the operand reads find: all there?
Truncated == spos + Operands(Opcode) >= sEnd

\* The literals, match length and distance of the opcode: (opc >> 3) & 0x07
\* and the like.  A distance of 0 is spelt out; KeepsDistance has none.
IsEos == Opcode = 6
IsNop == Opcode \in {14, 22}
IsMatchOnly == Opcode >= 240
IsLiteralOnly == Opcode \in 224 .. 239
IsMedium == Opcode \in 160 .. 191
KeepsDistance == IsMatchOnly \/ (Opcode < 224 /\ ~ IsMedium /\ Opcode % 8 = 6)

OpL == IF IsMatchOnly THEN 0
       ELSE IF Opcode = 224 THEN Operand(1) + LargeBase
       ELSE IF IsLiteralOnly THEN Opcode % 16
       ELSE IF IsMedium THEN (Opcode \div 8) % 4
       ELSE Opcode \div 64

\* Mutant of OpM: the bias of the other opcodes added to lrg_m as well.
OpMBiased == IF Opcode = 240 THEN Operand(1) + LargeBase + 3
             ELSE IF IsMatchOnly THEN Opcode % 16
             ELSE IF IsLiteralOnly THEN 0
             ELSE IF IsMedium THEN 4 * (Opcode % 8) + (Operand(1) % 4) + 3
             ELSE ((Opcode \div 8) % 8) + 3

OpM == IF Opcode = 240 THEN Operand(1) + LargeBase
       ELSE IF IsMatchOnly THEN Opcode % 16
       ELSE IF IsLiteralOnly THEN 0
       ELSE IF IsMedium THEN 4 * (Opcode % 8) + (Operand(1) % 4) + 3
       ELSE ((Opcode \div 8) % 8) + 3

OpD == IF KeepsDistance THEN dPrev
       ELSE IF IsMedium THEN (Operand(1) \div 4) + 64 * Operand(2)
       ELSE IF Opcode % 8 = 7 THEN Operand(1) + 256 * Operand(2)
       ELSE 256 * (Opcode % 8) + Operand(1)

HasMatch == ~ IsLiteralOnly
FirstLiteral == spos + 1 + Operands(Opcode)
-----------------------------------------------------------------------------
(***************************************************************************)
(* lzvnCopyMatch: the last D bytes, then the filled part copied behind     *)
(* itself until M bytes are there.  The part filled is D, 2*D, 4*D, ...    *)
(* bytes long, so byte e of the match is byte e - f, where f is the last   *)
(* of these lengths that is not beyond e.                                  *)
(***************************************************************************)
FilledBefore(D, e) ==
    LET filled[k \in 0 .. e] == IF k < 2 * D THEN D ELSE 2 * filled[k \div 2]
    IN  filled[e]

CopyMatch(d, D, M) ==
    LET first[e \in 0 .. M - 1] == IF e < D THEN e ELSE first[e - FilledBefore(D, e)]
    IN  d \o [e \in 1 .. M |-> d[Len(d) - D + 1 + first[e - 1]]]

Literals == SubSeq(stream, FirstLiteral + 1, FirstLiteral + OpL)

\* Mutant of Complaint: the match overflow check forgets the literals.
ComplaintWithoutLiterals ==
    IF Truncated THEN "truncated"
    ELSE IF HasMatch /\ OpD = 0
    THEN IF KeepsDistance THEN "no prior distance" ELSE "zero distance"
    ELSE IF FirstLiteral + OpL > sEnd \/ dpos + OpL > dEnd THEN "literal overflow"
    ELSE IF HasMatch /\ OpD > dpos + OpL THEN "invalid distance"
    ELSE IF HasMatch /\ dpos + OpM > dEnd THEN "match overflow"
    ELSE "none"

\* The checks of an opcode, in the order the code makes them.
Complaint ==
    IF Truncated THEN "truncated"
    ELSE IF HasMatch /\ OpD = 0
    THEN IF KeepsDistance THEN "no prior distance" ELSE "zero distance"
    ELSE IF FirstLiteral + OpL > sEnd \/ dpos + OpL > dEnd THEN "literal overflow"
    ELSE IF HasMatch /\ OpD > dpos + OpL THEN "invalid distance"
    ELSE IF HasMatch /\ dpos + OpL + OpM > dEnd THEN "match overflow"
    ELSE "none"

EndOfStream ==
    /\ AtOpcode /\ IsEos
    /\ pc' = "done"
    /\ UNCHANGED <<stream, dEnd, spos, dpos, dst, dPrev>>

\* The payload ends without an end marker: what was decoded is returned.
OutOfInput ==
    /\ pc = "opcode" /\ spos >= sEnd
    /\ pc' = "done"
    /\ UNCHANGED <<stream, dEnd, spos, dpos, dst, dPrev>>

\* Mutant of Nop: the opcode is not consumed.
NopInPlace ==
    /\ AtOpcode /\ IsNop
    /\ UNCHANGED decoderVars

Nop ==
    /\ AtOpcode /\ IsNop
    /\ spos' = spos + 1
    /\ UNCHANGED <<stream, dEnd, dpos, dst, dPrev, pc>>

\* Mutant of DecodeOpcode: a literal opcode overwrites the distance.
DecodeForgetsDistance ==
    /\ AtOpcode /\ ~ OutOfStep /\ ~ IsEos /\ ~ IsNop
    /\ Complaint = "none"
    /\ dst' = IF HasMatch THEN CopyMatch(dst \o Literals, OpD, OpM) ELSE dst \o Literals
    /\ dpos' = dpos + OpL + OpM
    /\ dPrev' = OpD
    /\ spos' = FirstLiteral + OpL
    /\ UNCHANGED <<stream, dEnd, pc>>

\* Mutant of DecodeOpcode: the literals are not counted.
DecodeCountsMatchOnly ==
    /\ AtOpcode /\ ~ OutOfStep /\ ~ IsEos /\ ~ IsNop
    /\ Complaint = "none"
    /\ dst' = IF HasMatch THEN CopyMatch(dst \o Literals, OpD, OpM) ELSE dst \o Literals
    /\ dpos' = dpos + OpM
    /\ dPrev' = IF HasMatch THEN OpD ELSE dPrev
    /\ spos' = FirstLiteral + OpL
    /\ UNCHANGED <<stream, dEnd, pc>>

DecodeOpcode ==
    /\ AtOpcode /\ ~ OutOfStep /\ ~ IsEos /\ ~ IsNop
    /\ Complaint = "none"
    /\ dst' = IF HasMatch THEN CopyMatch(dst \o Literals, OpD, OpM) ELSE dst \o Literals
    /\ dpos' = dpos + OpL + OpM
    /\ dPrev' = IF HasMatch THEN OpD ELSE dPrev
    /\ spos' = FirstLiteral + OpL
    /\ UNCHANGED <<stream, dEnd, pc>>

Reject ==
    /\ AtOpcode /\ ~ OutOfStep /\ ~ IsEos /\ ~ IsNop
    /\ Complaint # "none"
    /\ pc' = Complaint
    /\ UNCHANGED <<stream, dEnd, spos, dpos, dst, dPrev>>

\* A literal read as an opcode or operand: what follows depends on its value.
LoseStep ==
    /\ OutOfStep
    /\ pc' = "out of step"
    /\ UNCHANGED <<stream, dEnd, spos, dpos, dst, dPrev>>

Decode == EndOfStream \/ OutOfInput \/ Nop \/ DecodeOpcode \/ Reject \/ LoseStep

DecoderInit ==
    /\ stream \in Payloads /\ dEnd \in Rooms
    /\ spos = 0 /\ dpos = 0 /\ dst = << >> /\ dPrev = 0
    /\ pc = "opcode"

DecoderSpec == DecoderInit /\ [][Decode]_decoderVars /\ WF_decoderVars(Decode)
-----------------------------------------------------------------------------
(***************************************************************************)
(* Type correctness.                                                       *)
(***************************************************************************)
DecoderTypeOK ==
    /\ stream \in Seq(Nat) /\ dEnd \in Nat
    /\ spos \in 0 .. sEnd
    /\ dst \in Seq(Nat) /\ dpos = Len(dst)
    /\ dPrev \in Nat
    /\ pc \in {"opcode", "done", "out of step"} \cup Rejected

(***************************************************************************)
(* Every write stays in the allocated output, and every read in the        *)
(* payload, for any payload: literals and matches are checked in turn, so  *)
(* neither can use the room of the other.                                  *)
(***************************************************************************)
StaysInBuffers == dpos <= dEnd /\ spos <= sEnd

(***************************************************************************)
(* No opcode produces more than lzvnMaxExpansion bytes per byte it takes,  *)
(* so no payload produces more than that per byte either: the declared     *)
(* size DecompressLimit refuses is one no payload can produce.             *)
(***************************************************************************)
OpcodeExpandsWithin ==
    [][dpos' - dpos <= Expansion * (spos' - spos)]_decoderVars

ExpansionBounded == dpos <= Expansion * spos

(***************************************************************************)
(* The remembered distance always reaches back to written bytes, so an     *)
(* opcode without a distance of its own cannot be refused for it.          *)
(***************************************************************************)
PreviousDistanceInReach ==
    /\ dPrev <= dpos
    /\ AtOpcode /\ ~ OutOfStep /\ ~ IsEos /\ ~ IsNop /\ KeepsDistance
          => Complaint # "invalid distance"

(***************************************************************************)
(* Every payload is decoded or refused: each opcode is consumed.           *)
(***************************************************************************)
DecodingEnds == <>(pc # "opcode")
=============================================================================
