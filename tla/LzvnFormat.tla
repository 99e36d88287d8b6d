----------------------------- MODULE LzvnFormat -----------------------------
(***************************************************************************)
(* The bytes the LZVN encoder emits (src/lzvn.go: lzvnEmitLiteralBytes,    *)
(* lzvnEmitLMD, lzvnEmitEndOfStream).  A stream is a sequence of items:    *)
(* opcode and operand bytes are 0 .. 255, and a literal byte copied from   *)
(* position p of the source is Lit(p), a value above 255: what it is worth *)
(* as an opcode is unknown, so a decoder that reads one as an opcode is    *)
(* out of step.  A literal run is given by its first position and length.  *)
(***************************************************************************)
EXTENDS Integers, Sequences, SequencesExt

CONSTANTS
    LargeBase,      \* first length with an operand byte of its own (16)
    LenByte,        \* values of that operand byte (256)
    ShortDistance,  \* first distance sml_d cannot hold (2048 - 2*256)
    LongDistance    \* first distance med_d cannot hold (1 << 14)

ASSUME FormatAssumption ==
    /\ LargeBase \in 4 .. 16 /\ LenByte \in 1 .. 256
    /\ ShortDistance \in 1 .. 1536
    /\ LongDistance \in ShortDistance .. 16384

\* The longest run or match one opcode can carry: 16 + 255.
MaxRun == LargeBase + LenByte - 1

Lit(p) == 256 + p
IsLiteral(item) == item > 255
PositionOf(item) == item - 256

Lits(p, L) == [i \in 1 .. L |-> Lit(p + i - 1)]

\* byte(L-16): the operand wraps when the run is longer than MaxRun.
LengthByte(L) == (L - LargeBase) % LenByte

\* lzvnEmitLiteralBytes: lrg_l, sml_l, or nothing.
LiteralRun(p, L) ==
    (IF L >= LargeBase THEN <<224, LengthByte(L)>>
     ELSE IF L > 0 THEN <<224 + L>> ELSE << >>) \o Lits(p, L)

(***************************************************************************)
(* The rest of a match that its opcode could not hold: lrg_m while more    *)
(* than 15 bytes are left, then sml_m.                                     *)
(***************************************************************************)
FullRests(rest) == rest \div MaxRun
LastRest(rest) == rest % MaxRun

RestOfMatch(rest) ==
    FlattenSeq([i \in 1 .. FullRests(rest) |-> <<240, MaxRun - LargeBase>>])
      \o (IF LastRest(rest) >= LargeBase THEN <<240, LastRest(rest) - LargeBase>>
          ELSE IF LastRest(rest) > 0 THEN <<240 + LastRest(rest)>> ELSE << >>)

(***************************************************************************)
(* The opcode of a match with L <= 3 literals, M bytes of which it holds   *)
(* head itself.                                                            *)
(***************************************************************************)
\* Mutant of HeadOf: the head is not shortened by the literals.
HeadWithoutLiterals(L, M) == IF M < 10 THEN M ELSE 10

HeadOf(L, M) == IF M < 10 - 2 * L THEN M ELSE 10 - 2 * L

PreviousDistance(p, L, head) ==
    IF L = 0 THEN <<240 + head>> ELSE <<64 * L + 8 * (head - 3) + 6>> \o Lits(p, L)

SmallDistance(p, L, head, D) ==
    <<D \div 256 + 64 * L + 8 * (head - 3), D % 256>> \o Lits(p, L)

LargeDistance(p, L, head, D) ==
    <<64 * L + 8 * (head - 3) + 7, D % 256, (D \div 256) % 256>> \o Lits(p, L)

MediumDistance(p, L, M, D) ==
    <<160 + (M - 3) \div 4 + 8 * L, (4 * D + ((M - 3) % 4)) % 256, (D \div 64) % 256>>
        \o Lits(p, L)

Triple(p, L, M, D, dPrev) ==
    LET head == HeadOf(L, M)
        rest == M - head
    IN  IF D = dPrev THEN PreviousDistance(p, L, head) \o RestOfMatch(rest)
        ELSE IF D < ShortDistance THEN SmallDistance(p, L, head, D) \o RestOfMatch(rest)
        ELSE IF D >= LongDistance \/ rest = 0 \/ M > 34
        THEN LargeDistance(p, L, head, D) \o RestOfMatch(rest)
        ELSE MediumDistance(p, L, M, D)

\* lzvnEmitLMD: a run of more than 3 literals gets an opcode of its own.
LMD(p, L, M, D, dPrev) ==
    IF L > 3 THEN LiteralRun(p, L) \o Triple(p + L, 0, M, D, dPrev)
             ELSE Triple(p, L, M, D, dPrev)

\* lzvnEmitEndOfStream
EndMarker == <<6, 0, 0, 0, 0, 0, 0, 0>>
=============================================================================
