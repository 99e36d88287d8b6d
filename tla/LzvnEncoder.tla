---------------------------- MODULE LzvnEncoder ----------------------------
(***************************************************************************)
(* lzvnEncodeBuffer, lzvnEncode and lzvnFindMatchN (src/lzvn.go).  One     *)
(* step is one iteration of lzvnEncode's loop.                             *)
(*                                                                         *)
(* The hash table is not a variable: every iteration ends by inserting its *)
(* position, so bucket h holds the Ways last positions before srcCurrent   *)
(* whose hash is h, after the sentinel lzvnInitTable put there.            *)
(***************************************************************************)
EXTENDS LzvnFormat

CONSTANTS
    Sources,      \* the inputs, sequences of bytes
    Hash(_),      \* hash3i of three bytes
    Ways,         \* entries of a bucket (4)
    MaxBacklog,   \* lzvnEncodeMaxLiteralBacklog (271)
    MinMargin,    \* lzvnEncodeMinMargin (8)
    MinSrcSize,   \* lzvnEncodeMinSrcSize (8)
    MaxDistance,  \* lzvnEncodeMaxDistance (0xFFFF)
    FarDistance   \* from here a match scores one less (0x600)

ASSUME EncoderAssumption ==
    /\ Sources \subseteq Seq(0 .. 255)
    /\ Ways \in Nat \ {0}
    /\ MaxBacklog = MaxRun
    /\ MinMargin \in Nat /\ MinMargin >= 4
    /\ MinSrcSize \in MinMargin .. MaxBacklog
    /\ MaxDistance \in 1 .. 256 * 256 - 1

VARIABLES
    src,         \* the input
    srcLiteral,  \* start of the pending literals
    srcCurrent,  \* position looked at
    lastD,       \* dPrev of the encoder state
    pending,     \* the match held back, or NoMatch
    dstE,        \* the stream so far
    phase,       \* "encode", "flush", "done"
    longest      \* history: the longest literal run emitted, by origin

encoderVars == <<src, srcLiteral, srcCurrent, lastD, pending, dstE, phase, longest>>

srcEnd == Len(src)
Byte(p) == src[p + 1]
srcCurrentEnd == srcEnd - MinMargin

NoMatch == [mBegin |-> 0, mEnd |-> 0, M |-> 0, D |-> 0, K |-> 0]

EncoderInit ==
    /\ src \in Sources
    /\ srcLiteral = 0 /\ srcCurrent = 0 /\ lastD = 0
    /\ pending = NoMatch
    /\ dstE = << >>
    /\ phase = IF srcEnd >= MinSrcSize THEN "encode" ELSE "flush"
    /\ longest = [match |-> 0, backlog |-> 0, trailing |-> 0]
-----------------------------------------------------------------------------
\* nmatch4: equal bytes, up to 4, at i and j.
NMatch4(i, j) ==
    CHOOSE k \in 0 .. 4 :
        /\ \A e \in 0 .. k - 1 : Byte(i + e) = Byte(j + e)
        /\ k < 4 => Byte(i + k) # Byte(j + k)

HashAt(p) == Hash(<<Byte(p), Byte(p + 1), Byte(p + 2)>>)

\* The positions in the bucket of srcCurrent, newest first: the most recent
\* ones, and the sentinel, position 0, in the entries never overwritten.
BucketAt(p) ==
    LET same == {q \in 0 .. p - 1 : HashAt(q) = HashAt(p)}
        newer(q) == Cardinality({r \in same : r > q})
    IN  [w \in 1 .. Ways |-> Max({0} \cup {q \in same : newer(q) = w - 1})]

(***************************************************************************)
(* lzvnFindMatchN: extend a match of n (3 or 4) bytes forward by whole     *)
(* words, then backward over the pending literals.                         *)
(***************************************************************************)
ExtendTo(p, D, n0) ==
    LET reach[e \in Nat] ==
          IF e + 4 < srcEnd
          THEN LET k == NMatch4(e, e - D) IN IF k = 4 THEN reach[e + 4] ELSE e + k
          ELSE e
    IN  IF n0 = 4 THEN reach[p + 4] ELSE p + n0

\* Mutant of BackTo: it does not stop at the literals already emitted.
BackToStart(p, D) ==
    CHOOSE b \in 0 .. p :
        /\ b >= D
        /\ \A q \in b .. p - 1 : Byte(q) = Byte(q - D)
        /\ b > D => Byte(b - 1) # Byte(b - 1 - D)

BackTo(p, D) ==
    CHOOSE b \in srcLiteral .. p :
        /\ b >= D
        /\ \A q \in b .. p - 1 : Byte(q) = Byte(q - D)
        /\ b > srcLiteral /\ b > D => Byte(b - 1) # Byte(b - 1 - D)

\* What the score of a match is lowered by; the previous distance is cheap.
Penalty(D, previous) == IF previous THEN 1 ELSE IF D < FarDistance THEN 2 ELSE 3

\* Mutant of FindMatch: no limit on the distance.
FindMatchAnyDistance(p, m0, previous) ==
    LET D == p - m0
        n0 == NMatch4(p, m0)
    IN  IF n0 < 3 \/ D <= 0 THEN NoMatch
        ELSE LET from == BackTo(p, D)
                 to == ExtendTo(p, D, n0)
             IN  [mBegin |-> from, mEnd |-> to, M |-> to - from, D |-> D,
                  K |-> (to - from) - Penalty(D, previous)]

FindMatch(p, m0, previous) ==
    LET D == p - m0
        n0 == NMatch4(p, m0)
    IN  IF n0 < 3 \/ D <= 0 \/ D > MaxDistance THEN NoMatch
        ELSE LET from == BackTo(p, D)
                 to == ExtendTo(p, D, n0)
             IN  [mBegin |-> from, mEnd |-> to, M |-> to - from, D |-> D,
                  K |-> (to - from) - Penalty(D, previous)]

\* updateBest, for a candidate that was found at all.
Better(best, c) ==
    IF c.M > 0 /\ (c.K > best.K \/ (c.K = best.K /\ c.mEnd > best.mEnd + 1)) THEN c ELSE best

Incoming(p) ==
    LET bucket == BucketAt(p)
        best == FoldLeft(Better, NoMatch,
                         [w \in 1 .. Ways |-> FindMatch(p, bucket[w], FALSE)])
    IN  IF lastD = 0 THEN best
        ELSE Better(best, FindMatch(p, p - lastD, TRUE))
-----------------------------------------------------------------------------
Longer(a, b) == IF a > b THEN a ELSE b

\* Mutant of EmitMatch: dPrev is not updated.
EmitMatchOldDistance(m) ==
    LET L == m.mBegin - srcLiteral
    IN  /\ dstE' = dstE \o LMD(srcLiteral, L, m.M, m.D, lastD)
        /\ srcLiteral' = m.mEnd
        /\ longest' = [longest EXCEPT !.match = Longer(@, L)]
        /\ UNCHANGED lastD

\* lzvnEmitMatch
EmitMatch(m) ==
    LET L == m.mBegin - srcLiteral
    IN  /\ dstE' = dstE \o LMD(srcLiteral, L, m.M, m.D, lastD)
        /\ lastD' = m.D
        /\ srcLiteral' = m.mEnd
        /\ longest' = [longest EXCEPT !.match = Longer(@, L)]

EmitNothing == UNCHANGED <<dstE, lastD, srcLiteral, longest>>

Iteration == phase = "encode" /\ srcCurrent < srcCurrentEnd
Advance == srcCurrent' = srcCurrent + 1 /\ UNCHANGED <<src, phase>>

\* A position inside the match emitted last is only inserted in the table.
InsideMatch ==
    /\ Iteration /\ srcCurrent < srcLiteral
    /\ EmitNothing /\ UNCHANGED pending
    /\ Advance

\* Mutant of NoMatchHere: the literals may grow without limit.
NoMatchAnyBacklog ==
    /\ Iteration /\ srcCurrent >= srcLiteral
    /\ Incoming(srcCurrent) = NoMatch
    /\ EmitNothing /\ UNCHANGED pending
    /\ Advance

\* No match here, and the literals may still grow.
NoMatchHere ==
    /\ Iteration /\ srcCurrent >= srcLiteral
    /\ Incoming(srcCurrent) = NoMatch
    /\ srcCurrent - srcLiteral < MaxBacklog
    /\ EmitNothing /\ UNCHANGED pending
    /\ Advance

\* No match here and the backlog is full: the match held back goes out, or
\* a full literal run.
BacklogFull ==
    /\ Iteration /\ srcCurrent >= srcLiteral
    /\ Incoming(srcCurrent) = NoMatch
    /\ srcCurrent - srcLiteral >= MaxBacklog
    /\ IF pending # NoMatch THEN EmitMatch(pending)
       ELSE /\ dstE' = dstE \o LiteralRun(srcLiteral, MaxBacklog)
            /\ srcLiteral' = srcLiteral + MaxBacklog
            /\ longest' = [longest EXCEPT !.backlog = Longer(@, MaxBacklog)]
            /\ UNCHANGED lastD
    /\ pending' = NoMatch
    /\ Advance

\* The first match is held back, a disjoint one replaces the one held back,
\* and of two that overlap the better one goes out and the other is dropped.
MatchHere ==
    /\ Iteration /\ srcCurrent >= srcLiteral
    /\ LET incoming == Incoming(srcCurrent)
       IN  /\ incoming # NoMatch
           /\ \/ /\ pending = NoMatch
                 /\ pending' = incoming /\ EmitNothing
              \/ /\ pending # NoMatch /\ pending.mEnd <= incoming.mBegin
                 /\ EmitMatch(pending) /\ pending' = incoming
              \/ /\ pending # NoMatch /\ pending.mEnd > incoming.mBegin
                 /\ EmitMatch(IF incoming.K > pending.K THEN incoming ELSE pending)
                 /\ pending' = NoMatch
    /\ Advance

LoopEnds ==
    /\ phase = "encode" /\ srcCurrent >= srcCurrentEnd
    /\ phase' = "flush"
    /\ UNCHANGED <<src, srcLiteral, srcCurrent, lastD, pending, dstE, longest>>

\* What is left goes out as one literal run, a match held back included.
Flush ==
    /\ phase = "flush"
    /\ LET remaining == srcEnd - srcLiteral
       IN  /\ dstE' = dstE \o LiteralRun(srcLiteral, remaining) \o EndMarker
           /\ longest' = [longest EXCEPT !.trailing = remaining]
    /\ phase' = "done"
    /\ UNCHANGED <<src, srcLiteral, srcCurrent, lastD, pending>>

Encode == InsideMatch \/ NoMatchHere \/ BacklogFull \/ MatchHere \/ LoopEnds \/ Flush
=============================================================================
