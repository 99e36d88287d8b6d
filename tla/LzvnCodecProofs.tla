-------------------------- MODULE LzvnCodecProofs --------------------------
(***************************************************************************)
(* The LZVN decoder and encoder, for every payload, every size of output   *)
(* and every source.                                                       *)
(*                                                                         *)
(* The decoder: no read or write leaves its buffer, no opcode expands by   *)
(* more than Expansion, and the remembered distance stays in reach.        *)
(*                                                                         *)
(* The encoder: the match held back stays ahead of what was emitted, the   *)
(* literal runs are bounded, and what the opcodes say is the source, which *)
(* the decoder reads back.                                                 *)
(***************************************************************************)
EXTENDS LzvnCodec, LibraryLemmas

-----------------------------------------------------------------------------
(***************************************************************************)
(* The decoder                                                             *)
(***************************************************************************)
(***************************************************************************)
(* The inductive invariant: the counters and the remembered distance.      *)
(* What the output holds plays no part, so dst is left out.                *)
(***************************************************************************)
Counters ==
    /\ stream \in Seq(Nat) /\ dEnd \in Nat
    /\ spos \in Nat /\ dpos \in Nat /\ dPrev \in Nat

IInv ==
    /\ Counters
    /\ StaysInBuffers
    /\ ExpansionBounded
    /\ dPrev <= dpos

(***************************************************************************)
(* What an opcode that is read in step and in full asks for.               *)
(***************************************************************************)
LEMMA OpcodeByte ==
    ASSUME Counters, AtOpcode, ~ OutOfStep
    PROVE  Opcode \in 0 .. 255
<1>1. Opcode \in Nat
  BY DEF Counters, AtOpcode, Opcode, At, sEnd
<1>2. ~ IsLiteral(Opcode)
  BY DEF AtOpcode, OutOfStep
<1>. QED BY <1>1, <1>2 DEF IsLiteral

LEMMA OperandCount ==
    ASSUME NEW opc \in 0 .. 255
    PROVE  Operands(opc) \in 0 .. 2
BY DEF Operands

LEMMA OperandBytes ==
    ASSUME Counters, AtOpcode, ~ OutOfStep, ~ Truncated,
           NEW k \in 1 .. Operands(Opcode)
    PROVE  Operand(k) \in 0 .. 255
<1>1. Operands(Opcode) \in 0 .. 2
  BY OpcodeByte, OperandCount
<1>2. spos + k < sEnd
  BY <1>1 DEF Counters, Truncated, sEnd
<1>3. Operand(k) \in Nat
  BY <1>1, <1>2 DEF Counters, Operand, At, sEnd
<1>4. ~ IsLiteral(Operand(k))
  BY <1>2 DEF AtOpcode, OutOfStep
<1>. QED BY <1>3, <1>4 DEF IsLiteral

\* Literals pay for themselves: only the match counts against the other bytes.
LEMMA LiteralsArePaidFor ==
    ASSUME NEW e \in Nat, NEW bytes \in Nat, NEW L \in Nat, NEW M \in Nat,
           e >= 1, M <= e * bytes
    PROVE  L + M <= e * (bytes + L)
<1>1. e * (bytes + L) = e * bytes + e * L
  OBVIOUS
<1>2. L <= e * L
  <2>1. e * L = L + (e - 1) * L
    OBVIOUS
  <2>2. (e - 1) * L >= 0
    OBVIOUS
  <2>. QED BY <2>1, <2>2
<1>3. e * bytes \in Nat /\ e * L \in Nat
  OBVIOUS
<1>. QED BY <1>1, <1>2, <1>3

\* Every opcode but the long literal run and the long match: at most three
\* literals and 34 bytes of match, or 15 bytes of either.
LEMMA OpcodeFields ==
    ASSUME Counters, AtOpcode, ~ OutOfStep, ~ Truncated
    PROVE  /\ OpL \in Nat /\ OpM \in Nat
           /\ OpM <= Expansion * (1 + Operands(Opcode))
<1>0. Opcode \in 0 .. 255 /\ dPrev \in Nat
  BY OpcodeByte DEF Counters
<1>1. /\ LargeBase \in 4 .. 16 /\ Expansion \in Nat
      /\ 2 * Expansion >= LargeBase + 255 /\ Expansion >= 15
  BY FormatAssumption, DecoderAssumption
<1>2. CASE Opcode = 240
  <2>1. Operands(Opcode) = 1
    BY <1>2 DEF Operands
  <2>2. Operand(1) \in 0 .. 255
    BY <2>1, OperandBytes
  <2>3. OpL = 0 /\ OpM = Operand(1) + LargeBase
    BY <1>2 DEF OpL, OpM, OpD, IsMatchOnly, KeepsDistance
  <2>4. Expansion * (1 + Operands(Opcode)) = 2 * Expansion
    BY <2>1, <1>1
  <2>5. OpM \in Nat /\ OpM <= 2 * Expansion
    BY <2>2, <2>3, <1>1
  <2>. QED BY <1>0, <2>3, <2>4, <2>5
<1>3. CASE Opcode \in 241 .. 255
  <2>1. Operands(Opcode) = 0
    BY <1>3 DEF Operands
  <2>2. OpL = 0 /\ OpM = Opcode % 16
    BY <1>3 DEF OpL, OpM, OpD, IsMatchOnly, KeepsDistance
  <2>3. OpM \in 0 .. 15
    BY <1>0, <2>2
  <2>4. Expansion * (1 + Operands(Opcode)) = Expansion
    BY <2>1, <1>1
  <2>. QED BY <1>0, <1>1, <2>2, <2>3, <2>4
<1>4. CASE Opcode = 224
  <2>1. Operands(Opcode) = 1
    BY <1>4 DEF Operands
  <2>2. Operand(1) \in 0 .. 255
    BY <2>1, OperandBytes
  <2>3. OpL = Operand(1) + LargeBase /\ OpM = 0
    BY <1>4, <2>2 DEF OpL, OpM, OpD, IsMatchOnly, IsLiteralOnly, IsMedium, KeepsDistance
  <2>4. Expansion * (1 + Operands(Opcode)) = 2 * Expansion
    BY <2>1, <1>1
  <2>. QED BY <1>1, <2>2, <2>3, <2>4
<1>5. CASE Opcode \in 225 .. 239
  <2>1. Operands(Opcode) = 0
    BY <1>5 DEF Operands
  <2>2. OpL = Opcode % 16 /\ OpM = 0
    BY <1>5 DEF OpL, OpM, IsMatchOnly, IsLiteralOnly, IsMedium, KeepsDistance
  <2>3. OpL \in 0 .. 15
    BY <1>0, <2>2
  <2>4. Expansion * (1 + Operands(Opcode)) = Expansion
    BY <2>1, <1>1
  <2>. QED BY <1>1, <2>2, <2>3, <2>4
<1>6. CASE Opcode \in 160 .. 191
  <2>1. Operands(Opcode) = 2
    BY <1>6 DEF Operands
  <2>2. Operand(1) \in 0 .. 255 /\ Operand(2) \in 0 .. 255
    BY <2>1, OperandBytes
  <2>3. /\ OpL = (Opcode \div 8) % 4
        /\ OpM = 4 * (Opcode % 8) + (Operand(1) % 4) + 3
    BY <1>6 DEF OpL, OpM, OpD, IsMatchOnly, IsLiteralOnly, IsMedium, KeepsDistance
  <2>4. Expansion * (1 + Operands(Opcode)) = 3 * Expansion
    BY <2>1, <1>1
  <2>5. OpL \in Nat /\ OpM \in 3 .. 34
    BY <1>0, <2>2, <2>3
  <2>. QED BY <1>1, <2>4, <2>5
<1>7. CASE Opcode \in 0 .. 159 \cup 192 .. 223
  <2>1. /\ OpL = Opcode \div 64 /\ OpM = ((Opcode \div 8) % 8) + 3
    BY <1>7 DEF OpL, OpM, IsMatchOnly, IsLiteralOnly, IsMedium
  <2>2. OpL \in Nat /\ OpM \in 3 .. 10
    BY <1>0, <2>1
  <2>3. /\ Expansion * (1 + Operands(Opcode)) \in Nat
        /\ Expansion * (1 + Operands(Opcode)) >= Expansion
    <3>1. Operands(Opcode) \in 0 .. 2
      BY <1>0, OperandCount
    <3>. QED BY <1>1, <3>1
  <2>. QED BY <1>1, <2>2, <2>3
<1>. QED BY <1>0, <1>2, <1>3, <1>4, <1>5, <1>6, <1>7

LEMMA DistanceBytes ==
    ASSUME NEW a \in 0 .. 255, NEW b \in 0 .. 255
    PROVE  a + 256 * b \in Nat /\ (a \div 4) + 64 * b \in Nat
OBVIOUS

\* The distance of an opcode with a match: its own, or the remembered one.
LEMMA MatchDistance ==
    ASSUME Counters, AtOpcode, ~ OutOfStep, ~ Truncated, HasMatch
    PROVE  OpD \in Nat
<1>0. Opcode \in 0 .. 255 /\ dPrev \in Nat
  BY OpcodeByte DEF Counters
<1>1. CASE KeepsDistance
  BY <1>0, <1>1 DEF OpD
<1>2. CASE ~ KeepsDistance /\ (IsMedium \/ Opcode % 8 = 7)
  <2>1. Operands(Opcode) = 2
    BY <1>0, <1>2 DEF Operands, KeepsDistance, IsMatchOnly, IsMedium, IsLiteralOnly, HasMatch
  <2>. DEFINE a == Operand(1)
              b == Operand(2)
  <2>2. a \in 0 .. 255 /\ b \in 0 .. 255
    BY <2>1, OperandBytes
  <2>3. CASE IsMedium
    <3>1. OpD = (a \div 4) + 64 * b
      BY <1>2, <2>3 DEF OpD
    <3>. HIDE DEF a, b
    <3>. QED BY <2>2, <3>1, DistanceBytes
  <2>4. CASE ~ IsMedium
    <3>1. OpD = a + 256 * b
      BY <1>2, <2>4 DEF OpD
    <3>. HIDE DEF a, b
    <3>. QED BY <2>2, <3>1, DistanceBytes
  <2>. QED BY <2>3, <2>4
<1>3. CASE ~ KeepsDistance /\ ~ IsMedium /\ Opcode % 8 # 7
  <2>1. Operands(Opcode) = 1
    BY <1>0, <1>3 DEF Operands, KeepsDistance, IsMatchOnly, IsMedium, IsLiteralOnly, HasMatch
  <2>2. Operand(1) \in 0 .. 255
    BY <2>1, OperandBytes
  <2>. QED BY <1>0, <1>3, <2>2 DEF OpD
<1>. QED BY <1>1, <1>2, <1>3

\* A bound on what was written before a step and on what it writes adds up.
LEMMA BoundsAddUp ==
    ASSUME NEW e \in Nat, NEW x \in Nat, NEW y \in Nat, NEW a \in Nat, NEW b \in Nat,
           a <= e * x, b - a <= e * (y - x)
    PROVE  b <= e * y
<1>1. e * y = e * x + e * (y - x)
  OBVIOUS
<1>2. e * x \in Int /\ e * (y - x) \in Int
  OBVIOUS
<1>. QED BY <1>1, <1>2

\* What the checks leave when none of them complains.
LEMMA NoComplaint ==
    ASSUME Complaint = "none"
    PROVE  /\ ~ Truncated
           /\ ~ (FirstLiteral + OpL > sEnd) /\ ~ (dpos + OpL > dEnd)
           /\ HasMatch => ~ (OpD > dpos + OpL) /\ ~ (dpos + OpL + OpM > dEnd)
BY DEF Complaint

\* A literal opcode has no match, so the check of its literals is enough.
LEMMA LiteralOnlyHasNoMatch ==
    ASSUME ~ HasMatch, Opcode \in Int
    PROVE  OpM = 0
BY DEF HasMatch, IsLiteralOnly, OpM, IsMatchOnly, IsMedium
-----------------------------------------------------------------------------
(* What lzvnCopyMatch writes. *)

Multiple(x, D) == \E j \in Nat : x = j * D

LEMMA MultipleSum ==
    ASSUME NEW D \in Nat, NEW x, NEW y, Multiple(x, D), Multiple(y, D)
    PROVE  Multiple(x + y, D) /\ x \in Nat /\ y \in Nat
<1>1. PICK i \in Nat : x = i * D
  BY DEF Multiple
<1>2. PICK j \in Nat : y = j * D
  BY DEF Multiple
<1>3. (i + j) * D = i * D + j * D /\ i + j \in Nat /\ i * D \in Nat /\ j * D \in Nat
  OBVIOUS
<1> QED
  BY <1>1, <1>2, <1>3 DEF Multiple

LEMMA Filled ==
    ASSUME NEW D \in Nat \ {0}, NEW e \in Nat, D <= e
    PROVE  FilledBefore(D, e) \in D .. e /\ Multiple(FilledBefore(D, e), D)
<1> DEFINE stop == [k \in 0 .. e |-> k < 2 * D]
           last == [k \in 0 .. e |-> D]
           prev == [k \in 0 .. e |-> k \div 2]
           G == [k \in 0 .. e |-> [r \in Nat |-> 2 * r]]
           Step(g) == [k \in 0 .. e |-> IF k < 2 * D THEN D ELSE 2 * g[k \div 2]]
           filled == CHOOSE g : g = Step(g)
<1>1. ASSUME NEW k \in 0 .. e, ~ (k < 2 * D)
      PROVE  /\ k \div 2 \in 0 .. e /\ k \div 2 \in 0 .. k - 1
             /\ D <= k \div 2 /\ 2 * (k \div 2) <= k
  BY <1>1
<1>2. Earlier(e, stop, prev)
  BY <1>1 DEF Earlier
<1>3. Lands(e, stop, last, G, Nat)
  BY DEF Lands
<1>4. PICK f \in [0 .. e -> Nat] : Descends(f, e, stop, last, prev, G)
  <2> HIDE DEF stop, last, prev, G
  <2> QED
    BY <1>2, <1>3, DescentExists
<1>5. f = Step(f)
  <2>1. ASSUME NEW k \in 0 .. e
        PROVE  f[k] = IF k < 2 * D THEN D ELSE 2 * f[k \div 2]
    <3>1. f[k] = IF stop[k] THEN last[k] ELSE G[k][f[prev[k]]]
      BY <1>4 DEF Descends
    <3>2. CASE k < 2 * D
      BY <3>1, <3>2
    <3>3. CASE ~ (k < 2 * D)
      <4>1. f[k \div 2] \in Nat
        BY <1>1, <1>4, <3>3
      <4>2. f[k] = G[k][f[k \div 2]]
        BY <3>1, <3>3
      <4> QED
        BY <3>3, <4>1, <4>2
    <3> QED
      BY <3>2, <3>3
  <2> QED
    BY <1>4, <2>1
<1>6. filled = Step(filled)
  <2> HIDE DEF Step
  <2> QED
    BY <1>5
<1>7. FilledBefore(D, e) = filled[e]
  BY DEF FilledBefore
<1>8. \A k \in 0 .. e : filled[k] = Step(filled)[k]
  <2> HIDE DEF Step, filled
  <2> QED
    BY <1>6
<1> HIDE DEF filled
<1> DEFINE Fits(k) == filled[k] \in D .. k /\ Multiple(filled[k], D)
           T == {n \in Nat : \A k \in 0 .. e : D <= k /\ k <= n => Fits(k)}
<1>9. ASSUME NEW k \in 0 .. e, D <= k, k >= 2 * D => Fits(k \div 2) PROVE Fits(k)
  <2>1. CASE k < 2 * D
    <3>1. filled[k] = D /\ D = 1 * D
      BY <1>8, <2>1
    <3> QED
      BY <1>9, <3>1 DEF Multiple
  <2>2. CASE ~ (k < 2 * D)
    <3>1. filled[k] = 2 * filled[k \div 2]
      BY <1>8, <2>2
    <3>2. Fits(k \div 2)
      BY <1>9, <2>2
    <3>3. filled[k \div 2] \in Nat /\ filled[k] = filled[k \div 2] + filled[k \div 2]
      BY <1>1, <2>2, <3>1, <3>2
    <3>4. Multiple(filled[k], D)
      BY <3>2, <3>3, MultipleSum
    <3> QED
      BY <1>1, <2>2, <3>1, <3>2, <3>4
  <2> QED
    BY <2>1, <2>2
<1>10. 0 \in T
  OBVIOUS
<1>11. ASSUME NEW n \in Nat, n \in T PROVE n + 1 \in T
  <2> SUFFICES ASSUME NEW k \in 0 .. e, D <= k, k <= n + 1 PROVE Fits(k)
    OBVIOUS
  <2>1. k >= 2 * D => k \div 2 \in 0 .. e /\ D <= k \div 2 /\ k \div 2 <= n
    BY <1>1
  <2> HIDE DEF Fits
  <2>2. k >= 2 * D => Fits(k \div 2)
    BY <1>11, <2>1
  <2> QED
    BY <1>9, <2>2
<1>12. e \in T
  <2> HIDE DEF T
  <2> QED
    BY <1>10, <1>11, Induction
<1>13. Fits(e)
  <2> HIDE DEF Fits
  <2> QED
    BY <1>12
<1> QED
  BY <1>7, <1>13

\* Byte e of a match is the byte first[e] of the last D before it, a multiple
\* of D before.
Origins(first, D, M) ==
    /\ first \in [0 .. M - 1 -> 0 .. D - 1]
    /\ \A e \in 0 .. M - 1 : Multiple(e - first[e], D)

\* The copy those origins make.
Copies(first, D, M) ==
    \A d : CopyMatch(d, D, M) = d \o [e \in 1 .. M |-> d[Len(d) - D + 1 + first[e - 1]]]

LEMMA CopiedFrom ==
    ASSUME NEW D \in Nat \ {0}, NEW M \in Nat
    PROVE  \E first : Origins(first, D, M) /\ Copies(first, D, M)
<1> DEFINE stop == [e \in 0 .. M |-> e < D \/ e = M]
           last == [e \in 0 .. M |-> IF e < D THEN e ELSE 0]
           prev == [e \in 0 .. M |-> e - FilledBefore(D, e)]
           G == [e \in 0 .. M |-> [r \in Nat |-> r]]
           Step(g) == [e \in 0 .. M - 1 |-> IF e < D THEN e ELSE g[e - FilledBefore(D, e)]]
           first == CHOOSE g : g = Step(g)
<1>1. ASSUME NEW e \in 0 .. M, D <= e
      PROVE  e - FilledBefore(D, e) \in 0 .. e - 1 /\ Multiple(FilledBefore(D, e), D)
  <2>1. FilledBefore(D, e) \in D .. e /\ Multiple(FilledBefore(D, e), D)
    BY <1>1, Filled
  <2> QED
    BY <2>1
<1>2. Earlier(M, stop, prev)
  <2>1. ASSUME NEW e \in 0 .. M, ~ (e < D) PROVE e - FilledBefore(D, e) \in 0 .. e - 1
    <3>1. D <= e
      BY <2>1
    <3> QED
      BY <1>1, <3>1
  <2> QED
    BY <2>1 DEF Earlier
<1>3. Lands(M, stop, last, G, Nat)
  BY DEF Lands
<1>4. PICK f \in [0 .. M -> Nat] : Descends(f, M, stop, last, prev, G)
  <2> HIDE DEF stop, last, prev, G
  <2> QED
    BY <1>2, <1>3, DescentExists
<1> DEFINE g == [e \in 0 .. M - 1 |-> f[e]]
<1>5. g = Step(g)
  <2>1. ASSUME NEW e \in 0 .. M - 1
        PROVE  g[e] = IF e < D THEN e ELSE g[e - FilledBefore(D, e)]
    <3>1. e \in 0 .. M /\ e # M /\ f[e] = IF stop[e] THEN last[e] ELSE G[e][f[prev[e]]]
      BY <1>4 DEF Descends
    <3>2. CASE e < D
      BY <3>1, <3>2
    <3>3. CASE ~ (e < D)
      <4>1. e - FilledBefore(D, e) \in 0 .. M - 1 /\ e - FilledBefore(D, e) \in 0 .. M
        <5> DEFINE b == e - FilledBefore(D, e)
        <5>1. b \in 0 .. e - 1
          BY <1>1, <3>1, <3>3
        <5> HIDE DEF b
        <5>2. b \in 0 .. M - 1 /\ b \in 0 .. M
          BY <5>1
        <5> QED
          BY <5>2 DEF b
      <4>2. f[e - FilledBefore(D, e)] \in Nat
        BY <1>4, <4>1
      <4>3. f[e] = f[e - FilledBefore(D, e)]
        BY <3>1, <3>3, <4>2
      <4> QED
        BY <3>3, <4>1, <4>3
    <3> QED
      BY <3>2, <3>3
  <2> HIDE DEF g
  <2>2. g = [e \in 0 .. M - 1 |-> g[e]]
    BY DEF g
  <2> QED
    BY <2>1, <2>2
<1>6. first = Step(first)
  <2> HIDE DEF Step, g
  <2> QED
    BY <1>5
<1>7. Copies(first, D, M)
  BY DEF CopyMatch, Copies
<1>8. \A e \in 0 .. M - 1 : first[e] = Step(first)[e]
  <2> HIDE DEF Step, first
  <2> QED
    BY <1>6
<1>9. first = [e \in 0 .. M - 1 |-> first[e]]
  <2>1. Step(first) = [e \in 0 .. M - 1 |-> Step(first)[e]]
    OBVIOUS
  <2> HIDE DEF Step, first
  <2> QED
    BY <1>6, <2>1
<1> HIDE DEF first
<1> DEFINE Fits(e) == first[e] \in 0 .. D - 1 /\ Multiple(e - first[e], D)
           T == {n \in Nat : \A e \in 0 .. M - 1 : e <= n => Fits(e)}
<1>10. ASSUME NEW e \in 0 .. M - 1, D <= e => Fits(e - FilledBefore(D, e)) PROVE Fits(e)
  <2>1. CASE e < D
    <3>1. first[e] = e /\ e - first[e] = 0 * D
      BY <1>8, <2>1
    <3> QED
      BY <2>1, <3>1 DEF Multiple
  <2>2. CASE ~ (e < D)
    <3> DEFINE b == FilledBefore(D, e)
    <3>1. first[e] = first[e - b]
      BY <1>8, <2>2
    <3>2. Fits(e - b) /\ Multiple(b, D) /\ e - b \in 0 .. e - 1
      BY <1>1, <1>10, <2>2
    <3>3. b \in Int
      BY <3>2 DEF Multiple
    <3> HIDE DEF b
    <3>4. Multiple(((e - b) - first[e - b]) + b, D)
      BY <3>2, MultipleSum
    <3>5. ((e - b) - first[e - b]) + b = e - first[e]
      BY <3>1, <3>2, <3>3
    <3> QED
      BY <3>1, <3>2, <3>4, <3>5
  <2> QED
    BY <2>1, <2>2
<1>11. 0 \in T
  BY <1>10
<1>12. ASSUME NEW n \in Nat, n \in T PROVE n + 1 \in T
  <2> SUFFICES ASSUME NEW e \in 0 .. M - 1, e <= n + 1 PROVE Fits(e)
    OBVIOUS
  <2> DEFINE b == e - FilledBefore(D, e)
  <2>1. D <= e => b \in 0 .. M - 1 /\ b <= n
    <3>1. D <= e => b \in 0 .. e - 1
      BY <1>1
    <3> HIDE DEF b
    <3> QED
      BY <3>1
  <2> HIDE DEF Fits
  <2> QED
    BY <1>10, <1>12, <2>1
<1>13. M \in T
  <2> HIDE DEF T
  <2> QED
    BY <1>11, <1>12, Induction
<1>14. Origins(first, D, M)
  <2> HIDE DEF Fits
  <2>1. \A e \in 0 .. M - 1 : Fits(e)
    BY <1>13
  <2> QED
    BY <1>9, <2>1 DEF Origins, Fits
<1> QED
  BY <1>7, <1>14

LEMMA CopyTyped ==
    ASSUME NEW d \in Seq(Nat), NEW D \in 1 .. Len(d), NEW M \in Nat
    PROVE  CopyMatch(d, D, M) \in Seq(Nat) /\ Len(CopyMatch(d, D, M)) = Len(d) + M
<1>1. PICK first : Origins(first, D, M) /\ Copies(first, D, M)
  <2>1. D \in Nat \ {0}
    OBVIOUS
  <2> QED
    BY <2>1, CopiedFrom
<1> DEFINE c == [e \in 1 .. M |-> d[Len(d) - D + 1 + first[e - 1]]]
<1>2. ASSUME NEW e \in 1 .. M PROVE d[Len(d) - D + 1 + first[e - 1]] \in Nat
  <2>1. e - 1 \in 0 .. M - 1
    OBVIOUS
  <2>2. first[e - 1] \in 0 .. D - 1
    BY <1>1, <2>1 DEF Origins
  <2>3. Len(d) - D + 1 + first[e - 1] \in 1 .. Len(d)
    BY <2>2
  <2> QED
    BY <2>3
<1>3. c \in [1 .. M -> Nat]
  BY <1>2
<1>4. c \in Seq(Nat) /\ Len(c) = M
  <2> HIDE DEF c
  <2> QED
    BY <1>3, AsSequence
<1>5. CopyMatch(d, D, M) = d \o c
  BY <1>1 DEF Copies
<1> HIDE DEF c
<1> QED
  BY <1>4, <1>5, ConcatProperties
-----------------------------------------------------------------------------
(***************************************************************************)
(* One opcode keeps the invariant and its own expansion.                   *)
(***************************************************************************)
LEMMA OpcodeKeepsIInv ==
    ASSUME IInv, DecodeOpcode
    PROVE  /\ IInv'
           /\ dpos' - dpos <= Expansion * (spos' - spos)
<1>. DEFINE ops == Operands(Opcode)
<1>1. /\ Counters /\ StaysInBuffers /\ ExpansionBounded /\ dPrev <= dpos
      /\ AtOpcode /\ ~ OutOfStep /\ Complaint = "none"
      /\ dpos' = dpos + OpL + OpM
      /\ dPrev' = IF HasMatch THEN OpD ELSE dPrev
      /\ spos' = FirstLiteral + OpL
      /\ stream' = stream /\ dEnd' = dEnd
  BY DEF IInv, DecodeOpcode
<1>2. /\ ~ Truncated
      /\ ~ (FirstLiteral + OpL > sEnd) /\ ~ (dpos + OpL > dEnd)
      /\ HasMatch => ~ (OpD > dpos + OpL) /\ ~ (dpos + OpL + OpM > dEnd)
  BY <1>1, NoComplaint
<1>3. OpL \in Nat /\ OpM \in Nat /\ OpM <= Expansion * (1 + ops)
  BY <1>1, <1>2, OpcodeFields
<1>4. Opcode \in 0 .. 255 /\ ops \in 0 .. 2
  BY <1>1, OpcodeByte, OperandCount
<1>5. /\ Expansion \in Nat /\ Expansion >= 15
      /\ spos \in Nat /\ dpos \in Nat /\ dEnd \in Nat /\ dPrev \in Nat
      /\ sEnd \in Nat /\ sEnd' = sEnd
  BY <1>1, DecoderAssumption DEF Counters, sEnd
<1>6. HasMatch => OpD \in Nat
  BY <1>1, <1>2, MatchDistance
<1>7. ~ HasMatch => OpM = 0
  BY <1>4, LiteralOnlyHasNoMatch
<1>8. spos' = spos + (1 + ops + OpL)
  BY <1>1, <1>3, <1>4, <1>5 DEF FirstLiteral
<1>9. Counters'
  <2>1. spos' \in Nat /\ dpos' \in Nat
    BY <1>1, <1>3, <1>4, <1>5, <1>8
  <2>2. dPrev' \in Nat
    BY <1>1, <1>5, <1>6
  <2>. QED BY <1>1, <2>1, <2>2 DEF Counters
<1>10. StaysInBuffers'
  <2>1. dpos' <= dEnd'
    BY <1>1, <1>2, <1>3, <1>5, <1>7
  <2>2. spos' <= sEnd'
    BY <1>1, <1>2, <1>3, <1>4, <1>5, <1>8
  <2>. QED BY <2>1, <2>2 DEF StaysInBuffers
<1>11. OpL + OpM <= Expansion * ((1 + ops) + OpL)
  <2>1. 1 + ops \in Nat
    BY <1>4
  <2>. HIDE DEF ops
  <2>. QED BY <1>3, <1>5, <2>1, LiteralsArePaidFor
<1>12. dpos' - dpos <= Expansion * (spos' - spos)
  <2>1. dpos' - dpos = OpL + OpM
    BY <1>1, <1>3, <1>5
  <2>2. spos' - spos = (1 + ops) + OpL
    BY <1>3, <1>4, <1>5, <1>8
  <2>. QED BY <1>11, <2>1, <2>2
<1>13. ExpansionBounded'
  <2>1. spos' \in Nat /\ dpos' \in Nat
    BY <1>9 DEF Counters
  <2>2. dpos <= Expansion * spos
    BY <1>1 DEF ExpansionBounded
  <2>3. dpos' <= Expansion * spos'
    BY <1>5, <1>12, <2>1, <2>2, BoundsAddUp
  <2>. QED BY <2>3 DEF ExpansionBounded
<1>14. (dPrev <= dpos)'
  <2>1. CASE HasMatch
    BY <1>1, <1>2, <1>3, <1>5, <1>6, <2>1
  <2>2. CASE ~ HasMatch
    BY <1>1, <1>3, <1>5, <2>2
  <2>. QED BY <2>1, <2>2
<1>. QED BY <1>9, <1>10, <1>12, <1>13, <1>14 DEF IInv

\* A step that leaves the counters where they are keeps the invariant.
LEMMA CountersUntouched ==
    ASSUME IInv, UNCHANGED <<stream, dEnd, spos, dpos, dPrev>>
    PROVE  IInv' /\ dpos' - dpos <= Expansion * (spos' - spos)
<1>1. Expansion * (spos' - spos) = 0 /\ dpos' - dpos = 0
  <2>1. spos' - spos = 0 /\ dpos' - dpos = 0 /\ Expansion \in Nat
    BY DecoderAssumption DEF IInv, Counters
  <2>. QED BY <2>1
<1>2. IInv'
  BY DEF IInv, Counters, StaysInBuffers, ExpansionBounded, sEnd
<1>. QED BY <1>1, <1>2

LEMMA NopKeepsIInv ==
    ASSUME IInv, Nop
    PROVE  IInv' /\ dpos' - dpos <= Expansion * (spos' - spos)
<1>1. /\ spos' = spos + 1 /\ spos < sEnd
      /\ stream' = stream /\ dEnd' = dEnd /\ dpos' = dpos /\ dPrev' = dPrev
  BY DEF Nop, AtOpcode
<1>2. /\ Expansion \in Nat /\ spos \in Nat /\ dpos \in Nat
      /\ sEnd \in Nat /\ dpos <= Expansion * spos
  BY DecoderAssumption DEF IInv, Counters, ExpansionBounded, sEnd
<1>3. Expansion * (spos + 1) = Expansion * spos + Expansion /\ Expansion * spos \in Int
  BY <1>2
<1>4. spos' - spos = 1 /\ dpos' - dpos = 0
  BY <1>1, <1>2
<1>5. dpos' <= Expansion * spos' /\ spos' <= sEnd'
  BY <1>1, <1>2, <1>3 DEF sEnd
<1>6. IInv'
  BY <1>1, <1>2, <1>5 DEF IInv, Counters, StaysInBuffers, ExpansionBounded
<1>7. Expansion * (spos' - spos) = Expansion
  BY <1>2, <1>4
<1>. QED BY <1>2, <1>4, <1>6, <1>7
-----------------------------------------------------------------------------
LEMMA InitIInv ==
    ASSUME DecoderInit
    PROVE  IInv
<1>1. Expansion * 0 = 0
  BY DecoderAssumption
<1>. QED
  BY <1>1, DecoderAssumption
  DEF DecoderInit, IInv, Counters, StaysInBuffers, ExpansionBounded, sEnd

LEMMA StepKeepsIInv ==
    ASSUME IInv, [Decode]_decoderVars
    PROVE  /\ IInv'
           /\ [dpos' - dpos <= Expansion * (spos' - spos)]_decoderVars
<1>1. CASE EndOfStream
  BY <1>1, CountersUntouched DEF EndOfStream
<1>2. CASE OutOfInput
  BY <1>2, CountersUntouched DEF OutOfInput
<1>3. CASE Nop
  BY <1>3, NopKeepsIInv
<1>4. CASE DecodeOpcode
  BY <1>4, OpcodeKeepsIInv
<1>5. CASE Reject
  BY <1>5, CountersUntouched DEF Reject
<1>6. CASE LoseStep
  BY <1>6, CountersUntouched DEF LoseStep
<1>7. CASE UNCHANGED decoderVars
  BY <1>7, CountersUntouched DEF decoderVars
<1>. QED BY <1>1, <1>2, <1>3, <1>4, <1>5, <1>6, <1>7 DEF Decode

THEOREM IInvHolds == DecoderSpec => []IInv
<1>1. DecoderInit => IInv
  BY InitIInv
<1>2. IInv /\ [Decode]_decoderVars => IInv'
  BY StepKeepsIInv
<1>. QED BY <1>1, <1>2, PTL DEF DecoderSpec

(***************************************************************************)
(* For every payload and every size of output: each copy of literals and   *)
(* of a match ends inside dst, each read inside src.                       *)
(***************************************************************************)
THEOREM StaysInBuffersHolds == DecoderSpec => []StaysInBuffers
<1>1. IInv => StaysInBuffers
  BY DEF IInv
<1>. QED BY <1>1, IInvHolds, PTL

(***************************************************************************)
(* For every payload, no step writes more than Expansion bytes for each    *)
(* byte it reads: the bound DecompressLimit trusts is one per opcode.      *)
(***************************************************************************)
THEOREM OpcodeExpandsWithinHolds == DecoderSpec => OpcodeExpandsWithin
<1>1. IInv /\ [Decode]_decoderVars
        => [dpos' - dpos <= Expansion * (spos' - spos)]_decoderVars
  BY StepKeepsIInv
<1>. QED BY <1>1, IInvHolds, PTL DEF DecoderSpec, OpcodeExpandsWithin

(***************************************************************************)
(* A payload of n bytes never decodes to more than Expansion * n bytes:    *)
(* what was written is bounded by what was read, at every step.            *)
(***************************************************************************)
THEOREM ExpansionBoundedHolds == DecoderSpec => []ExpansionBounded
<1>1. IInv => ExpansionBounded
  BY DEF IInv
<1>. QED BY <1>1, IInvHolds, PTL

(***************************************************************************)
(* The remembered distance never reaches before the output, so an opcode   *)
(* that reuses it is never refused for its distance.                       *)
(***************************************************************************)
THEOREM PreviousDistanceInReachHolds == DecoderSpec => []PreviousDistanceInReach
<1>1. ASSUME IInv, AtOpcode, ~ OutOfStep, KeepsDistance
      PROVE  Complaint # "invalid distance"
  <2>1. CASE Truncated
    BY <2>1 DEF Complaint
  <2>2. CASE ~ Truncated
    <3>1. OpD = dPrev
      BY <1>1 DEF OpD
    <3>2. OpL \in Nat
      BY <1>1, <2>2, OpcodeFields DEF IInv
    <3>3. ~ (OpD > dpos + OpL)
      BY <1>1, <3>1, <3>2 DEF IInv, Counters
    <3>. QED BY <2>2, <3>3 DEF Complaint
  <2>. QED BY <2>1, <2>2
<1>2. IInv => PreviousDistanceInReach
  BY <1>1 DEF IInv, PreviousDistanceInReach
<1>. QED BY <1>2, IInvHolds, PTL
-----------------------------------------------------------------------------
(* What the output holds *)

WellTyped ==
    /\ dst \in Seq(Nat) /\ dpos = Len(dst)
    /\ pc \in {"opcode", "done", "out of step"} \cup Rejected

LEMMA ComplaintIs == Complaint \in Rejected \cup {"none"}
BY DEF Complaint, Rejected

LEMMA LiteralsTyped ==
    ASSUME IInv, AtOpcode, ~ OutOfStep, Complaint = "none"
    PROVE  Literals \in Seq(Nat) /\ Len(Literals) = OpL
<1>1. /\ OpL \in Nat /\ Operands(Opcode) \in 0 .. 2
      /\ stream \in Seq(Nat) /\ spos \in Nat /\ FirstLiteral + OpL <= sEnd
  <2>1. ~ Truncated /\ ~ (FirstLiteral + OpL > sEnd)
    BY NoComplaint
  <2>2. OpL \in Nat /\ Operands(Opcode) \in 0 .. 2
    BY <2>1, OpcodeFields, OpcodeByte, OperandCount DEF IInv
  <2>3. stream \in Seq(Nat) /\ spos \in Nat /\ sEnd \in Nat
    BY DEF IInv, Counters, sEnd
  <2>4. FirstLiteral \in Nat
    BY <2>2, <2>3 DEF FirstLiteral
  <2> QED
    BY <2>1, <2>2, <2>3, <2>4
<1>2. FirstLiteral \in Nat
  BY <1>1 DEF FirstLiteral
<1> HIDE DEF FirstLiteral
<1>3. SubSeq(stream, FirstLiteral + 1, FirstLiteral + OpL) \in Seq(Nat)
  BY <1>1, <1>2, SubSeqProperties DEF sEnd
<1>4. Len(SubSeq(stream, FirstLiteral + 1, FirstLiteral + OpL)) = OpL
  BY <1>1, <1>2, SubSeqProperties DEF sEnd
<1> QED
  BY <1>3, <1>4 DEF Literals

LEMMA OpcodeKeepsTypes ==
    ASSUME IInv, WellTyped, DecodeOpcode
    PROVE  WellTyped'
<1>1. /\ AtOpcode /\ ~ OutOfStep /\ Complaint = "none"
      /\ dst' = IF HasMatch THEN CopyMatch(dst \o Literals, OpD, OpM) ELSE dst \o Literals
      /\ dpos' = dpos + OpL + OpM /\ pc' = pc
  BY DEF DecodeOpcode
<1> DEFINE d == dst \o Literals
<1>2. d \in Seq(Nat) /\ Len(d) = dpos + OpL
  BY <1>1, LiteralsTyped, ConcatProperties DEF WellTyped
<1>3. ~ Truncated /\ OpL \in Nat /\ OpM \in Nat /\ dpos \in Nat
  BY <1>1, NoComplaint, OpcodeFields DEF IInv, Counters
<1> HIDE DEF d
<1>4. dst' \in Seq(Nat) /\ dpos' = Len(dst')
  <2>1. CASE HasMatch
    <3>1. OpD \in Nat /\ ~ (OpD > dpos + OpL)
      BY <1>1, <1>3, <2>1, NoComplaint, MatchDistance DEF IInv
    <3>2. OpD # 0
      BY <1>1, <2>1 DEF Complaint
    <3>3. OpD \in 1 .. Len(d)
      BY <1>2, <1>3, <3>1, <3>2
    <3>4. CopyMatch(d, OpD, OpM) \in Seq(Nat) /\ Len(CopyMatch(d, OpD, OpM)) = Len(d) + OpM
      BY <1>2, <1>3, <3>3, CopyTyped
    <3> QED
      BY <1>1, <1>2, <2>1, <3>4 DEF d
  <2>2. CASE ~ HasMatch
    <3>1. Opcode \in Int
      <4>1. Opcode \in 0 .. 255
        BY <1>1, OpcodeByte DEF IInv
      <4> QED
        BY <4>1
    <3>2. OpM = 0
      BY <2>2, <3>1, LiteralOnlyHasNoMatch
    <3> QED
      BY <1>1, <1>2, <1>3, <2>2, <3>2 DEF d
  <2> QED
    BY <2>1, <2>2
<1> QED
  BY <1>1, <1>4 DEF WellTyped

LEMMA StepKeepsTypes ==
    ASSUME IInv, WellTyped, [Decode]_decoderVars
    PROVE  WellTyped'
<1>1. CASE DecodeOpcode
  BY <1>1, OpcodeKeepsTypes
<1>2. CASE Reject
  BY <1>2, ComplaintIs DEF Reject, WellTyped
<1>3. CASE EndOfStream \/ OutOfInput \/ Nop \/ LoseStep \/ UNCHANGED decoderVars
  BY <1>3 DEF EndOfStream, OutOfInput, Nop, LoseStep, decoderVars, WellTyped
<1> QED
  BY <1>1, <1>2, <1>3 DEF Decode

(***************************************************************************)
(* Type correctness for every payload: in particular the output is as long *)
(* as the decoder counts, whatever lzvnCopyMatch copies.                   *)
(***************************************************************************)
THEOREM DecoderTypeOKHolds == DecoderSpec => []DecoderTypeOK
<1>1. DecoderInit => WellTyped
  BY DEF DecoderInit, WellTyped
<1>2. IInv /\ WellTyped /\ [Decode]_decoderVars => WellTyped'
  BY StepKeepsTypes
<1>3. IInv /\ WellTyped => DecoderTypeOK
  <2> SUFFICES ASSUME IInv, WellTyped PROVE DecoderTypeOK
    OBVIOUS
  <2>1. spos \in Nat /\ sEnd \in Nat /\ spos <= sEnd
    BY DEF IInv, Counters, StaysInBuffers, sEnd
  <2>2. spos \in 0 .. sEnd
    BY <2>1
  <2> QED
    BY <2>2, Zenon DEF IInv, Counters, WellTyped, DecoderTypeOK
<1> QED
  BY <1>1, <1>2, <1>3, IInvHolds, PTL DEF DecoderSpec

-----------------------------------------------------------------------------
(***************************************************************************)
(* The encoder                                                             *)
(***************************************************************************)
\* The bytes from b up to e - 1 are those D before them.
Repeats(b, e, D) == \A q \in b .. e - 1 : Byte(q) = Byte(q - D)

\* The n bytes at i and at j are equal.
Equal(i, j, n) == \A k \in 0 .. n - 1 : Byte(i + k) = Byte(j + k)

\* What lzvnFindMatchN may find at p.
Found(p) ==
    { m \in [mBegin : Nat, mEnd : Nat, M : Nat, D : Nat, K : Int] :
        /\ srcLiteral <= m.mBegin /\ m.mBegin <= p
        /\ p + 3 <= m.mEnd /\ m.mEnd <= srcEnd
        /\ m.M = m.mEnd - m.mBegin
        /\ m.D \in 1 .. MaxDistance /\ m.D <= m.mBegin
        /\ Repeats(m.mBegin, m.mEnd, m.D) }

(***************************************************************************)
(* The inductive invariant.  The match held back was found behind the      *)
(* literals emitted and before srcCurrent; it is what lets the literals    *)
(* grow one beyond the backlog.                                            *)
(***************************************************************************)
Positions ==
    /\ src \in Sources
    /\ srcLiteral \in 0 .. srcEnd /\ srcCurrent \in 0 .. srcEnd
    /\ phase \in {"encode", "flush", "done"}
    /\ phase = "encode" => srcCurrent <= srcCurrentEnd
    /\ lastD \in 0 .. MaxDistance /\ lastD <= srcCurrent

Held == pending # NoMatch => \E p \in 0 .. srcCurrent - 1 : pending \in Found(p)

Backlog ==
    /\ pending = NoMatch => srcCurrent - srcLiteral <= MaxBacklog
    /\ srcCurrent - srcLiteral <= MaxBacklog + 1
    /\ phase = "flush" => srcEnd - srcLiteral <= MaxBacklog + MinMargin + 1
    /\ longest \in [match : 0 .. MaxBacklog + 1, backlog : Nat,
                    trailing : 0 .. MaxBacklog + MinMargin + 1]

EncoderInv == Positions /\ Held /\ Backlog
-----------------------------------------------------------------------------
\* The bounds of the encoder, without what is assumed of the sources.
LEMMA EncoderBounds ==
    /\ MinMargin \in Nat /\ MinMargin >= 4 /\ MinSrcSize \in MinMargin .. MaxBacklog
    /\ MaxBacklog = MaxRun /\ MaxBacklog \in Nat \ {0} /\ Ways \in Nat \ {0}
    /\ MaxDistance \in Nat /\ MaxDistance < 256 * 256
<1>1. /\ MinMargin \in Nat /\ MinMargin >= 4 /\ MinSrcSize \in MinMargin .. MaxBacklog
      /\ MaxBacklog = MaxRun /\ Ways \in Nat \ {0} /\ MaxDistance \in 1 .. 256 * 256 - 1
  BY EncoderAssumption, Zenon
<1>2. LargeBase \in 4 .. 16 /\ LenByte \in 1 .. 256
  BY FormatAssumption
<1>3. MaxRun \in Nat \ {0}
  BY <1>2 DEF MaxRun
<1>4. MaxDistance \in Nat /\ MaxDistance < 256 * 256
  <2>1. ASSUME NEW k \in Nat, MaxDistance \in 1 .. k - 1
        PROVE  MaxDistance \in Nat /\ MaxDistance < k
    BY <2>1
  <2>2. 256 * 256 \in Nat
    OBVIOUS
  <2> QED
    BY <1>1, <2>1, <2>2, Zenon
<1> QED
  BY <1>1, <1>3, <1>4, Zenon

LEMMA SourceLength ==
    ASSUME src \in Sources
    PROVE  src \in Seq(0 .. 255) /\ srcEnd \in Nat
<1>1. src \in Seq(0 .. 255)
  BY EncoderAssumption, Zenon
<1> QED
  BY <1>1 DEF srcEnd

LEMMA WordMatches ==
    ASSUME NEW i \in Int, NEW j \in Int
    PROVE  NMatch4(i, j) \in 0 .. 4 /\ Equal(i, j, NMatch4(i, j))
<1> DEFINE Same(k) == \A e \in 0 .. k - 1 : Byte(i + e) = Byte(j + e)
           T == {k \in 0 .. 4 : Same(k)}
<1>1. PICK k \in T : \A y \in T : y <= k
  <2>1. T \subseteq 0 .. 4 /\ 0 \in T
    OBVIOUS
  <2> HIDE DEF T
  <2> QED
    BY <2>1, Largest
<1>2. k < 4 => Byte(i + k) # Byte(j + k)
  <2> SUFFICES ASSUME k < 4, Byte(i + k) = Byte(j + k) PROVE FALSE
    OBVIOUS
  <2>1. k + 1 \in 0 .. 4
    OBVIOUS
  <2>2. Same(k + 1)
    <3> SUFFICES ASSUME NEW e \in 0 .. k PROVE Byte(i + e) = Byte(j + e)
      OBVIOUS
    <3>1. CASE e = k
      BY <3>1
    <3>2. CASE e # k
      <4>1. e \in 0 .. k - 1
        BY <3>2
      <4> QED
        BY <4>1
    <3> QED
      BY <3>1, <3>2
  <2> QED
    BY <1>1, <2>1, <2>2
<1>3. /\ k \in 0 .. 4 /\ \A e \in 0 .. k - 1 : Byte(i + e) = Byte(j + e)
      /\ k < 4 => Byte(i + k) # Byte(j + k)
  BY <1>2
<1>4. /\ NMatch4(i, j) \in 0 .. 4
      /\ \A e \in 0 .. NMatch4(i, j) - 1 : Byte(i + e) = Byte(j + e)
  BY <1>3 DEF NMatch4
<1> QED
  BY <1>4 DEF Equal

LEMMA RepeatsOn ==
    ASSUME NEW b \in Nat, NEW e \in Nat, NEW D \in Int, NEW n \in Nat,
           Repeats(b, e, D), Equal(e, e - D, n)
    PROVE  Repeats(b, e + n, D)
<1> SUFFICES ASSUME NEW q \in b .. e + n - 1 PROVE Byte(q) = Byte(q - D)
  BY DEF Repeats
<1>1. CASE q < e
  <2>1. q \in b .. e - 1
    BY <1>1
  <2> QED
    BY <2>1 DEF Repeats
<1>2. CASE q >= e
  <2>1. q - e \in 0 .. n - 1 /\ e + (q - e) = q /\ (e - D) + (q - e) = q - D
    BY <1>2
  <2>2. Byte(e + (q - e)) = Byte((e - D) + (q - e))
    BY <2>1 DEF Equal
  <2> QED
    BY <2>1, <2>2
<1> QED
  BY <1>1, <1>2

\* lzvnFindMatchN's forward extension, as a recursion.
LEMMA Extending ==
    ASSUME src \in Sources, NEW p \in Nat, NEW D \in Nat
    PROVE  \E reach :
             /\ \A e \in Nat :
                  reach[e] = IF e + 4 < srcEnd
                             THEN IF NMatch4(e, e - D) = 4 THEN reach[e + 4]
                                  ELSE e + NMatch4(e, e - D)
                             ELSE e
             /\ \A n0 : ExtendTo(p, D, n0) = IF n0 = 4 THEN reach[p + 4] ELSE p + n0
<1> DEFINE stop == [e \in Nat |-> ~ (e + 4 < srcEnd /\ NMatch4(e, e - D) = 4)]
           last == [e \in Nat |-> IF e + 4 < srcEnd THEN e + NMatch4(e, e - D) ELSE e]
           Step(g) == [e \in Nat |-> IF e + 4 < srcEnd
                                     THEN LET k == NMatch4(e, e - D)
                                          IN  IF k = 4 THEN g[e + 4] ELSE e + k
                                     ELSE e]
           reach == CHOOSE g : g = Step(g)
<1>1. Stops(stop, srcEnd)
  <2> SUFFICES ASSUME NEW e \in Nat, e >= srcEnd PROVE stop[e]
    BY DEF Stops
  <2>1. ~ (e + 4 < srcEnd)
    BY SourceLength
  <2> QED
    BY <2>1
<1>2. PICK f : Climbs(f, stop, last, 4)
  <2>1. srcEnd \in Nat /\ 4 \in Nat /\ 4 > 0
    BY SourceLength
  <2> HIDE DEF stop, last
  <2> QED
    BY <1>1, <2>1, ClimbExists
<1>3. f = Step(f)
  BY <1>2 DEF Climbs
<1>4. reach = Step(reach)
  <2> HIDE DEF Step
  <2> QED
    BY <1>3
<1>5. \A n0 : ExtendTo(p, D, n0) = IF n0 = 4 THEN reach[p + 4] ELSE p + n0
  BY DEF ExtendTo
<1>6. \A e \in Nat : reach[e] = Step(reach)[e]
  <2> HIDE DEF Step, reach
  <2> QED
    BY <1>4
<1>7. \A e \in Nat :
        reach[e] = IF e + 4 < srcEnd
                   THEN IF NMatch4(e, e - D) = 4 THEN reach[e + 4]
                        ELSE e + NMatch4(e, e - D)
                   ELSE e
  <2> HIDE DEF reach
  <2> QED
    BY <1>6
<1> HIDE DEF reach
<1> QED
  BY <1>5, <1>7

LEMMA ExtendsForward ==
    ASSUME src \in Sources, NEW p \in Nat, NEW D \in Nat, NEW n0 \in 3 .. 4,
           p + 4 <= srcEnd, NEW b \in Nat, Repeats(b, p + n0, D)
    PROVE  /\ ExtendTo(p, D, n0) \in p + 3 .. srcEnd
           /\ Repeats(b, ExtendTo(p, D, n0), D)
<1>0. srcEnd \in Nat
  BY SourceLength
<1>1. PICK reach :
        /\ \A e \in Nat :
             reach[e] = IF e + 4 < srcEnd
                        THEN IF NMatch4(e, e - D) = 4 THEN reach[e + 4]
                             ELSE e + NMatch4(e, e - D)
                        ELSE e
        /\ \A n : ExtendTo(p, D, n) = IF n = 4 THEN reach[p + 4] ELSE p + n
  BY Extending
<1> DEFINE Fine(e) == Repeats(b, e, D) => reach[e] \in e .. srcEnd /\ Repeats(b, reach[e], D)
           T == {k \in Nat : \A e \in Nat : e <= srcEnd /\ srcEnd <= e + k => Fine(e)}
<1>2. ASSUME NEW e \in Nat, e <= srcEnd, e + 4 < srcEnd => Fine(e + 4) PROVE Fine(e)
  <2> SUFFICES ASSUME Repeats(b, e, D)
               PROVE  reach[e] \in e .. srcEnd /\ Repeats(b, reach[e], D)
    OBVIOUS
  <2> DEFINE k == NMatch4(e, e - D)
  <2>1. k \in 0 .. 4 /\ Repeats(b, e + k, D)
    <3>1. k \in 0 .. 4 /\ Equal(e, e - D, k)
      BY WordMatches
    <3> HIDE DEF k
    <3>2. k \in Nat
      BY <3>1
    <3> QED
      BY <3>1, <3>2, RepeatsOn
  <2>2. CASE e + 4 < srcEnd /\ k = 4
    <3>1. reach[e] = reach[e + 4] /\ e + 4 \in Nat
      BY <1>1, <2>2
    <3>2. Repeats(b, e + 4, D) /\ e + 4 < srcEnd
      BY <2>1, <2>2
    <3>3. reach[e + 4] \in e + 4 .. srcEnd /\ Repeats(b, reach[e + 4], D)
      BY <1>2, <3>2
    <3> QED
      BY <1>0, <3>1, <3>3
  <2>3. CASE e + 4 < srcEnd /\ k # 4
    <3>1. reach[e] = e + k
      BY <1>1, <2>3
    <3> QED
      BY <1>0, <2>1, <2>3, <3>1
  <2>4. CASE ~ (e + 4 < srcEnd)
    <3>1. reach[e] = e
      BY <1>1, <2>4
    <3> QED
      BY <1>0, <1>2, <3>1
  <2> QED
    BY <2>2, <2>3, <2>4
<1>3. 0 \in T
  BY <1>0, <1>2
<1>4. ASSUME NEW k \in Nat, k \in T PROVE k + 1 \in T
  <2> SUFFICES ASSUME NEW e \in Nat, e <= srcEnd, srcEnd <= e + (k + 1) PROVE Fine(e)
    OBVIOUS
  <2>1. e + 4 < srcEnd => Fine(e + 4)
    <3> HIDE DEF Fine
    <3> QED
      BY <1>0, <1>4
  <2> HIDE DEF Fine
  <2> QED
    BY <1>2, <2>1
<1>5. ASSUME NEW e \in Nat, e <= srcEnd PROVE Fine(e)
  <2>1. Nat \subseteq T
    <3> HIDE DEF T
    <3> QED
      BY <1>3, <1>4, Induction
  <2>2. srcEnd \in T /\ srcEnd <= e + srcEnd
    BY <1>0, <2>1
  <2> HIDE DEF Fine
  <2> QED
    BY <1>5, <2>2
<1>6. CASE n0 = 4
  <2>1. ExtendTo(p, D, n0) = reach[p + 4] /\ p + 4 \in Nat
    BY <1>1, <1>6
  <2>2. Fine(p + 4)
    BY <1>5, <2>1
  <2> QED
    BY <1>0, <1>6, <2>1, <2>2
<1>7. CASE n0 = 3
  <2>1. ExtendTo(p, D, n0) = p + 3
    BY <1>1, <1>7
  <2> QED
    BY <1>0, <1>7, <2>1
<1> QED
  BY <1>6, <1>7

LEMMA ExtendsBack ==
    ASSUME NEW p \in Nat, NEW D \in Nat, D <= p, srcLiteral \in 0 .. p
    PROVE  /\ BackTo(p, D) \in srcLiteral .. p /\ D <= BackTo(p, D)
           /\ Repeats(BackTo(p, D), p, D)
<1> DEFINE Copied(b) == \A q \in b .. p - 1 : Byte(q) = Byte(q - D)
           T == {b \in srcLiteral .. p : b >= D /\ Copied(b)}
<1>1. PICK b \in T : \A y \in T : b <= y
  <2>1. T \subseteq Nat /\ p \in T
    OBVIOUS
  <2> HIDE DEF T
  <2> QED
    BY <2>1, Smallest
<1>2. b > srcLiteral /\ b > D => Byte(b - 1) # Byte(b - 1 - D)
  <2> SUFFICES ASSUME b > srcLiteral, b > D, Byte(b - 1) = Byte(b - 1 - D) PROVE FALSE
    OBVIOUS
  <2>1. b - 1 \in srcLiteral .. p /\ b - 1 >= D /\ ~ (b <= b - 1)
    OBVIOUS
  <2>2. Copied(b - 1)
    <3> SUFFICES ASSUME NEW q \in b - 1 .. p - 1 PROVE Byte(q) = Byte(q - D)
      OBVIOUS
    <3>1. CASE q = b - 1
      BY <3>1
    <3>2. CASE q # b - 1
      <4>1. q \in b .. p - 1
        BY <3>2
      <4> QED
        BY <4>1
    <3> QED
      BY <3>1, <3>2
  <2>3. b - 1 \in T
    BY <2>1, <2>2
  <2> HIDE DEF T
  <2> QED
    BY <1>1, <2>1, <2>3
<1>3. /\ b \in srcLiteral .. p /\ b >= D
      /\ \A q \in b .. p - 1 : Byte(q) = Byte(q - D)
      /\ b > srcLiteral /\ b > D => Byte(b - 1) # Byte(b - 1 - D)
  BY <1>2
<1>4. /\ BackTo(p, D) \in srcLiteral .. p /\ BackTo(p, D) >= D
      /\ \A q \in BackTo(p, D) .. p - 1 : Byte(q) = Byte(q - D)
  BY <1>3 DEF BackTo
<1> QED
  BY <1>4 DEF Repeats

LEMMA PenaltyIs == \A D, previous : Penalty(D, previous) \in 1 .. 3
BY DEF Penalty

LEMMA FindsMatch ==
    ASSUME src \in Sources, NEW p \in Nat, p + 4 <= srcEnd, srcLiteral \in 0 .. p,
           NEW m0 \in 0 .. p, NEW previous
    PROVE  FindMatch(p, m0, previous) \in Found(p) \cup {NoMatch}
<1> DEFINE D == p - m0
           n0 == NMatch4(p, m0)
           from == BackTo(p, D)
           to == ExtendTo(p, D, n0)
           m == [mBegin |-> from, mEnd |-> to, M |-> to - from, D |-> D,
                 K |-> (to - from) - Penalty(D, previous)]
<1> SUFFICES ASSUME ~ (n0 < 3 \/ D <= 0 \/ D > MaxDistance) PROVE m \in Found(p)
  BY DEF FindMatch
<1>0. srcEnd \in Nat /\ MaxDistance \in Nat
  BY SourceLength, EncoderBounds
<1>1. /\ n0 \in 3 .. 4 /\ Equal(p, p - D, n0)
      /\ D \in 1 .. MaxDistance /\ D \in Nat /\ D <= p
  <2>1. n0 \in 0 .. 4 /\ Equal(p, m0, n0)
    BY WordMatches
  <2>2. p - D = m0 /\ D \in Nat /\ D <= p
    OBVIOUS
  <2> HIDE DEF n0, D
  <2> QED
    BY <1>0, <2>1, <2>2
<1> HIDE DEF D, n0
<1>2. from \in srcLiteral .. p /\ D <= from /\ Repeats(from, p, D)
  BY <1>1, ExtendsBack
<1> HIDE DEF from
<1>3. from \in Nat /\ n0 \in Nat /\ D \in Int
  BY <1>1, <1>2
<1>4. Repeats(from, p + n0, D)
  BY <1>1, <1>2, <1>3, RepeatsOn
<1>5. to \in p + 3 .. srcEnd /\ Repeats(from, to, D)
  BY <1>1, <1>3, <1>4, ExtendsForward
<1> HIDE DEF to
<1>6. (to - from) - Penalty(D, previous) \in Int
  BY <1>0, <1>3, <1>5, PenaltyIs
<1>7. to - from \in Nat /\ to \in Nat
  BY <1>0, <1>2, <1>5
<1>8. m \in [mBegin : Nat, mEnd : Nat, M : Nat, D : Nat, K : Int]
  BY <1>1, <1>3, <1>6, <1>7
<1>9. /\ m.mBegin = from /\ m.mEnd = to /\ m.M = to - from /\ m.D = D
  OBVIOUS
<1>10. p + 3 <= to /\ to <= srcEnd /\ srcLiteral <= from /\ from <= p
  BY <1>0, <1>2, <1>5
<1> HIDE DEF m
<1> QED
  BY <1>1, <1>2, <1>5, <1>8, <1>9, <1>10 DEF Found

\* The best of the candidates is one of them, or NoMatch.
LEMMA BestIsCandidate ==
    ASSUME NEW R, NoMatch \in R, NEW cands \in [1 .. Ways -> R]
    PROVE  FoldLeft(Better, NoMatch, cands) \in R
<1> DEFINE S == 1 .. Ways
           pick == [s \in SUBSET S |-> Max(s)]
           Step(g) == [s \in SUBSET S |-> IF s = {} THEN NoMatch
                         ELSE LET x == Max(s) IN Better(g[s \ {x}], cands[x])]
           G == [x \in S |-> [r \in R |-> Better(r, cands[x])]]
           best == CHOOSE g : g = Step(g)
<1>0. Ways \in Nat /\ IsFiniteSet(S) /\ DOMAIN cands = S
  <2>1. Ways \in Nat
    BY EncoderBounds
  <2> QED
    BY <2>1, FS_Interval
<1>1. Picks(pick, S)
  <2> SUFFICES ASSUME NEW s \in SUBSET S, s # {} PROVE Max(s) \in s
    BY DEF Picks
  <2>1. s \subseteq 0 .. Ways
    BY <1>0
  <2> QED
    BY <1>0, <2>1, MaxIs
<1>2. Combines(G, S, R)
  BY DEF Combines, Better
<1>3. PICK g \in [SUBSET S -> R] : Folding(g, S, NoMatch, pick, G)
  <2> HIDE DEF S, pick, G
  <2> QED
    BY <1>0, <1>1, <1>2, FoldExists
<1>4. ASSUME NEW s \in SUBSET S, s # {}
      PROVE  pick[s] = Max(s) /\ pick[s] \in S /\ s \ {pick[s]} \in SUBSET S
  BY <1>1, <1>4 DEF Picks
<1>5. g = Step(g)
  <2>1. ASSUME NEW s \in SUBSET S
        PROVE  g[s] = IF s = {} THEN NoMatch ELSE Better(g[s \ {Max(s)}], cands[Max(s)])
    <3>1. CASE s = {}
      BY <1>3, <3>1 DEF Folding
    <3>2. CASE s # {}
      <4>1. g[s] = G[pick[s]][g[s \ {pick[s]}]] /\ g[s \ {pick[s]}] \in R
        BY <1>3, <1>4, <3>2 DEF Folding
      <4>2. G[pick[s]][g[s \ {pick[s]}]] = Better(g[s \ {pick[s]}], cands[pick[s]])
        BY <1>4, <3>2, <4>1
      <4> QED
        BY <1>4, <3>2, <4>1, <4>2
    <3> QED
      BY <3>1, <3>2
  <2> QED
    BY <1>3, <2>1
<1>6. best = Step(best)
  <2> HIDE DEF Step
  <2> QED
    BY <1>5
<1>7. FoldLeft(Better, NoMatch, cands) = best[S]
  BY <1>0 DEF FoldLeft, MapThenFoldSet
<1>8. \A s \in SUBSET S : best[s] = Step(best)[s]
  <2> HIDE DEF best, Step
  <2> QED
    BY <1>6
<1> HIDE DEF best
<1>9. best[{}] \in R
  BY <1>8
<1>10. Keeps(best, S, pick, R)
  <2> SUFFICES ASSUME NEW s \in SUBSET S, s # {}, best[s \ {pick[s]}] \in R
               PROVE  best[s] \in R
    BY DEF Keeps
  <2>1. best[s] = Better(best[s \ {pick[s]}], cands[pick[s]]) /\ cands[pick[s]] \in R
    BY <1>4, <1>8
  <2> QED
    BY <2>1 DEF Better
<1>11. \A s \in SUBSET S : best[s] \in R
  <2> HIDE DEF S, pick
  <2> QED
    BY <1>0, <1>1, <1>9, <1>10, FoldTyped
<1> QED
  BY <1>7, <1>11

LEMMA IncomingFound ==
    ASSUME Positions, NEW p, p = srcCurrent, Iteration, srcCurrent >= srcLiteral
    PROVE  Incoming(p) \in Found(p) \cup {NoMatch}
<1> DEFINE R == Found(p) \cup {NoMatch}
           same == {q \in 0 .. p - 1 : HashAt(q) = HashAt(p)}
           newer(q) == Cardinality({r \in same : r > q})
           cands == [w \in 1 .. Ways |-> FindMatch(p, BucketAt(p)[w], FALSE)]
<1>1. /\ src \in Sources /\ p \in Nat /\ p + 4 <= srcEnd /\ srcLiteral \in 0 .. p
      /\ lastD \in 0 .. p
  BY SourceLength, EncoderBounds DEF Positions, Iteration, srcCurrentEnd
<1>2. ASSUME NEW w \in 1 .. Ways PROVE BucketAt(p)[w] \in 0 .. p
  <2> DEFINE T == {0} \cup {q \in same : newer(q) = w - 1}
  <2>1. T \subseteq 0 .. p /\ T # {}
    BY <1>1
  <2>2. BucketAt(p)[w] = Max(T)
    BY DEF BucketAt
  <2> HIDE DEF T
  <2> QED
    BY <1>1, <2>1, <2>2, MaxIs
<1>3. cands \in [1 .. Ways -> R]
  <2>1. \A w \in 1 .. Ways : FindMatch(p, BucketAt(p)[w], FALSE) \in R
    BY <1>1, <1>2, FindsMatch
  <2> HIDE DEF R
  <2> QED
    BY <2>1
<1>4. FoldLeft(Better, NoMatch, cands) \in R
  <2> HIDE DEF cands
  <2> QED
    BY <1>3, BestIsCandidate
<1>5. lastD # 0 => FindMatch(p, p - lastD, TRUE) \in R
  <2>1. p - lastD \in 0 .. p
    BY <1>1
  <2> QED
    BY <1>1, <2>1, FindsMatch
<1> DEFINE best == FoldLeft(Better, NoMatch, cands)
<1>6. Incoming(p) = IF lastD = 0 THEN best ELSE Better(best, FindMatch(p, p - lastD, TRUE))
  BY DEF Incoming
<1>7. best \in R
  BY <1>4
<1> HIDE DEF R, best
<1>8. Incoming(p) \in R
  BY <1>5, <1>6, <1>7 DEF Better
<1> QED
  BY <1>8 DEF R
-----------------------------------------------------------------------------
\* A match found ahead of the literals emitted stays one when literals go out
\* before it, or when its position is passed.
LEMMA FoundIs ==
    ASSUME src \in Sources, NEW p \in Nat, NEW m \in Found(p)
    PROVE  /\ m # NoMatch
           /\ m.mBegin \in Nat /\ m.mEnd \in Nat
           /\ srcLiteral <= m.mBegin /\ m.mBegin <= p /\ p + 3 <= m.mEnd /\ m.mEnd <= srcEnd
           /\ m.D \in 1 .. MaxDistance /\ m.D <= m.mBegin
BY DEF Found, NoMatch

LEMMA InitEncoderInv == Init => EncoderInv
<1> SUFFICES ASSUME EncoderInit PROVE EncoderInv
  BY DEF Init
<1>1. /\ srcEnd \in Nat /\ MaxBacklog \in Nat /\ MinMargin \in Nat
      /\ MinSrcSize \in MinMargin .. MaxBacklog /\ MaxDistance \in Nat
  BY SourceLength, EncoderBounds DEF EncoderInit
<1>2. Positions
  BY <1>1 DEF EncoderInit, Positions, srcCurrentEnd
<1>3. Backlog
  BY <1>1 DEF EncoderInit, Backlog
<1> QED
  BY <1>2, <1>3 DEF EncoderInit, EncoderInv, Held

\* What every iteration does to the positions: Advance.
LEMMA AdvanceKeeps ==
    ASSUME EncoderInv, Iteration, Advance, srcLiteral' \in 0 .. srcEnd,
           lastD' \in 0 .. MaxDistance, lastD' <= srcCurrent + 1
    PROVE  Positions' /\ srcEnd' = srcEnd
<1>1. srcEnd \in Nat /\ srcEnd' = srcEnd
  BY SourceLength DEF EncoderInv, Positions, Advance, srcEnd
<1>2. MinMargin \in Nat
  BY EncoderBounds
<1> QED
  BY <1>1, <1>2 DEF EncoderInv, Positions, Iteration, Advance, srcCurrentEnd

\* The match held back is still one when srcLiteral is not beyond it.
LEMMA StillHeld ==
    ASSUME Positions, UNCHANGED src, NEW p \in Nat, NEW m \in Found(p),
           srcLiteral' <= m.mBegin
    PROVE  m \in Found(p)'
BY DEF Found, srcEnd, Repeats, Byte

\* Emitting a match found at p, for which the literals did not exceed the cap.
LEMMA EmitKeeps ==
    ASSUME Positions, Backlog, NEW p \in 0 .. srcCurrent, NEW m \in Found(p),
           srcCurrent < srcEnd, phase = "encode",
           EmitMatch(m), UNCHANGED <<src, phase>>, srcCurrent' = srcCurrent + 1
    PROVE  /\ srcLiteral' = m.mEnd /\ srcLiteral' \in 0 .. srcEnd
           /\ lastD' \in 0 .. MaxDistance /\ lastD' <= srcCurrent + 1
           /\ srcCurrent' - srcLiteral' <= MaxBacklog
           /\ longest' \in [match : 0 .. MaxBacklog + 1, backlog : Nat,
                             trailing : 0 .. MaxBacklog + MinMargin + 1]
<1> DEFINE L == m.mBegin - srcLiteral
<1>1. /\ srcEnd \in Nat /\ MaxBacklog \in Nat /\ MaxDistance \in Nat
      /\ srcCurrent \in Nat /\ srcLiteral \in Nat
  <2>1. srcEnd \in Nat
    BY SourceLength DEF Positions
  <2>2. MaxBacklog \in Nat /\ MaxDistance \in Nat
    BY EncoderBounds
  <2> QED
    BY <2>1, <2>2 DEF Positions
<1>2. /\ m.mBegin \in Nat /\ m.mEnd \in Nat
      /\ srcLiteral <= m.mBegin /\ m.mBegin <= p /\ p + 3 <= m.mEnd /\ m.mEnd <= srcEnd
      /\ m.D \in 1 .. MaxDistance /\ m.D <= m.mBegin
  BY <1>1, FoundIs DEF Positions
<1>3. L \in 0 .. MaxBacklog + 1 /\ srcCurrent - srcLiteral <= MaxBacklog + 1
  BY <1>1, <1>2 DEF Backlog
<1>4. srcLiteral' = m.mEnd /\ lastD' = m.D
      /\ longest' = [longest EXCEPT !.match = Longer(@, L)]
  BY DEF EmitMatch
<1>5. srcLiteral' \in 0 .. srcEnd /\ lastD' \in 0 .. MaxDistance /\ lastD' <= srcCurrent + 1
  BY <1>1, <1>2, <1>4
<1>6. srcCurrent' - srcLiteral' <= MaxBacklog
  BY <1>1, <1>2, <1>3, <1>4
<1> HIDE DEF L
<1>7. longest' \in [match : 0 .. MaxBacklog + 1, backlog : Nat,
                    trailing : 0 .. MaxBacklog + MinMargin + 1]
  BY <1>3, <1>4 DEF Backlog, Longer
<1> QED
  BY <1>4, <1>5, <1>6, <1>7

LEMMA Ranges ==
    ASSUME Positions
    PROVE  /\ srcEnd \in Nat /\ MaxBacklog \in Nat \ {0} /\ MinMargin \in Nat
           /\ srcCurrent \in Nat /\ srcLiteral \in Nat
           /\ Iteration => srcCurrent + MinMargin < srcEnd
<1>1. srcEnd \in Nat
  BY SourceLength DEF Positions
<1>2. MaxBacklog \in Nat \ {0} /\ MinMargin \in Nat
  BY EncoderBounds
<1> QED
  BY <1>1, <1>2 DEF Positions, Iteration, srcCurrentEnd

\* The match held back after a step was found at p and is still ahead.
LEMMA HeldAfter ==
    ASSUME Positions, UNCHANGED src, srcCurrent' = srcCurrent + 1,
           pending' # NoMatch => \E p \in 0 .. srcCurrent :
                                    pending' \in Found(p) /\ srcLiteral' <= pending'.mBegin
    PROVE  Held'
<1> SUFFICES ASSUME pending' # NoMatch
             PROVE  \E p \in 0 .. srcCurrent' - 1 : pending' \in Found(p)'
  BY DEF Held
<1>1. PICK p \in 0 .. srcCurrent : pending' \in Found(p) /\ srcLiteral' <= pending'.mBegin
  OBVIOUS
<1>2. p \in Nat /\ p \in 0 .. srcCurrent' - 1
  BY Ranges, <1>1
<1>3. pending' \in Found(p)'
  BY <1>1, <1>2, StillHeld
<1> QED
  BY <1>2, <1>3

\* Two matches: what is known of the match held back before a step.
LEMMA HeldBefore ==
    ASSUME EncoderInv, pending # NoMatch
    PROVE  \E p \in 0 .. srcCurrent : pending \in Found(p) /\ srcLiteral <= pending.mBegin
<1>1. PICK p \in 0 .. srcCurrent - 1 : pending \in Found(p)
  BY DEF EncoderInv, Held
<1>2. p \in 0 .. srcCurrent
  BY Ranges, <1>1 DEF EncoderInv
<1>3. srcLiteral <= pending.mBegin
  BY <1>1 DEF Found
<1> QED
  BY <1>1, <1>2, <1>3
-----------------------------------------------------------------------------
\* One lemma per action of the encoder.
LEMMA PassingKeeps ==
    ASSUME EncoderInv, InsideMatch \/ NoMatchHere PROVE EncoderInv'
<1>1. /\ Iteration /\ Advance /\ EmitNothing /\ UNCHANGED pending
      /\ srcCurrent < srcLiteral \/ srcCurrent - srcLiteral < MaxBacklog
  BY DEF InsideMatch, NoMatchHere
<1>2. /\ srcCurrent' = srcCurrent + 1 /\ srcLiteral' = srcLiteral
      /\ UNCHANGED <<src, phase, pending, lastD, longest>> /\ phase = "encode"
  BY <1>1 DEF EmitNothing, Advance, Iteration
<1>3. Positions'
  BY <1>1, <1>2, AdvanceKeeps, Ranges DEF EncoderInv, Positions
<1>4. Held'
  BY <1>2, HeldAfter, HeldBefore DEF EncoderInv
<1>5. Backlog'
  BY <1>1, <1>2, Ranges DEF EncoderInv, Backlog
<1> QED
  BY <1>3, <1>4, <1>5 DEF EncoderInv

\* A match goes out and none, or a later one, is held back.
LEMMA EmitKeepsInv ==
    ASSUME EncoderInv, Iteration, Advance,
           NEW m, \E p \in 0 .. srcCurrent : m \in Found(p), EmitMatch(m),
           pending' = NoMatch \/ (pending' \in Found(srcCurrent) /\ m.mEnd <= pending'.mBegin)
    PROVE  EncoderInv'
<1>1. PICK p \in 0 .. srcCurrent : m \in Found(p)
  OBVIOUS
<1>2. srcCurrent' = srcCurrent + 1 /\ UNCHANGED <<src, phase>> /\ phase = "encode"
  BY DEF Advance, Iteration
<1>3. srcCurrent < srcEnd
  BY Ranges DEF EncoderInv
<1>4. /\ srcLiteral' = m.mEnd /\ srcLiteral' \in 0 .. srcEnd
      /\ lastD' \in 0 .. MaxDistance /\ lastD' <= srcCurrent + 1
      /\ srcCurrent' - srcLiteral' <= MaxBacklog
      /\ longest' \in [match : 0 .. MaxBacklog + 1, backlog : Nat,
                        trailing : 0 .. MaxBacklog + MinMargin + 1]
  BY <1>1, <1>2, <1>3, EmitKeeps DEF EncoderInv
<1>5. Positions'
  BY <1>4, AdvanceKeeps
<1>6. Held'
  <2>1. pending' # NoMatch => \E q \in 0 .. srcCurrent :
                                 pending' \in Found(q) /\ srcLiteral' <= pending'.mBegin
    BY <1>4, Ranges DEF EncoderInv
  <2> QED
    BY <1>2, <2>1, HeldAfter DEF EncoderInv
<1>7. Backlog'
  <2>1. srcCurrent' - srcLiteral' \in Int /\ MaxBacklog \in Nat
    BY <1>2, <1>4, Ranges DEF EncoderInv
  <2> QED
    BY <1>2, <1>4, <2>1 DEF Backlog
<1> QED
  BY <1>5, <1>6, <1>7 DEF EncoderInv

LEMMA BacklogFullKeeps ==
    ASSUME EncoderInv, BacklogFull PROVE EncoderInv'
<1>0. Iteration /\ Advance /\ pending' = NoMatch /\ srcCurrent - srcLiteral >= MaxBacklog
  BY DEF BacklogFull
<1>1. CASE pending # NoMatch
  <2>1. EmitMatch(pending)
    BY <1>1 DEF BacklogFull
  <2> QED
    BY <1>0, <1>1, <2>1, HeldBefore, EmitKeepsInv
<1>2. CASE pending = NoMatch
  <2>1. /\ srcLiteral' = srcLiteral + MaxBacklog
        /\ longest' = [longest EXCEPT !.backlog = Longer(@, MaxBacklog)]
        /\ UNCHANGED lastD
    BY <1>2 DEF BacklogFull
  <2>2. srcCurrent' = srcCurrent + 1 /\ UNCHANGED <<src, phase>> /\ phase = "encode"
    BY <1>0 DEF Advance, Iteration
  <2>3. srcLiteral' \in 0 .. srcEnd /\ srcCurrent' - srcLiteral' <= MaxBacklog
    BY <1>0, <1>2, <2>1, <2>2, Ranges DEF EncoderInv, Backlog
  <2>4. lastD' \in 0 .. MaxDistance /\ lastD' <= srcCurrent + 1
    <3>1. MaxDistance \in Nat /\ srcCurrent \in Nat
      BY Ranges, EncoderBounds DEF EncoderInv
    <3> QED
      BY <2>1, <3>1 DEF EncoderInv, Positions
  <2>5. Positions'
    BY <1>0, <2>3, <2>4, AdvanceKeeps
  <2>6. Held'
    BY <1>0 DEF Held
  <2>7. longest' \in [match : 0 .. MaxBacklog + 1, backlog : Nat,
                      trailing : 0 .. MaxBacklog + MinMargin + 1]
    BY <2>1, Ranges DEF EncoderInv, Backlog, Longer
  <2>8. srcCurrent' - srcLiteral' \in Int /\ MaxBacklog \in Nat
    BY <2>1, <2>2, Ranges DEF EncoderInv
  <2>9. Backlog'
    BY <2>2, <2>3, <2>7, <2>8 DEF Backlog
  <2> QED
    BY <2>5, <2>6, <2>9 DEF EncoderInv
<1> QED
  BY <1>1, <1>2

LEMMA MatchHereKeeps ==
    ASSUME EncoderInv, MatchHere PROVE EncoderInv'
<1> DEFINE incoming == Incoming(srcCurrent)
<1>0. /\ Iteration /\ Advance /\ srcCurrent >= srcLiteral /\ incoming # NoMatch
      /\ \/ pending = NoMatch /\ pending' = incoming /\ EmitNothing
         \/ /\ pending # NoMatch /\ pending.mEnd <= incoming.mBegin
            /\ EmitMatch(pending) /\ pending' = incoming
         \/ /\ pending # NoMatch
            /\ EmitMatch(IF incoming.K > pending.K THEN incoming ELSE pending)
            /\ pending' = NoMatch
  BY DEF MatchHere
<1>1. incoming \in Found(srcCurrent)
  BY <1>0, IncomingFound DEF EncoderInv
<1>2. srcCurrent \in 0 .. srcCurrent /\ srcCurrent \in Nat
  BY Ranges DEF EncoderInv
<1> HIDE DEF incoming
<1>3. CASE pending = NoMatch /\ pending' = incoming /\ EmitNothing
  <2>1. /\ srcCurrent' = srcCurrent + 1 /\ srcLiteral' = srcLiteral
        /\ UNCHANGED <<src, phase, lastD, longest>> /\ phase = "encode"
    BY <1>0, <1>3 DEF EmitNothing, Advance, Iteration
  <2>2. Positions'
    BY <1>0, <2>1, AdvanceKeeps, Ranges DEF EncoderInv, Positions
  <2>3. srcLiteral' <= incoming.mBegin
    BY <1>1, <2>1 DEF Found
  <2>4. Held'
    BY <1>1, <1>2, <1>3, <2>1, <2>3, HeldAfter DEF EncoderInv
  <2>5. srcCurrent - srcLiteral <= MaxBacklog
    BY <1>3 DEF EncoderInv, Backlog
  <2>6. Backlog'
    BY <1>0, <1>3, <2>1, <2>5, Ranges DEF EncoderInv, Backlog
  <2> QED
    BY <2>2, <2>4, <2>6 DEF EncoderInv
<1>4. CASE /\ pending # NoMatch /\ pending.mEnd <= incoming.mBegin
           /\ EmitMatch(pending) /\ pending' = incoming
  BY <1>0, <1>1, <1>4, HeldBefore, EmitKeepsInv
<1>5. CASE /\ pending # NoMatch
           /\ EmitMatch(IF incoming.K > pending.K THEN incoming ELSE pending)
           /\ pending' = NoMatch
  <2> DEFINE m == IF incoming.K > pending.K THEN incoming ELSE pending
  <2>1. \E p \in 0 .. srcCurrent : m \in Found(p)
    BY <1>1, <1>2, <1>5, HeldBefore
  <2>2. EmitMatch(m)
    BY <1>5
  <2> HIDE DEF m
  <2> QED
    BY <1>0, <1>5, <2>1, <2>2, EmitKeepsInv
<1> QED
  BY <1>0, <1>3, <1>4, <1>5

LEMMA EndKeeps ==
    ASSUME EncoderInv, LoopEnds \/ Flush PROVE EncoderInv'
<1>1. /\ UNCHANGED <<src, srcLiteral, srcCurrent, lastD, pending>>
      /\ phase' \in {"flush", "done"}
  BY DEF LoopEnds, Flush
<1>2. Positions'
  BY <1>1, Ranges DEF EncoderInv, Positions, srcEnd
<1>3. Held'
  BY <1>1 DEF EncoderInv, Held, Found, Repeats, srcEnd, Byte
<1>4. Backlog'
  <2>1. CASE LoopEnds
    <3>1. /\ srcEnd' = srcEnd /\ UNCHANGED longest
          /\ srcCurrent >= srcEnd - MinMargin
      BY <2>1, <1>1 DEF LoopEnds, srcEnd, srcCurrentEnd
    <3>2. srcEnd - srcLiteral <= MaxBacklog + MinMargin + 1
      BY <3>1, Ranges DEF EncoderInv, Backlog
    <3> QED
      BY <1>1, <3>1, <3>2 DEF EncoderInv, Backlog
  <2>2. CASE Flush
    <3>1. /\ srcEnd' = srcEnd /\ phase' = "done" /\ phase = "flush"
          /\ longest' = [longest EXCEPT !.trailing = srcEnd - srcLiteral]
      BY <2>2, <1>1 DEF Flush, srcEnd
    <3>2. srcEnd - srcLiteral \in 0 .. MaxBacklog + MinMargin + 1
      BY <3>1, Ranges DEF EncoderInv, Backlog, Positions
    <3>3. longest' \in [match : 0 .. MaxBacklog + 1, backlog : Nat,
                        trailing : 0 .. MaxBacklog + MinMargin + 1]
      BY <3>1, <3>2 DEF EncoderInv, Backlog
    <3> QED
      BY <1>1, <3>1, <3>3 DEF EncoderInv, Backlog
  <2> QED
    BY <2>1, <2>2
<1> QED
  BY <1>2, <1>3, <1>4 DEF EncoderInv

LEMMA NextKeepsEncoderInv ==
    ASSUME EncoderInv, [Next]_vars PROVE EncoderInv'
<1>1. CASE Encode
  BY <1>1, PassingKeeps, BacklogFullKeeps, MatchHereKeeps, EndKeeps DEF Encode
<1>2. CASE UNCHANGED encoderVars
  BY <1>2 DEF encoderVars, EncoderInv, Positions, Held, Backlog, Found, Repeats,
              srcEnd, srcCurrentEnd, Byte
<1> QED
  BY <1>1, <1>2 DEF Next, Hand, vars

(***************************************************************************)
(* The inductive invariant of the encoder holds for every set of sources.  *)
(***************************************************************************)
THEOREM EncoderInvHolds == Spec => []EncoderInv
<1>1. Init => EncoderInv
  BY InitEncoderInv
<1>2. EncoderInv /\ [Next]_vars => EncoderInv'
  BY NextKeepsEncoderInv
<1> QED
  BY <1>1, <1>2, PTL DEF Spec

(***************************************************************************)
(* lzvnEmitMatch never slices with a negative literal length, and what the *)
(* match held back says of the source is true until it goes out.           *)
(***************************************************************************)
THEOREM PendingAheadHolds == Spec => []PendingAhead
<1>1. EncoderInv => PendingAhead
  <2> SUFFICES ASSUME EncoderInv, pending # NoMatch
               PROVE  /\ srcLiteral <= pending.mBegin
                      /\ pending.mBegin < pending.mEnd
                      /\ pending.D <= pending.mBegin
                      /\ Repeats(pending.mBegin, pending.mEnd, pending.D)
    BY DEF PendingAhead, Repeats
  <2>1. PICK p \in 0 .. srcCurrent : pending \in Found(p)
    BY HeldBefore
  <2>2. p \in Nat
    BY <2>1, Ranges DEF EncoderInv
  <2> QED
    BY <2>1, <2>2, FoundIs DEF Found, EncoderInv, Positions
<1> QED
  BY <1>1, EncoderInvHolds, PTL

(***************************************************************************)
(* The literal runs before matches and at the end exceed the cap of 271 by *)
(* no more than one and by no more than the margin and one.                *)
(***************************************************************************)
THEOREM RunsBoundedHolds == Spec => []RunsBounded
<1>1. EncoderInv => RunsBounded
  BY Ranges DEF EncoderInv, Backlog, RunsBounded
<1> QED
  BY <1>1, EncoderInvHolds, PTL
-----------------------------------------------------------------------------
(***************************************************************************)
(* The opcodes the encoder emits: header h, L literals, a match of M bytes *)
(* (or none) at distance D, when the distance before is v.                 *)
(***************************************************************************)
SmallLiteral(h, L, M) == M = 0 /\ L \in 1 .. LargeBase - 1 /\ h = <<224 + L>>
LargeLiteral(h, L, M) == M = 0 /\ L \in LargeBase .. MaxRun /\ h = <<224, L - LargeBase>>
SmallMatch(h, v, L, M, D) == L = 0 /\ D = v /\ M \in 1 .. 15 /\ h = <<240 + M>>
LargeMatch(h, v, L, M, D) ==
    L = 0 /\ D = v /\ M \in LargeBase .. MaxRun /\ h = <<240, M - LargeBase>>
Previous(h, v, L, M, D) ==
    /\ L \in 1 .. 3 /\ M \in 3 .. 10 - 2 * L /\ D = v
    /\ h = <<64 * L + 8 * (M - 3) + 6>>
Small(h, L, M, D) ==
    /\ L \in 0 .. 3 /\ M \in 3 .. 10 - 2 * L /\ D \in 1 .. ShortDistance - 1
    /\ h = <<D \div 256 + 64 * L + 8 * (M - 3), D % 256>>
Large(h, L, M, D) ==
    /\ L \in 0 .. 3 /\ M \in 3 .. 10 - 2 * L /\ D \in Nat \ {0} /\ D < 256 * 256
    /\ h = <<64 * L + 8 * (M - 3) + 7, D % 256, (D \div 256) % 256>>
Medium(h, L, M, D) ==
    /\ L \in 0 .. 3 /\ M \in 3 .. 34 /\ D \in 1 .. LongDistance - 1
    /\ h = <<160 + (M - 3) \div 4 + 8 * L, (4 * D + ((M - 3) % 4)) % 256, (D \div 64) % 256>>

Encodes(h, v, L, M, D) ==
    \/ SmallLiteral(h, L, M) \/ LargeLiteral(h, L, M)
    \/ SmallMatch(h, v, L, M, D) \/ LargeMatch(h, v, L, M, D) \/ Previous(h, v, L, M, D)
    \/ Small(h, L, M, D) \/ Large(h, L, M, D) \/ Medium(h, L, M, D)

\* What the decoder makes of the opcode it is at.
ReadAs(n, L, M, D) ==
    /\ ~ IsEos /\ ~ IsNop /\ Operands(Opcode) = n
    /\ OpL = L /\ OpM = M
    /\ HasMatch <=> M # 0
    /\ M # 0 => OpD = D

LEMMA ReadSmallLiteral ==
    ASSUME NEW h, NEW L, NEW M, NEW D, SmallLiteral(h, L, M), Opcode = h[1]
    PROVE  ReadAs(0, L, M, D)
BY FormatAssumption
DEF SmallLiteral, ReadAs, IsEos, IsNop, Operands, OpL, OpM, HasMatch, IsMatchOnly,
    IsLiteralOnly, IsMedium

LEMMA ReadLargeLiteral ==
    ASSUME NEW h, NEW L, NEW M, NEW D, LargeLiteral(h, L, M), Opcode = h[1], Operand(1) = h[2]
    PROVE  ReadAs(1, L, M, D)
BY FormatAssumption
DEF LargeLiteral, MaxRun, ReadAs, IsEos, IsNop, Operands, OpL, OpM, HasMatch, IsMatchOnly,
    IsLiteralOnly, IsMedium

LEMMA ReadSmallMatch ==
    ASSUME NEW h, NEW L, NEW M, NEW D, SmallMatch(h, dPrev, L, M, D), Opcode = h[1]
    PROVE  ReadAs(0, L, M, D)
BY DEF SmallMatch, ReadAs, IsEos, IsNop, Operands, OpL, OpM, OpD, HasMatch, IsMatchOnly,
    IsLiteralOnly, IsMedium, KeepsDistance

LEMMA ReadLargeMatch ==
    ASSUME NEW h, NEW L, NEW M, NEW D, LargeMatch(h, dPrev, L, M, D), Opcode = h[1],
           Operand(1) = h[2]
    PROVE  ReadAs(1, L, M, D)
BY FormatAssumption
DEF LargeMatch, MaxRun, ReadAs, IsEos, IsNop, Operands, OpL, OpM, OpD, HasMatch, IsMatchOnly,
    IsLiteralOnly, IsMedium, KeepsDistance

LEMMA ReadPrevious ==
    ASSUME NEW h, NEW L, NEW M, NEW D, Previous(h, dPrev, L, M, D), Opcode = h[1]
    PROVE  ReadAs(0, L, M, D)
BY DEF Previous, ReadAs, IsEos, IsNop, Operands, OpL, OpM, OpD, HasMatch, IsMatchOnly,
    IsLiteralOnly, IsMedium, KeepsDistance

LEMMA ReadSmall ==
    ASSUME NEW h, NEW L, NEW M, NEW D, Small(h, L, M, D), Opcode = h[1], Operand(1) = h[2]
    PROVE  ReadAs(1, L, M, D)
BY FormatAssumption
DEF Small, ReadAs, IsEos, IsNop, Operands, OpL, OpM, OpD, HasMatch, IsMatchOnly,
    IsLiteralOnly, IsMedium, KeepsDistance

LEMMA ReadLarge ==
    ASSUME NEW h, NEW L, NEW M, NEW D, Large(h, L, M, D), Opcode = h[1],
           Operand(1) = h[2], Operand(2) = h[3]
    PROVE  ReadAs(2, L, M, D)
<1>1. /\ Opcode = 64 * L + 8 * (M - 3) + 7
      /\ Operand(1) = D % 256 /\ Operand(2) = (D \div 256) % 256
      /\ L \in 0 .. 3 /\ M \in 3 .. 10 - 2 * L /\ D \in Nat \ {0} /\ D < 256 * 256
  <2> DEFINE a == 64 * L + 8 * (M - 3) + 7
             b == D % 256
             c == (D \div 256) % 256
  <2>1. h = <<a, b, c>> /\ L \in 0 .. 3 /\ M \in 3 .. 10 - 2 * L /\ D \in Nat \ {0} /\ D < 256 * 256
    BY DEF Large
  <2> HIDE DEF a, b, c
  <2>2. h[1] = a /\ h[2] = b /\ h[3] = c
    BY <2>1
  <2> QED
    BY <2>1, <2>2, Zenon DEF a, b, c
<1>2. Operand(1) + 256 * Operand(2) = D
  BY <1>1
<1>3. /\ Opcode % 8 = 7 /\ Opcode \div 64 = L /\ (Opcode \div 8) % 8 = M - 3
      /\ Opcode \in Nat /\ Opcode < 224 /\ Opcode \notin 160 .. 191
  BY <1>1
<1>4. /\ Opcode \notin {6, 14, 22, 224, 240} /\ Opcode \notin 224 .. 239
      /\ ~ (Opcode >= 240) /\ ~ (Opcode >= 225)
  BY <1>3
<1>5. ~ IsEos /\ ~ IsNop /\ ~ IsMatchOnly /\ ~ IsLiteralOnly /\ ~ IsMedium
  BY <1>3, <1>4 DEF IsEos, IsNop, IsMatchOnly, IsLiteralOnly, IsMedium
<1>6. ~ KeepsDistance
  BY <1>3, <1>5 DEF KeepsDistance
<1>7. Operands(Opcode) = 2
  BY <1>3, <1>4 DEF Operands
<1>8. OpL = L
  BY <1>3, <1>4, <1>5 DEF OpL
<1>9. OpM = M
  BY <1>1, <1>3, <1>4, <1>5 DEF OpM
<1>10. OpD = D
  BY <1>2, <1>3, <1>5, <1>6 DEF OpD
<1> QED
  BY <1>1, <1>5, <1>7, <1>8, <1>9, <1>10 DEF ReadAs, HasMatch

LEMMA ReadMedium ==
    ASSUME NEW h, NEW L, NEW M, NEW D, Medium(h, L, M, D), Opcode = h[1],
           Operand(1) = h[2], Operand(2) = h[3]
    PROVE  ReadAs(2, L, M, D)
BY FormatAssumption
DEF Medium, ReadAs, IsEos, IsNop, Operands, OpL, OpM, OpD, HasMatch, IsMatchOnly,
    IsLiteralOnly, IsMedium, KeepsDistance
-----------------------------------------------------------------------------
(***************************************************************************)
(* What a stream says.  A spot is where the decoder stands: s items read,  *)
(* d bytes written, the distance v remembered.  An opcode of the stream st *)
(* leads from a spot to the next when its literals and its match are what  *)
(* the source w holds there.                                               *)
(***************************************************************************)
Spots == [s : Nat, d : Nat, v : Nat]
Same(w, b, e, D) == \A q \in b .. e - 1 : w[q + 1] = w[q - D + 1]

HeaderAt(st, s, h) == \A k \in 1 .. Len(h) : st[s + k] = h[k]
LiteralsAt(st, s, d, L) == \A k \in 1 .. L : st[s + k] = Lit(d + k - 1)
MatchAt(w, p, M, D) == M # 0 => D \in 1 .. p /\ Same(w, p, p + M, D)
After(x, h, L, M, D) ==
    [s |-> x.s + Len(h) + L, d |-> x.d + L + M, v |-> IF M # 0 THEN D ELSE x.v]

Leads(w, st, x, h, L, M, D) ==
    /\ Encodes(h, x.v, L, M, D)
    /\ HeaderAt(st, x.s, h) /\ LiteralsAt(st, x.s + Len(h), x.d, L)
    /\ MatchAt(w, x.d + L, M, D)
    /\ x.s + Len(h) + L <= Len(st) /\ x.d + L + M <= Len(w)

Leap(w, st, x, y) ==
    /\ x \in Spots /\ y \in Spots
    /\ \E h, L, M, D : Leads(w, st, x, h, L, M, D) /\ y = After(x, h, L, M, D)

Walks(w, st, tr, n) == \A i \in 0 .. n - 1 : Leap(w, st, tr[i], tr[i + 1])
Path(w, st, a, b) == \E n \in Nat : \E tr : tr[0] = a /\ tr[n] = b /\ Walks(w, st, tr, n)

Origin == [s |-> 0, d |-> 0, v |-> 0]

\* The stream st says the first d bytes of w, and leaves the distance v.
Says(w, st, d, v) ==
    /\ st \in Seq(Nat) /\ d \in Nat /\ v \in Nat
    /\ Path(w, st, Origin, [s |-> Len(st), d |-> d, v |-> v])

LEMMA PathStays ==
    ASSUME NEW w, NEW st, NEW a PROVE Path(w, st, a, a)
<1>1. Walks(w, st, [i \in 0 .. 0 |-> a], 0)
  BY DEF Walks
<1>2. [i \in 0 .. 0 |-> a][0] = a
  OBVIOUS
<1> QED
  BY <1>1, <1>2 DEF Path

LEMMA PathThen ==
    ASSUME NEW w, NEW st, NEW a, NEW b, NEW c, Path(w, st, a, b), Leap(w, st, b, c)
    PROVE  Path(w, st, a, c)
<1>0. PICK n \in Nat : \E tr : tr[0] = a /\ tr[n] = b /\ Walks(w, st, tr, n)
  BY DEF Path
<1>1. PICK tr : tr[0] = a /\ tr[n] = b /\ Walks(w, st, tr, n)
  BY <1>0
<1> DEFINE more == [i \in 0 .. n + 1 |-> IF i <= n THEN tr[i] ELSE c]
<1>2. more[0] = a /\ more[n + 1] = c /\ more[n] = b
  BY <1>1
<1>3. Walks(w, st, more, n + 1)
  <2> SUFFICES ASSUME NEW i \in 0 .. n PROVE Leap(w, st, more[i], more[i + 1])
    BY DEF Walks
  <2>1. CASE i = n
    BY <1>2, <2>1
  <2>2. CASE i # n
    <3>1. i \in 0 .. n - 1 /\ more[i] = tr[i] /\ more[i + 1] = tr[i + 1]
      BY <2>2
    <3> QED
      BY <1>1, <3>1 DEF Walks
  <2> QED
    BY <2>1, <2>2
<1> HIDE DEF more
<1> QED
  BY <1>2, <1>3 DEF Path

LEMMA PathFirst ==
    ASSUME NEW w, NEW st, NEW a, NEW b, Path(w, st, a, b), a # b
    PROVE  \E c : Leap(w, st, a, c) /\ Path(w, st, c, b)
<1>0. PICK n \in Nat : \E tr : tr[0] = a /\ tr[n] = b /\ Walks(w, st, tr, n)
  BY DEF Path
<1>1. PICK tr : tr[0] = a /\ tr[n] = b /\ Walks(w, st, tr, n)
  BY <1>0
<1>2. n # 0 /\ n - 1 \in Nat
  BY <1>1
<1> DEFINE rest == [i \in 0 .. n - 1 |-> tr[i + 1]]
<1>3. rest[0] = tr[1] /\ rest[n - 1] = b
  BY <1>1, <1>2
<1>4. Walks(w, st, rest, n - 1)
  <2> SUFFICES ASSUME NEW i \in 0 .. (n - 1) - 1 PROVE Leap(w, st, rest[i], rest[i + 1])
    BY DEF Walks
  <2>1. i + 1 \in 0 .. n - 1 /\ rest[i] = tr[i + 1] /\ rest[i + 1] = tr[(i + 1) + 1]
    OBVIOUS
  <2> QED
    BY <1>1, <2>1 DEF Walks
<1>5. Leap(w, st, a, tr[1])
  <2>1. 0 \in 0 .. n - 1 /\ 0 + 1 = 1
    BY <1>2
  <2> QED
    BY <1>1, <2>1 DEF Walks
<1> HIDE DEF rest
<1>6. Path(w, st, tr[1], b)
  BY <1>2, <1>3, <1>4 DEF Path
<1> QED
  BY <1>5, <1>6

\* A header as the encoder writes it.
LEMMA HeaderTyped ==
    ASSUME NEW h, NEW v, NEW L, NEW M, NEW D, Encodes(h, v, L, M, D)
    PROVE  /\ h \in Seq(0 .. 255) /\ Len(h) \in 1 .. 3
           /\ L \in Nat /\ M \in Nat
<1>1. CASE SmallLiteral(h, L, M)
  <2>1. 224 + L \in 0 .. 255 /\ L \in Nat /\ M \in Nat /\ h = <<224 + L>>
    BY <1>1, FormatAssumption DEF SmallLiteral
  <2> QED
    BY <2>1
<1>2. CASE LargeLiteral(h, L, M)
  <2>1. L - LargeBase \in 0 .. 255 /\ L \in Nat /\ M \in Nat /\ h = <<224, L - LargeBase>>
    BY <1>2, FormatAssumption DEF LargeLiteral, MaxRun
  <2> QED
    BY <2>1
<1>3. CASE SmallMatch(h, v, L, M, D)
  <2>1. 240 + M \in 0 .. 255 /\ L \in Nat /\ M \in Nat /\ h = <<240 + M>>
    BY <1>3 DEF SmallMatch
  <2> QED
    BY <2>1
<1>4. CASE LargeMatch(h, v, L, M, D)
  <2>1. M - LargeBase \in 0 .. 255 /\ L \in Nat /\ M \in Nat /\ h = <<240, M - LargeBase>>
    BY <1>4, FormatAssumption DEF LargeMatch, MaxRun
  <2> QED
    BY <2>1
<1>5. CASE Previous(h, v, L, M, D)
  <2>1. /\ 64 * L + 8 * (M - 3) + 6 \in 0 .. 255 /\ L \in Nat /\ M \in Nat
        /\ h = <<64 * L + 8 * (M - 3) + 6>>
    BY <1>5 DEF Previous
  <2> QED
    BY <2>1
<1>6. CASE Small(h, L, M, D)
  <2> DEFINE a == D \div 256 + 64 * L + 8 * (M - 3)
             b == D % 256
  <2>1. h = <<a, b>> /\ a \in 0 .. 255 /\ b \in 0 .. 255 /\ L \in Nat /\ M \in Nat
    BY <1>6, FormatAssumption DEF Small
  <2> HIDE DEF a, b
  <2> QED
    BY <2>1
<1>7. CASE Large(h, L, M, D)
  <2> DEFINE a == 64 * L + 8 * (M - 3) + 7
             b == D % 256
             c == (D \div 256) % 256
  <2>1. h = <<a, b, c>> /\ L \in 0 .. 3 /\ M \in 3 .. 10 - 2 * L /\ D \in Nat
    BY <1>7 DEF Large
  <2>2. a \in 0 .. 255 /\ b \in 0 .. 255 /\ c \in 0 .. 255 /\ L \in Nat /\ M \in Nat
    BY <2>1
  <2> HIDE DEF a, b, c
  <2> QED
    BY <2>1, <2>2
<1>8. CASE Medium(h, L, M, D)
  <2> DEFINE a == 160 + (M - 3) \div 4 + 8 * L
             b == (4 * D + ((M - 3) % 4)) % 256
             c == (D \div 64) % 256
  <2>1. h = <<a, b, c>> /\ L \in 0 .. 3 /\ M \in 3 .. 34 /\ D \in Nat
    BY <1>8, FormatAssumption DEF Medium
  <2>2. a \in 0 .. 255 /\ b \in 0 .. 255 /\ c \in 0 .. 255 /\ L \in Nat /\ M \in Nat
    BY <2>1
  <2> HIDE DEF a, b, c
  <2> QED
    BY <2>1, <2>2
<1> QED
  BY <1>1, <1>2, <1>3, <1>4, <1>5, <1>6, <1>7, <1>8 DEF Encodes

\* Items appended to a stream change nothing of what it says.
LEMMA LeapGrows ==
    ASSUME NEW w, NEW st \in Seq(Nat), NEW t \in Seq(Nat), NEW x, NEW y, Leap(w, st, x, y)
    PROVE  Leap(w, st \o t, x, y)
<1> DEFINE u == st \o t
<1>1. PICK h, L, M, D : Leads(w, st, x, h, L, M, D) /\ y = After(x, h, L, M, D)
  BY DEF Leap
<1>2. /\ x \in Spots /\ x.s \in Nat /\ y \in Spots
      /\ Len(h) \in 1 .. 3 /\ L \in Nat /\ x.s + Len(h) + L <= Len(st)
  BY <1>1, HeaderTyped DEF Leap, Leads, Spots
<1>3. \A i \in 1 .. Len(st) : u[i] = st[i]
  BY ConcatProperties
<1>4. Len(u) = Len(st) + Len(t) /\ Len(st) \in Nat /\ Len(t) \in Nat
  BY ConcatProperties
<1> HIDE DEF u
<1>5. HeaderAt(u, x.s, h)
  <2> SUFFICES ASSUME NEW k \in 1 .. Len(h) PROVE u[x.s + k] = h[k]
    BY DEF HeaderAt
  <2>1. x.s + k \in 1 .. Len(st)
    BY <1>2, <1>4, SMTT(30)
  <2> QED
    BY <1>1, <1>3, <2>1 DEF Leads, HeaderAt
<1>6. LiteralsAt(u, x.s + Len(h), x.d, L)
  <2> SUFFICES ASSUME NEW k \in 1 .. L PROVE u[x.s + Len(h) + k] = Lit(x.d + k - 1)
    BY DEF LiteralsAt
  <2>1. x.s + Len(h) + k \in 1 .. Len(st)
    BY <1>2, <1>4, SMTT(30)
  <2> QED
    BY <1>1, <1>3, <2>1 DEF Leads, LiteralsAt
<1>7. x.s + Len(h) + L <= Len(u)
  BY <1>2, <1>4
<1>8. Leads(w, u, x, h, L, M, D)
  BY <1>1, <1>5, <1>6, <1>7 DEF Leads
<1> QED
  BY <1>1, <1>2, <1>8 DEF Leap, u

LEMMA PathGrows ==
    ASSUME NEW w, NEW st \in Seq(Nat), NEW t \in Seq(Nat), NEW a, NEW b, Path(w, st, a, b)
    PROVE  Path(w, st \o t, a, b)
<1>0. PICK n \in Nat : \E tr : tr[0] = a /\ tr[n] = b /\ Walks(w, st, tr, n)
  BY DEF Path
<1>1. PICK tr : tr[0] = a /\ tr[n] = b /\ Walks(w, st, tr, n)
  BY <1>0
<1>2. Walks(w, st \o t, tr, n)
  BY <1>1, LeapGrows DEF Walks
<1> QED
  BY <1>1, <1>2 DEF Path

\* A header with its literals behind it.
LEMMA ItemsAt ==
    ASSUME NEW st \in Seq(Nat), NEW h \in Seq(Nat), NEW d \in Nat, NEW L \in Nat
    PROVE  LET u == st \o (h \o Lits(d, L))
           IN  /\ u \in Seq(Nat) /\ Len(u) = Len(st) + Len(h) + L
               /\ HeaderAt(u, Len(st), h) /\ LiteralsAt(u, Len(st) + Len(h), d, L)
<1> DEFINE l == Lits(d, L)
           t == h \o l
           u == st \o t
<1>1. l \in Seq(Nat) /\ Len(l) = L /\ \A k \in 1 .. L : l[k] = Lit(d + k - 1)
  <2>1. l \in [1 .. L -> Nat]
    BY DEF Lits, Lit
  <2>2. \A k \in 1 .. L : l[k] = Lit(d + k - 1)
    BY DEF Lits
  <2> HIDE DEF l
  <2> QED
    BY <2>1, <2>2, AsSequence
<1> HIDE DEF l
<1>2. t \in Seq(Nat) /\ Len(t) = Len(h) + L
  BY <1>1, ConcatProperties
<1>3. /\ \A k \in 1 .. Len(h) : t[k] = h[k]
      /\ \A k \in 1 .. L : t[Len(h) + k] = Lit(d + k - 1)
  <2>1. \A k \in 1 .. Len(h) + L : t[k] = IF k <= Len(h) THEN h[k] ELSE l[k - Len(h)]
    BY <1>1, ConcatProperties
  <2>2. Len(h) \in Nat
    OBVIOUS
  <2>3. ASSUME NEW k \in 1 .. L
        PROVE  /\ Len(h) + k \in 1 .. Len(h) + L /\ ~ (Len(h) + k <= Len(h))
               /\ (Len(h) + k) - Len(h) = k
    BY <2>2
  <2>4. ASSUME NEW k \in 1 .. Len(h) PROVE k \in 1 .. Len(h) + L /\ k <= Len(h)
    BY <2>2
  <2> HIDE DEF t
  <2> QED
    BY <1>1, <2>1, <2>3, <2>4
<1> HIDE DEF t
<1>4. u \in Seq(Nat) /\ Len(u) = Len(st) + Len(h) + L
  <2>1. u \in Seq(Nat) /\ Len(u) = Len(st) + Len(t)
    BY <1>2, ConcatProperties
  <2>2. Len(st) \in Nat /\ Len(h) \in Nat
    OBVIOUS
  <2> QED
    BY <1>2, <2>1, <2>2
<1>5. \A k \in 1 .. Len(t) : u[Len(st) + k] = t[k]
  <2>1. \A k \in 1 .. Len(st) + Len(t) : u[k] = IF k <= Len(st) THEN st[k] ELSE t[k - Len(st)]
    BY <1>2, ConcatProperties
  <2>2. Len(st) \in Nat /\ Len(t) \in Nat
    BY <1>2
  <2>3. ASSUME NEW k \in 1 .. Len(t)
        PROVE  /\ Len(st) + k \in 1 .. Len(st) + Len(t) /\ ~ (Len(st) + k <= Len(st))
               /\ (Len(st) + k) - Len(st) = k
    BY <2>2
  <2> HIDE DEF u
  <2> QED
    BY <2>1, <2>3
<1> HIDE DEF u
<1>6. HeaderAt(u, Len(st), h)
  <2> SUFFICES ASSUME NEW k \in 1 .. Len(h) PROVE u[Len(st) + k] = h[k]
    BY DEF HeaderAt
  <2>1. k \in 1 .. Len(t)
    BY <1>2
  <2> QED
    BY <1>3, <1>5, <2>1
<1>7. LiteralsAt(u, Len(st) + Len(h), d, L)
  <2> SUFFICES ASSUME NEW k \in 1 .. L PROVE u[Len(st) + Len(h) + k] = Lit(d + k - 1)
    BY DEF LiteralsAt
  <2>1. Len(h) + k \in 1 .. Len(t) /\ Len(st) + (Len(h) + k) = Len(st) + Len(h) + k
    BY <1>2
  <2>2. u[Len(st) + (Len(h) + k)] = t[Len(h) + k]
    BY <1>5, <2>1
  <2> QED
    BY <1>3, <2>1, <2>2
<1> QED
  BY <1>4, <1>6, <1>7 DEF u, t, l

\* One opcode more.
LEMMA SaysOpcode ==
    ASSUME NEW w \in Seq(0 .. 255), NEW st, NEW d, NEW v, Says(w, st, d, v),
           NEW h, NEW L, NEW M, NEW D, Encodes(h, v, L, M, D),
           MatchAt(w, d + L, M, D), d + L + M <= Len(w)
    PROVE  Says(w, st \o (h \o Lits(d, L)), d + L + M, IF M # 0 THEN D ELSE v)
<1> DEFINE t == h \o Lits(d, L)
           u == st \o t
           a == [s |-> Len(st), d |-> d, v |-> v]
           b == [s |-> Len(u), d |-> d + L + M, v |-> IF M # 0 THEN D ELSE v]
<1>1. /\ st \in Seq(Nat) /\ d \in Nat /\ v \in Nat /\ Len(st) \in Nat
      /\ Path(w, st, Origin, a)
  BY DEF Says
<1>2. h \in Seq(0 .. 255) /\ h \in Seq(Nat) /\ Len(h) \in Nat /\ L \in Nat /\ M \in Nat
  <2>1. h \in Seq(0 .. 255) /\ Len(h) \in 1 .. 3 /\ L \in Nat /\ M \in Nat
    BY HeaderTyped
  <2>2. 0 .. 255 \subseteq Nat
    OBVIOUS
  <2>3. h \in Seq(Nat)
    BY <2>1, <2>2, SeqMonotonic
  <2> QED
    BY <2>1, <2>3
<1>3. /\ u \in Seq(Nat) /\ Len(u) = Len(st) + Len(h) + L
      /\ HeaderAt(u, Len(st), h) /\ LiteralsAt(u, Len(st) + Len(h), d, L)
  BY <1>1, <1>2, ItemsAt
<1>4. t \in Seq(Nat)
  <2>1. Lits(d, L) \in [1 .. L -> Nat]
    BY <1>1, <1>2 DEF Lits, Lit
  <2>2. Lits(d, L) \in Seq(Nat)
    BY <1>2, <2>1, AsSequence
  <2> QED
    BY <1>2, <2>2, ConcatProperties
<1>5. Path(w, u, Origin, a)
  <2> HIDE DEF t, a
  <2> QED
    BY <1>1, <1>4, PathGrows
<1> HIDE DEF u
<1>6. D \in Nat \/ M = 0
  BY <1>1, <1>2 DEF MatchAt
<1>7. a \in Spots /\ b \in Spots
  BY <1>1, <1>2, <1>3, <1>6 DEF Spots
<1>8. Leads(w, u, a, h, L, M, D)
  BY <1>3 DEF Leads
<1>9. b = After(a, h, L, M, D)
  BY <1>3 DEF After
<1> HIDE DEF a, b
<1>10. Path(w, u, Origin, b)
  BY <1>5, <1>7, <1>8, <1>9, PathThen DEF Leap
<1>11. d + L + M \in Nat /\ (IF M # 0 THEN D ELSE v) \in Nat
  BY <1>1, <1>2, <1>6
<1> QED
  BY <1>3, <1>10, <1>11 DEF Says, b, u
-----------------------------------------------------------------------------
(* What the emitting functions append. *)

LEMMA NoLiterals ==
    ASSUME NEW d \in Nat
    PROVE  Lits(d, 0) = << >>
<1>1. Lits(d, 0) \in [1 .. 0 -> Nat]
  BY DEF Lits
<1>2. Lits(d, 0) \in Seq(Nat) /\ Len(Lits(d, 0)) = 0
  BY <1>1, AsSequence
<1> QED
  BY <1>2, EmptySeq

LEMMA Associative ==
    ASSUME NEW s \in Seq(Nat), NEW t \in Seq(Nat), NEW u \in Seq(Nat)
    PROVE  (s \o t) \o u = s \o (t \o u)
BY SMTT(30)

LEMMA SameWithin ==
    ASSUME NEW w, NEW D, NEW b \in Nat, NEW e \in Nat, NEW b2 \in Nat, NEW e2 \in Nat,
           Same(w, b, e, D), b <= b2, e2 <= e
    PROVE  Same(w, b2, e2, D)
<1> SUFFICES ASSUME NEW q \in b2 .. e2 - 1 PROVE w[q + 1] = w[q - D + 1]
  BY DEF Same
<1>1. q \in b .. e - 1
  OBVIOUS
<1> QED
  BY <1>1 DEF Same

\* An opcode without literals.
LEMMA SaysMatch ==
    ASSUME NEW w \in Seq(0 .. 255), NEW st, NEW d, NEW v, Says(w, st, d, v),
           NEW h \in Seq(Nat), NEW M \in Nat \ {0}, NEW D, Encodes(h, v, 0, M, D),
           D \in 1 .. d, Same(w, d, d + M, D), d + M <= Len(w)
    PROVE  Says(w, st \o h, d + M, D)
<1>1. d \in Nat /\ d + 0 = d /\ d + 0 + M = d + M
  BY DEF Says
<1>2. MatchAt(w, d + 0, M, D)
  BY <1>1 DEF MatchAt
<1>3. Says(w, st \o (h \o Lits(d, 0)), d + 0 + M, IF M # 0 THEN D ELSE v)
  <2>1. d + 0 + M <= Len(w)
    BY <1>1
  <2>2. ASSUME NEW L, Encodes(h, v, L, M, D), MatchAt(w, d + L, M, D), d + L + M <= Len(w)
        PROVE  Says(w, st \o (h \o Lits(d, L)), d + L + M, IF M # 0 THEN D ELSE v)
    BY <2>2, SaysOpcode
  <2> QED
    BY <1>2, <2>1, <2>2, Zenon
<1>4. h \o Lits(d, 0) = h
  BY <1>1, NoLiterals, ConcatEmptySeq
<1> QED
  BY <1>1, <1>3, <1>4

LEMMA SaysLiteralRun ==
    ASSUME NEW w \in Seq(0 .. 255), NEW st, NEW d, NEW v, Says(w, st, d, v),
           NEW L \in 0 .. MaxRun, d + L <= Len(w)
    PROVE  Says(w, st \o LiteralRun(d, L), d + L, v)
<1>0. d \in Nat /\ st \in Seq(Nat) /\ L \in Nat /\ MaxRun \in Nat
  BY FormatAssumption DEF Says, MaxRun
<1>1. ASSUME NEW h, Encodes(h, v, L, 0, 0), LiteralRun(d, L) = h \o Lits(d, L)
      PROVE  Says(w, st \o LiteralRun(d, L), d + L, v)
  <2>1. MatchAt(w, d + L, 0, 0)
    BY DEF MatchAt
  <2>2. d + L + 0 = d + L
    BY <1>0
  <2>3. Says(w, st \o (h \o Lits(d, L)), d + L + 0, IF 0 # 0 THEN 0 ELSE v)
    BY <1>1, <2>1, <2>2, SaysOpcode
  <2> QED
    BY <1>1, <2>2, <2>3
<1>2. CASE L = 0
  <2>1. LiteralRun(d, L) = << >> \o << >> /\ d + L = d
    BY <1>0, <1>2, NoLiterals, FormatAssumption DEF LiteralRun
  <2>2. << >> \o << >> = << >>
    BY ConcatEmptySeq, EmptySeq
  <2>3. st \o LiteralRun(d, L) = st
    BY <1>0, <2>1, <2>2, ConcatEmptySeq
  <2> QED
    BY <2>1, <2>3
<1>3. CASE L \in 1 .. LargeBase - 1
  <2>1. SmallLiteral(<<224 + L>>, L, 0)
    BY <1>3 DEF SmallLiteral
  <2>2. LiteralRun(d, L) = <<224 + L>> \o Lits(d, L)
    BY <1>3, FormatAssumption DEF LiteralRun
  <2> QED
    BY <1>1, <2>1, <2>2 DEF Encodes
<1>4. CASE L \in LargeBase .. MaxRun
  <2>1. LargeLiteral(<<224, L - LargeBase>>, L, 0)
    BY <1>4 DEF LargeLiteral
  <2>2. LengthByte(L) = L - LargeBase
    BY <1>4, FormatAssumption DEF LengthByte, MaxRun
  <2>3. LiteralRun(d, L) = <<224, L - LargeBase>> \o Lits(d, L)
    BY <1>4, <2>2, FormatAssumption DEF LiteralRun
  <2> QED
    BY <1>1, <2>1, <2>3 DEF Encodes
<1>5. L = 0 \/ L \in 1 .. LargeBase - 1 \/ L \in LargeBase .. MaxRun
  BY <1>0, FormatAssumption
<1> QED
  BY <1>2, <1>3, <1>4, <1>5

\* n opcodes lrg_m of MaxRun bytes each.
FullMatch == <<240, MaxRun - LargeBase>>
FullMatches(n) == FlattenSeq([i \in 1 .. n |-> FullMatch])

LEMMA FullMatchesGrow ==
    ASSUME NEW n \in Nat
    PROVE  /\ FullMatch \in Seq(Nat) /\ FullMatches(n) \in Seq(Nat)
           /\ FullMatches(n + 1) = FullMatches(n) \o FullMatch
<1> DEFINE R == Seq(Nat)
           s == [i \in 1 .. n |-> FullMatch]
           t == [i \in 1 .. n + 1 |-> FullMatch]
<1>1. FullMatch \in R
  BY FormatAssumption DEF FullMatch, MaxRun
<1> HIDE DEF R
<1>2. s \in [1 .. n -> R] /\ t \in [1 .. n + 1 -> R]
  BY <1>1
<1>3. s \in Seq(R) /\ Len(s) = n
  BY <1>2, AsSequence
<1>4. Append(s, FullMatch) = [i \in 1 .. Len(s) + 1 |-> IF i <= Len(s) THEN s[i] ELSE FullMatch]
  BY <1>3, AppendIs
<1>5. Append(s, FullMatch) = t
  BY <1>3, <1>4
<1> HIDE DEF s, t
<1>6. FlattenSeq(s) \in Seq(Nat) /\ FlattenSeq(Append(s, FullMatch)) = FlattenSeq(s) \o FullMatch
  BY <1>1, <1>3, FlattenAppend DEF R
<1> QED
  BY <1>1, <1>5, <1>6 DEF FullMatches, s, t, R

LEMMA FullMatchesNone == FullMatches(0) = << >>
<1>1. [i \in 1 .. 0 |-> FullMatch] = << >>
  OBVIOUS
<1> QED
  BY <1>1, FlattenEmpty DEF FullMatches

LEMMA SaysFullMatches ==
    ASSUME NEW w \in Seq(0 .. 255), NEW st, NEW d, NEW v, Says(w, st, d, v), v \in 1 .. d,
           NEW n \in Nat, NEW r, r = n * MaxRun, Same(w, d, d + r, v), d + r <= Len(w)
    PROVE  Says(w, st \o FullMatches(n), d + r, v)
<1>0. d \in Nat /\ st \in Seq(Nat) /\ MaxRun \in Nat \ {0} /\ MaxRun >= LargeBase
  BY FormatAssumption DEF Says, MaxRun
<1> DEFINE T == {k \in Nat : k <= n =>
                    Says(w, st \o FullMatches(k), d + k * MaxRun, v)}
<1>1. 0 \in T
  <2>1. st \o << >> = st /\ 0 * MaxRun = 0 /\ d + 0 = d
    BY <1>0, ConcatEmptySeq
  <2> QED
    BY <2>1, FullMatchesNone
<1>2. ASSUME NEW k \in Nat, k \in T PROVE k + 1 \in T
  <2> SUFFICES ASSUME k + 1 <= n
               PROVE  Says(w, st \o FullMatches(k + 1), d + (k + 1) * MaxRun, v)
    OBVIOUS
  <2> DEFINE a == d + k * MaxRun
             u == st \o FullMatches(k)
  <2>1. Says(w, u, a, v)
    BY <1>2
  <2>2. /\ a \in Nat /\ d <= a /\ k * MaxRun \in Nat
        /\ a + MaxRun = d + (k + 1) * MaxRun /\ (k + 1) * MaxRun <= n * MaxRun
    <3>1. (k + 1) * MaxRun = k * MaxRun + MaxRun /\ k * MaxRun \in Nat
      BY <1>0
    <3>2. (k + 1) * MaxRun <= n * MaxRun
      BY <1>0, Times
    <3>5. \A x \in Nat : d + x \in Nat /\ d <= d + x
      BY <1>0
    <3>3. a \in Nat /\ d <= a
      BY <3>1, <3>5, Zenon
    <3>4. d + (k * MaxRun + MaxRun) = a + MaxRun
      BY <1>0, <3>1
    <3> QED
      BY <3>1, <3>2, <3>3, <3>4, Zenon
  <2>3. n * MaxRun \in Nat /\ (k + 1) * MaxRun \in Nat /\ r \in Nat
    BY <1>0
  <2> DEFINE more == (k + 1) * MaxRun
  <2>4. a + MaxRun = d + more /\ more <= r /\ more \in Nat
    BY <2>2, <2>3
  <2> HIDE DEF a, u, more
  <2>5. a + MaxRun \in Nat /\ a + MaxRun <= d + r /\ d + r \in Nat
    BY <1>0, <2>2, <2>3, <2>4
  <2>6. Same(w, a, a + MaxRun, v) /\ a + MaxRun <= Len(w) /\ v \in 1 .. a
    BY <1>0, <2>2, <2>5, SameWithin
  <2>7. LargeMatch(FullMatch, v, 0, MaxRun, v)
    BY <1>0, FormatAssumption DEF LargeMatch, FullMatch
  <2>8. Says(w, u \o FullMatch, a + MaxRun, v)
    BY <1>0, <2>1, <2>6, <2>7, SaysMatch, FullMatchesGrow DEF Encodes
  <2>9. u \o FullMatch = st \o FullMatches(k + 1)
    <3>1. (st \o FullMatches(k)) \o FullMatch = st \o (FullMatches(k) \o FullMatch)
      BY <1>0, FullMatchesGrow, Associative, Zenon
    <3> QED
      BY <3>1, FullMatchesGrow, Zenon DEF u
  <2> QED
    BY <2>4, <2>8, <2>9 DEF more
<1>3. n \in T
  <2> HIDE DEF T
  <2> QED
    BY <1>1, <1>2, Induction
<1> QED
  BY <1>3

LEMMA SaysRestOfMatch ==
    ASSUME NEW w \in Seq(0 .. 255), NEW st, NEW d, NEW v, Says(w, st, d, v), v \in 1 .. d,
           NEW rest \in Nat, Same(w, d, d + rest, v), d + rest <= Len(w)
    PROVE  Says(w, st \o RestOfMatch(rest), d + rest, v) /\ RestOfMatch(rest) \in Seq(Nat)
<1> DEFINE n == FullRests(rest)
           l == LastRest(rest)
           h == IF l >= LargeBase THEN <<240, l - LargeBase>>
                ELSE IF l > 0 THEN <<240 + l>> ELSE << >>
           r == n * MaxRun
           u == st \o FullMatches(n)
<1>0. d \in Nat /\ st \in Seq(Nat) /\ MaxRun \in Nat \ {0} /\ Len(w) \in Nat
  BY FormatAssumption DEF Says, MaxRun
<1>1. /\ n \in Nat /\ l \in 0 .. MaxRun - 1 /\ rest = r + l /\ r \in Nat
      /\ RestOfMatch(rest) = FullMatches(n) \o h
  <2>1. n \in Nat /\ l \in 0 .. MaxRun - 1 /\ rest = n * MaxRun + l
    BY <1>0, Division DEF FullRests, LastRest
  <2>2. n * MaxRun \in Nat
    BY <1>0, <2>1
  <2>3. RestOfMatch(rest) = FullMatches(n) \o h
    BY DEF RestOfMatch, FullMatches, FullMatch
  <2> QED
    BY <2>1, <2>2, <2>3
<1>2. h \in Seq(Nat)
  <2> HIDE DEF n, l
  <2>1. l \in Nat /\ LargeBase \in Nat
    BY <1>0, <1>1, FormatAssumption
  <2>2. l >= LargeBase => l - LargeBase \in Nat
    BY <2>1
  <2>3. 240 + l \in Nat
    BY <2>1
  <2>4. CASE l >= LargeBase
    BY <2>2, <2>4
  <2>5. CASE ~ (l >= LargeBase)
    BY <2>3, <2>5
  <2> QED
    BY <2>4, <2>5
<1>9. r = n * MaxRun /\ d + r <= d + rest /\ d + r \in Nat /\ d + rest \in Nat
  <2> HIDE DEF r, l
  <2>1. d + r <= d + rest /\ d + r \in Nat /\ d + rest \in Nat
    BY <1>0, <1>1
  <2> QED
    BY <2>1 DEF r
<1>3. Says(w, u, d + r, v)
  <2> HIDE DEF n, l, r
  <2>2. Same(w, d, d + r, v)
    BY <1>0, <1>9, SameWithin
  <2>3. d + r <= Len(w)
    BY <1>0, <1>9
  <2> QED
    BY <1>1, <1>9, <2>2, <2>3, SaysFullMatches
<1>4. FullMatches(n) \in Seq(Nat)
  BY <1>1, FullMatchesGrow
<1>5. u \o h = st \o RestOfMatch(rest)
  <2> DEFINE f == FullMatches(n)
  <2> HIDE DEF h, f
  <2>1. (st \o f) \o h = st \o (f \o h)
    BY <1>0, <1>2, <1>4, Associative, Zenon DEF f
  <2> QED
    BY <1>1, <2>1 DEF f
<1>8. /\ l = 0 => h = << >>
      /\ l >= LargeBase => h = <<240, l - LargeBase>>
      /\ l > 0 /\ ~ (l >= LargeBase) => h = <<240 + l>>
  <2> HIDE DEF l
  <2>1. ~ (0 > 0) /\ ~ (0 >= LargeBase)
    BY FormatAssumption
  <2> QED
    BY <2>1, Zenon
<1> HIDE DEF u, r, n, h, l
<1>6. Says(w, u \o h, d + rest, v)
  <2>1. CASE l = 0
    <3>1. h = << >> /\ d + rest = d + r
      BY <1>0, <1>1, <1>8, <2>1
    <3>2. u \o << >> = u
      BY <1>3, ConcatEmptySeq DEF Says
    <3> QED
      BY <1>3, <3>1, <3>2
  <2>2. CASE l # 0
    <3>1. /\ d + r \in Nat /\ d <= d + r /\ (d + r) + l = d + rest /\ l \in Nat \ {0}
          /\ v \in 1 .. d + r
      BY <1>0, <1>1, <2>2
    <3>2. SmallMatch(h, v, 0, l, v) \/ LargeMatch(h, v, 0, l, v)
      <4>1. CASE l >= LargeBase
        <5>1. l \in LargeBase .. MaxRun
          BY <1>0, <1>1, <4>1, FormatAssumption
        <5> QED
          BY <1>8, <4>1, <5>1 DEF LargeMatch
      <4>2. CASE ~ (l >= LargeBase)
        <5>1. l \in 1 .. 15 /\ l > 0
          BY <1>0, <1>1, <2>2, <4>2, FormatAssumption
        <5> QED
          BY <1>8, <4>2, <5>1 DEF SmallMatch
      <4> QED
        BY <4>1, <4>2
    <3>3. d + rest \in Nat
      BY <1>0
    <3>4. Same(w, d + r, (d + r) + l, v)
      BY <1>0, <3>1, <3>3, SameWithin
    <3>5. Says(w, u \o h, (d + r) + l, v)
      BY <1>2, <1>3, <3>1, <3>2, <3>4, SaysMatch DEF Encodes
    <3> QED
      BY <3>1, <3>5
  <2> QED
    BY <2>1, <2>2
<1>7. RestOfMatch(rest) \in Seq(Nat)
  BY <1>1, <1>2, <1>4, ConcatProperties, ZenonT(30)
<1> QED
  BY <1>5, <1>6, <1>7

LEMMA LitsTyped ==
    ASSUME NEW d \in Nat, NEW L \in Nat
    PROVE  Lits(d, L) \in Seq(Nat) /\ Len(Lits(d, L)) = L
<1>1. Lits(d, L) \in [1 .. L -> Nat]
  BY DEF Lits, Lit
<1> QED
  BY <1>1, AsSequence

LEMMA RestTyped ==
    ASSUME NEW rest \in Nat
    PROVE  RestOfMatch(rest) \in Seq(Nat)
<1> DEFINE n == FullRests(rest)
           l == LastRest(rest)
           h == IF l >= LargeBase THEN <<240, l - LargeBase>>
                ELSE IF l > 0 THEN <<240 + l>> ELSE << >>
<1>1. n \in Nat /\ l \in 0 .. MaxRun - 1 /\ MaxRun \in Nat
  <2>1. MaxRun \in Nat \ {0}
    BY FormatAssumption DEF MaxRun
  <2> QED
    BY <2>1, Division DEF FullRests, LastRest
<1>2. h \in Seq(Nat)
  BY <1>1, FormatAssumption
<1>3. FullMatches(n) \in Seq(Nat)
  BY <1>1, FullMatchesGrow
<1>4. RestOfMatch(rest) = FullMatches(n) \o h
  BY DEF RestOfMatch, FullMatches, FullMatch
<1> HIDE DEF n, h
<1> QED
  BY <1>2, <1>3, <1>4, ConcatProperties

LEMMA HeadIs ==
    ASSUME NEW L \in 0 .. 3, NEW M \in Nat, M >= 3
    PROVE  HeadOf(L, M) \in 3 .. 10 - 2 * L /\ HeadOf(L, M) <= M
BY DEF HeadOf

\* The opcode of a match, with the rest of it behind or alone.
Opening(h, d, v, L, M, D, t) ==
    LET head == HeadOf(L, M)
    IN  \/ Encodes(h, v, L, head, D) /\ t = (h \o Lits(d, L)) \o RestOfMatch(M - head)
        \/ Encodes(h, v, L, M, D) /\ t = h \o Lits(d, L)

LEMMA TripleOpens ==
    ASSUME NEW d \in Nat, NEW v, NEW L \in 0 .. 3, NEW M \in Nat, M >= 3,
           NEW D \in Nat \ {0}, D < 256 * 256
    PROVE  \E h : Opening(h, d, v, L, M, D, Triple(d, L, M, D, v))
<1> DEFINE head == HeadOf(L, M)
           t == Triple(d, L, M, D, v)
<1>1. head \in 3 .. 10 - 2 * L
  BY HeadIs
<1> HIDE DEF head
<1>2. CASE D = v /\ L = 0
  <2> DEFINE h == <<240 + head>>
  <2>1. SmallMatch(h, v, L, head, D)
    BY <1>1, <1>2 DEF SmallMatch
  <2>2. h \o Lits(d, L) = h
    <3>1. h \in Seq(Nat)
      BY <1>1
    <3> HIDE DEF h
    <3> QED
      BY <1>2, <3>1, NoLiterals, ConcatEmptySeq
  <2>3. t = h \o RestOfMatch(M - head)
    BY <1>2 DEF Triple, PreviousDistance, head
  <2> QED
    BY <2>1, <2>2, <2>3, ZenonT(30) DEF Encodes, Opening, head
<1>3. CASE D = v /\ L # 0
  <2> DEFINE h == <<64 * L + 8 * (head - 3) + 6>>
  <2>1. Previous(h, v, L, head, D)
    BY <1>1, <1>3 DEF Previous
  <2>2. t = (h \o Lits(d, L)) \o RestOfMatch(M - head)
    BY <1>3 DEF Triple, PreviousDistance, head
  <2> QED
    BY <2>1, <2>2 DEF Encodes, Opening, head
<1>4. CASE D # v /\ D < ShortDistance
  <2> DEFINE h == <<D \div 256 + 64 * L + 8 * (head - 3), D % 256>>
  <2>1. Small(h, L, head, D)
    <3>1. D \in 1 .. ShortDistance - 1
      BY <1>4, FormatAssumption
    <3> QED
      BY <1>1, <3>1 DEF Small
  <2>2. t = (h \o Lits(d, L)) \o RestOfMatch(M - head)
    BY <1>4 DEF Triple, SmallDistance, head
  <2> QED
    BY <2>1, <2>2, ZenonT(30) DEF Encodes, Opening, head
<1>5. CASE /\ D # v /\ ~ (D < ShortDistance)
           /\ D >= LongDistance \/ M - head = 0 \/ M > 34
  <2> DEFINE h == <<64 * L + 8 * (head - 3) + 7, D % 256, (D \div 256) % 256>>
  <2>1. Large(h, L, head, D)
    BY <1>1, Zenon DEF Large
  <2>2. t = (h \o Lits(d, L)) \o RestOfMatch(M - head)
    BY <1>5, Zenon DEF Triple, LargeDistance, head
  <2> QED
    BY <2>1, <2>2, ZenonT(30) DEF Encodes, Opening, head
<1>6. CASE /\ D # v /\ ~ (D < ShortDistance)
           /\ ~ (D >= LongDistance \/ M - head = 0 \/ M > 34)
  <2> DEFINE h == <<160 + (M - 3) \div 4 + 8 * L, (4 * D + ((M - 3) % 4)) % 256,
                    (D \div 64) % 256>>
  <2>1. Medium(h, L, M, D)
    <3>1. M \in 3 .. 34 /\ D \in 1 .. LongDistance - 1
      BY <1>6, FormatAssumption
    <3> QED
      BY <3>1, Zenon DEF Medium
  <2>2. t = h \o Lits(d, L)
    BY <1>6, Zenon DEF Triple, MediumDistance, head
  <2> QED
    BY <2>1, <2>2, ZenonT(30) DEF Encodes, Opening
<1> QED
  BY <1>2, <1>3, <1>4, <1>5, <1>6

LEMMA TripleTyped ==
    ASSUME NEW d \in Nat, NEW v, NEW L \in 0 .. 3, NEW M \in Nat, M >= 3,
           NEW D \in Nat \ {0}, D < 256 * 256
    PROVE  Triple(d, L, M, D, v) \in Seq(Nat)
<1> DEFINE t == Triple(d, L, M, D, v)
           head == HeadOf(L, M)
<1>1. PICK h : Opening(h, d, v, L, M, D, t)
  BY TripleOpens
<1>2. M - head \in Nat
  BY HeadIs
<1> HIDE DEF t, head
<1>3. h \in Seq(Nat)
  <2>1. h \in Seq(0 .. 255)
    BY <1>1, HeaderTyped DEF Opening
  <2>2. 0 .. 255 \subseteq Nat
    OBVIOUS
  <2> QED
    BY <2>1, <2>2, SeqMonotonic
<1>4. h \o Lits(d, L) \in Seq(Nat)
  <2>1. L \in Nat
    OBVIOUS
  <2> QED
    BY <1>3, <2>1, LitsTyped, ConcatProperties
<1>5. (h \o Lits(d, L)) \o RestOfMatch(M - head) \in Seq(Nat)
  BY <1>2, <1>4, RestTyped, ConcatProperties
<1>6. t \in Seq(Nat)
  BY <1>1, <1>4, <1>5 DEF Opening, head
<1> QED
  BY <1>6 DEF t

LEMMA SaysTriple ==
    ASSUME NEW w \in Seq(0 .. 255), NEW st, NEW d, NEW v, Says(w, st, d, v),
           NEW L \in 0 .. 3, NEW M \in Nat, M >= 3,
           NEW D \in 1 .. d + L, D < 256 * 256,
           Same(w, d + L, d + L + M, D), d + L + M <= Len(w)
    PROVE  Says(w, st \o Triple(d, L, M, D, v), d + L + M, D)
<1> DEFINE t == Triple(d, L, M, D, v)
           head == HeadOf(L, M)
           rest == M - head
           a == d + L
<1>0. d \in Nat /\ st \in Seq(Nat) /\ L \in Nat /\ D \in Nat \ {0} /\ a \in Nat /\ Len(w) \in Nat
  BY DEF Says
<1>1. PICK h : Opening(h, d, v, L, M, D, t)
  BY <1>0, TripleOpens
<1>2. head \in Nat \ {0} /\ rest \in Nat /\ head + rest = M
  <2>1. head \in 3 .. 10 - 2 * L /\ head <= M
    BY HeadIs
  <2> HIDE DEF head
  <2> QED
    BY <2>1
<1>3. /\ a \in Nat /\ a + head \in Nat /\ a + M \in Nat /\ (a + head) + rest = a + M
      /\ a + head <= a + M /\ a <= a + head /\ a + M <= Len(w)
      /\ D \in 1 .. a + head
  BY <1>0, <1>2
<1>4. h \in Seq(Nat) \/ ~ (Encodes(h, v, L, M, D) \/ Encodes(h, v, L, head, D))
  <2>1. 0 .. 255 \subseteq Nat
    OBVIOUS
  <2> QED
    BY <2>1, HeaderTyped, SeqMonotonic, ZenonT(30)
<1> HIDE DEF t, head, rest
<1>5. CASE Encodes(h, v, L, M, D) /\ t = h \o Lits(d, L)
  <2>1. MatchAt(w, d + L, M, D)
    BY DEF MatchAt
  <2>2. Says(w, st \o (h \o Lits(d, L)), d + L + M, IF M # 0 THEN D ELSE v)
    BY <1>5, <2>1, SaysOpcode
  <2> QED
    BY <1>5, <2>2 DEF t
<1>6. CASE Encodes(h, v, L, head, D) /\ t = (h \o Lits(d, L)) \o RestOfMatch(rest)
  <2> DEFINE hl == h \o Lits(d, L)
             r == RestOfMatch(rest)
  <2>1. Same(w, a, a + head, D)
    BY <1>0, <1>3, SameWithin
  <2>2. MatchAt(w, d + L, head, D)
    BY <2>1 DEF MatchAt
  <2>3. d + L + head <= Len(w)
    BY <1>0, <1>2, <1>3
  <2>4. Says(w, st \o hl, a + head, D)
    <3>1. Says(w, st \o (h \o Lits(d, L)), d + L + head, IF head # 0 THEN D ELSE v)
      BY <1>6, <2>2, <2>3, SaysOpcode
    <3> QED
      BY <1>2, <3>1
  <2>5. Same(w, a + head, (a + head) + rest, D)
    <3>1. Same(w, a + head, a + M, D)
      BY <1>0, <1>3, SameWithin
    <3> QED
      BY <1>3, <3>1
  <2> HIDE DEF hl, r, a
  <2>6. Says(w, (st \o hl) \o RestOfMatch(rest), (a + head) + rest, D)
    BY <1>2, <1>3, <2>4, <2>5, SaysRestOfMatch
  <2>7. hl \in Seq(Nat) /\ r \in Seq(Nat)
    <3>1. Lits(d, L) \in Seq(Nat)
      BY <1>0, LitsTyped
    <3> QED
      BY <1>2, <1>4, <1>6, <3>1, RestTyped, ConcatProperties DEF hl, r
  <2>8. (st \o hl) \o r = st \o (hl \o r)
    BY <1>0, <2>7, Associative
  <2>9. Says(w, st \o t, a + M, D)
    BY <1>3, <1>6, <2>6, <2>8 DEF hl, r
  <2> QED
    BY <2>9 DEF a, t
<1> QED
  BY <1>1, <1>5, <1>6 DEF Opening, head, rest

LEMMA RunTyped ==
    ASSUME NEW d \in Nat, NEW L \in Nat
    PROVE  LiteralRun(d, L) \in Seq(Nat)
<1> DEFINE h == IF L >= LargeBase THEN <<224, LengthByte(L)>>
                ELSE IF L > 0 THEN <<224 + L>> ELSE << >>
<1>1. h \in Seq(Nat)
  <2>1. LengthByte(L) \in Int /\ LenByte \in Nat \ {0} /\ LargeBase \in Nat
    BY FormatAssumption DEF LengthByte
  <2>2. L >= LargeBase => LengthByte(L) \in Nat
    BY <2>1 DEF LengthByte
  <2> QED
    BY <2>1, <2>2
<1>2. LiteralRun(d, L) = h \o Lits(d, L)
  BY DEF LiteralRun
<1> HIDE DEF h
<1> QED
  BY <1>1, <1>2, LitsTyped, ConcatProperties

LEMMA LMDTyped ==
    ASSUME NEW d \in Nat, NEW v, NEW L \in Nat, NEW M \in Nat, M >= 3,
           NEW D \in Nat \ {0}, D < 256 * 256
    PROVE  LMD(d, L, M, D, v) \in Seq(Nat)
<1>1. CASE L > 3
  <2>1. d + L \in Nat /\ 0 \in 0 .. 3
    OBVIOUS
  <2>2. Triple(d + L, 0, M, D, v) \in Seq(Nat)
    BY <2>1, TripleTyped
  <2>3. LMD(d, L, M, D, v) = LiteralRun(d, L) \o Triple(d + L, 0, M, D, v)
    BY <1>1 DEF LMD
  <2> QED
    BY <2>2, <2>3, RunTyped, ConcatProperties
<1>2. CASE ~ (L > 3)
  <2>1. L \in 0 .. 3 /\ LMD(d, L, M, D, v) = Triple(d, L, M, D, v)
    BY <1>2 DEF LMD
  <2> QED
    BY <2>1, TripleTyped
<1> QED
  BY <1>1, <1>2

\* lzvnEmitLMD says its literals and its match, if the run fits an opcode.
LEMMA SaysLMD ==
    ASSUME NEW w \in Seq(0 .. 255), NEW st, NEW d, NEW v, Says(w, st, d, v),
           NEW L \in 0 .. MaxRun, NEW M \in Nat, M >= 3,
           NEW D \in 1 .. d + L, D < 256 * 256,
           Same(w, d + L, d + L + M, D), d + L + M <= Len(w)
    PROVE  Says(w, st \o LMD(d, L, M, D, v), d + L + M, D)
<1> DEFINE a == d + L
<1>0. /\ d \in Nat /\ st \in Seq(Nat) /\ L \in Nat /\ D \in Nat \ {0} /\ a \in Nat
      /\ Len(w) \in Nat /\ a <= a + M
  BY FormatAssumption DEF Says, MaxRun
<1>1. CASE L > 3
  <2> DEFINE l == LiteralRun(d, L)
             t == Triple(a, 0, M, D, v)
  <2>1. a <= Len(w)
    BY <1>0
  <2>2. Says(w, st \o l, a, v)
    BY <2>1, SaysLiteralRun
  <2>3. a + 0 = a /\ 0 \in 0 .. 3
    BY <1>0
  <2> HIDE DEF l
  <2>4. D \in 1 .. a + 0 /\ Same(w, a + 0, a + 0 + M, D) /\ a + 0 + M <= Len(w)
    BY <2>3
  <2> HIDE DEF a
  <2>5. Says(w, (st \o l) \o Triple(a, 0, M, D, v), a + 0 + M, D)
    BY <2>2, <2>3, <2>4, SaysTriple
  <2>6. l \in Seq(Nat) /\ t \in Seq(Nat)
    BY <1>0, <2>3, RunTyped, TripleTyped DEF l
  <2>7. LMD(d, L, M, D, v) = l \o t
    BY <1>1 DEF LMD, l, a
  <2> HIDE DEF t
  <2>8. (st \o l) \o t = st \o (l \o t)
    BY <1>0, <2>6, Associative
  <2>9. Says(w, st \o LMD(d, L, M, D, v), a + M, D)
    BY <2>3, <2>5, <2>7, <2>8 DEF t
  <2> QED
    BY <2>9 DEF a
<1>2. CASE ~ (L > 3)
  <2>1. L \in 0 .. 3 /\ LMD(d, L, M, D, v) = Triple(d, L, M, D, v)
    BY <1>0, <1>2 DEF LMD
  <2> QED
    BY <2>1, SaysTriple
<1> QED
  BY <1>1, <1>2
-----------------------------------------------------------------------------
(***************************************************************************)
(* What the encoder has emitted says the source up to srcLiteral, as long  *)
(* as no run before a match was too long, and with the end marker all of   *)
(* it.                                                                     *)
(***************************************************************************)
Final == [s |-> Len(dstE) - 8, d |-> srcEnd, v |-> lastD]

Finished ==
    /\ Len(dstE) >= 8 /\ dstE[Len(dstE) - 7] = 6
    /\ Path(src, dstE, Origin, Final)

Encoded ==
    /\ dstE \in Seq(Nat)
    /\ longest.match <= MaxRun /\ phase # "done" => Says(src, dstE, srcLiteral, lastD)
    /\ WithinRuns /\ phase = "done" => Finished

LEMMA InitEncoded == Init => Encoded
<1> SUFFICES ASSUME Init PROVE Encoded
  OBVIOUS
<1>1. dstE = << >> /\ srcLiteral = 0 /\ lastD = 0 /\ phase # "done"
  BY DEF Init, EncoderInit
<1>2. << >> \in Seq(Nat) /\ Len(<< >>) = 0
  OBVIOUS
<1>3. Says(src, << >>, 0, 0)
  <2>1. Path(src, << >>, Origin, Origin)
    BY PathStays
  <2> QED
    BY <1>2, <2>1 DEF Says, Origin
<1> QED
  BY <1>1, <1>2, <1>3 DEF Encoded

\* What is known of a match that goes out.
LEMMA FoundFits ==
    ASSUME Positions, NEW p \in 0 .. srcCurrent, NEW m \in Found(p)
    PROVE  /\ m.M \in Nat /\ m.M >= 3 /\ m.mBegin \in Nat /\ m.mEnd \in Nat
           /\ srcLiteral <= m.mBegin /\ m.mEnd = m.mBegin + m.M /\ m.mEnd <= srcEnd
           /\ m.D \in 1 .. m.mBegin /\ m.D < 256 * 256 /\ m.D \in Nat \ {0}
           /\ Same(src, m.mBegin, m.mEnd, m.D)
<1>1. p \in Nat
  BY Ranges
<1>2. /\ m.mBegin \in Nat /\ m.mEnd \in Nat /\ m.M \in Nat /\ m.M = m.mEnd - m.mBegin
      /\ srcLiteral <= m.mBegin /\ m.mBegin <= p /\ p + 3 <= m.mEnd /\ m.mEnd <= srcEnd
      /\ m.D \in 1 .. MaxDistance /\ m.D <= m.mBegin
      /\ Repeats(m.mBegin, m.mEnd, m.D)
  BY DEF Found
<1>3. MaxDistance \in Nat /\ MaxDistance < 256 * 256
  BY EncoderBounds
<1>4. m.M >= 3 /\ m.mEnd = m.mBegin + m.M
  BY <1>1, <1>2
<1>5. m.D \in Nat \ {0} /\ m.D \in 1 .. m.mBegin /\ m.D < 256 * 256
  BY <1>2, <1>3
<1>6. Same(src, m.mBegin, m.mEnd, m.D)
  BY <1>2 DEF Repeats, Same, Byte
<1> QED
  BY <1>2, <1>4, <1>5, <1>6

LEMMA EmitSays ==
    ASSUME EncoderInv, Encoded, phase = "encode", UNCHANGED <<src, phase>>,
           NEW m, \E p \in 0 .. srcCurrent : m \in Found(p), EmitMatch(m)
    PROVE  Encoded'
<1> DEFINE L == m.mBegin - srcLiteral
           t == LMD(srcLiteral, L, m.M, m.D, lastD)
<1>1. PICK p \in 0 .. srcCurrent : m \in Found(p)
  OBVIOUS
<1>2. /\ dstE' = dstE \o t /\ srcLiteral' = m.mEnd /\ lastD' = m.D
      /\ longest' = [longest EXCEPT !.match = Longer(@, L)]
  BY DEF EmitMatch
<1>3. /\ m.M \in Nat /\ m.M >= 3 /\ m.mBegin \in Nat /\ m.mEnd \in Nat
      /\ srcLiteral <= m.mBegin /\ m.mEnd = m.mBegin + m.M /\ m.mEnd <= srcEnd
      /\ m.D \in 1 .. m.mBegin /\ m.D < 256 * 256 /\ m.D \in Nat \ {0}
      /\ Same(src, m.mBegin, m.mEnd, m.D)
  BY <1>1, FoundFits DEF EncoderInv
<1>4. srcLiteral \in Nat /\ src \in Seq(0 .. 255) /\ MaxRun \in Nat
  BY Ranges, SourceLength, FormatAssumption DEF EncoderInv, Positions, MaxRun
<1>5. L \in Nat /\ srcLiteral + L = m.mBegin
  BY <1>3, <1>4
<1>6. t \in Seq(Nat)
  <2> HIDE DEF L
  <2> QED
    BY <1>3, <1>4, <1>5, LMDTyped
<1>7. dstE' \in Seq(Nat)
  BY <1>2, <1>6, ConcatProperties DEF Encoded
<1>8. ASSUME longest'.match <= MaxRun PROVE longest.match <= MaxRun /\ L \in 0 .. MaxRun
  <2>1. longest \in [match : 0 .. MaxBacklog + 1, backlog : Nat,
                     trailing : 0 .. MaxBacklog + MinMargin + 1]
    BY DEF EncoderInv, Backlog
  <2>2. longest'.match = Longer(longest.match, L) /\ longest.match \in Int
    <3>1. longest.match \in 0 .. MaxBacklog + 1
      BY <2>1
    <3>2. longest.match \in Int
      BY <3>1
    <3> HIDE DEF L
    <3> QED
      BY <1>2, <2>1, <3>2
  <2> HIDE DEF L
  <2> QED
    BY <1>4, <1>5, <1>8, <2>2 DEF Longer
<1>9. ASSUME longest'.match <= MaxRun PROVE Says(src, dstE', srcLiteral', lastD')
  <2>1. Says(src, dstE, srcLiteral, lastD)
    BY <1>8, <1>9 DEF Encoded
  <2>2. /\ m.D \in 1 .. srcLiteral + L
        /\ Same(src, srcLiteral + L, srcLiteral + L + m.M, m.D)
        /\ srcLiteral + L + m.M <= Len(src) /\ srcLiteral + L + m.M = m.mEnd
    BY <1>3, <1>5 DEF srcEnd
  <2>3. L \in 0 .. MaxRun
    BY <1>8, <1>9
  <2> HIDE DEF L
  <2>4. Says(src, dstE \o LMD(srcLiteral, L, m.M, m.D, lastD), srcLiteral + L + m.M, m.D)
    BY <1>3, <1>4, <2>1, <2>2, <2>3, SaysLMD
  <2> QED
    BY <1>2, <2>2, <2>4
<1> QED
  BY <1>7, <1>9 DEF Encoded

LEMMA RunSays ==
    ASSUME EncoderInv, Encoded, BacklogFull PROVE Encoded'
<1>0. /\ Iteration /\ UNCHANGED <<src, phase>> /\ phase = "encode"
      /\ srcCurrent - srcLiteral >= MaxBacklog
  BY DEF BacklogFull, Advance, Iteration
<1>1. CASE pending # NoMatch
  <2>1. EmitMatch(pending)
    BY <1>1 DEF BacklogFull
  <2>2. \E p \in 0 .. srcCurrent : pending \in Found(p)
    BY <1>1, HeldBefore
  <2> QED
    BY <1>0, <2>1, <2>2, EmitSays
<1>2. CASE pending = NoMatch
  <2>1. /\ dstE' = dstE \o LiteralRun(srcLiteral, MaxBacklog)
        /\ srcLiteral' = srcLiteral + MaxBacklog
        /\ longest' = [longest EXCEPT !.backlog = Longer(@, MaxBacklog)]
        /\ UNCHANGED lastD
    BY <1>2 DEF BacklogFull
  <2>2. /\ srcLiteral \in Nat /\ MaxBacklog \in Nat /\ MaxBacklog \in 0 .. MaxRun
        /\ srcLiteral + MaxBacklog <= Len(src) /\ src \in Seq(0 .. 255)
    <3>1. srcLiteral \in Nat /\ MaxBacklog \in Nat /\ srcCurrent \in 0 .. srcEnd /\ srcEnd \in Nat
      BY Ranges DEF EncoderInv, Positions
    <3>2. MaxBacklog = MaxRun /\ src \in Seq(0 .. 255)
      <4>1. src \in Sources
        BY DEF EncoderInv, Positions
      <4>2. src \in Seq(0 .. 255)
        BY <4>1, SourceLength, Zenon
      <4> QED
        BY <4>2, EncoderBounds
    <3>3. srcLiteral + MaxBacklog <= Len(src)
      BY <1>0, <3>1, <3>2 DEF srcEnd
    <3> QED
      BY <3>1, <3>2, <3>3
  <2>3. dstE' \in Seq(Nat)
    BY <2>1, <2>2, RunTyped, ConcatProperties DEF Encoded
  <2>4. ASSUME longest'.match <= MaxRun PROVE Says(src, dstE', srcLiteral', lastD')
    <3>1. longest.match <= MaxRun
      BY <2>1, <2>4 DEF EncoderInv, Backlog
    <3>2. Says(src, dstE, srcLiteral, lastD)
      BY <1>0, <3>1 DEF Encoded
    <3> QED
      BY <2>1, <2>2, <3>2, SaysLiteralRun
  <2> QED
    BY <1>0, <2>3, <2>4 DEF Encoded
<1> QED
  BY <1>1, <1>2

LEMMA MatchSays ==
    ASSUME EncoderInv, Encoded, MatchHere PROVE Encoded'
<1> DEFINE incoming == Incoming(srcCurrent)
<1>0. /\ Iteration /\ UNCHANGED <<src, phase>> /\ phase = "encode"
      /\ srcCurrent >= srcLiteral /\ incoming # NoMatch
  BY DEF MatchHere, Advance, Iteration
<1>1. \E p \in 0 .. srcCurrent : incoming \in Found(p)
  <2>1. incoming \in Found(srcCurrent)
    BY <1>0, IncomingFound, Ranges DEF EncoderInv
  <2>2. srcCurrent \in 0 .. srcCurrent
    BY Ranges DEF EncoderInv
  <2> QED
    BY <2>1, <2>2
<1>2. pending # NoMatch => \E p \in 0 .. srcCurrent : pending \in Found(p)
  BY HeldBefore
<1>3. EmitNothing \/ \E m : m \in {incoming, pending} /\ pending # NoMatch /\ EmitMatch(m)
  BY DEF MatchHere
<1> HIDE DEF incoming
<1>4. CASE EmitNothing
  BY <1>0, <1>4 DEF EmitNothing, Encoded, WithinRuns
<1>5. CASE \E m : m \in {incoming, pending} /\ pending # NoMatch /\ EmitMatch(m)
  BY <1>0, <1>1, <1>2, <1>5, EmitSays
<1> QED
  BY <1>3, <1>4, <1>5

\* A stream that says the source, with an end marker behind it.
LEMMA MarkerFinishes ==
    ASSUME NEW w, NEW st, NEW d, NEW v, Says(w, st, d, v), NEW u, u = st \o EndMarker
    PROVE  /\ u \in Seq(Nat) /\ Len(u) >= 8 /\ u[Len(u) - 7] = 6
           /\ Path(w, u, Origin, [s |-> Len(u) - 8, d |-> d, v |-> v])
<1>1. EndMarker \in Seq(Nat) /\ Len(EndMarker) = 8 /\ EndMarker[1] = 6
  BY DEF EndMarker
<1>2. st \in Seq(Nat) /\ Len(st) \in Nat
  BY DEF Says
<1>3. u \in Seq(Nat) /\ Len(u) = Len(st) + 8
  <2>1. /\ st \o EndMarker \in Seq(Nat)
        /\ Len(st \o EndMarker) = Len(st) + Len(EndMarker)
    BY <1>1, <1>2, ConcatProperties
  <2> QED
    BY <1>1, <2>1
<1>4. u[Len(st) + 1] = 6
  <2>1. \A k \in 1 .. Len(st) + Len(EndMarker) :
           (st \o EndMarker)[k] = IF k <= Len(st) THEN st[k] ELSE EndMarker[k - Len(st)]
    BY <1>1, <1>2, ConcatProperties
  <2>2. /\ Len(st) + 1 \in 1 .. Len(st) + Len(EndMarker) /\ ~ (Len(st) + 1 <= Len(st))
        /\ (Len(st) + 1) - Len(st) = 1
    BY <1>1, <1>2
  <2> QED
    BY <1>1, <2>1, <2>2
<1>5. Path(w, u, Origin, [s |-> Len(st), d |-> d, v |-> v])
  BY <1>1, <1>2, PathGrows DEF Says
<1>6. Len(u) >= 8 /\ Len(u) - 7 = Len(st) + 1 /\ Len(u) - 8 = Len(st)
  BY <1>2, <1>3
<1> QED
  BY <1>3, <1>4, <1>5, <1>6

LEMMA FlushSays ==
    ASSUME EncoderInv, Encoded, Flush PROVE Encoded'
<1> DEFINE r == srcEnd - srcLiteral
           l == LiteralRun(srcLiteral, r)
           said == dstE \o l
<1>1. /\ phase = "flush" /\ phase' = "done" /\ UNCHANGED <<src, srcLiteral, lastD>>
      /\ dstE' = said \o EndMarker
      /\ longest' = [longest EXCEPT !.trailing = r]
  BY DEF Flush
<1>2. /\ srcLiteral \in Nat /\ srcEnd \in Nat /\ src \in Seq(0 .. 255) /\ MaxRun \in Nat
      /\ r \in Nat /\ srcLiteral + r = srcEnd /\ srcEnd = Len(src)
  <2>1. srcLiteral \in 0 .. srcEnd /\ srcEnd \in Nat
    BY Ranges DEF EncoderInv, Positions
  <2> QED
    BY <2>1, SourceLength, FormatAssumption DEF EncoderInv, Positions, MaxRun, srcEnd
<1> HIDE DEF r
<1>3. l \in Seq(Nat) /\ said \in Seq(Nat)
  BY <1>2, RunTyped, ConcatProperties DEF Encoded
<1>4. EndMarker \in Seq(Nat)
  BY DEF EndMarker
<1> HIDE DEF l
<1>5. dstE' \in Seq(Nat)
  <2> HIDE DEF said
  <2> QED
    BY <1>1, <1>3, <1>4, ConcatProperties
<1>6. longest'.match = longest.match /\ longest'.trailing = r
  BY <1>1 DEF EncoderInv, Backlog
<1>7. ASSUME WithinRuns' PROVE Finished'
  <2>1. longest.match <= MaxRun /\ r \in 0 .. MaxRun
    BY <1>2, <1>6, <1>7 DEF WithinRuns
  <2>2. Says(src, dstE, srcLiteral, lastD)
    BY <1>1, <2>1 DEF Encoded
  <2>3. srcLiteral + r <= Len(src)
    BY <1>2
  <2>4. Says(src, said, srcEnd, lastD)
    BY <1>2, <2>1, <2>2, <2>3, SaysLiteralRun DEF l
  <2> HIDE DEF said
  <2>5. /\ Len(dstE') >= 8 /\ dstE'[Len(dstE') - 7] = 6
        /\ Path(src, dstE', Origin, [s |-> Len(dstE') - 8, d |-> srcEnd, v |-> lastD])
    BY <1>1, <2>4, MarkerFinishes
  <2> QED
    BY <1>1, <2>5 DEF Finished, Final, srcEnd
<1> QED
  BY <1>1, <1>5, <1>7 DEF Encoded

LEMMA NextKeepsEncoded ==
    ASSUME EncoderInv, Encoded, [Next]_vars PROVE Encoded'
<1>1. CASE InsideMatch \/ NoMatchHere
  BY <1>1 DEF InsideMatch, NoMatchHere, Advance, EmitNothing, Encoded, WithinRuns, Finished,
              Final, srcEnd
<1>2. CASE BacklogFull
  BY <1>2, RunSays
<1>3. CASE MatchHere
  BY <1>3, MatchSays
<1>4. CASE LoopEnds
  BY <1>4 DEF LoopEnds, Encoded, WithinRuns, Finished, Final, srcEnd
<1>5. CASE Flush
  BY <1>5, FlushSays
<1>6. CASE UNCHANGED encoderVars
  BY <1>6 DEF encoderVars, Encoded, WithinRuns, Finished, Final, srcEnd
<1> QED
  BY <1>1, <1>2, <1>3, <1>4, <1>5, <1>6 DEF Next, Encode, Hand, vars
-----------------------------------------------------------------------------
(* What the decoder makes of it. *)

\* The i-th byte of d stands for the i-th of w.
Holds(w, d, i) == IsLiteral(d[i]) /\ w[PositionOf(d[i]) + 1] = w[i]

\* Bytes that repeat at distance D repeat at its multiples.
Far(b, e, D, q, p) ==
    /\ q \in b .. e - 1 /\ p \in Nat /\ p >= b - D
    /\ \E m \in Nat : p = q - m * D

LEMMA SameFar ==
    ASSUME NEW w, NEW b \in Nat, NEW e \in Nat, NEW D \in Nat, Same(w, b, e, D),
           NEW q, NEW p, Far(b, e, D, q, p)
    PROVE  w[q + 1] = w[p + 1]
<1>0. PICK m \in Nat : p = q - m * D
  BY DEF Far
<1>4. q \in b .. e - 1 /\ p \in Nat /\ p >= b - D
  BY DEF Far
<1> DEFINE T == {n \in Nat : q - n * D >= b - D => w[q + 1] = w[q - n * D + 1]}
<1>1. 0 \in T
  <2>1. 0 * D = 0 /\ q - 0 = q
    BY <1>4
  <2> QED
    BY <2>1
<1>2. ASSUME NEW n \in Nat, n \in T PROVE n + 1 \in T
  <2> DEFINE a == n * D
  <2>1. (n + 1) * D = a + D /\ a \in Nat
    OBVIOUS
  <2>2. q - a >= b - D => w[q + 1] = w[q - a + 1]
    BY <1>2
  <2> HIDE DEF a
  <2>3. q - (a + D) >= b - D => w[q + 1] = w[q - (a + D) + 1]
    <3> SUFFICES ASSUME q - (a + D) >= b - D PROVE w[q + 1] = w[q - (a + D) + 1]
      OBVIOUS
    <3>1. q - a \in b .. e - 1 /\ q - a >= b - D /\ q - a - D + 1 = q - (a + D) + 1
      BY <1>4, <2>1
    <3>2. w[q - a + 1] = w[q - a - D + 1]
      BY <3>1 DEF Same
    <3> QED
      BY <2>2, <3>1, <3>2
  <2>4. n + 1 \in Nat
    OBVIOUS
  <2> QED
    BY <2>1, <2>3, <2>4
<1>3. m \in T
  <2> HIDE DEF T
  <2> QED
    BY <1>1, <1>2, Induction
<1> QED
  BY <1>0, <1>3, <1>4

\* lzvnCopyMatch writes the source, if the source repeats itself there.
LEMMA CopyHolds ==
    ASSUME NEW w, NEW d \in Seq(Nat), NEW D \in 1 .. Len(d), NEW M \in Nat,
           \A i \in 1 .. Len(d) : Holds(w, d, i), Same(w, Len(d), Len(d) + M, D),
           NEW i \in 1 .. Len(d) + M
    PROVE  Holds(w, CopyMatch(d, D, M), i)
<1>0. D \in Nat \ {0} /\ Len(d) \in Nat
  OBVIOUS
<1>1. PICK first : Origins(first, D, M) /\ Copies(first, D, M)
  BY <1>0, CopiedFrom
<1> DEFINE c == [e \in 1 .. M |-> d[Len(d) - D + 1 + first[e - 1]]]
           n == Len(d)
<1>2. ASSUME NEW e \in 1 .. M PROVE d[Len(d) - D + 1 + first[e - 1]] \in Nat
  <2>1. e - 1 \in 0 .. M - 1
    OBVIOUS
  <2>2. first[e - 1] \in 0 .. D - 1
    BY <1>1, <2>1 DEF Origins
  <2>3. Len(d) - D + 1 + first[e - 1] \in 1 .. Len(d)
    BY <2>2, SMTT(30)
  <2> QED
    BY <2>3
<1>3. c \in [1 .. M -> Nat]
  BY <1>2
<1>4. c \in Seq(Nat) /\ Len(c) = M
  <2> HIDE DEF c
  <2> QED
    BY <1>3, AsSequence
<1>5. CopyMatch(d, D, M) = d \o c
  BY <1>1 DEF Copies
<1>6. \A k \in 1 .. n + M : (d \o c)[k] = IF k <= n THEN d[k] ELSE c[k - n]
  <2> HIDE DEF c
  <2> QED
    BY <1>4, ConcatProperties
<1>7. CASE i <= n
  BY <1>0, <1>5, <1>6, <1>7 DEF Holds
<1>8. CASE ~ (i <= n)
  <2> DEFINE e == i - n - 1
             j == n - D + 1 + first[e]
  <2>1. e \in 0 .. M - 1 /\ i - n \in 1 .. M /\ (i - n) - 1 = e
    BY <1>0, <1>8
  <2>2. (d \o c)[i] = d[j]
    <3>1. (d \o c)[i] = c[i - n]
      BY <1>6, <1>8
    <3>2. c[i - n] = d[n - D + 1 + first[(i - n) - 1]]
      BY <2>1
    <3> QED
      BY <2>1, <3>1, <3>2
  <2>3. first[e] \in 0 .. D - 1 /\ Multiple(e - first[e], D)
    BY <1>1, <2>1 DEF Origins
  <2>4. PICK m \in Nat : e - first[e] = m * D
    BY <2>3 DEF Multiple
  <2>5. j \in 1 .. n
    BY <1>0, <2>3, SMTT(30)
  <2>6. Holds(w, d, j)
    BY <2>5
  <2>7. w[j] = w[i]
    <3> DEFINE q == i - 1
               p == j - 1
    <3>1. q \in n .. n + M - 1 /\ p \in Nat /\ p >= n - D /\ q + 1 = i /\ p + 1 = j
      <4>1. i \in Nat /\ n \in Nat /\ M \in Nat /\ n < i /\ i <= n + M
        BY <1>0, <1>8
      <4>2. q \in n .. n + M - 1 /\ q + 1 = i
        BY <4>1
      <4>3. p \in Nat /\ p + 1 = j
        <5> HIDE DEF j
        <5> QED
          BY <2>5
      <4>4. p >= n - D
        BY <1>0, <2>3, SMTT(30)
      <4> QED
        BY <4>2, <4>3, <4>4
    <3>2. (m + 1) * D = m * D + D
      BY <1>0
    <3>3. p = q - (m + 1) * D
      <4> DEFINE f == first[e]
                 x == m * D
      <4>1. f \in Int /\ x = e - f /\ (m + 1) * D = x + D /\ p = n - D + f /\ q = n + e
        BY <1>0, <2>1, <2>3, <2>4, <3>2, SMTT(30)
      <4>2. e \in Int
        BY <2>1
      <4> HIDE DEF f, x, e
      <4>3. n - D + f = (n + e) - ((e - f) + D)
        BY <1>0, <4>1, <4>2
      <4> HIDE DEF q, p
      <4> QED
        BY <4>1, <4>3
    <3> DEFINE end == n + M
               more == m + 1
    <3>4. more \in Nat /\ end \in Nat /\ n \in Nat
      BY <1>0
    <3>6. Same(w, n, end, D) /\ Far(n, end, D, q, p)
      <4> HIDE DEF q, p, n
      <4>1. Far(n, end, D, q, p)
        BY <3>1, <3>3, <3>4 DEF Far
      <4>2. Same(w, n, end, D)
        BY DEF n
      <4> QED
        BY <4>1, <4>2
    <3> HIDE DEF q, p, end, n
    <3>5. w[q + 1] = w[p + 1]
      <4>1. D \in Nat
        BY <1>0
      <4> QED
        BY <3>4, <3>6, <4>1, SameFar
    <3> QED
      BY <3>1, <3>5
  <2> QED
    BY <1>5, <2>2, <2>6, <2>7 DEF Holds
<1> QED
  BY <1>7, <1>8
-----------------------------------------------------------------------------
\* Where the decoder stands.
Here == [s |-> spos, d |-> dpos, v |-> dPrev]

LEMMA HeaderLength ==
    ASSUME NEW h, NEW v, NEW L, NEW M, NEW D
    PROVE  /\ SmallLiteral(h, L, M) \/ SmallMatch(h, v, L, M, D) \/ Previous(h, v, L, M, D)
                => Len(h) = 1
           /\ LargeLiteral(h, L, M) \/ LargeMatch(h, v, L, M, D) \/ Small(h, L, M, D)
                => Len(h) = 2
           /\ Large(h, L, M, D) \/ Medium(h, L, M, D) => Len(h) = 3
<1>1. \A x : Len(<<x>>) = 1
  OBVIOUS
<1>2. \A x, y : Len(<<x, y>>) = 2
  OBVIOUS
<1>3. \A x, y, z : Len(<<x, y, z>>) = 3
  OBVIOUS
<1>4. SmallLiteral(h, L, M) \/ SmallMatch(h, v, L, M, D) \/ Previous(h, v, L, M, D)
        => Len(h) = 1
  BY <1>1, Zenon DEF SmallLiteral, SmallMatch, Previous
<1>5. LargeLiteral(h, L, M) \/ LargeMatch(h, v, L, M, D) \/ Small(h, L, M, D) => Len(h) = 2
  BY <1>2, Zenon DEF LargeLiteral, LargeMatch, Small
<1>6. Large(h, L, M, D) \/ Medium(h, L, M, D) => Len(h) = 3
  BY <1>3, Zenon DEF Large, Medium
<1> QED
  BY <1>4, <1>5, <1>6

LEMMA ReadEncoded ==
    ASSUME spos \in Nat, NEW h, NEW L, NEW M, NEW D, Encodes(h, dPrev, L, M, D),
           HeaderAt(stream, spos, h)
    PROVE  ReadAs(Len(h) - 1, L, M, D)
<1>1. Len(h) >= 1 => Opcode = h[1]
  <2>1. Len(h) >= 1 /\ Len(h) \in Int => stream[spos + 1] = h[1]
    BY DEF HeaderAt
  <2> QED
    BY <2>1, HeaderTyped DEF Opcode, At
<1>2. Len(h) >= 2 => Operand(1) = h[2]
  <2>1. Len(h) >= 2 /\ Len(h) \in Int => stream[spos + 2] = h[2]
    BY DEF HeaderAt
  <2>2. spos + 1 + 1 = spos + 2
    OBVIOUS
  <2> QED
    BY <2>1, <2>2, HeaderTyped DEF Operand, At
<1>3. Len(h) >= 3 => Operand(2) = h[3]
  <2>1. Len(h) >= 3 /\ Len(h) \in Int => stream[spos + 3] = h[3]
    BY DEF HeaderAt
  <2>2. spos + 2 + 1 = spos + 3
    OBVIOUS
  <2> QED
    BY <2>1, <2>2, HeaderTyped DEF Operand, At
<1>4. CASE SmallLiteral(h, L, M) \/ SmallMatch(h, dPrev, L, M, D) \/ Previous(h, dPrev, L, M, D)
  <2>1. Len(h) = 1 /\ Len(h) - 1 = 0
    BY <1>4, HeaderLength
  <2>2. Opcode = h[1]
    BY <1>1, <2>1
  <2>3. ReadAs(0, L, M, D)
    BY <1>4, <2>2, ReadSmallLiteral, ReadSmallMatch, ReadPrevious
  <2> QED
    BY <2>1, <2>3
<1>5. CASE LargeLiteral(h, L, M) \/ LargeMatch(h, dPrev, L, M, D) \/ Small(h, L, M, D)
  <2>1. Len(h) = 2 /\ Len(h) - 1 = 1
    BY <1>5, HeaderLength
  <2>2. Opcode = h[1] /\ Operand(1) = h[2]
    BY <1>1, <1>2, <2>1
  <2>3. ReadAs(1, L, M, D)
    BY <1>5, <2>2, ReadLargeLiteral, ReadLargeMatch, ReadSmall
  <2> QED
    BY <2>1, <2>3
<1>6. CASE Large(h, L, M, D) \/ Medium(h, L, M, D)
  <2>1. Len(h) = 3 /\ Len(h) - 1 = 2
    BY <1>6, HeaderLength
  <2>2. Opcode = h[1] /\ Operand(1) = h[2] /\ Operand(2) = h[3]
    BY <1>1, <1>2, <1>3, <2>1
  <2>3. ReadAs(2, L, M, D)
    BY <1>6, <2>2, ReadLarge, ReadMedium
  <2> QED
    BY <2>1, <2>3
<1> QED
  BY <1>4, <1>5, <1>6 DEF Encodes

\* The decoder at an opcode that leads to the spot c.
Reading(w, c, n, L, M, D) ==
    /\ n \in 0 .. 2 /\ L \in Nat /\ M \in Nat
    /\ ReadAs(n, L, M, D)
    /\ spos + 1 + n + L <= sEnd /\ dpos + L + M <= Len(w)
    /\ \A k \in 1 .. n + 1 : stream[spos + k] \in 0 .. 255
    /\ LiteralsAt(stream, spos + 1 + n, dpos, L) /\ MatchAt(w, dpos + L, M, D)
    /\ c = [s |-> spos + 1 + n + L, d |-> dpos + L + M, v |-> IF M # 0 THEN D ELSE dPrev]

LEMMA LeapReads ==
    ASSUME spos \in Nat, NEW w, NEW c, Leap(w, stream, Here, c)
    PROVE  \E n, L, M, D : Reading(w, c, n, L, M, D)
<1>1. PICK h, L, M, D : Leads(w, stream, Here, h, L, M, D) /\ c = After(Here, h, L, M, D)
  BY DEF Leap
<1>2. Here.s = spos /\ Here.d = dpos /\ Here.v = dPrev
  BY DEF Here
<1>3. /\ Encodes(h, dPrev, L, M, D)
      /\ HeaderAt(stream, spos, h) /\ LiteralsAt(stream, spos + Len(h), dpos, L)
      /\ MatchAt(w, dpos + L, M, D)
      /\ spos + Len(h) + L <= sEnd /\ dpos + L + M <= Len(w)
  BY <1>1, <1>2 DEF Leads, sEnd
<1>4. h \in Seq(0 .. 255) /\ Len(h) \in 1 .. 3 /\ L \in Nat /\ M \in Nat
  BY <1>3, HeaderTyped
<1>5. ReadAs(Len(h) - 1, L, M, D)
  BY <1>3, ReadEncoded
<1>6. \A k \in 1 .. Len(h) : stream[spos + k] \in 0 .. 255
  <2>1. ASSUME NEW k \in 1 .. Len(h) PROVE stream[spos + k] \in 0 .. 255
    <3>1. stream[spos + k] = h[k]
      BY <1>3 DEF HeaderAt
    <3>2. h[k] \in 0 .. 255
      BY <1>4, ElementOfSeq, Zenon
    <3> QED
      BY <3>1, <3>2
  <2> QED
    BY <2>1
<1>7. c = [s |-> spos + Len(h) + L, d |-> dpos + L + M, v |-> IF M # 0 THEN D ELSE dPrev]
  BY <1>1, <1>2 DEF After
<1> DEFINE n == Len(h) - 1
<1>8. n \in 0 .. 2 /\ n + 1 = Len(h) /\ spos + 1 + n = spos + Len(h)
  BY <1>4
<1> HIDE DEF n
<1>9. Reading(w, c, n, L, M, D)
  BY <1>3, <1>4, <1>5, <1>6, <1>7, <1>8 DEF Reading, n
<1> QED
  BY <1>9

LEMMA ReadingAccepted ==
    ASSUME IInv, pc = "opcode", NEW w, dEnd = Len(w), NEW c, NEW n, NEW L, NEW M, NEW D,
           Reading(w, c, n, L, M, D)
    PROVE  AtOpcode /\ ~ OutOfStep /\ ~ IsEos /\ ~ IsNop /\ Complaint = "none"
<1>1. /\ n \in 0 .. 2 /\ L \in Nat /\ M \in Nat
      /\ ~ IsEos /\ ~ IsNop /\ Operands(Opcode) = n
      /\ OpL = L /\ OpM = M /\ (HasMatch <=> M # 0) /\ (M # 0 => OpD = D)
      /\ spos + 1 + n + L <= sEnd /\ dpos + L + M <= dEnd
      /\ MatchAt(w, dpos + L, M, D)
  BY DEF Reading, ReadAs
<1>2. spos \in Nat /\ dpos \in Nat /\ sEnd \in Nat /\ dEnd \in Nat
  BY DEF IInv, Counters, sEnd
<1>3. AtOpcode
  BY <1>1, <1>2 DEF AtOpcode
<1>4. ~ OutOfStep
  <2>1. \A k \in 1 .. n + 1 : stream[spos + k] <= 255 /\ stream[spos + k] \in Int
    <3>1. \A k \in 1 .. n + 1 : stream[spos + k] \in 0 .. 255
      BY DEF Reading
    <3>2. \A x \in 0 .. 255 : x <= 255 /\ x \in Int
      OBVIOUS
    <3> QED
      BY <3>1, <3>2, Zenon
  <2>2. ~ IsLiteral(Opcode)
    <3>1. 1 \in 1 .. n + 1
      BY <1>1
    <3> QED
      BY <2>1, <3>1 DEF IsLiteral, Opcode, At
  <2>3. ASSUME NEW k \in 1 .. n PROVE ~ IsLiteral(Operand(k))
    <3>1. k + 1 \in 1 .. n + 1 /\ spos + k + 1 = spos + (k + 1)
      BY <1>1, <1>2
    <3> QED
      BY <2>1, <3>1 DEF IsLiteral, Operand, At
  <2> QED
    BY <1>1, <2>2, <2>3 DEF OutOfStep
<1>5. ~ Truncated
  BY <1>1, <1>2 DEF Truncated
<1>6. HasMatch => OpD \in Nat /\ OpD # 0 /\ ~ (OpD > dpos + OpL)
  BY <1>1, <1>2 DEF MatchAt
<1>7. ~ (FirstLiteral + OpL > sEnd) /\ ~ (dpos + OpL > dEnd) /\ ~ (dpos + OpL + OpM > dEnd)
  BY <1>1, <1>2 DEF FirstLiteral
<1>8. Complaint = "none"
  BY <1>5, <1>6, <1>7, Zenon DEF Complaint
<1> QED
  BY <1>1, <1>3, <1>4, <1>8

LEMMA ReadingWrites ==
    ASSUME IInv, WellTyped, NEW w, NEW c, NEW n, NEW L, NEW M, NEW D,
           Reading(w, c, n, L, M, D), DecodeOpcode, \A i \in 1 .. dpos : Holds(w, dst, i)
    PROVE  /\ Here' = c
           /\ \A i \in 1 .. dpos' : Holds(w, dst', i)
<1>1. /\ n \in 0 .. 2 /\ L \in Nat /\ M \in Nat
      /\ Operands(Opcode) = n
      /\ OpL = L /\ OpM = M /\ (HasMatch <=> M # 0) /\ (M # 0 => OpD = D)
      /\ spos + 1 + n + L <= sEnd
      /\ LiteralsAt(stream, spos + 1 + n, dpos, L) /\ MatchAt(w, dpos + L, M, D)
      /\ c = [s |-> spos + 1 + n + L, d |-> dpos + L + M, v |-> IF M # 0 THEN D ELSE dPrev]
  BY DEF Reading, ReadAs
<1>2. /\ AtOpcode /\ ~ OutOfStep /\ Complaint = "none"
      /\ dst' = IF HasMatch THEN CopyMatch(dst \o Literals, OpD, OpM) ELSE dst \o Literals
      /\ dpos' = dpos + OpL + OpM
      /\ dPrev' = IF HasMatch THEN OpD ELSE dPrev
      /\ spos' = FirstLiteral + OpL
  BY DEF DecodeOpcode
<1>3. /\ spos \in Nat /\ dpos \in Nat /\ stream \in Seq(Nat) /\ sEnd \in Nat
      /\ dst \in Seq(Nat) /\ dpos = Len(dst)
  <2>1. spos \in Nat /\ dpos \in Nat /\ stream \in Seq(Nat)
    BY DEF IInv, Counters
  <2>2. sEnd \in Nat
    BY <2>1 DEF sEnd
  <2> QED
    BY <2>1, <2>2, Zenon DEF WellTyped
<1>4. Here' = c
  <2>1. spos' = spos + 1 + n + L
    BY <1>1, <1>2 DEF FirstLiteral
  <2>2. dpos' = dpos + L + M /\ dPrev' = IF M # 0 THEN D ELSE dPrev
    BY <1>1, <1>2
  <2> QED
    BY <1>1, <2>1, <2>2 DEF Here
<1> DEFINE l == Literals
           d == dst \o l
<1>5. l \in Seq(Nat) /\ Len(l) = L
  BY <1>1, <1>2, LiteralsTyped
<1>6. \A k \in 1 .. L : l[k] = Lit(dpos + k - 1)
  <2> DEFINE f == spos + 1 + n
  <2>1. f \in Nat /\ f + L <= Len(stream) /\ FirstLiteral = f
    BY <1>1, <1>3 DEF FirstLiteral, sEnd
  <2> HIDE DEF f
  <2>2. \A k \in f + 1 .. f + L : stream[k] \in Nat
    BY <1>1, <1>3, <2>1, SMTT(30)
  <2>3. \A k \in 1 .. (f + L) - (f + 1) + 1 :
           SubSeq(stream, f + 1, f + L)[k] = stream[(f + 1) + k - 1]
    BY <1>1, <2>1, <2>2, SubSeqProperties
  <2>4. l = SubSeq(stream, f + 1, f + L)
    BY <1>1, <2>1 DEF Literals
  <2>5. LiteralsAt(stream, f, dpos, L)
    BY <1>1 DEF f
  <2> HIDE DEF l
  <2> SUFFICES ASSUME NEW k \in 1 .. L PROVE l[k] = Lit(dpos + k - 1)
    OBVIOUS
  <2>6. k \in 1 .. (f + L) - (f + 1) + 1 /\ (f + 1) + k - 1 = f + k
    BY <1>1, <2>1
  <2> QED
    BY <2>3, <2>4, <2>5, <2>6 DEF LiteralsAt
<1> HIDE DEF l
<1>7. /\ d \in Seq(Nat) /\ Len(d) = dpos + L
      /\ \A k \in 1 .. dpos + L : d[k] = IF k <= dpos THEN dst[k] ELSE l[k - dpos]
  BY <1>3, <1>5, ConcatProperties
<1> HIDE DEF d
<1>8. \A i \in 1 .. dpos + L : Holds(w, d, i)
  <2> SUFFICES ASSUME NEW i \in 1 .. dpos + L PROVE Holds(w, d, i)
    OBVIOUS
  <2>1. CASE i <= dpos
    BY <1>3, <1>7, <2>1 DEF Holds
  <2>2. CASE ~ (i <= dpos)
    <3>1. i - dpos \in 1 .. L /\ dpos + (i - dpos) - 1 = i - 1
      BY <1>1, <1>3, <2>2
    <3>2. d[i] = Lit(i - 1)
      BY <1>6, <1>7, <2>2, <3>1
    <3>3. IsLiteral(Lit(i - 1)) /\ PositionOf(Lit(i - 1)) + 1 = i
      BY <1>1, <1>3, <2>2 DEF IsLiteral, PositionOf, Lit
    <3> QED
      BY <3>2, <3>3 DEF Holds
  <2> QED
    BY <2>1, <2>2
<1>9. CASE M = 0
  <2>1. dst' = d /\ dpos' = dpos + L
    BY <1>1, <1>2, <1>3, <1>9 DEF d, l
  <2> QED
    BY <1>4, <1>8, <2>1
<1>10. CASE M # 0
  <2>1. dst' = CopyMatch(d, D, M) /\ dpos' = dpos + L + M
    BY <1>1, <1>2, <1>10 DEF d, l
  <2>2. D \in 1 .. Len(d) /\ Same(w, Len(d), Len(d) + M, D)
    BY <1>1, <1>7, <1>10 DEF MatchAt
  <2>3. \A i \in 1 .. Len(d) + M : Holds(w, CopyMatch(d, D, M), i)
    BY <1>1, <1>7, <1>8, <2>2, CopyHolds
  <2> QED
    BY <1>4, <1>7, <2>1, <2>3
<1> QED
  BY <1>9, <1>10
-----------------------------------------------------------------------------
(***************************************************************************)
(* The decoder works on the finished stream, and unless a run was too long *)
(* what is left of the stream leads from where the decoder stands to the   *)
(* end marker.                                                             *)
(***************************************************************************)
Waiting ==
    stream = << >> /\ dEnd = 0 /\ spos = 0 /\ dpos = 0 /\ dst = << >> /\ dPrev = 0

Handed ==
    /\ pc = "idle" => Waiting
    /\ pc # "idle" => phase = "done" /\ stream = dstE /\ dEnd = srcEnd /\ WellTyped

Faithful ==
    WithinRuns =>
        /\ pc \in {"idle", "opcode", "done"}
        /\ pc = "opcode" => Path(src, stream, Here, Final)
        /\ pc = "done" => dpos = srcEnd /\ dPrev = lastD
        /\ \A i \in 1 .. dpos : Holds(src, dst, i)

CodecInv == EncoderInv /\ Encoded /\ IInv /\ Handed /\ Faithful

LEMMA InitDecoder == Init => IInv /\ Handed /\ Faithful
<1> SUFFICES ASSUME Init PROVE IInv /\ Handed /\ Faithful
  OBVIOUS
<1>1. Waiting /\ pc = "idle"
  BY DEF Init, Waiting
<1>2. IInv
  <2>1. Expansion * 0 = 0
    BY DecoderAssumption
  <2>2. << >> \in Seq(Nat) /\ Len(<< >>) = 0
    OBVIOUS
  <2> QED
    BY <1>1, <2>1, <2>2 DEF Waiting, IInv, Counters, StaysInBuffers, ExpansionBounded, sEnd
<1> QED
  BY <1>1, <1>2 DEF Handed, Faithful, Waiting

LEMMA EncodeKeepsDecoder ==
    ASSUME CodecInv, Encode, UNCHANGED decoderVars
    PROVE  IInv' /\ Handed' /\ Faithful'
<1>1. phase # "done"
  BY DEF Encode, InsideMatch, NoMatchHere, BacklogFull, MatchHere, Iteration, LoopEnds, Flush
<1>2. pc = "idle" /\ Waiting
  BY <1>1 DEF CodecInv, Handed
<1>3. UNCHANGED <<stream, dEnd, spos, dpos, dst, dPrev, pc>>
  BY DEF decoderVars
<1>4. IInv'
  BY <1>3, CountersUntouched DEF CodecInv
<1>5. Waiting' /\ pc' = "idle"
  BY <1>2, <1>3 DEF Waiting
<1> QED
  BY <1>4, <1>5 DEF Handed, Faithful, Waiting

LEMMA HandKeepsDecoder ==
    ASSUME CodecInv, Hand
    PROVE  IInv' /\ Handed' /\ Faithful'
<1>1. /\ phase = "done" /\ pc = "idle" /\ stream' = dstE /\ dEnd' = srcEnd
      /\ pc' = "opcode" /\ UNCHANGED <<spos, dpos, dst, dPrev>>
      /\ UNCHANGED <<src, phase, dstE, lastD, longest>>
  BY DEF Hand, encoderVars
<1>2. spos = 0 /\ dpos = 0 /\ dst = << >> /\ dPrev = 0
  BY <1>1 DEF CodecInv, Handed, Waiting
<1>3. dstE \in Seq(Nat) /\ srcEnd \in Nat
  BY Ranges DEF CodecInv, Encoded, EncoderInv
<1>4. IInv'
  <2>1. Expansion * 0 = 0 /\ Len(dstE) \in Nat
    BY <1>3, DecoderAssumption
  <2> QED
    BY <1>1, <1>2, <1>3, <2>1 DEF IInv, Counters, StaysInBuffers, ExpansionBounded, sEnd
<1>5. Handed'
  <2>1. << >> \in Seq(Nat) /\ Len(<< >>) = 0
    OBVIOUS
  <2>2. srcEnd' = srcEnd
    BY <1>1 DEF srcEnd
  <2> QED
    BY <1>1, <1>2, <2>1, <2>2 DEF Handed, WellTyped
<1>6. Faithful'
  <2> SUFFICES ASSUME WithinRuns' PROVE Path(src, stream, Here, Final)'
    BY <1>1, <1>2 DEF Faithful
  <2>1. Finished
    BY <1>1 DEF CodecInv, Encoded, WithinRuns
  <2>2. Here' = Origin /\ Final' = Final
    BY <1>1, <1>2 DEF Here, Origin, Final, srcEnd
  <2> QED
    BY <1>1, <2>1, <2>2 DEF Finished
<1> QED
  BY <1>4, <1>5, <1>6

\* At the end marker.
LEMMA AtFinal ==
    ASSUME CodecInv, Finished, pc = "opcode", stream = dstE, Here = Final
    PROVE  AtOpcode /\ ~ OutOfStep /\ IsEos /\ ~ IsNop /\ dpos = srcEnd /\ dPrev = lastD
<1>1. spos = Len(dstE) - 8 /\ dpos = srcEnd /\ dPrev = lastD
  BY Zenon DEF Here, Final
<1>2. Len(dstE) \in Nat /\ Len(dstE) >= 8 /\ dstE[Len(dstE) - 7] = 6
  BY DEF CodecInv, Encoded, Finished
<1>3. spos + 1 = Len(dstE) - 7 /\ spos < sEnd
  BY <1>1, <1>2 DEF sEnd
<1>4. Opcode = 6
  BY <1>2, <1>3 DEF Opcode, At
<1>5. Operands(Opcode) = 0
  BY <1>4 DEF Operands
<1> QED
  BY <1>1, <1>3, <1>4, <1>5 DEF AtOpcode, IsEos, IsNop, OutOfStep, IsLiteral

LEMMA InputLeft ==
    ASSUME IInv, AtOpcode PROVE ~ OutOfInput
<1>1. spos \in Nat /\ sEnd \in Nat /\ spos < sEnd
  BY DEF IInv, Counters, sEnd, AtOpcode
<1>2. ~ (spos >= sEnd)
  BY <1>1
<1> QED
  BY <1>2, Zenon DEF OutOfInput

LEMMA DecodeFaithful ==
    ASSUME CodecInv, Decode, UNCHANGED encoderVars
    PROVE  Faithful'
<1>0. /\ pc = "opcode" /\ stream' = stream
      /\ UNCHANGED <<src, phase, dstE, lastD, longest>>
  BY DEF Decode, EndOfStream, OutOfInput, Nop, DecodeOpcode, Reject, LoseStep, AtOpcode,
         OutOfStep, encoderVars
<1> SUFFICES ASSUME WithinRuns
             PROVE  /\ pc' \in {"idle", "opcode", "done"}
                    /\ pc' = "opcode" => Path(src, stream, Here', Final)
                    /\ pc' = "done" => dpos' = srcEnd /\ dPrev' = lastD
                    /\ \A i \in 1 .. dpos' : Holds(src, dst', i)
  <2>1. (WithinRuns' => WithinRuns) /\ Final' = Final /\ srcEnd' = srcEnd
    BY <1>0 DEF WithinRuns, Final, srcEnd
  <2>2. \A i : Holds(src, dst', i) => Holds(src, dst, i)'
    BY <1>0 DEF Holds
  <2> QED
    BY <1>0, <2>1, <2>2 DEF Faithful
<1>1. /\ phase = "done" /\ stream = dstE /\ dEnd = srcEnd /\ WellTyped /\ Finished
      /\ Path(src, stream, Here, Final) /\ \A i \in 1 .. dpos : Holds(src, dst, i)
  BY <1>0 DEF CodecInv, Handed, Encoded, Faithful
<1>2. CASE Here = Final
  <2>1. AtOpcode /\ ~ OutOfStep /\ IsEos /\ ~ IsNop /\ dpos = srcEnd /\ dPrev = lastD
    BY <1>0, <1>1, <1>2, AtFinal
  <2>2. EndOfStream
    <3>1. ~ OutOfInput
      BY <2>1, InputLeft DEF CodecInv
    <3> QED
      BY <2>1, <3>1, Zenon DEF Decode, Nop, DecodeOpcode, Reject, LoseStep
  <2> QED
    BY <1>1, <2>1, <2>2 DEF EndOfStream
<1>3. CASE Here # Final
  <2>1. PICK c : Leap(src, stream, Here, c) /\ Path(src, stream, c, Final)
    BY <1>1, <1>3, PathFirst
  <2>2. spos \in Nat /\ sEnd \in Nat /\ dEnd = Len(src)
    BY <1>1 DEF CodecInv, IInv, Counters, sEnd, srcEnd
  <2>3. PICK n, L, M, D : Reading(src, c, n, L, M, D)
    BY <2>1, <2>2, LeapReads
  <2>4. AtOpcode /\ ~ OutOfStep /\ ~ IsEos /\ ~ IsNop /\ Complaint = "none"
    BY <1>0, <2>2, <2>3, ReadingAccepted DEF CodecInv
  <2>5. DecodeOpcode
    <3>1. ~ OutOfInput
      BY <2>4, InputLeft DEF CodecInv
    <3> QED
      BY <2>4, <3>1, Zenon DEF Decode, EndOfStream, Nop, Reject, LoseStep
  <2>6. Here' = c /\ \A i \in 1 .. dpos' : Holds(src, dst', i)
    BY <1>1, <2>3, <2>5, ReadingWrites DEF CodecInv
  <2>7. pc' = "opcode"
    BY <1>0, <2>5 DEF DecodeOpcode
  <2> QED
    BY <2>1, <2>6, <2>7
<1> QED
  BY <1>2, <1>3

LEMMA DecodeKeepsDecoder ==
    ASSUME CodecInv, Decode, UNCHANGED encoderVars
    PROVE  IInv' /\ Handed' /\ Faithful'
<1>1. pc = "opcode" /\ stream' = stream /\ dEnd' = dEnd /\ UNCHANGED <<src, phase, dstE>>
  BY DEF Decode, EndOfStream, OutOfInput, Nop, DecodeOpcode, Reject, LoseStep, AtOpcode,
         OutOfStep, encoderVars
<1>2. IInv'
  BY StepKeepsIInv DEF CodecInv
<1>3. WellTyped' /\ phase = "done" /\ stream = dstE /\ dEnd = srcEnd
  BY <1>1, StepKeepsTypes DEF CodecInv, Handed
<1>4. pc' # "idle"
  <2>1. pc' \in {"opcode", "done", "out of step"} \cup Rejected
    BY <1>3 DEF WellTyped
  <2> QED
    BY <2>1 DEF Rejected
<1>5. Handed'
  BY <1>1, <1>3, <1>4 DEF Handed, srcEnd
<1> QED
  BY <1>2, <1>5, DecodeFaithful

LEMMA NextKeepsCodecInv ==
    ASSUME CodecInv, [Next]_vars PROVE CodecInv'
<1>1. EncoderInv' /\ Encoded'
  BY NextKeepsEncoderInv, NextKeepsEncoded DEF CodecInv
<1>2. CASE UNCHANGED vars
  <2>1. UNCHANGED <<stream, dEnd, spos, dpos, dst, dPrev, pc>>
    BY <1>2 DEF vars, decoderVars
  <2>2. IInv'
    BY <2>1, CountersUntouched DEF CodecInv
  <2>3. UNCHANGED <<src, phase, dstE, lastD, longest>>
    BY <1>2 DEF vars, encoderVars
  <2>4. Handed' /\ Faithful'
    BY <2>1, <2>3 DEF CodecInv, Handed, Faithful, Waiting, WellTyped, WithinRuns, Here,
                      Final, srcEnd, Holds
  <2> QED
    BY <1>1, <2>2, <2>4 DEF CodecInv
<1> QED
  BY <1>1, <1>2, EncodeKeepsDecoder, HandKeepsDecoder, DecodeKeepsDecoder DEF Next, CodecInv

(***************************************************************************)
(* The inductive invariant of encoder and decoder together.                *)
(***************************************************************************)
THEOREM CodecInvHolds == Spec => []CodecInv
<1>1. Init => CodecInv
  BY InitEncoderInv, InitEncoded, InitDecoder DEF CodecInv
<1>2. CodecInv /\ [Next]_vars => CodecInv'
  BY NextKeepsCodecInv
<1> QED
  BY <1>1, <1>2, PTL DEF Spec

(***************************************************************************)
(* CompressLZVN and DecompressLZVN round-trip every source whose literal   *)
(* runs an opcode can carry: whatever the matches found, the distances     *)
(* chosen and the opcodes picked for them, lzvnDecode reads each opcode as *)
(* lzvnEncode meant it and lzvnCopyMatch writes the source.                *)
(***************************************************************************)
THEOREM RoundTripHolds == Spec => []RoundTrip
<1>1. CodecInv => RoundTrip
  <2> SUFFICES ASSUME CodecInv, WithinRuns
               PROVE  /\ pc \in {"idle", "opcode", "done"}
                      /\ \A i \in 1 .. dpos : Written(i)
                      /\ pc = "done" => dpos = srcEnd
    BY DEF RoundTrip
  <2>1. \A i : Holds(src, dst, i) => Written(i)
    BY DEF Holds, Written, Byte
  <2> QED
    BY <2>1 DEF CodecInv, Faithful
<1> QED
  BY <1>1, CodecInvHolds, PTL

(***************************************************************************)
(* At the end of such a stream lzvnDecode remembers the distance the       *)
(* encoder remembers.                                                      *)
(***************************************************************************)
THEOREM SameDistanceHolds == Spec => []SameDistance
<1>1. CodecInv => SameDistance
  BY DEF CodecInv, Faithful, SameDistance
<1> QED
  BY <1>1, CodecInvHolds, PTL

(***************************************************************************)
(* Type correctness of encoder and decoder, long runs included.            *)
(***************************************************************************)
THEOREM TypeOKHolds == Spec => []TypeOK
<1>1. ASSUME CodecInv PROVE TypeOK
  <2>1. /\ src \in Sources
        /\ srcLiteral \in 0 .. srcEnd /\ srcCurrent \in 0 .. srcEnd
        /\ lastD \in 0 .. MaxDistance
        /\ phase \in {"encode", "flush", "done"}
    BY <1>1 DEF CodecInv, EncoderInv, Positions
  <2>2. pending.M \in 0 .. srcEnd /\ pending.mEnd \in 0 .. srcEnd
    <3>1. CASE pending = NoMatch
      BY <1>1, <3>1, Ranges DEF CodecInv, EncoderInv, NoMatch
    <3>2. CASE pending # NoMatch
      <4>1. PICK p \in 0 .. srcCurrent : pending \in Found(p)
        BY <1>1, <3>2, HeldBefore DEF CodecInv
      <4>2. /\ pending.M \in Nat /\ pending.mBegin \in Nat /\ pending.mEnd \in Nat
            /\ pending.mEnd = pending.mBegin + pending.M /\ pending.mEnd <= srcEnd
        BY <1>1, <4>1, FoundFits DEF CodecInv, EncoderInv
      <4>3. srcEnd \in Nat
        BY <1>1, Ranges DEF CodecInv, EncoderInv
      <4> QED
        BY <4>2, <4>3
    <3> QED
      BY <3>1, <3>2
  <2>3. dstE \in Seq(Nat)
    BY <1>1 DEF CodecInv, Encoded
  <2>4. stream \in Seq(Nat) /\ spos \in Nat /\ dpos \in Nat /\ dPrev \in Nat
    BY <1>1 DEF CodecInv, IInv, Counters
  <2>5. /\ dst \in Seq(Nat) /\ dEnd \in {0, srcEnd}
        /\ pc \in {"idle", "opcode", "done", "out of step"} \cup Rejected
    <3>1. << >> \in Seq(Nat)
      OBVIOUS
    <3>2. CASE pc = "idle"
      BY <1>1, <3>1, <3>2 DEF CodecInv, Handed, Waiting
    <3>3. CASE pc # "idle"
      BY <1>1, <3>3 DEF CodecInv, Handed, WellTyped
    <3> QED
      BY <3>2, <3>3
  <2> QED
    BY <2>1, <2>2, <2>3, <2>4, <2>5 DEF TypeOK
<1> QED
  BY <1>1, CodecInvHolds, PTL
=============================================================================
