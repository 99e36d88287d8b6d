------------------------ MODULE BlockSplitterProofs ------------------------
(***************************************************************************)
(* Safety of BlockSplitter for every input, match list and setting of the  *)
(* caps with CapsFit, by one inductive invariant.                          *)
(***************************************************************************)
EXTENDS BlockSplitter, LibraryLemmas

(***************************************************************************)
(* The inductive invariant.  Remaining is NoCutInsideMatch at every stage. *)
(* Chosen says what the stages keep of the block being chosen: it moves    *)
(* on and holds its matches; it cuts no later match either, except between *)
(* a bare raw cut and the literal walk that pulls it back (Bare).          *)
(***************************************************************************)
Remaining ==
    /\ start <= n
    /\ \A k \in matchStart .. NMatches - 1 : start <= Match(k).pos

Stages == {"raw", "lit", "rec", "emit"}

CutsNoLaterMatch == \A k \in blockMatchEnd .. NMatches - 1 : blockEnd <= Match(k).pos

Bare ==
    /\ pc = "lit"
    /\ cut = matchStart /\ blockMatchEnd = matchStart
    /\ blockEnd = start + MaxBlockRawBytes
    /\ matchStart < NMatches => MatchEnd(matchStart) > blockEnd

Chosen ==
    pc \in Stages =>
        /\ matchStart <= blockMatchEnd
        /\ start < blockEnd /\ blockEnd <= n
        /\ \A k \in matchStart .. blockMatchEnd - 1 : MatchEnd(k) <= blockEnd
        /\ CutsNoLaterMatch \/ Bare

Walking ==
    /\ pc \in {"raw", "lit", "rec"} => matchStart <= cut /\ cut <= blockMatchEnd
    /\ pc = "raw" => /\ litPos = start /\ lits = 0
                     /\ blockEnd - start > MaxBlockRawBytes
                     /\ blockMatchEnd = matchStart => matchStart = NMatches
    /\ pc = "lit" => /\ 0 <= lits /\ lits <= MaxBlockLiterals
                     /\ cut = matchStart => litPos = start /\ lits = 0
                     /\ cut > matchStart => litPos = MatchEnd(cut - 1)

Emitted ==
    /\ \A i \in 1 .. Len(blocks) : BlockHoldsItsMatches(blocks[i])
    /\ \A i \in 1 .. Len(blocks) :
          /\ blocks[i].from = (IF i = 1 THEN 0 ELSE blocks[i - 1].to)
          /\ blocks[i].first = (IF i = 1 THEN 0 ELSE blocks[i - 1].last)
    /\ start = (IF blocks = << >> THEN 0 ELSE blocks[Len(blocks)].to)
    /\ matchStart = (IF blocks = << >> THEN 0 ELSE blocks[Len(blocks)].last)

Done == pc = "done" => start = n

IInv ==
    /\ TypeOK
    /\ Remaining
    /\ Chosen
    /\ Walking
    /\ Emitted
    /\ Done

(***************************************************************************)
(* What is used of a match list: the matches are typed, inside the input   *)
(* and in order.                                                           *)
(***************************************************************************)
LEMMA MatchFacts ==
    ASSUME MatchList(input)
    PROVE  /\ n \in Nat /\ NMatches \in Nat
           /\ \A k \in 0 .. NMatches - 1 :
                /\ Match(k).pos \in Nat /\ Match(k).M \in Nat
                /\ 1 <= Match(k).M /\ Match(k).M <= MaxMValue
                /\ MatchEnd(k) = Match(k).pos + Match(k).M
                /\ MatchEnd(k) \in Nat /\ MatchEnd(k) <= n
           /\ \A j, k \in 0 .. NMatches - 1 : j < k => MatchEnd(j) <= Match(k).pos
<1>1. /\ n \in Nat /\ NMatches \in Nat
      /\ \A i \in 1 .. NMatches :
           input.matches[i] \in [pos : Nat, M : 1 .. MaxMValue, D : Nat \ {0}]
  <2> DEFINE Record == [pos : Nat, M : 1 .. MaxMValue, D : Nat \ {0}]
  <2>1. input.n \in Nat /\ input.matches \in Seq(Record)
    BY DEF MatchList
  <2> HIDE DEF Record
  <2>2. /\ Len(input.matches) \in Nat
        /\ \A i \in 1 .. Len(input.matches) : input.matches[i] \in Record
    BY <2>1
  <2> QED
    BY <2>1, <2>2 DEF n, NMatches, Record
<1>2. \A i \in 1 .. NMatches : /\ input.matches[i].pos \in Nat
                               /\ input.matches[i].M \in 1 .. MaxMValue
  BY <1>1
<1>3. ASSUME NEW k \in 0 .. NMatches - 1
      PROVE  /\ k + 1 \in 1 .. NMatches
             /\ Match(k) = input.matches[k + 1]
  BY <1>1 DEF Match
<1>4. ASSUME NEW k \in 0 .. NMatches - 1
      PROVE  /\ Match(k).pos \in Nat /\ Match(k).M \in Nat
             /\ 1 <= Match(k).M /\ Match(k).M <= MaxMValue
             /\ MatchEnd(k) = Match(k).pos + Match(k).M
             /\ MatchEnd(k) \in Nat /\ MatchEnd(k) <= n
  <2>1. Match(k).pos \in Nat /\ Match(k).M \in 1 .. MaxMValue
    BY <1>2, <1>3
  <2>2. Match(k).pos + Match(k).M <= n
    BY <1>3 DEF MatchList, NMatches, n
  <2> QED
    BY <2>1, <2>2, CapsAssumption DEF MatchEnd
<1>5. ASSUME NEW j \in 0 .. NMatches - 1, NEW k \in 0 .. NMatches - 1, j < k
      PROVE  MatchEnd(j) <= Match(k).pos
  <2>1. j + 1 < k + 1
    BY <1>1, <1>5
  <2> QED
    BY <1>3, <1>5, <2>1 DEF MatchEnd, MatchList, NMatches
<1> QED
  BY <1>1, <1>4, <1>5

(***************************************************************************)
(* The number of splits of a run is a number.                              *)
(***************************************************************************)
LEMMA SplitsNat == ASSUME NEW L \in Int PROVE Splits(L) \in Nat
<1>1. CASE L > MaxLValue
  <2>1. L - 1 \in Nat /\ MaxLValue \in Nat \ {0}
    BY <1>1, MaxLValueAssumption
  <2>2. \A a \in Nat, b \in Nat \ {0} : a \div b \in Nat
    OBVIOUS
  <2> QED
    BY <1>1, <2>1, <2>2 DEF Splits
<1>2. CASE ~ (L > MaxLValue)
  BY <1>2 DEF Splits
<1> QED
  BY <1>1, <1>2

(***************************************************************************)
(* The initial states satisfy the invariant.                               *)
(***************************************************************************)
LEMMA InitIInv == Init => IInv
<1> SUFFICES ASSUME Init PROVE IInv
  OBVIOUS
<1>1. MatchList(input)
  BY InputsAssumption DEF Init
<1>2. TypeOK
  BY <1>1, MatchFacts DEF Init, TypeOK
<1>3. Remaining
  BY <1>1, MatchFacts DEF Init, Remaining
<1>4. Chosen /\ Walking /\ Emitted /\ Done
  BY DEF Init, Chosen, Walking, Emitted, Done, Stages
<1> QED
  BY <1>2, <1>3, <1>4 DEF IInv

(***************************************************************************)
(* The invariant is inductive: one step per action of Next.                *)
(***************************************************************************)
LEMMA NextIInv ==
    ASSUME CapsFit, IInv, [Next]_vars
    PROVE  IInv'
<1>e. input' = input
  BY DEF Next, vars, SelectByMatchCap, RawWalk, RawCut, LitWalk, LitCut, LitTail,
     RecWalk, RecCut, Emit, EndOfStream
<1>u. /\ n' = n /\ NMatches' = NMatches
      /\ \A k : Match(k)' = Match(k) /\ MatchEnd(k)' = MatchEnd(k)
  BY <1>e DEF n, NMatches, Match, MatchEnd
<1>0. /\ MatchList(input)
      /\ MaxMValue \in Nat \ {0} /\ MatchesPerBlock \in Nat \ {0}
      /\ MaxBlockRawBytes \in Nat \ {0} /\ MaxBlockLiterals \in Nat \ {0}
      /\ MaxBlockLiterals + MaxMValue <= MaxBlockRawBytes
  BY CapsAssumption DEF CapsFit, IInv, TypeOK
<1> DEFINE Facts ==
       /\ n \in Nat /\ NMatches \in Nat
       /\ \A k \in 0 .. NMatches - 1 :
            /\ Match(k).pos \in Nat /\ Match(k).M \in Nat
            /\ 1 <= Match(k).M /\ Match(k).M <= MaxMValue
            /\ MatchEnd(k) = Match(k).pos + Match(k).M
            /\ MatchEnd(k) \in Nat /\ MatchEnd(k) <= n
       /\ \A j, k \in 0 .. NMatches - 1 : j < k => MatchEnd(j) <= Match(k).pos
<1>f. Facts
  BY <1>0, MatchFacts
<1>1. CASE SelectByMatchCap
  <2>1. TypeOK'
    BY <1>0, <1>f, <1>u, <1>1 DEF IInv, TypeOK, SelectByMatchCap, Remaining
  <2>2. Remaining' /\ Emitted' /\ Done'
    BY <1>u, <1>1 DEF IInv, SelectByMatchCap, Remaining, Emitted, Done, BlockHoldsItsMatches
  <2>3. Walking'
    BY <1>0, <1>f, <1>u, <1>1 DEF IInv, TypeOK, SelectByMatchCap, Walking
  <2>4. /\ matchStart <= blockMatchEnd'
        /\ start < blockEnd' /\ blockEnd' <= n
        /\ \A k \in blockMatchEnd' .. NMatches - 1 : blockEnd' <= Match(k).pos
        /\ \A k \in matchStart .. blockMatchEnd' - 1 : MatchEnd(k) <= blockEnd'
    <3> DEFINE most == matchStart + MatchesPerBlock
    <3>1. CASE most < NMatches
      <4>1. blockMatchEnd' = most /\ blockEnd' = Match(most).pos
        BY <1>1, <3>1 DEF SelectByMatchCap
      <4>2. /\ matchStart \in 0 .. NMatches - 1 /\ most \in 0 .. NMatches - 1
            /\ matchStart < most /\ start \in Nat
        BY <1>0, <1>f, <3>1 DEF IInv, TypeOK
      <4>3. start < Match(most).pos
        BY <1>f, <4>2 DEF IInv, Remaining
      <4> QED
        BY <1>f, <4>1, <4>2, <4>3
    <3>2. CASE ~ (most < NMatches)
      <4>1. blockMatchEnd' = NMatches /\ blockEnd' = n
        BY <1>1, <3>2 DEF SelectByMatchCap
      <4> QED
        BY <1>f, <1>1, <4>1 DEF IInv, TypeOK, SelectByMatchCap
    <3> QED
      BY <3>1, <3>2
  <2>5. Chosen'
    BY <1>u, <1>1, <2>4 DEF SelectByMatchCap, Chosen, Stages, CutsNoLaterMatch
  <2> QED
    BY <2>1, <2>2, <2>3, <2>5 DEF IInv
<1>2. CASE RawWalk
  <2>1. TypeOK'
    BY <1>0, <1>f, <1>u, <1>2 DEF IInv, TypeOK, RawWalk, chosen
  <2>2. Remaining' /\ Emitted' /\ Done'
    BY <1>u, <1>2 DEF IInv, RawWalk, chosen, Remaining, Emitted, Done, BlockHoldsItsMatches
  <2>3. Chosen' /\ Walking'
    BY <1>0, <1>f, <1>u, <1>2 DEF IInv, TypeOK, RawWalk, chosen, Chosen,
       Walking, Stages, CutsNoLaterMatch, Bare
  <2> QED
    BY <2>1, <2>2, <2>3 DEF IInv
<1>3. CASE RawCut
  <2>1. TypeOK'
    BY <1>0, <1>f, <1>u, <1>3 DEF IInv, TypeOK, RawCut, Walking
  <2>2. Remaining' /\ Emitted' /\ Done'
    BY <1>u, <1>3 DEF IInv, RawCut, Remaining, Emitted, Done, BlockHoldsItsMatches
  <2>3. Walking'
    BY <1>0, <1>f, <1>u, <1>3 DEF IInv, TypeOK, RawCut, Walking
  <2>4. Chosen'
    <3>1. /\ pc = "raw" /\ pc' = "lit" /\ cut' = matchStart /\ blockMatchEnd' = cut
          /\ matchStart \in 0 .. NMatches /\ cut \in 0 .. NMatches
          /\ matchStart <= cut /\ cut <= blockMatchEnd /\ blockMatchEnd <= NMatches
          /\ start \in Nat /\ start' = start /\ matchStart' = matchStart
      BY <1>0, <1>f, <1>3 DEF IInv, TypeOK, RawCut, Walking
    <3>2. CASE cut > matchStart
      <4>1. blockEnd' = MatchEnd(cut - 1)
        BY <1>3, <3>2 DEF RawCut
      <4>2. cut - 1 \in 0 .. NMatches - 1 /\ cut - 1 \in matchStart .. NMatches - 1
        BY <1>f, <3>1, <3>2
      <4>3. start < blockEnd' /\ blockEnd' <= n
        BY <1>f, <3>1, <4>1, <4>2 DEF IInv, Remaining
      <4>4. \A k \in matchStart .. cut - 1 : MatchEnd(k) <= blockEnd'
        BY <1>f, <3>1, <4>1, <4>2
      <4>5. \A k \in cut .. NMatches - 1 : blockEnd' <= Match(k).pos
        BY <1>f, <3>1, <4>1, <4>2
      <4> QED
        BY <1>u, <3>1, <4>3, <4>4, <4>5 DEF Chosen, CutsNoLaterMatch
    <3>3. CASE ~ (cut > matchStart)
      <4>1. cut = matchStart /\ blockEnd' = start + MaxBlockRawBytes
        BY <1>f, <1>3, <3>1, <3>3 DEF RawCut
      <4>2. start < blockEnd' /\ blockEnd' <= n
        BY <1>0, <1>f, <3>1, <4>1 DEF IInv, TypeOK, Walking, Chosen, Stages
      <4>3. matchStart < NMatches => MatchEnd(matchStart) > blockEnd'
        <5> SUFFICES ASSUME matchStart < NMatches PROVE MatchEnd(matchStart) > blockEnd'
          OBVIOUS
        <5>1. ~ RawFits(matchStart)
          BY <1>f, <1>3, <3>1, <4>1 DEF IInv, TypeOK, RawCut, Walking
        <5>2. matchStart \in 0 .. NMatches - 1
          BY <1>f, <3>1
        <5> QED
          BY <1>0, <1>f, <3>1, <4>1, <5>1, <5>2 DEF RawFits
      <4>4. Bare'
        BY <1>u, <3>1, <4>1, <4>3 DEF Bare
      <4> QED
        BY <1>f, <1>u, <3>1, <4>1, <4>2, <4>4 DEF Chosen
    <3> QED
      BY <3>2, <3>3
  <2> QED
    BY <2>1, <2>2, <2>3, <2>4 DEF IInv
<1>4. CASE LitWalk
  <2>1. TypeOK'
    BY <1>0, <1>f, <1>u, <1>4 DEF IInv, TypeOK, LitWalk, chosen, Walking
  <2>2. Remaining' /\ Emitted' /\ Done'
    BY <1>u, <1>4 DEF IInv, LitWalk, chosen, Remaining, Emitted, Done, BlockHoldsItsMatches
  <2>3. Walking'
    BY <1>0, <1>f, <1>u, <1>4, SMTT(30) DEF IInv, TypeOK, LitWalk, LitFits, chosen, Walking, Remaining
  <2>4. Chosen'
    BY <1>0, <1>f, <1>u, <1>4 DEF IInv, TypeOK, LitWalk, chosen, Chosen,
       Walking, Stages, CutsNoLaterMatch, Bare
  <2> QED
    BY <2>1, <2>2, <2>3, <2>4 DEF IInv
<1>5. CASE LitCut
  <2>1. TypeOK'
    BY <1>0, <1>f, <1>u, <1>5 DEF IInv, TypeOK, LitCut, Walking, Remaining
  <2>2. Remaining' /\ Emitted' /\ Done'
    BY <1>u, <1>5 DEF IInv, LitCut, Remaining, Emitted, Done, BlockHoldsItsMatches
  <2>3. Walking'
    BY <1>0, <1>f, <1>u, <1>5 DEF IInv, TypeOK, LitCut, Walking
  <2>4. Chosen'
    <3>1. /\ pc = "lit" /\ pc' = "rec" /\ blockMatchEnd' = cut
          /\ matchStart \in 0 .. NMatches /\ cut \in 0 .. NMatches - 1
          /\ matchStart <= cut /\ start \in Nat
          /\ start' = start /\ matchStart' = matchStart
      BY <1>0, <1>f, <1>5 DEF IInv, TypeOK, LitCut, Walking
    <3>2. CASE cut > matchStart
      <4>1. blockEnd' = MatchEnd(cut - 1)
        BY <1>5, <3>2 DEF LitCut
      <4>2. cut - 1 \in 0 .. NMatches - 1 /\ cut - 1 \in matchStart .. NMatches - 1
        BY <1>f, <3>1, <3>2
      <4>3. start < blockEnd' /\ blockEnd' <= n
        BY <1>f, <3>1, <4>1, <4>2 DEF IInv, Remaining
      <4>4. \A k \in matchStart .. cut - 1 : MatchEnd(k) <= blockEnd'
        BY <1>f, <3>1, <4>1, <4>2
      <4>5. \A k \in cut .. NMatches - 1 : blockEnd' <= Match(k).pos
        BY <1>f, <3>1, <4>1, <4>2
      <4> QED
        BY <1>u, <3>1, <4>3, <4>4, <4>5 DEF Chosen, CutsNoLaterMatch
    <3>3. CASE ~ (cut > matchStart)
      <4>1. /\ cut = matchStart /\ blockEnd' = start + MaxBlockLiterals
            /\ lits = 0 /\ litPos = start /\ ~ LitFits(matchStart)
        BY <1>f, <1>5, <3>1, <3>3 DEF IInv, LitCut, Walking
      <4>2. blockEnd' < Match(matchStart).pos
        BY <1>0, <1>f, <3>1, <4>1 DEF LitFits
      <4>3. start < blockEnd' /\ blockEnd' <= n
        BY <1>0, <1>f, <3>1, <4>1, <4>2
      <4>4. \A k \in cut .. NMatches - 1 : blockEnd' <= Match(k).pos
        <5> SUFFICES ASSUME NEW k \in cut .. NMatches - 1 PROVE blockEnd' <= Match(k).pos
          OBVIOUS
        <5>1. k \in 0 .. NMatches - 1 /\ (k = matchStart \/ matchStart < k)
          BY <3>1, <4>1
        <5> QED
          BY <1>0, <1>f, <3>1, <4>1, <4>2, <5>1
      <4> QED
        BY <1>f, <1>u, <3>1, <4>1, <4>3, <4>4 DEF Chosen, CutsNoLaterMatch
    <3> QED
      BY <3>2, <3>3
  <2> QED
    BY <2>1, <2>2, <2>3, <2>4 DEF IInv
<1>6. CASE LitTail
  <2>1. /\ pc = "lit" /\ pc' = "rec" /\ blockMatchEnd' = blockMatchEnd
        /\ matchStart \in 0 .. NMatches /\ blockMatchEnd \in 0 .. NMatches
        /\ matchStart <= blockMatchEnd /\ cut = blockMatchEnd
        /\ start \in Nat /\ blockEnd \in Nat /\ lits \in Nat /\ litPos \in Nat
        /\ start' = start /\ matchStart' = matchStart
        /\ start < blockEnd /\ blockEnd <= n /\ lits <= MaxBlockLiterals
        /\ \A k \in matchStart .. blockMatchEnd - 1 : MatchEnd(k) <= blockEnd
        /\ CutsNoLaterMatch \/ Bare
    BY <1>0, <1>f, <1>6 DEF IInv, TypeOK, LitTail, Walking, Chosen, Stages
  <2>2. ASSUME cut > matchStart PROVE Chosen'
    <3>1. litPos = MatchEnd(cut - 1) /\ CutsNoLaterMatch
      BY <1>6, <2>1, <2>2 DEF IInv, Walking, Bare
    <3>2. cut - 1 \in 0 .. NMatches - 1 /\ cut - 1 \in matchStart .. blockMatchEnd - 1
      BY <1>f, <2>1, <2>2
    <3>3. start < litPos /\ litPos <= blockEnd
      BY <1>f, <2>1, <3>1, <3>2 DEF IInv, Remaining
    <3>4. \A k \in matchStart .. blockMatchEnd - 1 : MatchEnd(k) <= litPos
      BY <1>f, <2>1, <3>1, <3>2
    <3>5. blockEnd' \in Nat /\ litPos <= blockEnd' /\ blockEnd' <= blockEnd
      BY <1>0, <1>6, <2>1, <3>3 DEF LitTail
    <3>6. start < blockEnd' /\ blockEnd' <= n
      BY <1>f, <2>1, <3>3, <3>5
    <3>7. \A k \in matchStart .. blockMatchEnd - 1 : MatchEnd(k) <= blockEnd'
      BY <1>f, <2>1, <3>4, <3>5
    <3>8. \A k \in blockMatchEnd .. NMatches - 1 : blockEnd' <= Match(k).pos
      BY <1>f, <2>1, <3>1, <3>5 DEF CutsNoLaterMatch
    <3> QED
      BY <1>u, <2>1, <3>6, <3>7, <3>8 DEF Chosen, CutsNoLaterMatch
  <2>3. ASSUME ~ (cut > matchStart) PROVE Chosen'
    <3>1. litPos = start /\ lits = 0 /\ blockMatchEnd = matchStart
      BY <1>6, <2>1, <2>3 DEF IInv, Walking
    <3>2. /\ blockEnd' = IF blockEnd - start > MaxBlockLiterals
                         THEN start + MaxBlockLiterals ELSE blockEnd
          /\ blockEnd' \in Nat
      <4>1. blockEnd' = IF blockEnd - start > MaxBlockLiterals - 0
                        THEN start + (MaxBlockLiterals - 0) ELSE blockEnd
        BY <1>6, <3>1 DEF LitTail
      <4> QED
        BY <1>0, <2>1, <4>1
    <3>3. start < blockEnd' /\ blockEnd' <= n
      BY <1>0, <1>f, <2>1, <3>2
    <3>4. \A k \in blockMatchEnd .. NMatches - 1 : blockEnd' <= Match(k).pos
      <4>1. CASE CutsNoLaterMatch
        <5>1. blockEnd' <= blockEnd
          BY <1>0, <2>1, <3>2
        <5> QED
          BY <1>f, <2>1, <3>2, <4>1, <5>1 DEF CutsNoLaterMatch
      <4>2. CASE Bare
        <5> SUFFICES ASSUME NEW k \in blockMatchEnd .. NMatches - 1
                     PROVE  blockEnd' <= Match(k).pos
          OBVIOUS
        <5>1. /\ matchStart \in 0 .. NMatches - 1 /\ k \in 0 .. NMatches - 1
              /\ k = matchStart \/ matchStart < k
          BY <1>f, <2>1, <3>1
        <5>2. MatchEnd(matchStart) > start + MaxBlockRawBytes
          BY <1>f, <4>2, <5>1 DEF Bare
        <5>3. blockEnd' <= start + MaxBlockLiterals
          BY <1>0, <2>1, <3>2
        <5>4. blockEnd' <= Match(matchStart).pos
          BY <1>0, <1>f, <2>1, <3>2, <5>1, <5>2, <5>3
        <5>5. Match(matchStart).pos <= Match(k).pos
          BY <1>f, <5>1
        <5> QED
          BY <1>f, <3>2, <5>1, <5>4, <5>5
      <4> QED
        BY <2>1, <4>1, <4>2
    <3>5. \A k \in matchStart .. blockMatchEnd - 1 : MatchEnd(k) <= blockEnd'
      BY <2>1, <3>1
    <3> QED
      BY <1>u, <2>1, <3>3, <3>4, <3>5 DEF Chosen, CutsNoLaterMatch
  <2>4. Chosen'
    BY <2>2, <2>3
  <2>5. TypeOK'
    BY <1>0, <1>f, <1>u, <1>6, <2>1 DEF IInv, TypeOK, LitTail
  <2>6. Remaining' /\ Emitted' /\ Done'
    BY <1>u, <1>6 DEF IInv, LitTail, Remaining, Emitted, Done, BlockHoldsItsMatches
  <2>7. Walking'
    BY <1>u, <1>6, <2>1 DEF LitTail, Walking
  <2> QED
    BY <2>4, <2>5, <2>6, <2>7 DEF IInv
<1>7. CASE RecWalk
  <2>1. TypeOK'
    <3>1. cut \in 0 .. NMatches - 1 /\ litPos \in Nat
      BY <1>f, <1>7 DEF IInv, TypeOK, RecWalk
    <3>2. Match(cut).pos - litPos \in Int
      BY <1>f, <3>1
    <3>3. Need(cut) \in Nat
      BY <3>2, SplitsNat DEF Need
    <3> QED
      BY <1>0, <1>f, <1>u, <1>7, <3>1, <3>3 DEF IInv, TypeOK, RecWalk, chosen
  <2>2. Remaining' /\ Emitted' /\ Done'
    BY <1>u, <1>7 DEF IInv, RecWalk, chosen, Remaining, Emitted, Done, BlockHoldsItsMatches
  <2>3. Chosen' /\ Walking'
    BY <1>0, <1>f, <1>u, <1>7 DEF IInv, TypeOK, RecWalk, chosen, Chosen,
       Walking, Stages, CutsNoLaterMatch, Bare
  <2> QED
    BY <2>1, <2>2, <2>3 DEF IInv
<1>8. CASE RecCut
  <2>1. TypeOK'
    BY <1>0, <1>f, <1>u, <1>8 DEF IInv, TypeOK, RecCut, chosen, walk, Walking
  <2>2. Remaining' /\ Emitted' /\ Done'
    BY <1>u, <1>8 DEF IInv, RecCut, walk, Remaining, Emitted, Done, BlockHoldsItsMatches
  <2>3. Walking'
    BY <1>u, <1>8 DEF RecCut, Walking
  <2>4. Chosen'
    <3>1. /\ pc = "rec" /\ pc' = "emit" /\ CutsNoLaterMatch
          /\ matchStart \in 0 .. NMatches /\ cut \in 0 .. NMatches
          /\ matchStart <= cut /\ start \in Nat
          /\ start' = start /\ matchStart' = matchStart
      BY <1>8 DEF IInv, TypeOK, RecCut, Walking, Chosen, Stages, Bare
    <3>2. CASE cut < blockMatchEnd /\ cut > matchStart
      <4>1. blockMatchEnd' = cut /\ blockEnd' = MatchEnd(cut - 1)
        BY <1>8, <3>2 DEF RecCut
      <4>2. cut - 1 \in 0 .. NMatches - 1 /\ cut - 1 \in matchStart .. NMatches - 1
        BY <1>f, <3>1, <3>2
      <4>3. start < blockEnd' /\ blockEnd' <= n
        BY <1>f, <3>1, <4>1, <4>2 DEF IInv, Remaining
      <4>4. \A k \in matchStart .. cut - 1 : MatchEnd(k) <= blockEnd'
        BY <1>f, <3>1, <4>1, <4>2
      <4>5. \A k \in cut .. NMatches - 1 : blockEnd' <= Match(k).pos
        BY <1>f, <3>1, <4>1, <4>2
      <4> QED
        BY <1>u, <3>1, <4>1, <4>3, <4>4, <4>5 DEF Chosen, CutsNoLaterMatch
    <3>3. CASE ~ (cut < blockMatchEnd /\ cut > matchStart)
      <4>1. blockMatchEnd' = blockMatchEnd /\ blockEnd' = blockEnd
        BY <1>8, <3>3 DEF RecCut, chosen
      <4> QED
        BY <1>u, <3>1, <4>1 DEF IInv, Chosen, Stages, CutsNoLaterMatch
    <3> QED
      BY <3>2, <3>3
  <2> QED
    BY <2>1, <2>2, <2>3, <2>4 DEF IInv
<1>9. CASE Emit
  <2> DEFINE b == [kind |-> IF blockMatchEnd = matchStart THEN "stored" ELSE "v2",
                   from |-> start, to |-> blockEnd,
                   first |-> matchStart, last |-> blockMatchEnd]
  <2>1. /\ pc = "emit" /\ pc' = "select"
        /\ blocks' = Append(blocks, b)
        /\ start' = blockEnd /\ matchStart' = blockMatchEnd
        /\ UNCHANGED <<input, blockMatchEnd, blockEnd, cut, litPos, lits, recs>>
    BY <1>9 DEF Emit, chosen, walk
  <2>2. /\ CutsNoLaterMatch
        /\ matchStart <= blockMatchEnd
        /\ start < blockEnd /\ blockEnd <= n
        /\ \A k \in matchStart .. blockMatchEnd - 1 : MatchEnd(k) <= blockEnd
    BY <2>1 DEF IInv, Chosen, Stages, Bare
  <2>3. /\ start \in Nat /\ blockEnd \in Nat
        /\ matchStart \in 0 .. NMatches /\ blockMatchEnd \in 0 .. NMatches
        /\ blocks \in Seq(Block)
    BY DEF IInv, TypeOK
  <2>4. b \in Block
    BY <1>f, <2>3 DEF Block
  <2> HIDE DEF b
  <2>5. TypeOK'
    BY <1>f, <1>u, <1>e, <2>1, <2>3, <2>4 DEF IInv, TypeOK
  <2>6. Remaining'
    BY <1>u, <2>1, <2>2 DEF Remaining, CutsNoLaterMatch
  <2>7. Chosen' /\ Walking' /\ Done'
    BY <2>1 DEF Chosen, Walking, Done, Stages
  <2>8. BlockHoldsItsMatches(b)
    BY <2>1, <2>2, <2>3, <1>f DEF b, BlockHoldsItsMatches, CutsNoLaterMatch, IInv, Remaining
  <2>9. /\ Len(blocks) \in Nat /\ Len(blocks') = Len(blocks) + 1
        /\ \A i \in 1 .. Len(blocks) : blocks'[i] = blocks[i]
        /\ blocks'[Len(blocks) + 1] = b
        /\ blocks' # << >>
        /\ blocks = << >> <=> Len(blocks) = 0
    BY <2>1, <2>3
  <2>10. b.from = start /\ b.to = blockEnd /\ b.first = matchStart /\ b.last = blockMatchEnd
    BY DEF b
  <2>11. Emitted'
    <3>1. ASSUME NEW i \in 1 .. Len(blocks')
          PROVE  BlockHoldsItsMatches(blocks[i])'
      <4>1. BlockHoldsItsMatches(blocks'[i])
        BY <2>8, <2>9 DEF IInv, Emitted
      <4> QED
        BY <1>u, <4>1 DEF BlockHoldsItsMatches
    <3>2. ASSUME NEW i \in 1 .. Len(blocks')
          PROVE  /\ blocks'[i].from = (IF i = 1 THEN 0 ELSE blocks'[i - 1].to)
                 /\ blocks'[i].first = (IF i = 1 THEN 0 ELSE blocks'[i - 1].last)
      <4>1. CASE i \in 1 .. Len(blocks)
        <5>1. blocks'[i] = blocks[i] /\ (i # 1 => blocks'[i - 1] = blocks[i - 1])
          BY <2>9, <4>1
        <5> QED
          BY <4>1, <5>1 DEF IInv, Emitted
      <4>2. CASE i = Len(blocks) + 1
        <5>1. blocks'[i] = b /\ (i # 1 => blocks'[i - 1] = blocks[Len(blocks)])
          BY <2>9, <4>2
        <5>2. /\ start = (IF i = 1 THEN 0 ELSE blocks[Len(blocks)].to)
              /\ matchStart = (IF i = 1 THEN 0 ELSE blocks[Len(blocks)].last)
          BY <2>9, <4>2 DEF IInv, Emitted
        <5> QED
          BY <2>10, <5>1, <5>2
      <4> QED
        BY <2>9, <4>1, <4>2
    <3>3. /\ start' = (IF blocks' = << >> THEN 0 ELSE blocks'[Len(blocks')].to)
          /\ matchStart' = (IF blocks' = << >> THEN 0 ELSE blocks'[Len(blocks')].last)
      BY <2>1, <2>9, <2>10
    <3> QED
      BY <3>1, <3>2, <3>3 DEF Emitted
  <2> QED
    BY <2>5, <2>6, <2>7, <2>11 DEF IInv
<1>10. CASE EndOfStream
  <2>1. TypeOK'
    BY <1>u, <1>10 DEF IInv, TypeOK, EndOfStream, chosen, walk
  <2>2. Remaining' /\ Emitted'
    BY <1>u, <1>10 DEF IInv, EndOfStream, Remaining, Emitted, BlockHoldsItsMatches
  <2>3. Chosen' /\ Walking'
    BY <1>10 DEF EndOfStream, Chosen, Walking, Stages
  <2>4. Done'
    BY <1>f, <1>u, <1>10 DEF IInv, TypeOK, EndOfStream, Remaining, Done
  <2> QED
    BY <2>1, <2>2, <2>3, <2>4 DEF IInv
<1>11. CASE UNCHANGED vars
  BY <1>u, <1>11 DEF vars, IInv, TypeOK, Remaining, Chosen, Walking, Emitted, Done,
     CutsNoLaterMatch, Bare, BlockHoldsItsMatches
<1> QED
  BY <1>1, <1>2, <1>3, <1>4, <1>5, <1>6, <1>7, <1>8, <1>9, <1>10, <1>11 DEF Next

(***************************************************************************)
(* With caps that fit, every reachable state satisfies the invariant.      *)
(***************************************************************************)
LEMMA Invariance == ASSUME CapsFit PROVE Spec => []IInv
  BY InitIInv, NextIInv, PTL DEF Spec

(***************************************************************************)
(* The invariant implies the three properties the runs check.              *)
(***************************************************************************)
LEMMA IInvNoCut == IInv => NoCutInsideMatch
  BY DEF IInv, Remaining, NoCutInsideMatch

LEMMA IInvPartition == IInv => BlocksPartitionInput
<1> SUFFICES ASSUME IInv PROVE BlocksPartitionInput
  OBVIOUS
<1>1. \A i \in 1 .. Len(blocks) :
         /\ BlockHoldsItsMatches(blocks[i])
         /\ blocks[i].from = (IF i = 1 THEN 0 ELSE blocks[i - 1].to)
         /\ blocks[i].first = (IF i = 1 THEN 0 ELSE blocks[i - 1].last)
  BY DEF IInv, Emitted
<1>2. ASSUME pc = "done" PROVE matchStart = NMatches
  <2>1. start = n
    BY <1>2 DEF IInv, Done
  <2>2. matchStart \in 0 .. NMatches /\ MatchList(input)
    BY DEF IInv, TypeOK
  <2>3. SUFFICES ASSUME matchStart < NMatches PROVE FALSE
    BY <2>2, MatchFacts
  <2>4. matchStart \in 0 .. NMatches - 1 /\ start <= Match(matchStart).pos
    BY <2>2, <2>3, MatchFacts DEF IInv, Remaining
  <2> QED
    BY <2>1, <2>2, <2>4, MatchFacts
<1>3. ASSUME pc = "done", blocks # << >> PROVE blocks[Len(blocks)].to = n
  BY <1>3 DEF IInv, Done, Emitted
<1>4. pc = "done" => start = n
  BY DEF IInv, Done
<1> QED
  BY <1>1, <1>2, <1>3, <1>4 DEF BlocksPartitionInput

(***************************************************************************)
(* Every variable of the splitter keeps its type: in particular no index   *)
(* leaves the match list, for every input and every setting of the caps    *)
(* that fits.                                                              *)
(***************************************************************************)
THEOREM TypeCorrect == ASSUME CapsFit PROVE Spec => []TypeOK
<1>1. IInv => TypeOK
  BY DEF IInv
<1> QED
  BY <1>1, Invariance, PTL

(***************************************************************************)
(* No block boundary falls inside a match: the literal cap repairs every   *)
(* raw cut, because a bare raw cut lies more than a match length behind    *)
(* the literal budget.                                                     *)
(***************************************************************************)
THEOREM NoCutInsideMatchHolds == ASSUME CapsFit PROVE Spec => []NoCutInsideMatch
  BY IInvNoCut, Invariance, PTL

(***************************************************************************)
(* The blocks partition the input, each holding exactly its own matches.   *)
(***************************************************************************)
THEOREM BlocksPartitionInputHolds == ASSUME CapsFit PROVE Spec => []BlocksPartitionInput
  BY IInvPartition, Invariance, PTL

(***************************************************************************)
(* Safety of the refinement: the splitter starts as Partition does and     *)
(* every step of it is a cut of Partition or leaves its variables alone.   *)
(***************************************************************************)
LEMMA NextRefines ==
    ASSUME IInv, [Next]_vars
    PROVE  [Abstract!Next]_<<input, start, matchStart>>
<1>1. CASE Emit
  <2>1. /\ pc = "emit"
        /\ start' = blockEnd /\ matchStart' = blockMatchEnd /\ input' = input
    BY <1>1 DEF Emit
  <2>2. /\ CutsNoLaterMatch
        /\ matchStart <= blockMatchEnd
        /\ start < blockEnd /\ blockEnd <= n
        /\ \A k \in matchStart .. blockMatchEnd - 1 : MatchEnd(k) <= blockEnd
    BY <2>1 DEF IInv, Chosen, Stages, Bare
  <2>3. /\ start \in Nat /\ blockEnd \in Nat /\ MatchList(input)
        /\ matchStart \in 0 .. NMatches /\ blockMatchEnd \in 0 .. NMatches
    BY DEF IInv, TypeOK
  <2>4. /\ blockEnd \in start + 1 .. input.n
        /\ blockMatchEnd \in matchStart .. Len(input.matches)
    BY <2>2, <2>3, MatchFacts DEF n, NMatches
  <2>5. \A i : Abstract!M(i) = Match(i)
    BY DEF Abstract!M, Match
  <2>6. \A i \in matchStart .. blockMatchEnd - 1 :
           start <= Match(i).pos /\ Match(i).pos + Match(i).M <= blockEnd
    <3> SUFFICES ASSUME NEW i \in matchStart .. blockMatchEnd - 1
                 PROVE  start <= Match(i).pos /\ Match(i).pos + Match(i).M <= blockEnd
      OBVIOUS
    <3>1. i \in matchStart .. NMatches - 1
      BY <2>3, MatchFacts
    <3> QED
      BY <2>2, <3>1 DEF IInv, Remaining, MatchEnd
  <2>7. Abstract!Cut(blockEnd, blockMatchEnd)
    BY <2>1, <2>2, <2>5, <2>6 DEF Abstract!Cut, CutsNoLaterMatch, NMatches
  <2> QED
    BY <2>4, <2>7 DEF Abstract!Next
<1>2. CASE ~ Emit
  BY <1>2 DEF Next, vars, SelectByMatchCap, RawWalk, RawCut, LitWalk, LitCut, LitTail,
     RecWalk, RecCut, EndOfStream
<1> QED
  BY <1>1, <1>2

(***************************************************************************)
(* For every input and caps that fit, the splitter's behaviours are        *)
(* behaviours of the abstract partition (its safety part).                 *)
(***************************************************************************)
THEOREM RefinesPartition ==
    ASSUME CapsFit
    PROVE  Spec => Abstract!Init /\ [][Abstract!Next]_<<input, start, matchStart>>
<1>1. Init => Abstract!Init
  BY DEF Init, Abstract!Init
<1> QED
  BY <1>1, Invariance, NextRefines, PTL DEF Spec
-----------------------------------------------------------------------------
(***************************************************************************)
(* The literal cap and the record budget.  Prefix(a, c) are the matches    *)
(* a .. c-1, Covered their bytes, and Runs the records they become in a    *)
(* block that starts at from.                                              *)
(***************************************************************************)
MatchRecord == [pos : Nat, M : 1 .. MaxMValue, D : Nat \ {0}]

Prefix(a, c) == SubSeq(input.matches, a + 1, c)

LengthsOf(ms) == [i \in 1 .. Len(ms) |-> ms[i].M]
Covered(a, c) == SumFunction(LengthsOf(Prefix(a, c)))

PerMatch(ms, from) ==
    [i \in 1 .. Len(ms) |->
        RunRecords(ms[i].pos - RunStart(ms, from, i), ms[i].M, ms[i].D)]
Runs(a, c, from) == Len(FlattenSeq(PerMatch(Prefix(a, c), from)))

\* Where the walks are after match c - 1.
WalkEnd(c) == IF c = matchStart THEN start ELSE MatchEnd(c - 1)

LEMMA PrefixFacts ==
    ASSUME MatchList(input), NEW a \in 0 .. NMatches, NEW c \in a .. NMatches
    PROVE  /\ Prefix(a, c) \in Seq(MatchRecord) /\ Len(Prefix(a, c)) = c - a
           /\ \A i \in 1 .. c - a : Prefix(a, c)[i] = Match(a + i - 1)
           /\ Prefix(a, a) = << >>
           /\ c < NMatches => /\ Match(c) \in MatchRecord
                              /\ Prefix(a, c + 1) = Append(Prefix(a, c), Match(c))
<1>1. input.matches \in Seq(MatchRecord) /\ NMatches \in Nat
  BY MatchFacts DEF MatchList, MatchRecord
<1> DEFINE ms == input.matches
<1>2. ms \in Seq(MatchRecord) /\ Len(ms) = NMatches
  BY <1>1 DEF NMatches
<1> HIDE DEF MatchRecord
<1>3. /\ Prefix(a, c) \in Seq(MatchRecord) /\ Len(Prefix(a, c)) = c - a
      /\ \A i \in 1 .. c - a : Prefix(a, c)[i] = ms[a + i]
  BY <1>1, <1>2 DEF Prefix
<1>4. \A i \in 1 .. c - a : ms[a + i] = Match(a + i - 1)
  BY <1>1 DEF Match
<1>5. Prefix(a, a) = << >>
  BY <1>1, <1>2 DEF Prefix
<1>6. ASSUME c < NMatches
      PROVE  Match(c) \in MatchRecord /\ Prefix(a, c + 1) = Append(Prefix(a, c), Match(c))
  <2>1. Match(c) \in MatchRecord /\ Match(c) = ms[c + 1]
    BY <1>1, <1>2, <1>6 DEF Match
  <2>2. SubSeq(ms, a + 1, c + 1) = Append(SubSeq(ms, a + 1, c), ms[c + 1])
    BY <1>1, <1>2, <1>6
  <2> QED
    BY <2>1, <2>2 DEF Prefix
<1> QED
  BY <1>3, <1>4, <1>5, <1>6

(***************************************************************************)
(* The bytes covered by the matches, one match at a time.                  *)
(***************************************************************************)
LEMMA CoveredStep ==
    ASSUME MatchList(input), NEW a \in 0 .. NMatches, NEW c \in a .. NMatches
    PROVE  /\ Covered(a, c) \in Int
           /\ Covered(a, a) = 0
           /\ c < NMatches => Covered(a, c + 1) = Covered(a, c) + Match(c).M
<1> DEFINE ms == Prefix(a, c)
<1>1. ms \in Seq(MatchRecord) /\ Prefix(a, a) = << >>
  BY PrefixFacts
<1> HIDE DEF ms
<1>2. LengthsOf(ms) \in Seq(Int)
  <2>1. Len(ms) \in Nat /\ \A i \in 1 .. Len(ms) : ms[i] \in MatchRecord
    BY <1>1
  <2>2. \A i \in 1 .. Len(ms) : ms[i].M \in Int
    BY <2>1, CapsAssumption DEF MatchRecord
  <2> QED
    BY <2>1, <2>2 DEF LengthsOf
<1>3. Covered(a, c) \in Int
  <2>1. 0 \in Int
    OBVIOUS
  <2> QED
    BY <1>2, <2>1, SumAppend DEF Covered, ms
<1>4. Covered(a, a) = 0
  <2>1. LengthsOf(<< >>) = << >> /\ DOMAIN << >> = {}
    BY DEF LengthsOf
  <2>2. Covered(a, a) = SumFunctionOnSet(<< >>, {})
    BY <1>1, <2>1 DEF Covered, SumFunction
  <2> QED
    BY <2>2, SumEmpty
<1>5. ASSUME c < NMatches PROVE Covered(a, c + 1) = Covered(a, c) + Match(c).M
  <2>1. /\ Match(c) \in MatchRecord
        /\ Prefix(a, c + 1) = Append(ms, Match(c))
    BY <1>5, PrefixFacts DEF ms
  <2> DEFINE m == Match(c)
             e == m.M
  <2>2. e \in Int
    BY <2>1, CapsAssumption DEF MatchRecord
  <2> HIDE DEF m
  <2>3. LengthsOf(Append(ms, m)) = Append(LengthsOf(ms), e)
    BY <1>1, <2>1 DEF LengthsOf, m
  <2> HIDE DEF e
  <2>4. SumFunction(Append(LengthsOf(ms), e)) = SumFunction(LengthsOf(ms)) + e
    BY <1>2, <2>2, SumAppend
  <2> QED
    BY <2>1, <2>3, <2>4 DEF Covered, m, e, ms
<1> QED
  BY <1>3, <1>4, <1>5

(***************************************************************************)
(* The records of a run: the splits and the record that closes it.         *)
(***************************************************************************)
RunRecord == [L : Int, M : Nat, D : Nat]

LEMMA RunLength ==
    ASSUME NEW L \in Int, NEW M \in Nat, NEW D \in Nat
    PROVE  /\ RunRecords(L, M, D) \in Seq(RunRecord)
           /\ Len(RunRecords(L, M, D)) = Splits(L) + 1
<1> DEFINE k == Splits(L)
           full == [i \in 1 .. k |-> [L |-> MaxLValue, M |-> 0, D |-> D]]
           rest == [L |-> L - k * MaxLValue, M |-> M, D |-> D]
<1>1. k \in Nat /\ MaxLValue \in Int
  BY SplitsNat, MaxLValueAssumption
<1> HIDE DEF k
<1>2. [L |-> MaxLValue, M |-> 0, D |-> D] \in RunRecord /\ rest \in RunRecord
  BY <1>1 DEF RunRecord
<1>3. RunRecords(L, M, D) = full \o << rest >>
  BY DEF RunRecords, k
<1> HIDE DEF rest
<1>4. full \in Seq(RunRecord) /\ Len(full) = k
  BY <1>1, <1>2
<1>5. << rest >> \in Seq(RunRecord) /\ Len(<< rest >>) = 1
  BY <1>2
<1> HIDE DEF full
<1>6. full \o << rest >> \in Seq(RunRecord) /\ Len(full \o << rest >>) = k + 1
  BY <1>4, <1>5
<1> QED
  BY <1>3, <1>6 DEF k

(***************************************************************************)
(* The records of the matches a .. c-1, one match at a time.               *)
(***************************************************************************)
LEMMA PerMatchSeq ==
    ASSUME NEW ms \in Seq(MatchRecord), NEW from \in Nat
    PROVE  PerMatch(ms, from) \in Seq(Seq(RunRecord)) /\ Len(PerMatch(ms, from)) = Len(ms)
<1>1. Len(ms) \in Nat /\ \A i \in 1 .. Len(ms) : ms[i] \in MatchRecord
  OBVIOUS
<1>2. ASSUME NEW i \in 1 .. Len(ms)
      PROVE  RunRecords(ms[i].pos - RunStart(ms, from, i), ms[i].M, ms[i].D) \in Seq(RunRecord)
  <2>1. ms[i].pos \in Int /\ ms[i].M \in Nat /\ ms[i].D \in Nat
    BY <1>1, CapsAssumption DEF MatchRecord
  <2>2. RunStart(ms, from, i) \in Int
    <3>1. CASE i = 1
      BY <3>1 DEF RunStart
    <3>2. CASE i # 1
      <4>1. i - 1 \in 1 .. Len(ms)
        BY <1>1, <3>2
      <4>2. ms[i - 1] \in MatchRecord
        BY <1>1, <4>1
      <4>3. ms[i - 1].pos \in Int /\ ms[i - 1].M \in Nat
        BY <4>2, CapsAssumption, SMTT(30) DEF MatchRecord
      <4> QED
        BY <3>2, <4>3 DEF RunStart, EndOf
    <3> QED
      BY <3>1, <3>2
  <2>3. ms[i].pos - RunStart(ms, from, i) \in Int
    BY <2>1, <2>2
  <2> QED
    BY <2>1, <2>3, RunLength
<1> DEFINE R == Seq(RunRecord)
<1> HIDE DEF R
<1>3. PerMatch(ms, from) \in [1 .. Len(ms) -> R]
  BY <1>2 DEF PerMatch, R
<1> QED
  BY <1>1, <1>3, AsSequence DEF R

LEMMA RunsStep ==
    ASSUME MatchList(input), NEW from \in Nat,
           NEW a \in 0 .. NMatches, NEW c \in a .. NMatches
    PROVE  /\ Runs(a, c, from) \in Nat
           /\ Runs(a, a, from) = 0
           /\ c < NMatches =>
                Runs(a, c + 1, from)
                  = Runs(a, c, from)
                      + 1 + Splits(Match(c).pos - (IF c = a THEN from ELSE MatchEnd(c - 1)))
<1> DEFINE ms == Prefix(a, c)
           flat == FlattenSeq(PerMatch(ms, from))
<1>1. ms \in Seq(MatchRecord) /\ Len(ms) = c - a /\ Prefix(a, a) = << >>
  BY PrefixFacts
<1>m. \A i \in 1 .. c - a : ms[i] = Match(a + i - 1)
  BY PrefixFacts
<1>t. NMatches \in Nat /\ a \in Nat /\ c \in Nat /\ a <= c
  BY MatchFacts
<1> HIDE DEF ms
<1>2. PerMatch(ms, from) \in Seq(Seq(RunRecord)) /\ Len(PerMatch(ms, from)) = Len(ms)
  BY <1>1, PerMatchSeq
<1>3. flat \in Seq(RunRecord)
  <2>1. << >> \in Seq(RunRecord)
    OBVIOUS
  <2> QED
    BY <1>2, <2>1, FlattenAppend
<1>4. Runs(a, c, from) \in Nat
  BY <1>3 DEF Runs, ms
<1>5. Runs(a, a, from) = 0
  <2>1. PerMatch(<< >>, from) = << >>
    BY DEF PerMatch
  <2> QED
    BY <1>1, <2>1, FlattenEmpty DEF Runs
<1>6. ASSUME c < NMatches
      PROVE  Runs(a, c + 1, from)
               = Runs(a, c, from)
                   + 1 + Splits(Match(c).pos - (IF c = a THEN from ELSE MatchEnd(c - 1)))
  <2> DEFINE m == Match(c)
             L == m.pos - (IF c = a THEN from ELSE MatchEnd(c - 1))
             run == RunRecords(L, m.M, m.D)
             more == Append(ms, m)
  <2>1. m \in MatchRecord /\ Prefix(a, c + 1) = more
    BY <1>6, PrefixFacts DEF ms
  <2>2. m.pos \in Int /\ m.M \in Nat /\ m.D \in Nat
    BY <2>1, CapsAssumption DEF MatchRecord
  <2>3. L \in Int
    <3>1. c # a => c - 1 \in 0 .. NMatches - 1
      BY <1>t, <1>6
    <3>2. c # a => MatchEnd(c - 1) \in Nat
      BY <3>1, MatchFacts
    <3> QED
      BY <2>2, <3>2
  <2> HIDE DEF m, L
  <2>4. run \in Seq(RunRecord) /\ Len(run) = Splits(L) + 1
    BY <2>2, <2>3, RunLength
  <2>5. /\ Len(more) = (c - a) + 1 /\ more[(c - a) + 1] = m
        /\ \A i \in 1 .. c - a : more[i] = ms[i]
    BY <1>1, <1>t
  <2> HIDE DEF more
  <2>6. \A i \in 1 .. c - a :
           RunRecords(more[i].pos - RunStart(more, from, i), more[i].M, more[i].D)
             = RunRecords(ms[i].pos - RunStart(ms, from, i), ms[i].M, ms[i].D)
    <3> SUFFICES ASSUME NEW i \in 1 .. c - a
                 PROVE  RunStart(more, from, i) = RunStart(ms, from, i)
      BY <2>5
    <3>1. i # 1 => i - 1 \in 1 .. c - a
      BY <1>t
    <3> QED
      BY <2>5, <3>1 DEF RunStart
  <2>7. RunStart(more, from, (c - a) + 1) = IF c = a THEN from ELSE MatchEnd(c - 1)
    <3>1. CASE c = a
      BY <1>t, <3>1 DEF RunStart
    <3>2. CASE c # a
      <4>1. (c - a) + 1 # 1 /\ ((c - a) + 1) - 1 = c - a /\ c - a \in 1 .. c - a
        BY <1>t, <3>2
      <4>2. more[c - a] = Match(a + (c - a) - 1) /\ a + (c - a) - 1 = c - 1
        BY <1>t, <1>m, <2>5, <4>1
      <4> QED
        BY <3>2, <4>1, <4>2 DEF RunStart, EndOf, MatchEnd
    <3> QED
      BY <3>1, <3>2
  <2> HIDE DEF run
  <2>8. PerMatch(more, from) = Append(PerMatch(ms, from), run)
    <3> DEFINE old == PerMatch(ms, from)
               R(s, i) == RunRecords(s[i].pos - RunStart(s, from, i), s[i].M, s[i].D)
    <3>1. PerMatch(more, from) = [i \in 1 .. (c - a) + 1 |-> R(more, i)]
      BY <2>5 DEF PerMatch
    <3>2. old = [i \in 1 .. c - a |-> R(ms, i)]
      BY <1>1 DEF PerMatch
    <3>3. R(more, (c - a) + 1) = run
      BY <2>5, <2>7 DEF run, L
    <3>4. \A i \in 1 .. c - a : R(more, i) = R(ms, i)
      BY <2>6
    <3> HIDE DEF R
    <3>5. Append(old, run) = [i \in 1 .. (c - a) + 1 |-> IF i <= c - a THEN R(ms, i) ELSE run]
      <4> DEFINE S == Seq(RunRecord)
      <4>1. Len(old) = c - a /\ c - a \in Nat /\ old \in Seq(S)
        BY <1>1, <1>2, <1>t
      <4> HIDE DEF old, S
      <4>2. Append(old, run) = [i \in 1 .. Len(old) + 1 |-> IF i <= Len(old) THEN old[i] ELSE run]
        BY <4>1, AppendIs
      <4> QED
        BY <3>2, <4>1, <4>2
    <3> QED
      BY <3>1, <3>3, <3>4, <3>5, <1>t
  <2>9. FlattenSeq(Append(PerMatch(ms, from), run)) = flat \o run
    BY <1>2, <2>4, FlattenAppend
  <2>10. Len(flat \o run) = Len(flat) + (Splits(L) + 1) /\ Len(flat) \in Nat /\ Splits(L) \in Nat
    <3>1. Splits(L) \in Nat
      BY <2>3, SplitsNat
    <3> DEFINE R == RunRecord
    <3> HIDE DEF flat, R
    <3>2. flat \in Seq(R) /\ run \in Seq(R)
      BY <1>3, <2>4 DEF R
    <3>3. Len(flat \o run) = Len(flat) + Len(run) /\ Len(flat) \in Nat
      BY <3>2, ConcatProperties
    <3> QED
      BY <2>4, <3>1, <3>3
  <2>11. Runs(a, c + 1, from) = Len(flat \o run) /\ Runs(a, c, from) = Len(flat)
    BY <2>1, <2>8, <2>9 DEF Runs, ms
  <2>12. Runs(a, c + 1, from) = Runs(a, c, from) + 1 + Splits(L)
    BY <2>10, <2>11
  <2> QED
    BY <2>12 DEF L, m
<1> QED
  BY <1>4, <1>5, <1>6
-----------------------------------------------------------------------------
(***************************************************************************)
(* The invariant of the two counting walks.  At every stage from the       *)
(* literal walk on, wherever the block is cut after one of the matches     *)
(* walked, the literals up to there are within the cap (LitsWithin); so a  *)
(* later stage may pull the end back without counting again.               *)
(***************************************************************************)
LitsTo(c) == (WalkEnd(c) - start) - Covered(matchStart, c)

LitsWithin(e) == \A c \in matchStart + 1 .. e : LitsTo(c) <= MaxBlockLiterals

LitCounted ==
    /\ pc = "lit" => lits = LitsTo(cut) /\ LitsWithin(cut)
    /\ pc \in {"rec", "emit"} =>
         /\ (blockEnd - start) - Covered(matchStart, blockMatchEnd) <= MaxBlockLiterals
         /\ LitsWithin(blockMatchEnd)

RecCounted ==
    /\ pc \in {"raw", "lit"} => recs = 0
    /\ pc = "rec" => /\ litPos = WalkEnd(cut)
                     /\ recs = Runs(matchStart, cut, start)
                     /\ recs <= MatchesPerBlock - 2
    /\ pc = "emit" /\ blockMatchEnd > matchStart =>
         Runs(matchStart, blockMatchEnd, start) <= MatchesPerBlock - 2

BlockLits(b) == (b.to - b.from) - Covered(b.first, b.last) <= MaxBlockLiterals
BlockRecs(b) == b.first < b.last => Runs(b.first, b.last, b.from) <= MatchesPerBlock - 2

BlockTyped(b) ==
    /\ b.from \in Nat /\ b.to \in Nat
    /\ b.first \in 0 .. NMatches /\ b.last \in b.first .. NMatches
    /\ b.kind = (IF b.last = b.first THEN "stored" ELSE "v2")

BlocksCounted ==
    \A i \in 1 .. Len(blocks) :
        /\ BlockTyped(blocks[i]) /\ BlockLits(blocks[i])
        /\ FirstMatchFits => BlockRecs(blocks[i])

Counted == LitCounted /\ (FirstMatchFits => RecCounted) /\ BlocksCounted

LEMMA InitCounted == Init => Counted
  BY DEF Init, Counted, LitCounted, RecCounted, BlocksCounted

(***************************************************************************)
(* A run within the literal cap needs no more records than the cap does.   *)
(***************************************************************************)
LEMMA SplitsGrow ==
    ASSUME NEW K \in Int, NEW L \in Int, K <= L
    PROVE  Splits(K) <= Splits(L)
<1>1. Splits(K) \in Nat /\ Splits(L) \in Nat /\ MaxLValue \in Nat \ {0}
  BY SplitsNat, MaxLValueAssumption
<1>2. CASE K > MaxLValue
  <2> DEFINE a == (K - 1) \div MaxLValue
             b == (L - 1) \div MaxLValue
  <2>1. Splits(K) = a /\ Splits(L) = b
    BY <1>1, <1>2 DEF Splits
  <2>2. K - 1 \in Nat /\ L - 1 \in Nat
    BY <1>1, <1>2
  <2>3. a \in Nat /\ a * MaxLValue <= K - 1
    <3>1. /\ a \in Nat /\ (K - 1) % MaxLValue \in 0 .. MaxLValue - 1
          /\ K - 1 = a * MaxLValue + ((K - 1) % MaxLValue)
      BY <1>1, <2>2, Division
    <3>2. a * MaxLValue \in Nat
      BY <1>1, <3>1
    <3> HIDE DEF a
    <3> QED
      BY <1>1, <3>1, <3>2
  <2> HIDE DEF a
  <2>4. a * MaxLValue \in Nat /\ a * MaxLValue <= L - 1
    BY <1>1, <2>3
  <2> QED
    BY <1>1, <2>1, <2>2, <2>3, <2>4, QuotientAbove
<1>3. CASE ~ (K > MaxLValue)
  <2>1. Splits(K) = 0
    BY <1>3 DEF Splits
  <2> QED
    BY <1>1, <2>1
<1> QED
  BY <1>2, <1>3

(***************************************************************************)
(* What the caps keep of a block being cut is kept by every step.          *)
(***************************************************************************)
LEMMA NextCounted ==
    ASSUME CapsFit, IInv, Counted, [Next]_vars
    PROVE  Counted'
<1>e. input' = input
  BY DEF Next, vars, SelectByMatchCap, RawWalk, RawCut, LitWalk, LitCut, LitTail,
     RecWalk, RecCut, Emit, EndOfStream
<1>u. /\ NMatches' = NMatches
      /\ \A k : Match(k)' = Match(k) /\ MatchEnd(k)' = MatchEnd(k)
      /\ \A a, c : Covered(a, c)' = Covered(a, c)
      /\ \A a, c, from : Runs(a, c, from)' = Runs(a, c, from)
  BY <1>e DEF NMatches, Match, MatchEnd, Covered, Runs, Prefix
<1>b. blocks' = blocks => BlocksCounted'
  BY <1>u DEF Counted, BlocksCounted, BlockTyped, BlockLits, BlockRecs
<1>0. /\ MatchList(input) /\ NMatches \in Nat
      /\ MaxBlockLiterals \in Nat /\ MaxBlockRawBytes \in Nat /\ MatchesPerBlock \in Nat
      /\ matchStart \in 0 .. NMatches /\ start \in Nat /\ blockEnd \in Nat
      /\ cut \in 0 .. NMatches /\ blockMatchEnd \in 0 .. NMatches
      /\ lits \in Int /\ recs \in Nat /\ litPos \in Nat
  BY CapsAssumption, MatchFacts DEF IInv, TypeOK
<1>k. \A k \in 0 .. NMatches - 1 :
         /\ MatchEnd(k) \in Nat /\ Match(k).pos \in Nat /\ Match(k).M \in Nat
         /\ MatchEnd(k) = Match(k).pos + Match(k).M
  BY <1>0, MatchFacts
<1>c. \A c \in matchStart .. NMatches :
         /\ Covered(matchStart, c) \in Int /\ Covered(matchStart, matchStart) = 0
         /\ c < NMatches =>
              Covered(matchStart, c + 1) = Covered(matchStart, c) + Match(c).M
  BY <1>0, CoveredStep
<1>r. \A c \in matchStart .. NMatches :
         /\ Runs(matchStart, c, start) \in Nat /\ Runs(matchStart, matchStart, start) = 0
         /\ c < NMatches =>
              Runs(matchStart, c + 1, start)
                = Runs(matchStart, c, start) + 1 + Splits(Match(c).pos - WalkEnd(c))
  BY <1>0, RunsStep DEF WalkEnd
<1>w. start' = start /\ matchStart' = matchStart =>
         \A c : WalkEnd(c)' = WalkEnd(c) /\ LitsTo(c)' = LitsTo(c)
  BY <1>u DEF WalkEnd, LitsTo
<1>n. ASSUME NEW c \in matchStart .. NMatches - 1
      PROVE  WalkEnd(c + 1) = MatchEnd(c) /\ WalkEnd(c) \in Int
  <2>1. c + 1 # matchStart /\ (c + 1) - 1 = c /\ (c # matchStart => c - 1 \in 0 .. NMatches - 1)
    BY <1>0
  <2> QED
    BY <1>0, <1>k, <2>1 DEF WalkEnd
<1>t. ASSUME NEW c \in matchStart .. NMatches - 1
      PROVE  /\ LitsTo(c) \in Int
             /\ LitsTo(c + 1) = LitsTo(c) + (Match(c).pos - WalkEnd(c))
             /\ LitsTo(matchStart) = 0
  <2>1. /\ Covered(matchStart, c + 1) = Covered(matchStart, c) + Match(c).M
        /\ Covered(matchStart, c) \in Int
    BY <1>0, <1>c
  <2>2. /\ MatchEnd(c) = Match(c).pos + Match(c).M
        /\ Match(c).pos \in Nat /\ Match(c).M \in Nat
    BY <1>0, <1>k
  <2>3. LitsTo(c + 1) = (MatchEnd(c) - start) - Covered(matchStart, c + 1)
    BY <1>n DEF LitsTo
  <2>4. LitsTo(c) = (WalkEnd(c) - start) - Covered(matchStart, c) /\ WalkEnd(c) \in Int
    BY <1>n DEF LitsTo
  <2>5. LitsTo(matchStart) = 0
    BY <1>0, <1>c DEF LitsTo, WalkEnd
  <2> QED
    BY <1>0, <2>1, <2>2, <2>3, <2>4, <2>5
<1>z. LitsTo(matchStart) = 0
  BY <1>0, <1>c DEF LitsTo, WalkEnd
<1>1. CASE SelectByMatchCap
  <2>1. /\ pc' \in {"raw", "lit"} /\ cut' = matchStart /\ litPos' = start
        /\ lits' = 0 /\ recs' = 0
        /\ start' = start /\ matchStart' = matchStart /\ blocks' = blocks
    BY <1>1 DEF SelectByMatchCap
  <2>2. LitCounted'
    BY <1>0, <1>w, <1>z, <2>1 DEF LitCounted, LitsWithin
  <2>3. RecCounted'
    BY <2>1 DEF RecCounted
  <2> QED
    BY <1>b, <2>1, <2>2, <2>3 DEF Counted
<1>2. CASE RawWalk
  <2>1. /\ pc = "raw" /\ pc' = "raw" /\ cut' = cut + 1 /\ recs' = recs
        /\ matchStart' = matchStart /\ blocks' = blocks
    BY <1>2 DEF RawWalk
  <2>2. FirstMatchFits => RecCounted'
    BY <2>1 DEF Counted, RecCounted
  <2> QED
    BY <1>b, <2>1, <2>2 DEF Counted, LitCounted
<1>3. CASE RawCut
  <2>1. /\ pc = "raw" /\ pc' = "lit" /\ cut' = matchStart /\ recs' = recs /\ lits' = lits
        /\ start' = start /\ matchStart' = matchStart /\ blocks' = blocks
    BY <1>3 DEF RawCut
  <2>2. lits = 0
    BY <2>1 DEF IInv, Walking
  <2>3. LitCounted'
    BY <1>0, <1>w, <1>z, <2>1, <2>2 DEF LitCounted, LitsWithin
  <2>4. FirstMatchFits => RecCounted'
    BY <2>1 DEF Counted, RecCounted
  <2> QED
    BY <1>b, <2>1, <2>3, <2>4 DEF Counted
<1>4. CASE LitWalk
  <2>1. /\ pc = "lit" /\ pc' = "lit" /\ cut' = cut + 1 /\ recs' = recs
        /\ lits' = lits + (Match(cut).pos - litPos)
        /\ lits' <= MaxBlockLiterals /\ cut < blockMatchEnd
        /\ start' = start /\ matchStart' = matchStart /\ blocks' = blocks
    BY <1>4 DEF LitWalk, LitFits
  <2>2. cut \in matchStart .. NMatches - 1 /\ litPos = WalkEnd(cut)
    <3>1. matchStart <= cut
      BY <2>1 DEF IInv, Walking
    <3>2. cut \in matchStart .. NMatches - 1
      BY <1>0, <2>1, <3>1
    <3>3. cut = matchStart \/ cut > matchStart
      BY <1>0, <3>1
    <3> QED
      BY <1>0, <2>1, <3>2, <3>3 DEF IInv, Walking, WalkEnd
  <2>3. lits = LitsTo(cut) /\ LitsWithin(cut)
    BY <2>1 DEF Counted, LitCounted
  <2>4. lits' = LitsTo(cut + 1)
    BY <1>t, <2>1, <2>2, <2>3
  <2>5. \A c \in matchStart + 1 .. cut + 1 : LitsTo(c) <= MaxBlockLiterals
    <3> SUFFICES ASSUME NEW c \in matchStart + 1 .. cut + 1
                 PROVE  LitsTo(c) <= MaxBlockLiterals
      OBVIOUS
    <3>1. c \in matchStart + 1 .. cut \/ c = cut + 1
      BY <1>0
    <3> QED
      BY <2>1, <2>3, <2>4, <3>1 DEF LitsWithin
  <2>6. LitCounted'
    BY <1>w, <2>1, <2>4, <2>5 DEF LitCounted, LitsWithin
  <2>7. FirstMatchFits => RecCounted'
    BY <2>1 DEF Counted, RecCounted
  <2> QED
    BY <1>b, <2>1, <2>6, <2>7 DEF Counted
<1>s. ASSUME pc = "lit", pc' = "rec", cut' = matchStart, litPos' = start, recs' = recs,
             start' = start, matchStart' = matchStart, FirstMatchFits
      PROVE  RecCounted'
  <2>1. recs = 0
    BY <1>s DEF Counted, RecCounted
  <2>2. WalkEnd(matchStart) = start /\ Runs(matchStart, matchStart, start) = 0
    BY <1>0, <1>r DEF WalkEnd
  <2>3. 0 <= MatchesPerBlock - 2
    BY <1>0, <1>s, SplitsNat DEF FirstMatchFits
  <2> QED
    BY <1>s, <1>u, <1>w, <2>1, <2>2, <2>3 DEF RecCounted
<1>5. CASE LitCut
  <2>1. /\ pc = "lit" /\ pc' = "rec" /\ cut' = matchStart /\ litPos' = start
        /\ recs' = recs /\ cut < blockMatchEnd
        /\ blockMatchEnd' = cut
        /\ blockEnd' = IF cut > matchStart THEN MatchEnd(cut - 1)
                                           ELSE start + MaxBlockLiterals
        /\ start' = start /\ matchStart' = matchStart /\ blocks' = blocks
    BY <1>5 DEF LitCut
  <2>2. cut \in matchStart .. NMatches - 1
    <3>1. matchStart <= cut
      BY <2>1 DEF IInv, Walking
    <3> QED
      BY <1>0, <2>1, <3>1
  <2>3. LitsWithin(cut)
    BY <2>1 DEF Counted, LitCounted
  <2>4. (blockEnd' - start) - Covered(matchStart, cut) <= MaxBlockLiterals
    <3>1. CASE cut > matchStart
      <4>1. cut \in matchStart + 1 .. cut /\ cut # matchStart
        BY <1>0, <3>1
      <4> QED
        BY <2>1, <2>3, <3>1, <4>1 DEF LitsWithin, LitsTo, WalkEnd
    <3>2. CASE ~ (cut > matchStart)
      <4>1. cut = matchStart
        BY <1>0, <2>2, <3>2
      <4> QED
        BY <1>0, <1>c, <2>1, <4>1
    <3> QED
      BY <3>1, <3>2
  <2>5. LitCounted'
    BY <1>u, <1>w, <2>1, <2>3, <2>4 DEF LitCounted, LitsWithin
  <2> QED
    BY <1>b, <1>s, <2>1, <2>5 DEF Counted
<1>6. CASE LitTail
  <2>1. /\ pc = "lit" /\ pc' = "rec" /\ cut' = matchStart /\ litPos' = start
        /\ recs' = recs /\ cut >= blockMatchEnd
        /\ blockMatchEnd' = blockMatchEnd
        /\ blockEnd' = IF blockEnd - litPos > MaxBlockLiterals - lits
                       THEN litPos + (MaxBlockLiterals - lits) ELSE blockEnd
        /\ start' = start /\ matchStart' = matchStart /\ blocks' = blocks
    BY <1>6 DEF LitTail
  <2>2. cut = blockMatchEnd /\ cut \in matchStart .. NMatches /\ litPos = WalkEnd(cut)
    <3>1. matchStart <= cut /\ cut <= blockMatchEnd
      BY <2>1 DEF IInv, Walking
    <3>2. cut = matchStart \/ cut > matchStart
      BY <1>0, <3>1
    <3> QED
      BY <1>0, <2>1, <3>1, <3>2 DEF IInv, Walking, WalkEnd
  <2>3. lits = LitsTo(cut) /\ LitsWithin(cut)
    BY <2>1 DEF Counted, LitCounted
  <2>4. blockEnd' - litPos <= MaxBlockLiterals - lits /\ blockEnd' \in Int
    BY <1>0, <2>1
  <2>5. lits = (litPos - start) - Covered(matchStart, cut) /\ Covered(matchStart, cut) \in Int
    BY <1>c, <2>2, <2>3 DEF LitsTo
  <2>6. (blockEnd' - start) - Covered(matchStart, cut) <= MaxBlockLiterals
    BY <1>0, <2>4, <2>5
  <2>7. LitCounted'
    BY <1>u, <1>w, <2>1, <2>2, <2>3, <2>6 DEF LitCounted, LitsWithin
  <2> QED
    BY <1>b, <1>s, <2>1, <2>7 DEF Counted
<1>7. CASE RecWalk
  <2>1. /\ pc = "rec" /\ pc' = "rec" /\ cut' = cut + 1 /\ cut < blockMatchEnd
        /\ recs' = recs + Need(cut) /\ recs' <= MatchesPerBlock - 2
        /\ litPos' = MatchEnd(cut)
        /\ blockMatchEnd' = blockMatchEnd /\ blockEnd' = blockEnd
        /\ start' = start /\ matchStart' = matchStart /\ blocks' = blocks
    BY <1>7 DEF RecWalk, RecFits, chosen
  <2>2. cut \in matchStart .. NMatches - 1
    <3>1. matchStart <= cut
      BY <2>1 DEF IInv, Walking
    <3> QED
      BY <1>0, <2>1, <3>1
  <2>3. FirstMatchFits => litPos = WalkEnd(cut) /\ recs = Runs(matchStart, cut, start)
    BY <2>1 DEF Counted, RecCounted
  <2>4. Match(cut).pos - WalkEnd(cut) \in Int
    BY <1>0, <1>k, <1>n, <2>2
  <2>5. ASSUME FirstMatchFits PROVE recs' = Runs(matchStart, cut + 1, start)
    <3>1. Splits(Match(cut).pos - WalkEnd(cut)) \in Nat
      BY <2>4, SplitsNat
    <3>2. Runs(matchStart, cut + 1, start)
            = Runs(matchStart, cut, start) + 1 + Splits(Match(cut).pos - WalkEnd(cut))
      BY <1>0, <1>r, <2>2
    <3> QED
      BY <1>0, <2>1, <2>3, <2>5, <3>1, <3>2 DEF Need
  <2>6. FirstMatchFits => RecCounted'
    BY <1>n, <1>u, <1>w, <2>1, <2>2, <2>5 DEF RecCounted
  <2>7. LitCounted'
    BY <1>u, <1>w, <2>1 DEF Counted, LitCounted, LitsWithin
  <2> QED
    BY <1>b, <2>1, <2>6, <2>7 DEF Counted
<1>8. CASE RecCut
  <2>1. /\ pc = "rec" /\ pc' = "emit" /\ ~ (cut < blockMatchEnd /\ RecFits(cut))
        /\ IF cut < blockMatchEnd /\ cut > matchStart
           THEN blockMatchEnd' = cut /\ blockEnd' = MatchEnd(cut - 1)
           ELSE blockMatchEnd' = blockMatchEnd /\ blockEnd' = blockEnd
        /\ start' = start /\ matchStart' = matchStart /\ blocks' = blocks
    BY <1>8 DEF RecCut, chosen
  <2>2. cut \in matchStart .. NMatches /\ cut <= blockMatchEnd
    BY <1>0, <2>1 DEF IInv, Walking
  <2>3. FirstMatchFits => /\ litPos = WalkEnd(cut) /\ recs = Runs(matchStart, cut, start)
                          /\ recs <= MatchesPerBlock - 2
    BY <2>1 DEF Counted, RecCounted
  <2>4. LitsWithin(blockMatchEnd)
    BY <2>1 DEF Counted, LitCounted
  <2>5. CASE cut < blockMatchEnd /\ cut > matchStart
    <3>1. \A c \in matchStart + 1 .. cut : LitsTo(c) <= MaxBlockLiterals
      BY <1>0, <2>4, <2>5 DEF LitsWithin
    <3>2. cut \in matchStart + 1 .. cut /\ cut # matchStart
      BY <1>0, <2>5
    <3>3. (MatchEnd(cut - 1) - start) - Covered(matchStart, cut) <= MaxBlockLiterals
      BY <3>1, <3>2 DEF LitsTo, WalkEnd
    <3>4. LitCounted'
      BY <1>u, <1>w, <2>1, <2>5, <3>1, <3>3 DEF LitCounted, LitsWithin
    <3>5. FirstMatchFits => RecCounted'
      BY <1>u, <2>1, <2>3, <2>5 DEF RecCounted
    <3> QED
      BY <1>b, <2>1, <3>4, <3>5 DEF Counted
  <2>6. CASE ~ (cut < blockMatchEnd /\ cut > matchStart)
    <3>1. LitCounted'
      BY <1>u, <1>w, <2>1, <2>6 DEF Counted, LitCounted, LitsWithin
    <3>2. ASSUME FirstMatchFits, blockMatchEnd > matchStart
          PROVE  Runs(matchStart, blockMatchEnd, start) <= MatchesPerBlock - 2
      <4>1. CASE cut = blockMatchEnd
        BY <2>3, <3>2, <4>1
      <4>2. CASE cut # blockMatchEnd
        <5>1. /\ cut = matchStart /\ cut < blockMatchEnd
              /\ cut \in matchStart .. NMatches - 1 /\ matchStart + 1 \in matchStart + 1 .. blockMatchEnd
          BY <1>0, <2>2, <2>6, <3>2, <4>2
        <5>2. recs = 0 /\ WalkEnd(cut) = start
          BY <1>0, <1>r, <2>2, <2>3, <3>2, <5>1 DEF WalkEnd
        <5>3. Match(cut).pos - start <= MaxBlockLiterals
          <6>1. LitsTo(matchStart + 1) <= MaxBlockLiterals
            BY <2>4, <5>1 DEF LitsWithin
          <6>2. LitsTo(cut + 1) = 0 + (Match(cut).pos - start)
            BY <1>t, <5>1, <5>2
          <6>3. Match(cut).pos - start \in Int
            BY <1>0, <1>k, <5>1
          <6> QED
            BY <5>1, <6>1, <6>2, <6>3
        <5>4. Need(cut) <= MatchesPerBlock - 2 /\ Need(cut) \in Nat
          <6>1. Match(cut).pos - start \in Int /\ litPos = start
            BY <1>0, <1>k, <2>3, <3>2, <5>1, <5>2
          <6>2. Splits(Match(cut).pos - start) <= Splits(MaxBlockLiterals)
            BY <1>0, <5>3, <6>1, SplitsGrow
          <6>3. Splits(Match(cut).pos - start) \in Nat /\ Splits(MaxBlockLiterals) \in Nat
            BY <1>0, <6>1, SplitsNat
          <6> QED
            BY <1>0, <3>2, <6>1, <6>2, <6>3 DEF Need, FirstMatchFits
        <5>5. RecFits(cut)
          BY <5>2, <5>4 DEF RecFits
        <5> QED
          BY <2>1, <5>1, <5>5
      <4> QED
        BY <4>1, <4>2
    <3>3. FirstMatchFits => RecCounted'
      BY <1>u, <2>1, <2>6, <3>2 DEF RecCounted
    <3> QED
      BY <1>b, <2>1, <3>1, <3>3 DEF Counted
  <2> QED
    BY <2>5, <2>6
<1>9. CASE Emit
  <2> DEFINE b == [kind |-> IF blockMatchEnd = matchStart THEN "stored" ELSE "v2",
                   from |-> start, to |-> blockEnd,
                   first |-> matchStart, last |-> blockMatchEnd]
  <2>1. pc = "emit" /\ pc' = "select" /\ blocks' = Append(blocks, b)
    BY <1>9 DEF Emit
  <2>2. matchStart <= blockMatchEnd
    BY <2>1 DEF IInv, Chosen, Stages
  <2>3. BlockTyped(b)
    BY <1>0, <2>2 DEF BlockTyped
  <2>4. BlockLits(b)
    BY <2>1 DEF BlockLits, Counted, LitCounted
  <2>5. FirstMatchFits => BlockRecs(b)
    BY <2>1 DEF BlockRecs, Counted, RecCounted
  <2> HIDE DEF b
  <2>6. /\ Len(blocks) \in Nat /\ Len(blocks') = Len(blocks) + 1
        /\ \A i \in 1 .. Len(blocks) : blocks'[i] = blocks[i]
        /\ blocks'[Len(blocks) + 1] = b
    <3>1. blocks \in Seq(Block)
      BY DEF IInv, TypeOK
    <3> QED
      BY <2>1, <3>1
  <2>7. ASSUME NEW i \in 1 .. Len(blocks')
        PROVE  /\ BlockTyped(blocks'[i]) /\ BlockLits(blocks'[i])
               /\ FirstMatchFits => BlockRecs(blocks'[i])
    <3>1. i \in 1 .. Len(blocks) \/ i = Len(blocks) + 1
      BY <2>6
    <3> QED
      BY <2>3, <2>4, <2>5, <2>6, <3>1 DEF Counted, BlocksCounted
  <2>8. BlocksCounted'
    BY <1>u, <2>7 DEF BlocksCounted, BlockTyped, BlockLits, BlockRecs
  <2>9. LitCounted' /\ RecCounted'
    BY <2>1 DEF LitCounted, RecCounted
  <2> QED
    BY <2>8, <2>9 DEF Counted
<1>10. CASE EndOfStream
  <2>1. pc' = "done" /\ blocks' = blocks
    BY <1>10 DEF EndOfStream
  <2> QED
    BY <1>b, <2>1 DEF Counted, LitCounted, RecCounted
<1>11. CASE UNCHANGED vars
  <2>1. LitCounted'
    BY <1>u, <1>w, <1>11 DEF vars, Counted, LitCounted, LitsWithin
  <2>2. FirstMatchFits => RecCounted'
    BY <1>u, <1>w, <1>11 DEF vars, Counted, RecCounted
  <2> QED
    BY <1>b, <1>11, <2>1, <2>2 DEF vars, Counted
<1> QED
  BY <1>1, <1>2, <1>3, <1>4, <1>5, <1>6, <1>7, <1>8, <1>9, <1>10, <1>11 DEF Next

LEMMA CountedInvariance == ASSUME CapsFit PROVE Spec => [](IInv /\ Counted)
<1>1. Init => IInv /\ Counted
  BY InitIInv, InitCounted
<1>2. IInv /\ Counted /\ [Next]_vars => (IInv /\ Counted)'
  BY NextIInv, NextCounted
<1> QED
  BY <1>1, <1>2, PTL DEF Spec

LEMMA CountedLiterals == IInv /\ Counted => LiteralCap
<1> SUFFICES ASSUME IInv, Counted, NEW i \in 1 .. Len(blocks)
             PROVE  LiteralCount(MatchesOf(blocks[i]), blocks[i].from, blocks[i].to)
                      <= MaxBlockLiterals
  BY DEF LiteralCap
<1>1. BlockLits(blocks[i])
  BY DEF Counted, BlocksCounted
<1> QED
  BY <1>1 DEF BlockLits, LiteralCount, MatchesOf, Covered, LengthsOf, Prefix

\* The records of a block up to the end of its last match are its runs.
LEMMA CountedRecords ==
    ASSUME FirstMatchFits, IInv, Counted
    PROVE  RecordsOfMatchesWithinBudget
<1> SUFFICES ASSUME NEW i \in 1 .. Len(blocks), blocks[i].kind = "v2"
             PROVE  Len(RawRecords(MatchesOf(blocks[i]), blocks[i].from,
                                   MatchEnd(blocks[i].last - 1))) <= MatchesPerBlock - 2
  BY DEF RecordsOfMatchesWithinBudget
<1> DEFINE b == blocks[i]
           ms == MatchesOf(b)
           end == MatchEnd(b.last - 1)
<1>1. BlockTyped(b) /\ BlockRecs(b) /\ b.kind = "v2"
  BY DEF Counted, BlocksCounted
<1> HIDE DEF b
<1>2. /\ b.first \in 0 .. NMatches /\ b.last \in b.first .. NMatches
      /\ b.first < b.last /\ b.from \in Nat /\ NMatches \in Nat /\ MatchList(input)
  BY <1>1, MatchFacts DEF BlockTyped, IInv, TypeOK
<1>3. /\ ms \in Seq(MatchRecord) /\ Len(ms) = b.last - b.first
      /\ \A k \in 1 .. b.last - b.first : ms[k] = Match(b.first + k - 1)
  BY <1>2, PrefixFacts DEF Prefix, MatchesOf
<1> HIDE DEF ms
<1>4. RunStart(ms, b.from, Len(ms) + 1) = end
  <2>1. /\ Len(ms) + 1 # 1 /\ (Len(ms) + 1) - 1 = Len(ms)
        /\ Len(ms) \in 1 .. b.last - b.first /\ b.first + Len(ms) - 1 = b.last - 1
    BY <1>2, <1>3
  <2> QED
    BY <1>3, <2>1 DEF RunStart, EndOf, MatchEnd
<1>5. end \in Nat
  <2>1. b.last - 1 \in 0 .. NMatches - 1
    BY <1>2
  <2> QED
    BY <1>2, <2>1, MatchFacts
<1>6. RawRecords(ms, b.from, end) = FlattenSeq(PerMatch(ms, b.from)) \o << >>
  <2>1. ~ (end > end)
    BY <1>5
  <2> DEFINE tail(last) == IF end > last THEN RunRecords(end - last, 0, 1) ELSE << >>
  <2> HIDE DEF end
  <2>2. tail(RunStart(ms, b.from, Len(ms) + 1)) = << >>
    BY <1>4, <2>1
  <2> HIDE DEF tail
  <2>3. RawRecords(ms, b.from, end)
          = FlattenSeq(PerMatch(ms, b.from)) \o tail(RunStart(ms, b.from, Len(ms) + 1))
    BY DEF RawRecords, PerMatch, tail
  <2> QED
    BY <2>2, <2>3
<1>7. FlattenSeq(PerMatch(ms, b.from)) \in Seq(RunRecord)
  <2>1. PerMatch(ms, b.from) \in Seq(Seq(RunRecord)) /\ << >> \in Seq(RunRecord)
    BY <1>2, <1>3, PerMatchSeq
  <2> QED
    BY <2>1, FlattenAppend
<1> DEFINE flat == FlattenSeq(PerMatch(ms, b.from))
<1>8. flat \o << >> = flat
  <2> HIDE DEF flat
  <2> QED
    BY <1>7 DEF flat
<1>9. Runs(b.first, b.last, b.from) = Len(flat)
  BY DEF Runs, ms, MatchesOf, Prefix
<1>10. Len(RawRecords(ms, b.from, end)) <= MatchesPerBlock - 2
  BY <1>1, <1>2, <1>6, <1>8, <1>9 DEF BlockRecs
<1> QED
  BY <1>10 DEF ms, b

(***************************************************************************)
(* No block has more literals than the budget, whichever of the three      *)
(* walks ended it: the record walk may take matches back, but a block that *)
(* ends after an earlier match was within the cap when the literal walk    *)
(* passed it.                                                              *)
(***************************************************************************)
THEOREM LiteralCapHolds == ASSUME CapsFit PROVE Spec => []LiteralCap
  BY CountedInvariance, CountedLiterals, PTL

(***************************************************************************)
(* Where a run of the literal cap's length fits the record budget, the     *)
(* records of a block's matches always leave the reserve of two free,      *)
(* though the record walk never gives up the first match.                  *)
(***************************************************************************)
THEOREM RecordsOfMatchesHold ==
    ASSUME CapsFit, FirstMatchFits
    PROVE  Spec => []RecordsOfMatchesWithinBudget
  BY CountedInvariance, CountedRecords, PTL
=============================================================================
