--------------------------- MODULE BlockSplitter ---------------------------
(***************************************************************************)
(* compressLZFSE (src/lzfse.go): cutting the match list of a whole input   *)
(* into blocks.  One iteration of the code's loop picks a block by the     *)
(* match cap, then pulls its end back for the raw-byte cap, the literal    *)
(* cap and the record budget in turn; each of the three walks the chosen   *)
(* matches one at a time.  A step of this module is one such stage, or one *)
(* match of a walk.                                                        *)
(*                                                                         *)
(* Matches are counted as the code counts them: matchStart of them are     *)
(* already in earlier blocks, and allMatches[k] of the code is Match(k).   *)
(***************************************************************************)
EXTENDS LMDRecords

CONSTANTS
    Inputs,            \* the [n, matches] pairs the front end may hand over
    MaxMValue,         \* bytes per match (2359)
    MatchesPerBlock,   \* matchesPerBlock (10000; a var that tests lower to 10)
    MaxBlockRawBytes,  \* maxBlockRawBytes (1 << 19; a var that tests lower)
    MaxBlockLiterals   \* literalsPerBlock - 8 (39992)

(***************************************************************************)
(* What findMatches returns for n bytes: matches in order, disjoint, inside *)
(* the input.                                                              *)
(***************************************************************************)
MatchList(in) ==
    /\ in.n \in Nat
    /\ in.matches \in Seq([pos : Nat, M : 1 .. MaxMValue, D : Nat \ {0}])
    /\ \A i \in 1 .. Len(in.matches) : in.matches[i].pos + in.matches[i].M <= in.n
    /\ \A i, j \in 1 .. Len(in.matches) :
          i < j => in.matches[i].pos + in.matches[i].M <= in.matches[j].pos

ASSUME InputsAssumption == \A in \in Inputs : MatchList(in)

ASSUME CapsAssumption ==
    /\ MaxMValue \in Nat \ {0}
    /\ MatchesPerBlock \in Nat \ {0}
    /\ MaxBlockRawBytes \in Nat \ {0}
    /\ MaxBlockLiterals \in Nat \ {0}

VARIABLES
    input,          \* the input and its matches: src, allMatches
    start,          \* first byte of the block being chosen
    matchStart,     \* matches in earlier blocks
    blockMatchEnd,  \* end of the chosen matches
    blockEnd,       \* end of the chosen bytes
    cut,            \* the walking index of the current stage
    litPos,         \* end of the match walked last
    lits,           \* literals counted by the literal walk
    recs,           \* records counted by the record walk
    blocks,         \* the blocks in the result
    pc

walk == <<cut, litPos, lits, recs>>
chosen == <<blockMatchEnd, blockEnd>>
vars == <<input, start, matchStart, blockMatchEnd, blockEnd, cut, litPos, lits,
          recs, blocks, pc>>

n == input.n
NMatches == Len(input.matches)
Match(k) == input.matches[k + 1]
MatchEnd(k) == Match(k).pos + Match(k).M

Init ==
    /\ input \in Inputs
    /\ start = 0 /\ matchStart = 0
    /\ blockMatchEnd = 0 /\ blockEnd = 0
    /\ cut = 0 /\ litPos = 0 /\ lits = 0 /\ recs = 0
    /\ blocks = << >>
    /\ pc = "select"
-----------------------------------------------------------------------------
\* Mutant of SelectByMatchCap: the match cap is not clamped to the list.
SelectUnclamped ==
    /\ pc = "select"
    /\ start < n
    /\ LET most == matchStart + MatchesPerBlock
       IN  /\ blockMatchEnd' = most
           /\ blockEnd' = IF most < NMatches THEN Match(most).pos ELSE n
    /\ cut' = matchStart
    /\ litPos' = start /\ lits' = 0 /\ recs' = 0
    /\ pc' = IF blockEnd' - start > MaxBlockRawBytes THEN "raw" ELSE "lit"
    /\ UNCHANGED <<input, start, matchStart, blocks>>

\* The match cap: at most MatchesPerBlock matches, up to the next one's start.
SelectByMatchCap ==
    /\ pc = "select"
    /\ start < n
    /\ LET most == matchStart + MatchesPerBlock
       IN  IF most < NMatches
           THEN blockMatchEnd' = most /\ blockEnd' = Match(most).pos
           ELSE blockMatchEnd' = NMatches /\ blockEnd' = n
    /\ cut' = matchStart
    /\ litPos' = start /\ lits' = 0 /\ recs' = 0
    /\ pc' = IF blockEnd' - start > MaxBlockRawBytes THEN "raw" ELSE "lit"
    /\ UNCHANGED <<input, start, matchStart, blocks>>

\* Match k of the raw-byte walk ends within the cap.
RawFits(k) == MatchEnd(k) - start <= MaxBlockRawBytes

RawWalk ==
    /\ pc = "raw"
    /\ cut < blockMatchEnd /\ RawFits(cut)
    /\ cut' = cut + 1
    /\ UNCHANGED <<input, start, matchStart, chosen, litPos, lits, recs, blocks, pc>>

\* Mutant of RawCut: the block always ends at the cap, match or not.
RawCutAtCap ==
    /\ pc = "raw"
    /\ ~ (cut < blockMatchEnd /\ RawFits(cut))
    /\ blockMatchEnd' = cut
    /\ blockEnd' = start + MaxBlockRawBytes
    /\ cut' = matchStart
    /\ pc' = "lit"
    /\ UNCHANGED <<input, start, matchStart, litPos, lits, recs, blocks>>

\* Pull back to the last match that fits, or to the bare cap if none does.
RawCut ==
    /\ pc = "raw"
    /\ ~ (cut < blockMatchEnd /\ RawFits(cut))
    /\ blockMatchEnd' = cut
    /\ blockEnd' = IF cut > matchStart THEN MatchEnd(cut - 1)
                                       ELSE start + MaxBlockRawBytes
    /\ cut' = matchStart
    /\ pc' = "lit"
    /\ UNCHANGED <<input, start, matchStart, litPos, lits, recs, blocks>>
-----------------------------------------------------------------------------
\* The literal run before match k still fits the literal budget.
LitFits(k) == lits + (Match(k).pos - litPos) <= MaxBlockLiterals

LitWalk ==
    /\ pc = "lit"
    /\ cut < blockMatchEnd /\ LitFits(cut)
    /\ lits' = lits + (Match(cut).pos - litPos)
    /\ litPos' = MatchEnd(cut)
    /\ cut' = cut + 1
    /\ UNCHANGED <<input, start, matchStart, chosen, recs, blocks, pc>>

\* Some match does not fit: end with the last one that does, or with a bare
\* run of exactly the budget.
LitCut ==
    /\ pc = "lit"
    /\ cut < blockMatchEnd /\ ~ LitFits(cut)
    /\ blockMatchEnd' = cut
    /\ blockEnd' = IF cut > matchStart THEN MatchEnd(cut - 1)
                                       ELSE start + MaxBlockLiterals
    /\ cut' = matchStart /\ litPos' = start
    /\ pc' = "rec"
    /\ UNCHANGED <<input, start, matchStart, lits, recs, blocks>>

\* Mutant of LitTail: the run after the last match is left as it is.
LitTailUncut ==
    /\ pc = "lit"
    /\ cut >= blockMatchEnd
    /\ cut' = matchStart /\ litPos' = start
    /\ pc' = "rec"
    /\ UNCHANGED <<input, start, matchStart, chosen, lits, recs, blocks>>

\* All chosen matches fit: the run after the last one is cut to the budget.
LitTail ==
    /\ pc = "lit"
    /\ cut >= blockMatchEnd
    /\ blockEnd' = IF blockEnd - litPos > MaxBlockLiterals - lits
                   THEN litPos + (MaxBlockLiterals - lits) ELSE blockEnd
    /\ cut' = matchStart /\ litPos' = start
    /\ pc' = "rec"
    /\ UNCHANGED <<input, start, matchStart, blockMatchEnd, lits, recs, blocks>>
-----------------------------------------------------------------------------
\* Mutant of Need: one record per match, however long its run.
NeedUnsplit(k) == 1

\* The records match k becomes.
Need(k) == 1 + Splits(Match(k).pos - litPos)

\* recBudget-2: two records are held back for the trailing literal run.
RecFits(k) == recs + Need(k) <= MatchesPerBlock - 2

RecWalk ==
    /\ pc = "rec"
    /\ cut < blockMatchEnd /\ RecFits(cut)
    /\ recs' = recs + Need(cut)
    /\ litPos' = MatchEnd(cut)
    /\ cut' = cut + 1
    /\ UNCHANGED <<input, start, matchStart, chosen, lits, blocks, pc>>

\* Mutant of RecCut: matches are given up, the bytes they cover are not.
RecCutMatchesOnly ==
    /\ pc = "rec"
    /\ ~ (cut < blockMatchEnd /\ RecFits(cut))
    /\ IF cut < blockMatchEnd /\ cut > matchStart
       THEN blockMatchEnd' = cut /\ UNCHANGED blockEnd
       ELSE UNCHANGED chosen
    /\ pc' = "emit"
    /\ UNCHANGED <<input, start, matchStart, walk, blocks>>

\* If the first match alone is over budget the block stays as it was chosen.
RecCut ==
    /\ pc = "rec"
    /\ ~ (cut < blockMatchEnd /\ RecFits(cut))
    /\ IF cut < blockMatchEnd /\ cut > matchStart
       THEN blockMatchEnd' = cut /\ blockEnd' = MatchEnd(cut - 1)
       ELSE UNCHANGED chosen
    /\ pc' = "emit"
    /\ UNCHANGED <<input, start, matchStart, walk, blocks>>

\* A block without matches is stored raw, any other is entropy-coded.
Emit ==
    /\ pc = "emit"
    /\ blocks' = Append(blocks,
          [kind |-> IF blockMatchEnd = matchStart THEN "stored" ELSE "v2",
           from |-> start, to |-> blockEnd,
           first |-> matchStart, last |-> blockMatchEnd])
    /\ start' = blockEnd /\ matchStart' = blockMatchEnd
    /\ pc' = "select"
    /\ UNCHANGED <<input, chosen, walk>>

\* `for start < n` ends and the end-of-stream magic is appended.
EndOfStream ==
    /\ pc = "select"
    /\ start >= n
    /\ pc' = "done"
    /\ UNCHANGED <<input, start, matchStart, chosen, walk, blocks>>

Next ==
    \/ SelectByMatchCap
    \/ RawWalk \/ RawCut
    \/ LitWalk \/ LitCut \/ LitTail
    \/ RecWalk \/ RecCut
    \/ Emit \/ EndOfStream

Spec == Init /\ [][Next]_vars /\ WF_vars(Next)
-----------------------------------------------------------------------------
(***************************************************************************)
(* Type correctness.                                                       *)
(***************************************************************************)
Block == [kind : {"stored", "v2"}, from : Nat, to : Nat, first : Nat, last : Nat]

TypeOK ==
    /\ MatchList(input)
    /\ start \in Nat /\ blockEnd \in Nat /\ litPos \in Nat
    /\ matchStart \in 0 .. NMatches
    /\ blockMatchEnd \in 0 .. NMatches
    /\ cut \in 0 .. NMatches
    /\ lits \in Int /\ recs \in Nat
    /\ blocks \in Seq(Block)
    /\ pc \in {"select", "raw", "lit", "rec", "emit", "done"}

(***************************************************************************)
(* No block boundary falls inside a match: what is left of the match list  *)
(* lies wholly in what is left of the input.  Otherwise the next block's   *)
(* re-based L is negative and src[litPos:m.pos] in encodeBlock panics.     *)
(* Relates the three caps to each other: it is the literal cap, walked     *)
(* after the raw one, that repairs a raw cut through a match.              *)
(***************************************************************************)
NoCutInsideMatch ==
    pc \in {"select", "done"} =>
        \A k \in matchStart .. NMatches - 1 : start <= Match(k).pos

\* What makes the repair work; the production caps satisfy it, the tests'
\* lowered maxBlockRawBytes does not.
CapsFit == MaxBlockLiterals + MaxMValue <= MaxBlockRawBytes

(***************************************************************************)
(* A block contains the matches it was given and no part of another one,   *)
(* blocks follow each other without gap or overlap in bytes and matches,   *)
(* and none is empty; when the loop ends they cover the input.             *)
(***************************************************************************)
BlockHoldsItsMatches(b) ==
    /\ b.from < b.to
    /\ \A k \in b.first .. b.last - 1 : b.from <= Match(k).pos /\ MatchEnd(k) <= b.to
    /\ \A k \in b.last .. NMatches - 1 : b.to <= Match(k).pos

BlocksPartitionInput ==
    /\ \A i \in 1 .. Len(blocks) : BlockHoldsItsMatches(blocks[i])
    /\ \A i \in 1 .. Len(blocks) :
          /\ blocks[i].from = (IF i = 1 THEN 0 ELSE blocks[i - 1].to)
          /\ blocks[i].first = (IF i = 1 THEN 0 ELSE blocks[i - 1].last)
    /\ pc = "done" =>
          /\ start = n
          /\ matchStart = NMatches
          /\ blocks # << >> => blocks[Len(blocks)].to = n

(***************************************************************************)
(* What encodeBlock is given for a block, and the records it makes of it.  *)
(***************************************************************************)
MatchesOf(b) == SubSeq(input.matches, b.first + 1, b.last)
RecordsOf(b) == RawRecords(MatchesOf(b), b.from, b.to)

(***************************************************************************)
(* No entropy-coded block has more literals than the budget, so with up to *)
(* three padding literals it stays within the 40000 literals a reference   *)
(* decoder accepts; no stored block made of a carried run exceeds it.      *)
(***************************************************************************)
LiteralCap ==
    \A i \in 1 .. Len(blocks) :
        LiteralCount(MatchesOf(blocks[i]), blocks[i].from, blocks[i].to)
            <= MaxBlockLiterals

\* Why the record walk, which never gives up a block's first match, still keeps
\* its budget: a run that fits the literal cap needs fewer records than that.
FirstMatchFits == 1 + Splits(MaxBlockLiterals) <= MatchesPerBlock - 2

(***************************************************************************)
(* The records of the matches (long runs split) leave the reserve of two   *)
(* free: what can break the limit is only the run after the last match.    *)
(***************************************************************************)
RecordsOfMatchesWithinBudget ==
    \A i \in 1 .. Len(blocks) :
        LET b == blocks[i]
        IN  b.kind = "v2" =>
              Len(RawRecords(MatchesOf(b), b.from, MatchEnd(b.last - 1)))
                  <= MatchesPerBlock - 2

(***************************************************************************)
(* "This is what guarantees n_matches <= LZFSE_MATCHES_PER_BLOCK in every  *)
(* emitted block" (the comment on the record walk): no emitted block has   *)
(* more records than a decoder accepts.                                    *)
(***************************************************************************)
RecordBudget ==
    \A i \in 1 .. Len(blocks) :
        blocks[i].kind = "v2" => Len(RecordsOf(blocks[i])) <= MatchesPerBlock

(***************************************************************************)
(* The loop as a client sees it: the input is cut into non-empty pieces at *)
(* places where no match is cut, until nothing is left.                    *)
(***************************************************************************)
Abstract == INSTANCE Partition WITH pos <- start, taken <- matchStart

ImplementsPartition == Abstract!Spec
=============================================================================
