----------------------------- MODULE BlockCodec -----------------------------
(***************************************************************************)
(* encodeBlock composed with the block decoder.  The input is cut into     *)
(* blocks in every way Partition allows, of which compressLZFSE's is one   *)
(* (BlockSplitter implements Partition); each piece is encoded as          *)
(* encodeBlock or storedBlock do and handed to BlockDecoder.  The entropy  *)
(* coding between the two is lossless and left out.                        *)
(*                                                                         *)
(* The bytes of the source are taken as different as its matches allow:    *)
(* position p holds p itself unless a match covers it, and then what the   *)
(* match copies.  Any other source with these matches is an image of it.   *)
(***************************************************************************)
EXTENDS BlockDecoder, LMDRecords

CONSTANT Inputs   \* the [n, matches] pairs, see MatchList

(***************************************************************************)
(* The match list of n bytes: in order, disjoint, each copying from before *)
(* itself.                                                                 *)
(***************************************************************************)
MatchList(in) ==
    /\ in.n \in Nat
    /\ in.matches \in Seq([pos : Nat, M : Nat, D : Nat])
    /\ \A i \in 1 .. Len(in.matches) :
         LET m == in.matches[i]
         IN  /\ m.M \in 1 .. MaxMValue /\ m.D \in 1 .. m.pos
             /\ EndOf(m) <= in.n
             /\ i > 1 => EndOf(in.matches[i - 1]) <= m.pos

\* The limit admits the source, whose bytes are positions.
ASSUME CodecAssumption ==
    \A in \in Inputs : MatchList(in) /\ in.n <= MaxOut /\ 0 .. in.n - 1 \subseteq Bytes

VARIABLES
    input,   \* the source and its matches
    pos,     \* bytes of the source encoded
    taken    \* matches encoded

encoderVars == <<input, pos, taken>>
vars == <<encoderVars, decoderVars>>

Splitting == INSTANCE Partition

Covering(p) == {i \in 1 .. Len(input.matches) :
                  p \in input.matches[i].pos .. EndOf(input.matches[i]) - 1}

\* The byte at position p of the source.
Source[p \in 0 .. input.n - 1] ==
    IF Covering(p) = {} THEN p
    ELSE Source[p - input.matches[CHOOSE i \in Covering(p) : TRUE].D]

\* storedBlock for a piece without matches, encodeBlock for any other.
Encode(to, k) ==
    LET ms == SubSeq(input.matches, taken + 1, k)
        lits == LiteralPositions(ms, pos, to)
    IN  IF k = taken
        THEN [kind |-> "stored", nRaw |-> to - pos, recs |-> << >>,
              literals |-> [i \in 1 .. to - pos |-> Source[pos + i - 1]]]
        ELSE [kind |-> "v2", nRaw |-> to - pos, recs |-> BlockRecords(ms, pos, to),
              literals |-> [i \in 1 .. Padded(Len(lits), Lanes) |->
                              IF i <= Len(lits) THEN Source[lits[i]] ELSE Zero]]

(***************************************************************************)
(* What the splitter's budgets are for: as many literals and records as a  *)
(* header may declare.  BlockSplitter shows that it keeps the literals     *)
(* within them, and the records but for a long run after the last match.   *)
(***************************************************************************)
WithinBudgets(f) ==
    f.kind = "v2" => Len(f.literals) <= LiteralsPerBlock /\ Len(f.recs) <= RecordsPerBlock

CodecInit == Init /\ input \in Inputs /\ pos = 0 /\ taken = 0

Transfer ==
    /\ pc = "block"
    /\ \E to \in pos + 1 .. input.n, k \in taken .. Len(input.matches) :
          /\ Splitting!Cut(to, k)
          /\ LET f == Encode(to, k) IN WithinBudgets(f) /\ (Stored(f) \/ Compressed(f))

Decode == (DecodeRecord \/ RejectRecord \/ EndBlock) /\ UNCHANGED encoderVars

Finish == pos = input.n /\ EndOfStream /\ UNCHANGED encoderVars

CodecNext == Transfer \/ Decode \/ Finish

CodecSpec == CodecInit /\ [][CodecNext]_vars /\ WF_vars(CodecNext)
-----------------------------------------------------------------------------
(***************************************************************************)
(* The bytes written so far are the source's: after every record, across   *)
(* block boundaries, whatever the fixed copies wrote beyond di.  Also the  *)
(* decoder never refuses what the encoder wrote.                           *)
(***************************************************************************)
DecodedIsSource ==
    /\ pc \notin Failed
    /\ \A p \in 0 .. di - 1 : out.mem[p + 1] = Source[p]

(***************************************************************************)
(* The literals and the records of a block use each other up exactly: at   *)
(* every record boundary as many literals are used as the source has       *)
(* uncovered positions so far in the block, so only padding remains when   *)
(* the last record is done.                                                *)
(***************************************************************************)
LiteralsInStep ==
    pc = "records" =>
        /\ litPos = Cardinality({p \in blockStart .. di - 1 : Covering(p) = {}})
        /\ rec = Len(frame.recs) => Len(Literals) - litPos \in 0 .. Lanes - 1

(***************************************************************************)
(* The decoder's distance after a record is the distance the encoder meant *)
(* for it, although the encoder sends a distance only when it changes and  *)
(* split runs and trailing runs carry distances of their own.              *)
(***************************************************************************)
DistancesAgree ==
    pc = "records" /\ rec > 0 =>
        D = RawRecords(SubSeq(input.matches,
                  1 + Cardinality({i \in 1 .. taken : input.matches[i].pos < blockStart}),
                  taken), blockStart, pos)[rec].D

(***************************************************************************)
(* Every source is eventually delivered whole.                             *)
(***************************************************************************)
Delivered == <>(pc = "done" /\ out.len = input.n)
=============================================================================
