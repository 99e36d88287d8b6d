--------------------------- MODULE MCBlockDecoder ---------------------------
(***************************************************************************)
(* TLC instance of BlockDecoder: streams of blocks whose records have      *)
(* nothing to do with their literals or their declared size.  The lengths  *)
(* lie below, at and above the width of a fixed copy (2), the distances    *)
(* are absent, overlapping and plain, and too far for the first block.     *)
(***************************************************************************)
EXTENDS BlockDecoder

MCBytes == {0, 1}

Records(Ls, Ms, Ds) == [L : Ls, M : Ms, D : Ds]

RecordLists ==
    { << >> }
      \cup { <<r>> : r \in Records({0, 1, 3}, {0, 1, 3}, {0, 1, 2}) }
      \cup { <<r, s>> : r \in Records({1, 2}, {0, 2}, {1, 2}),
                        s \in Records({0, 2}, {1, 3}, {0, 3}) }
      \cup { <<r, r, r>> : r \in Records({1}, {0}, {1}) }

LiteralLists == { << >>, <<1>>, <<1, 1, 0, 1>>, <<1, 1, 1, 1, 1, 1>> }

Produced(recs) == FoldLeft(LAMBDA sum, r : sum + r.L + r.M, 0, recs)

CompressedFrames ==
    UNION { { [kind |-> "v2", nRaw |-> declared, literals |-> lits, recs |-> recs] :
                declared \in {0, Produced(recs), Produced(recs) + 1} } :
            recs \in RecordLists, lits \in LiteralLists }

StoredFrames ==
    { [kind |-> "stored", nRaw |-> Len(lits), literals |-> lits, recs |-> << >>] :
        lits \in LiteralLists }

MCFrames == CompressedFrames \cup StoredFrames
=============================================================================
