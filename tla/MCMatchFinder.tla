--------------------------- MODULE MCMatchFinder ---------------------------
(***************************************************************************)
(* TLC instance of MatchFinder: every source over Alphabet of the given    *)
(* lengths.                                                                *)
(***************************************************************************)
EXTENDS MatchFinder

CONSTANTS Alphabet, Lengths

MCSources == UNION { [1 .. k -> Alphabet] : k \in Lengths }

\* Words of different values share a bucket, as in the code.
MCHash(word) == word[0]
=============================================================================
