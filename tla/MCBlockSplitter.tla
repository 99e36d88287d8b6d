-------------------------- MODULE MCBlockSplitter --------------------------
(***************************************************************************)
(* TLC instance of BlockSplitter: every list of disjoint matches over an   *)
(* input of N bytes with lengths in Lengths.  Distances do not influence   *)
(* the splitting, so every match has the same one.                         *)
(***************************************************************************)
EXTENDS BlockSplitter

CONSTANTS N, Lengths

ListsFrom[p \in 0 .. N] ==
    IF p = N THEN { << >> }
    ELSE ListsFrom[p + 1] \cup
         UNION { { << [pos |-> p, M |-> m, D |-> 1] >> \o l : l \in ListsFrom[p + m] }
                 : m \in {m \in Lengths : p + m <= N} }

MCInputs == { [n |-> N, matches |-> l] : l \in ListsFrom[0] }
=============================================================================
