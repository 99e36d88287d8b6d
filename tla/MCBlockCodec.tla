---------------------------- MODULE MCBlockCodec ----------------------------
(***************************************************************************)
(* TLC instance of BlockCodec: every list of disjoint matches over N bytes *)
(* with lengths in Lengths and every distance to an earlier byte that is   *)
(* in Distances.                                                           *)
(***************************************************************************)
EXTENDS BlockCodec

CONSTANTS N, Lengths, Distances

ListsFrom[p \in 0 .. N] ==
    IF p = N THEN { << >> }
    ELSE ListsFrom[p + 1] \cup
         UNION { { << [pos |-> p, M |-> m, D |-> d] >> \o l : l \in ListsFrom[p + m] }
                 : m \in {m \in Lengths : p + m <= N},
                   d \in {d \in Distances : d <= p} }

MCInputs == { [n |-> N, matches |-> l] : l \in ListsFrom[0] }

MCBytes == 0 .. N

NoFrames == {}
=============================================================================
