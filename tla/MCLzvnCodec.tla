---------------------------- MODULE MCLzvnCodec ----------------------------
(***************************************************************************)
(* TLC instance of LzvnCodec: every source over Alphabet up to the given   *)
(* lengths, scaled so that the literal cap is reached within it.           *)
(***************************************************************************)
EXTENDS LzvnCodec

CONSTANTS Alphabet, Lengths

MCSources == UNION { [1 .. n -> Alphabet] : n \in Lengths }

\* A hash with collisions, which cost bucket entries as in the code.
MCHash(bytes) == <<bytes[1], bytes[2] = bytes[3]>>

NoPayloads == {}
=============================================================================
