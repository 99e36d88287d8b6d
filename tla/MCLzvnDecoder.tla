--------------------------- MODULE MCLzvnDecoder ---------------------------
(***************************************************************************)
(* TLC instance of LzvnDecoder with the code's own constants: every        *)
(* payload of up to MaxItems items out of an opcode of each kind, small    *)
(* operands and the largest one, and each of them after a first match.     *)
(***************************************************************************)
EXTENDS LzvnDecoder

CONSTANT MaxItems

Items ==
    { 0,      \* sml_d without literals, D < 256; operand 0
      1, 3,   \* sml_d, D >= 256; small operands
      6, 14,  \* eos, nop
      64 + 6, \* pre_d with one literal
      72,     \* sml_d with one literal, M = 4
      128 + 7,\* lrg_d with two literals
      168,    \* med_d with one literal
      224, 226, 240, 242, \* lrg_l, sml_l, lrg_m, sml_m
      255,    \* sml_m; the largest operand
      Lit(0) }\* a literal of any value

\* Alone, and (one item shorter) behind a first match, which leaves a distance
\* to come back to.
UpTo(most) == UNION { [1 .. k -> Items] : k \in 1 .. most }
FirstMatch == <<72, 1, 0>>

MCPayloads == UpTo(MaxItems) \cup { FirstMatch \o p : p \in UpTo(MaxItems - 1) }
=============================================================================
