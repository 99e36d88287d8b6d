----------------------------- MODULE Partition -----------------------------
(***************************************************************************)
(* What splitting an input into blocks promises: pieces are cut off the    *)
(* front, never empty, never through a match, until nothing is left.       *)
(***************************************************************************)
EXTENDS Integers, Sequences

VARIABLES
    input,   \* the [n, matches] pair being split, any at all
    pos,     \* bytes already cut off
    taken    \* matches already cut off

vars == <<input, pos, taken>>

M(k) == input.matches[k + 1]

Init == pos = 0 /\ taken = 0

Cut(to, k) ==
    /\ \A i \in taken .. k - 1 : pos <= M(i).pos /\ M(i).pos + M(i).M <= to
    /\ \A i \in k .. Len(input.matches) - 1 : to <= M(i).pos
    /\ pos' = to /\ taken' = k
    /\ UNCHANGED input

Next == \E to \in pos + 1 .. input.n, k \in taken .. Len(input.matches) : Cut(to, k)

Spec == Init /\ [][Next]_vars /\ WF_vars(Next)
=============================================================================
