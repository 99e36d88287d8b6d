--------------------------- MODULE BoundedOutput ---------------------------
(***************************************************************************)
(* What a caller of DecompressLimit relies on, whatever the input is:      *)
(* output is delivered piece by piece and never beyond the limit, and the  *)
(* call returns, with what was delivered or with an error.                 *)
(***************************************************************************)
EXTENDS Integers

VARIABLES limit, delivered, verdict

bovars == <<limit, delivered, verdict>>

Init == limit \in Nat /\ delivered = 0 /\ verdict = "running"

Deliver ==
    /\ verdict = "running"
    /\ \E n \in 1 .. limit - delivered : delivered' = delivered + n
    /\ UNCHANGED <<limit, verdict>>

Return ==
    /\ verdict = "running"
    /\ verdict' \in {"ok", "malformed", "too large"}
    /\ UNCHANGED <<limit, delivered>>

Next == Deliver \/ Return

Spec == Init /\ [][Next]_bovars /\ WF_bovars(Next)
=============================================================================
