----------------------------- MODULE LzvnCodec -----------------------------
(***************************************************************************)
(* The LZVN encoder and decoder of src/lzvn.go in sequence: a source is    *)
(* encoded, and its stream is decoded into a buffer of its size.           *)
(***************************************************************************)
EXTENDS LzvnEncoder, LzvnDecoder

vars == <<encoderVars, decoderVars>>

Init ==
    /\ EncoderInit
    /\ stream = << >> /\ dEnd = 0 /\ spos = 0 /\ dpos = 0 /\ dst = << >> /\ dPrev = 0
    /\ pc = "idle"

\* DecompressLZVN is called with the finished stream and the size it needs.
Hand ==
    /\ phase = "done" /\ pc = "idle"
    /\ stream' = dstE /\ dEnd' = srcEnd
    /\ pc' = "opcode"
    /\ UNCHANGED <<encoderVars, spos, dpos, dst, dPrev>>

Next ==
    \/ Encode /\ UNCHANGED decoderVars
    \/ Hand
    \/ Decode /\ UNCHANGED encoderVars

Spec == Init /\ [][Next]_vars /\ WF_vars(Next)
-----------------------------------------------------------------------------
\* The i-th byte written is a literal byte and the source's i-th.
Written(i) == IsLiteral(dst[i]) /\ Byte(PositionOf(dst[i])) = src[i]

WithinRuns == longest.match <= MaxRun /\ longest.trailing <= MaxRun

(***************************************************************************)
(* Type correctness.                                                       *)
(***************************************************************************)
TypeOK ==
    /\ src \in Sources
    /\ srcLiteral \in 0 .. srcEnd /\ srcCurrent \in 0 .. srcEnd
    /\ lastD \in 0 .. MaxDistance /\ dPrev \in Nat
    /\ pending.M \in 0 .. srcEnd /\ pending.mEnd \in 0 .. srcEnd
    /\ dstE \in Seq(Nat) /\ stream \in Seq(Nat) /\ dst \in Seq(Nat)
    /\ spos \in Nat /\ dpos \in Nat /\ dEnd \in {0, srcEnd}
    /\ phase \in {"encode", "flush", "done"}
    /\ pc \in {"idle", "opcode", "done", "out of step"} \cup Rejected

(***************************************************************************)
(* The match held back lies ahead of everything emitted, so emitting it    *)
(* later, after the literals have grown or a full run went out, never      *)
(* means a negative literal length (lzvnEmitMatch slices without a check). *)
(***************************************************************************)
PendingAhead ==
    pending # NoMatch => /\ srcLiteral <= pending.mBegin
                         /\ pending.mBegin < pending.mEnd
                         /\ pending.D <= pending.mBegin
                         /\ \A q \in pending.mBegin .. pending.mEnd - 1 :
                               Byte(q) = Byte(q - pending.D)

(***************************************************************************)
(* Unless a literal run was longer than its opcode can say, the stream     *)
(* decodes to the source: no opcode is misread, none is rejected, what is  *)
(* written at any moment is the source's beginning, and at the end all of  *)
(* it.                                                                     *)
(***************************************************************************)
RoundTrip ==
    WithinRuns =>
        /\ pc \in {"idle", "opcode", "done"}
        /\ \A i \in 1 .. dpos : Written(i)
        /\ pc = "done" => dpos = srcEnd

(***************************************************************************)
(* Encoder and decoder agree on the previous distance at the end of every  *)
(* stream, which opcodes without a distance rely on.                       *)
(***************************************************************************)
SameDistance == WithinRuns /\ pc = "done" => dPrev = lastD

(***************************************************************************)
(* The longest literal run between matches exceeds the cap by at most one, *)
(* and the trailing run by at most the margin and one: the bounds within   *)
(* which the two violated properties below fail.                           *)
(***************************************************************************)
RunsBounded ==
    /\ longest.match <= MaxBacklog + 1
    /\ longest.trailing <= MaxBacklog + MinMargin + 1

(***************************************************************************)
(* "Callers (lzvnEmitLiteral / lzvnEncodeBuffer's trailing emit) always    *)
(* pass L <= 271" (src/lzvn.go, lzvnEmitLiteralBytes).                     *)
(***************************************************************************)
TrailingRunWithinCap == longest.trailing <= MaxRun

(***************************************************************************)
(* "callers cap L at the backlog limit (271)" (src/lzvn.go, lzvnEmitLMD).  *)
(***************************************************************************)
MatchRunWithinCap == longest.match <= MaxRun
=============================================================================
