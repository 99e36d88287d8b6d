----------------------------- MODULE LMDRecords -----------------------------
(***************************************************************************)
(* What encodeBlock (src/lzfse.go) makes of one block before entropy       *)
(* coding: the list of L,M,D records, the D-reuse transform and the padded *)
(* literals.  A match is [pos, M, D]: M bytes at position pos of the       *)
(* source equal the M bytes D positions earlier.  The match's L, which the *)
(* code carries in the struct and re-bases for every block, is the         *)
(* distance from the end of the previous match (or from the block's start) *)
(* and is computed here where it is used.                                  *)
(***************************************************************************)
EXTENDS Integers, Sequences, FiniteSetsExt, SequencesExt

CONSTANT MaxLValue   \* the longest literal run one record can carry (315)

ASSUME MaxLValueAssumption == MaxLValue \in Nat \ {0}

EndOf(m) == m.pos + m.M

\* How often `for L > maxLValue { L -= maxLValue }` iterates.
Splits(L) == IF L > MaxLValue THEN (L - 1) \div MaxLValue ELSE 0

\* A literal run of length L closed by a match of length M at distance D: the
\* full runs come first, as M = 0 records that carry the match's D.
RunRecords(L, M, D) ==
    [i \in 1 .. Splits(L) |-> [L |-> MaxLValue, M |-> 0, D |-> D]]
        \o << [L |-> L - Splits(L) * MaxLValue, M |-> M, D |-> D] >>

\* The position the literal run before match i of ms starts at.
RunStart(ms, from, i) == IF i = 1 THEN from ELSE EndOf(ms[i - 1])

\* Mutant of RawRecords: the run after the last match is forgotten.
RecordsWithoutTail(ms, from, to) ==
    FlattenSeq([i \in 1 .. Len(ms) |->
        RunRecords(ms[i].pos - RunStart(ms, from, i), ms[i].M, ms[i].D)])

\* The records of the block [from, to) with matches ms, before D reuse.  A
\* trailing run becomes records of its own with M = 0, D = 1.
RawRecords(ms, from, to) ==
    LET last == RunStart(ms, from, Len(ms) + 1)
        perMatch == [i \in 1 .. Len(ms) |->
                       RunRecords(ms[i].pos - RunStart(ms, from, i), ms[i].M, ms[i].D)]
    IN  FlattenSeq(perMatch)
          \o (IF to > last THEN RunRecords(to - last, 0, 1) ELSE << >>)

\* `emit 0 when D matches lastD`, lastD starting at 0 in every block.  lastD
\* is always the D of the record before, so no state has to be carried.
ReuseD(recs) ==
    [i \in 1 .. Len(recs) |->
        [recs[i] EXCEPT !.D = IF @ = (IF i = 1 THEN 0 ELSE recs[i - 1].D)
                              THEN 0 ELSE @]]

BlockRecords(ms, from, to) == ReuseD(RawRecords(ms, from, to))

\* The positions of the literals of the block: the run before every match and
\* the run after the last.
Stretch(b, e) == [k \in 1 .. e - b |-> b + k - 1]

LiteralPositions(ms, from, to) ==
    FlattenSeq([i \in 1 .. Len(ms) |-> Stretch(RunStart(ms, from, i), ms[i].pos)])
      \o Stretch(RunStart(ms, from, Len(ms) + 1), to)

\* The same count without listing them, for blocks whose matches lie inside.
LiteralCount(ms, from, to) ==
    (to - from) - SumFunction([i \in 1 .. Len(ms) |-> ms[i].M])

\* Mutant of Padded: the literals are not padded.
Unpadded(n, lanes) == n

\* n_literals of the header: padded up to a multiple of Lanes (4).
Padded(n, lanes) == ((n + lanes - 1) \div lanes) * lanes
=============================================================================
