----------------------------- MODULE MatchFinder -----------------------------
(***************************************************************************)
(* findMatches (src/lzfse.go): one pass over the input that keeps a hash   *)
(* table of positions and at most one match pending.  An iteration of the  *)
(* loop is two steps here: Insert (table and expired match), then one of   *)
(* the ways the search at that position can end.                           *)
(*                                                                         *)
(* The table is the set of inserted positions: a bucket holds the last     *)
(* Ways of them with its hash, and zeroed entries (position 0, value 0)    *)
(* where it was never filled.  A match is [pos, M, D]; the L of the code   *)
(* is not kept, compressLZFSE computes it anew for every block.            *)
(***************************************************************************)
EXTENDS Integers, Sequences, FiniteSets, SequencesExt

CONSTANTS
    Sources,     \* the inputs, sequences of bytes
    Hash(_),     \* lzfseHash of the four bytes at a position
    Ways,        \* encodeHashWidth (4)
    GoodMatch,   \* encodeGoodMatch (40): emitted at once
    MaxMValue,   \* the longest match of one record (2359)
    MaxDValue,   \* the largest distance (262139)
    Margin       \* positions at the end that are not searched (8)

ASSUME FinderAssumption ==
    /\ Ways \in Nat \ {0} /\ GoodMatch \in Nat /\ MaxDValue \in Nat
    /\ GoodMatch >= 4 /\ MaxMValue \in Nat /\ MaxMValue >= GoodMatch
    /\ Margin \in Nat /\ Margin >= 4
    /\ \A s \in Sources : Len(s) \in Nat

VARIABLES
    src,        \* the input
    i,          \* the position looked at
    inserted,   \* positions in the hash table
    litStart,   \* end of the match emitted last
    pending,    \* the match held back, or NoMatch
    matches,    \* the matches emitted
    pc

vars == <<src, i, inserted, litStart, pending, matches, pc>>

n == Len(src)
Byte(p) == src[p + 1]
Word(p) == [b \in 0 .. 3 |-> Byte(p + b)]
EndOf(m) == m.pos + m.M

NoMatch == [pos |-> 0, M |-> 0, D |-> 0]

Init ==
    /\ src \in Sources
    /\ i = 0 /\ inserted = {} /\ litStart = 0
    /\ pending = NoMatch /\ matches = << >>
    /\ pc = IF n < 4 THEN "done" ELSE "insert"
-----------------------------------------------------------------------------
\* The entries of i's bucket: the newest Ways positions with i's hash.
Bucket == {j \in inserted \ {i} :
             /\ Hash(Word(j)) = Hash(Word(i))
             /\ Cardinality({o \in inserted \ {i} :
                    o > j /\ Hash(Word(o)) = Hash(Word(i))}) < Ways}

\* Entries whose value equals the word at i; a zeroed entry equals the zero word.
Equal == {j \in Bucket : Word(j) = Word(i)}
    \cup (IF Cardinality(Bucket) < Ways /\ Word(i) = [b \in 0 .. 3 |-> 0]
          THEN {0} ELSE {})

Least(a, b) == IF a < b THEN a ELSE b

\* Mutant of MatchLength: no cap.
MatchLengthUncapped(j) ==
    CHOOSE M \in 0 .. n - i :
        /\ \A k \in 0 .. M - 1 : Byte(i + k) = Byte(j + k)
        /\ M < n - i => Byte(i + M) # Byte(j + M)

\* Mutant of MatchLength: equal table values are taken for four equal bytes.
MatchLengthFromValue(j) ==
    CHOOSE M \in 4 .. Least(n - i, MaxMValue) :
        /\ \A k \in 4 .. M - 1 : Byte(i + k) = Byte(j + k)
        /\ M < Least(n - i, MaxMValue) => Byte(i + M) # Byte(j + M)

\* Extend match: as many equal bytes as there are, up to MaxMValue.
MatchLength(j) ==
    CHOOSE M \in 0 .. Least(n - i, MaxMValue) :
        /\ \A k \in 0 .. M - 1 : Byte(i + k) = Byte(j + k)
        /\ M < Least(n - i, MaxMValue) => Byte(i + M) # Byte(j + M)

Candidates == { m \in { [pos |-> i, M |-> MatchLength(j), D |-> i - j] : j \in Equal } :
                  m.D > 0 /\ m.D <= MaxDValue /\ m.M >= 3 }

\* The longest, and among those the nearest.
Beats(a, b) == a.M > b.M \/ (a.M = b.M /\ a.D < b.D)

Best == IF Candidates = {} THEN NoMatch
        ELSE CHOOSE m \in Candidates : \A o \in Candidates : ~ Beats(o, m)
-----------------------------------------------------------------------------
\* Mutant of Insert: a pending match that ends just here is kept.
InsertLate ==
    /\ pc = "insert" /\ i < n - Margin
    /\ inserted' = inserted \cup {i}
    /\ IF pending # NoMatch /\ i > EndOf(pending)
       THEN /\ matches' = Append(matches, pending)
            /\ litStart' = EndOf(pending) /\ pending' = NoMatch
       ELSE UNCHANGED <<matches, litStart, pending>>
    /\ pc' = "search"
    /\ UNCHANGED <<src, i>>

\* The top of an iteration: the position enters the table, and a pending match
\* that ends at or before it is emitted.
Insert ==
    /\ pc = "insert" /\ i < n - Margin
    /\ inserted' = inserted \cup {i}
    /\ IF pending # NoMatch /\ i >= EndOf(pending)
       THEN /\ matches' = Append(matches, pending)
            /\ litStart' = EndOf(pending) /\ pending' = NoMatch
       ELSE UNCHANGED <<matches, litStart, pending>>
    /\ pc' = "search"
    /\ UNCHANGED <<src, i>>

Search == pc = "search"

Advance == i' = i + 1 /\ pc' = "insert" /\ UNCHANGED <<src, inserted>>

\* Inside the match emitted last, or no match of three bytes.
NothingHere ==
    /\ Search /\ (i < litStart \/ Best = NoMatch)
    /\ Advance
    /\ UNCHANGED <<litStart, pending, matches>>

FoundHere == Search /\ i >= litStart /\ Best # NoMatch

\* A first match, or one better than the pending one, becomes pending.
Hold ==
    /\ FoundHere /\ Best.M < GoodMatch
    /\ pending = NoMatch \/ Beats(Best, pending)
    /\ pending' = Best
    /\ Advance
    /\ UNCHANGED <<litStart, matches>>

\* Mutant of EmitPending: the match found becomes pending all the same.
EmitAndHold ==
    /\ FoundHere /\ Best.M < GoodMatch
    /\ pending # NoMatch /\ ~ Beats(Best, pending)
    /\ matches' = Append(matches, pending)
    /\ litStart' = EndOf(pending) /\ pending' = Best
    /\ Advance

\* The pending match is as good: it is emitted and the one found dropped.
EmitPending ==
    /\ FoundHere /\ Best.M < GoodMatch
    /\ pending # NoMatch /\ ~ Beats(Best, pending)
    /\ matches' = Append(matches, pending)
    /\ litStart' = EndOf(pending) /\ pending' = NoMatch
    /\ Advance

\* A good match is emitted at once and the search goes on behind it, whatever
\* was pending before: emitted if it was as good, forgotten if not.
EmitGood ==
    /\ FoundHere /\ Best.M >= GoodMatch
    /\ LET kept == IF pending = NoMatch \/ Beats(Best, pending) THEN << >> ELSE <<pending>>
       IN  matches' = matches \o kept \o <<Best>>
    /\ litStart' = EndOf(Best) /\ pending' = NoMatch
    /\ i' = EndOf(Best) /\ pc' = "insert"
    /\ UNCHANGED <<src, inserted>>

\* The loop ends; a match still pending is emitted.
Finish ==
    /\ pc = "insert" /\ i >= n - Margin
    /\ IF pending # NoMatch
       THEN /\ matches' = Append(matches, pending)
            /\ litStart' = EndOf(pending) /\ pending' = NoMatch
       ELSE UNCHANGED <<matches, litStart, pending>>
    /\ pc' = "done"
    /\ UNCHANGED <<src, i, inserted>>

Next == Insert \/ NothingHere \/ Hold \/ EmitPending \/ EmitGood \/ Finish

Spec == Init /\ [][Next]_vars /\ WF_vars(Next)
-----------------------------------------------------------------------------
(***************************************************************************)
(* Type correctness: lengths and distances fit the symbol tables.          *)
(***************************************************************************)
Found == [pos : 0 .. n, M : 3 .. MaxMValue, D : 1 .. MaxDValue]

TypeOK ==
    /\ src \in Sources /\ i \in 0 .. n /\ inserted \subseteq 0 .. n
    /\ litStart \in 0 .. n
    /\ pending \in Found \cup {NoMatch}
    /\ matches \in Seq(Found)
    /\ pc \in {"insert", "search", "done"}

(***************************************************************************)
(* The matches emitted and the one pending follow each other without       *)
(* overlap and end inside the input: what the splitter and the block       *)
(* encoder take for granted of the list they are given (MatchList), though *)
(* a match is dropped, replaced or emitted late while the scan moves on.   *)
(***************************************************************************)
Listed == IF pending = NoMatch THEN matches ELSE Append(matches, pending)

MatchesDisjoint ==
    \A k \in 1 .. Len(Listed) :
        /\ EndOf(Listed[k]) <= n
        /\ k > 1 => EndOf(Listed[k - 1]) <= Listed[k].pos

(***************************************************************************)
(* Every match copies what it says: its bytes equal those D before it,     *)
(* although the table entry that led to it may be a zeroed one, or stand   *)
(* for another word of the same hash.                                      *)
(***************************************************************************)
MatchesCopy ==
    \A k \in 1 .. Len(Listed) :
        LET m == Listed[k]
        IN  /\ m.D <= m.pos
            /\ \A p \in m.pos .. EndOf(m) - 1 : Byte(p) = Byte(p - m.D)

(***************************************************************************)
(* A pending match is never left behind: while one is held, the scan is    *)
(* inside it or just at its end, and it starts after what was emitted.  A  *)
(* good match never waits, so one found while another is pending always    *)
(* replaces it and nothing emitted is overlapped.                          *)
(***************************************************************************)
PendingInReach ==
    pending # NoMatch =>
        /\ litStart <= pending.pos
        /\ pending.M < GoodMatch
        /\ i <= EndOf(pending) /\ pending.pos <= i
=============================================================================
