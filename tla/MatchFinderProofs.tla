-------------------------- MODULE MatchFinderProofs --------------------------
(***************************************************************************)
(* Safety of MatchFinder for every set of inputs, every hash function and  *)
(* every setting of its constants, by one inductive invariant.             *)
(***************************************************************************)
EXTENDS MatchFinder, LibraryLemmas

(***************************************************************************)
(* A match that may be listed: typed, inside the input, a true copy.       *)
(***************************************************************************)
Copies(m) ==
    /\ m.D <= m.pos
    /\ \A p \in m.pos .. EndOf(m) - 1 : Byte(p) = Byte(p - m.D)

Good(m) == m \in Found /\ EndOf(m) <= n /\ Copies(m)

(***************************************************************************)
(* The inductive invariant.  Emitted is MatchesDisjoint and MatchesCopy of *)
(* what is emitted, for any two matches, and that nothing emitted ends     *)
(* behind litStart; Held is PendingInReach, and that a search only takes   *)
(* place strictly inside the match held.                                   *)
(***************************************************************************)
Scanning ==
    /\ src \in Sources /\ i \in 0 .. n /\ inserted \subseteq 0 .. n
    /\ litStart \in 0 .. n
    /\ pc \in {"insert", "search", "done"}
    /\ pc = "search" => i < n - Margin

Emitted ==
    /\ matches \in Seq(Found)
    /\ \A k \in 1 .. Len(matches) :
         /\ Good(matches[k]) /\ EndOf(matches[k]) <= litStart
         /\ \A j \in 1 .. k - 1 : EndOf(matches[j]) <= matches[k].pos

Held ==
    pending # NoMatch =>
        /\ Good(pending)
        /\ litStart <= pending.pos /\ pending.M < GoodMatch
        /\ pending.pos <= i /\ i <= EndOf(pending)
        /\ pc = "search" => i < EndOf(pending)

IInv == Scanning /\ Emitted /\ Held

-----------------------------------------------------------------------------
(* The search at one position *)

LEMMA LengthIsNat == ASSUME src \in Sources PROVE n \in Nat
  BY FinderAssumption DEF n

\* No match is not a match.
LEMMA FoundIsMatch ==
    ASSUME NEW m \in Found, src \in Sources
    PROVE  /\ m.pos \in Nat /\ m.M \in Nat /\ m.D \in Nat
           /\ 3 <= m.M /\ m.M <= MaxMValue /\ 1 <= m.D /\ m.D <= MaxDValue
           /\ EndOf(m) = m.pos + m.M /\ m # NoMatch
  BY FinderAssumption, LengthIsNat DEF Found, EndOf, NoMatch

\* The extension loop stops at the first byte that differs or at the cap.
LEMMA MatchLengthFacts ==
    ASSUME Scanning, NEW j
    PROVE  /\ MatchLength(j) \in Nat
           /\ MatchLength(j) <= n - i /\ MatchLength(j) <= MaxMValue
           /\ \A k \in 0 .. MatchLength(j) - 1 : Byte(i + k) = Byte(j + k)
<1> DEFINE top == Least(n - i, MaxMValue)
           T == {M \in 0 .. top : M < top => Byte(i + M) # Byte(j + M)}
<1>1. /\ top \in Nat /\ top <= n - i /\ top <= MaxMValue
      /\ n - i \in Nat /\ MaxMValue \in Nat
  BY LengthIsNat, FinderAssumption DEF Scanning, Least
<1> HIDE DEF top
<1>2. top \in T
  BY <1>1
<1>3. PICK M \in T : \A y \in T : M <= y
  <2>1. T \subseteq Nat
    <3>1. top \in Nat
      BY <1>1
    <3> QED
      BY <3>1
  <2>2. T # {}
    BY <1>2
  <2> HIDE DEF T
  <2> QED
    BY <2>1, <2>2, Smallest
<1>4. ASSUME NEW k \in 0 .. M - 1 PROVE Byte(i + k) = Byte(j + k)
  <2>1. k \in 0 .. top /\ ~ (M <= k)
    BY <1>1, <1>3
  <2> QED
    BY <1>3, <2>1
<1>5. /\ M \in 0 .. top
      /\ \A k \in 0 .. M - 1 : Byte(i + k) = Byte(j + k)
      /\ M < top => Byte(i + M) # Byte(j + M)
  BY <1>3, <1>4
<1>6. /\ MatchLength(j) \in 0 .. top
      /\ \A k \in 0 .. MatchLength(j) - 1 : Byte(i + k) = Byte(j + k)
  BY <1>5 DEF MatchLength, top
<1> DEFINE L == MatchLength(j)
<1>7. L \in 0 .. top
  BY <1>6
<1> HIDE DEF L
<1>8. L \in Nat /\ L <= n - i /\ L <= MaxMValue
  BY <1>1, <1>7
<1> QED
  BY <1>6, <1>8 DEF L

\* Every candidate is a match at i, whatever table entry it came from: a
\* zeroed entry stands for position 0, and is extended from there byte by byte.
LEMMA CandidateIsGood ==
    ASSUME Scanning, NEW m \in Candidates
    PROVE  Good(m) /\ m.pos = i
<1>1. PICK j \in Equal : m = [pos |-> i, M |-> MatchLength(j), D |-> i - j]
  BY DEF Candidates
<1>2. m.D > 0 /\ m.D <= MaxDValue /\ m.M >= 3
  BY DEF Candidates
<1>3. j \in Nat /\ n \in Nat /\ i \in Nat /\ i <= n /\ MaxDValue \in Nat /\ MaxMValue \in Nat
  BY LengthIsNat, FinderAssumption DEF Equal, Bucket, Scanning
<1>4. /\ m.pos = i /\ m.M = MatchLength(j) /\ m.D = i - j
      /\ m.M \in Nat /\ m.M <= n - i /\ m.M <= MaxMValue
      /\ \A k \in 0 .. m.M - 1 : Byte(i + k) = Byte(j + k)
  BY <1>1, MatchLengthFacts
<1>5. m \in Found
  BY <1>1, <1>2, <1>3, <1>4 DEF Found
<1>6. EndOf(m) <= n /\ m.D <= m.pos
  BY <1>3, <1>4 DEF EndOf
<1>7. ASSUME NEW p \in m.pos .. EndOf(m) - 1 PROVE Byte(p) = Byte(p - m.D)
  <2>1. p - i \in 0 .. m.M - 1 /\ i + (p - i) = p /\ j + (p - i) = p - m.D
    BY <1>3, <1>4 DEF EndOf
  <2> QED
    BY <1>4, <2>1
<1> QED
  BY <1>4, <1>5, <1>6, <1>7 DEF Good, Copies

\* Of the candidates there is a longest, and of those a nearest.
LEMMA BestExists ==
    ASSUME Scanning, Candidates # {}
    PROVE  \E m \in Candidates : \A o \in Candidates : ~ Beats(o, m)
<1>1. \A m \in Candidates : /\ m.M \in Nat /\ m.D \in Nat
                            /\ MaxMValue - m.M \in Nat /\ MaxMValue \in Nat
  BY CandidateIsGood, FoundIsMatch, FinderAssumption DEF Good, Scanning
<1> DEFINE Short == { MaxMValue - m.M : m \in Candidates }
<1>2. PICK s \in Short : \A t \in Short : s <= t
  <2>1. Short \subseteq Nat /\ Short # {}
    BY <1>1
  <2> HIDE DEF Short
  <2> QED
    BY <2>1, Smallest
<1>3. PICK a \in Candidates : s = MaxMValue - a.M
  BY <1>2
<1>4. ASSUME NEW o \in Candidates PROVE o.M <= a.M
  <2>1. s <= MaxMValue - o.M
    BY <1>2
  <2> QED
    BY <1>1, <1>3, <2>1
<1> DEFINE Near == { m.D : m \in { c \in Candidates : c.M = a.M } }
<1>5. PICK d \in Near : \A e \in Near : d <= e
  <2>1. Near \subseteq Nat /\ Near # {}
    BY <1>1
  <2> HIDE DEF Near
  <2> QED
    BY <2>1, Smallest
<1>6. PICK m \in Candidates : m.M = a.M /\ d = m.D
  BY <1>5
<1>7. ASSUME NEW o \in Candidates PROVE ~ Beats(o, m)
  <2>1. o.M = a.M => d <= o.D
    BY <1>5
  <2> QED
    BY <1>1, <1>4, <1>6, <2>1 DEF Beats
<1> QED
  BY <1>6, <1>7

LEMMA BestIsGood ==
    ASSUME Scanning, Best # NoMatch
    PROVE  Good(Best) /\ Best.pos = i
<1>1. Candidates # {}
  BY DEF Best
<1>2. Best \in Candidates
  BY <1>1, BestExists DEF Best
<1> QED
  BY <1>2, CandidateIsGood

-----------------------------------------------------------------------------
(* The list of matches *)

LEMMA ListFacts ==
    ASSUME NEW ms \in Seq(Found), NEW m \in Found
    PROVE  LET longer == Append(ms, m)
           IN /\ longer \in Seq(Found) /\ longer # << >>
              /\ Len(ms) \in Nat /\ Len(longer) = Len(ms) + 1
              /\ longer[Len(ms) + 1] = m
              /\ \A k \in 1 .. Len(ms) : longer[k] = ms[k]
              /\ ms = << >> <=> Len(ms) = 0
  OBVIOUS

\* What is a match depends on the input alone.
LEMMA SameInput ==
    ASSUME src' = src
    PROVE  n' = n /\ Found' = Found /\ \A x : Good(x)' <=> Good(x)
  BY DEF n, Found, Good, Copies, EndOf, Byte

\* A good match that starts behind the last one may be appended.
LEMMA Appended ==
    ASSUME Scanning, Emitted, NEW m, Good(m), litStart <= m.pos,
           src' = src, matches' = Append(matches, m), litStart' = EndOf(m)
    PROVE  Emitted'
<1>u. n' = n /\ Found' = Found /\ \A x : Good(x)' <=> Good(x)
  BY SameInput
<1>1. m \in Found /\ matches \in Seq(Found)
  BY DEF Good, Emitted
<1>2. /\ matches' \in Seq(Found) /\ matches' # << >>
      /\ Len(matches) \in Nat /\ Len(matches') = Len(matches) + 1
      /\ matches'[Len(matches) + 1] = m
      /\ \A k \in 1 .. Len(matches) : matches'[k] = matches[k]
      /\ matches = << >> <=> Len(matches) = 0
  BY <1>1, ListFacts
<1>3. /\ m.pos \in Nat /\ EndOf(m) \in Nat /\ m.pos <= EndOf(m) /\ litStart \in Nat
      /\ \A k \in 1 .. Len(matches) : EndOf(matches[k]) \in Nat
  <2>1. src \in Sources /\ n \in Nat /\ litStart \in 0 .. n
    BY LengthIsNat DEF Scanning
  <2>2. \A x \in Found : x.pos \in Nat /\ EndOf(x) \in Nat /\ x.pos <= EndOf(x)
    <3> SUFFICES ASSUME NEW x \in Found
                 PROVE  x.pos \in Nat /\ EndOf(x) \in Nat /\ x.pos <= EndOf(x)
      OBVIOUS
    <3>1. x.pos \in Nat /\ x.M \in Nat /\ EndOf(x) = x.pos + x.M
      BY <2>1, FoundIsMatch
    <3> QED
      BY <3>1
  <2>3. \A k \in 1 .. Len(matches) : matches[k] \in Found
    BY DEF Emitted, Good
  <2> QED
    BY <1>1, <2>1, <2>2, <2>3
<1>4. ASSUME NEW k \in 1 .. Len(matches')
      PROVE  /\ Good(matches'[k]) /\ EndOf(matches'[k]) <= EndOf(m)
             /\ \A j \in 1 .. k - 1 : EndOf(matches'[j]) <= matches'[k].pos
  <2>1. CASE k \in 1 .. Len(matches)
    <3>1. matches'[k] = matches[k] /\ \A j \in 1 .. k - 1 : matches'[j] = matches[j]
      BY <1>2, <2>1
    <3>2. EndOf(matches[k]) <= litStart
      BY <2>1 DEF Emitted
    <3> QED
      BY <1>3, <2>1, <3>1, <3>2 DEF Emitted
  <2>2. CASE k = Len(matches) + 1
    <3>1. matches'[k] = m /\ \A j \in 1 .. k - 1 : j \in 1 .. Len(matches) /\ matches'[j] = matches[j]
      BY <1>2, <2>2
    <3>2. \A j \in 1 .. Len(matches) : EndOf(matches[j]) <= m.pos
      BY <1>3 DEF Emitted
    <3> QED
      BY <1>3, <3>1, <3>2
  <2> QED
    BY <1>2, <2>1, <2>2
<1> QED
  BY <1>u, <1>2, <1>4 DEF Emitted, EndOf

-----------------------------------------------------------------------------
LEMMA InitIInv == Init => IInv
<1> SUFFICES ASSUME Init PROVE IInv
  OBVIOUS
<1>1. n \in Nat
  BY LengthIsNat DEF Init
<1>2. Scanning
  BY <1>1 DEF Init, Scanning
<1>3. Emitted /\ Held
  BY DEF Init, Emitted, Held
<1> QED
  BY <1>2, <1>3 DEF IInv

LEMMA NextIInv == ASSUME IInv, [Next]_vars PROVE IInv'
<1>0. /\ Scanning /\ Emitted /\ Held
      /\ n \in Nat /\ Margin \in Nat /\ GoodMatch \in Nat /\ Margin >= 4
  BY LengthIsNat, FinderAssumption DEF IInv, Scanning
<1>s. src' = src
  BY DEF Next, vars, Insert, NothingHere, Hold, EmitPending, EmitGood, Finish, Advance
<1>u. n' = n /\ Found' = Found /\ \A x : Good(x)' <=> Good(x)
  BY <1>s, SameInput
<1>e. \A x : EndOf(x)' = EndOf(x)
  BY DEF EndOf
<1>p. pending # NoMatch =>
        /\ Good(pending) /\ pending.pos \in Nat /\ EndOf(pending) \in Nat
        /\ EndOf(pending) <= n /\ litStart <= pending.pos
        /\ pending.pos <= i /\ i <= EndOf(pending)
  BY <1>0, FoundIsMatch DEF Held, Good, Scanning
<1>b. Best # NoMatch =>
        /\ Good(Best) /\ Best.pos = i /\ i \in Nat /\ Best.M \in Nat /\ 3 <= Best.M
        /\ EndOf(Best) = i + Best.M /\ EndOf(Best) <= n
  BY <1>0, BestIsGood, FoundIsMatch DEF Good, Scanning
<1>n. NoMatch' = NoMatch
  BY DEF NoMatch
<1>1. CASE Insert
  <2>1. CASE pending # NoMatch /\ i >= EndOf(pending)
    <3>1. /\ matches' = Append(matches, pending) /\ litStart' = EndOf(pending)
          /\ pending' = NoMatch /\ inserted' = inserted \cup {i} /\ i' = i
          /\ pc' = "search" /\ i < n - Margin
      BY <1>1, <2>1 DEF Insert
    <3>2. Emitted'
      BY <1>0, <1>p, <1>s, <2>1, <3>1, Appended
    <3>3. Scanning'
      BY <1>0, <1>p, <1>s, <1>u, <2>1, <3>1 DEF Scanning
    <3>4. Held'
      BY <1>n, <3>1 DEF Held
    <3> QED
      BY <3>2, <3>3, <3>4 DEF IInv
  <2>2. CASE ~ (pending # NoMatch /\ i >= EndOf(pending))
    <3>1. /\ UNCHANGED <<matches, litStart, pending, i>>
          /\ inserted' = inserted \cup {i} /\ pc' = "search" /\ i < n - Margin
      BY <1>1, <2>2 DEF Insert
    <3>2. Emitted'
      BY <1>0, <1>u, <3>1 DEF Emitted, EndOf
    <3>3. Scanning'
      BY <1>0, <1>s, <1>u, <3>1 DEF Scanning
    <3>4. Held'
      <4> SUFFICES ASSUME pending # NoMatch PROVE Held'
        BY <1>n, <3>1 DEF Held
      <4>1. i < EndOf(pending)
        BY <1>0, <1>p, <2>2 DEF Scanning
      <4> QED
        BY <1>0, <1>u, <1>e, <3>1, <4>1 DEF Held
    <3> QED
      BY <3>2, <3>3, <3>4 DEF IInv
  <2> QED
    BY <2>1, <2>2
<1>2. CASE NothingHere
  <2>1. /\ pc = "search" /\ i' = i + 1 /\ pc' = "insert"
        /\ UNCHANGED <<litStart, pending, matches, inserted>>
    BY <1>2 DEF NothingHere, Search, Advance
  <2>2. Emitted'
    BY <1>0, <1>u, <2>1 DEF Emitted, EndOf
  <2>3. Scanning'
    BY <1>0, <1>s, <1>u, <2>1 DEF Scanning
  <2>4. Held'
    <3> SUFFICES ASSUME pending # NoMatch PROVE Held'
      BY <1>n, <2>1 DEF Held
    <3>1. i < EndOf(pending) /\ i \in Nat
      BY <1>0, <2>1 DEF Held, Scanning
    <3> QED
      BY <1>0, <1>p, <1>u, <1>e, <2>1, <3>1 DEF Held
  <2> QED
    BY <2>2, <2>3, <2>4 DEF IInv
<1>3. CASE Hold
  <2>1. /\ pc = "search" /\ i >= litStart /\ Best # NoMatch /\ Best.M < GoodMatch
        /\ pending' = Best /\ i' = i + 1 /\ pc' = "insert"
        /\ UNCHANGED <<litStart, matches, inserted>>
    BY <1>3 DEF Hold, FoundHere, Search, Advance
  <2>2. Emitted'
    BY <1>0, <1>u, <2>1 DEF Emitted, EndOf
  <2>3. Scanning'
    BY <1>0, <1>s, <1>u, <2>1 DEF Scanning
  <2>4. Held'
    <3> DEFINE best == Best
    <3>1. /\ Good(best) /\ best.pos = i /\ i \in Nat /\ EndOf(best) = i + best.M
          /\ best.M \in Nat /\ 3 <= best.M /\ best.M < GoodMatch /\ pending' = best
      BY <1>b, <2>1
    <3> HIDE DEF best
    <3>2. Good(pending)' /\ EndOf(pending)' = i + best.M
      BY <3>1, <1>u, <1>e DEF Good, EndOf, Copies
    <3> QED
      BY <1>0, <2>1, <3>1, <3>2 DEF Held, Scanning
  <2> QED
    BY <2>2, <2>3, <2>4 DEF IInv
<1>4. CASE EmitPending
  <2>1. /\ pc = "search" /\ i' = i + 1 /\ pc' = "insert" /\ pending # NoMatch
        /\ matches' = Append(matches, pending) /\ litStart' = EndOf(pending)
        /\ pending' = NoMatch /\ inserted' = inserted
    BY <1>4 DEF EmitPending, FoundHere, Search, Advance
  <2>2. Emitted'
    BY <1>0, <1>p, <1>s, <2>1, Appended
  <2>3. Scanning'
    BY <1>0, <1>p, <1>s, <1>u, <2>1 DEF Scanning
  <2>4. Held'
    BY <1>n, <2>1 DEF Held
  <2> QED
    BY <2>2, <2>3, <2>4 DEF IInv
<1>5. CASE EmitGood
  <2> DEFINE best == Best
  <2>1. /\ pc = "search" /\ i >= litStart /\ best # NoMatch /\ best.M >= GoodMatch
        /\ matches' = matches \o (IF pending = NoMatch \/ Beats(best, pending)
                                  THEN << >> ELSE <<pending>>) \o <<best>>
        /\ litStart' = EndOf(best) /\ pending' = NoMatch
        /\ i' = EndOf(best) /\ pc' = "insert" /\ inserted' = inserted
    BY <1>5 DEF EmitGood, FoundHere, Search
  <2>2. /\ Good(best) /\ best.pos = i /\ i \in Nat /\ EndOf(best) = i + best.M
        /\ best.M \in Nat /\ EndOf(best) <= n
    BY <1>b, <2>1
  <2> HIDE DEF best
  <2>3. pending # NoMatch => Beats(best, pending)
    <3> SUFFICES ASSUME pending # NoMatch PROVE best.M > pending.M
      BY DEF Beats
    <3>1. pending.M < GoodMatch /\ pending.M \in Nat
      BY <1>0, FoundIsMatch DEF Held, Good, Scanning
    <3> QED
      BY <1>0, <2>1, <2>2, <3>1
  <2>4. matches' = Append(matches, best)
    <3>1. matches \in Seq(Found) /\ best \in Found
      BY <1>0, <2>2 DEF Emitted, Good
    <3>2. matches' = matches \o << >> \o <<best>>
      BY <2>1, <2>3
    <3> QED
      BY <3>1, <3>2
  <2>5. Emitted'
    BY <1>0, <1>s, <2>1, <2>2, <2>4, Appended
  <2>6. Scanning'
    BY <1>0, <1>s, <1>u, <2>1, <2>2 DEF Scanning
  <2>7. Held'
    BY <1>n, <2>1 DEF Held
  <2> QED
    BY <2>5, <2>6, <2>7 DEF IInv
<1>6. CASE Finish
  <2>1. CASE pending # NoMatch
    <3>1. /\ matches' = Append(matches, pending) /\ litStart' = EndOf(pending)
          /\ pending' = NoMatch /\ inserted' = inserted /\ i' = i /\ pc' = "done"
      BY <1>6, <2>1 DEF Finish
    <3>2. Emitted'
      BY <1>0, <1>p, <1>s, <2>1, <3>1, Appended
    <3>3. Scanning'
      BY <1>0, <1>p, <1>s, <1>u, <2>1, <3>1 DEF Scanning
    <3>4. Held'
      BY <1>n, <3>1 DEF Held
    <3> QED
      BY <3>2, <3>3, <3>4 DEF IInv
  <2>2. CASE pending = NoMatch
    <3>1. UNCHANGED <<matches, litStart, pending, i, inserted>> /\ pc' = "done"
      BY <1>6, <2>2 DEF Finish
    <3>2. Emitted'
      BY <1>0, <1>u, <3>1 DEF Emitted, EndOf
    <3>3. Scanning'
      BY <1>0, <1>s, <1>u, <3>1 DEF Scanning
    <3>4. Held'
      BY <1>n, <2>2, <3>1 DEF Held
    <3> QED
      BY <3>2, <3>3, <3>4 DEF IInv
  <2> QED
    BY <2>1, <2>2
<1>7. CASE UNCHANGED vars
  <2>1. UNCHANGED <<matches, litStart, pending, i, inserted, pc>>
    BY <1>7 DEF vars
  <2>2. Emitted'
    BY <1>0, <1>u, <2>1 DEF Emitted, EndOf
  <2>3. Scanning'
    BY <1>0, <1>s, <1>u, <2>1 DEF Scanning
  <2>4. Held'
    BY <1>0, <1>u, <1>e, <1>n, <2>1 DEF Held
  <2> QED
    BY <2>2, <2>3, <2>4 DEF IInv
<1> QED
  BY <1>1, <1>2, <1>3, <1>4, <1>5, <1>6, <1>7 DEF Next

LEMMA Invariance == Spec => []IInv
  BY InitIInv, NextIInv, PTL DEF Spec

-----------------------------------------------------------------------------
(* What the invariant says of the list *)

\* Listed is Emitted with the match held behind it.
LEMMA ListedFacts ==
    ASSUME IInv
    PROVE  \A k \in 1 .. Len(Listed) :
             /\ Good(Listed[k])
             /\ k > 1 => EndOf(Listed[k - 1]) <= Listed[k].pos
<1>1. CASE pending = NoMatch
  <2>1. Listed = matches /\ matches \in Seq(Found)
    BY <1>1 DEF IInv, Emitted, Listed
  <2>2. \A k \in 1 .. Len(matches) : k > 1 => k - 1 \in 1 .. k - 1
    BY <2>1
  <2> QED
    BY <2>1, <2>2 DEF IInv, Emitted
<1>2. CASE pending # NoMatch
  <2>1. Good(pending) /\ pending \in Found /\ litStart <= pending.pos /\ matches \in Seq(Found)
    BY <1>2 DEF IInv, Held, Emitted, Good
  <2>2. Listed = Append(matches, pending)
    BY <1>2 DEF Listed
  <2>3. /\ Len(matches) \in Nat /\ Len(Listed) = Len(matches) + 1
        /\ Listed[Len(matches) + 1] = pending
        /\ \A k \in 1 .. Len(matches) : Listed[k] = matches[k]
        /\ matches = << >> <=> Len(matches) = 0
    BY <2>1, <2>2, ListFacts
  <2> SUFFICES ASSUME NEW k \in 1 .. Len(Listed)
               PROVE  /\ Good(Listed[k])
                      /\ k > 1 => EndOf(Listed[k - 1]) <= Listed[k].pos
    OBVIOUS
  <2>4. CASE k \in 1 .. Len(matches)
    <3>1. Listed[k] = matches[k] /\ (k > 1 => Listed[k - 1] = matches[k - 1])
      BY <2>3, <2>4
    <3>2. k > 1 => k - 1 \in 1 .. k - 1
      BY <2>4
    <3> QED
      BY <2>4, <3>1, <3>2 DEF IInv, Emitted
  <2>5. CASE k = Len(matches) + 1
    <3>1. Listed[k] = pending
      BY <2>3, <2>5
    <3>2. ASSUME k > 1 PROVE EndOf(Listed[k - 1]) <= pending.pos
      <4>1. k - 1 \in 1 .. Len(matches) /\ Listed[k - 1] = matches[k - 1]
        BY <2>3, <2>5, <3>2
      <4>2. EndOf(matches[k - 1]) <= litStart /\ matches[k - 1] \in Found
        BY <4>1 DEF IInv, Emitted, Good
      <4>3. src \in Sources /\ litStart \in Nat
        BY LengthIsNat DEF IInv, Scanning
      <4>4. pending.pos \in Nat
        BY <2>1, <4>3, FoundIsMatch
      <4>5. EndOf(matches[k - 1]) \in Nat
        <5>1. /\ matches[k - 1].pos \in Nat /\ matches[k - 1].M \in Nat
              /\ EndOf(matches[k - 1]) = matches[k - 1].pos + matches[k - 1].M
          BY <4>2, <4>3, FoundIsMatch
        <5> QED
          BY <5>1
      <4> QED
        BY <2>1, <4>1, <4>2, <4>3, <4>4, <4>5
    <3> QED
      BY <2>1, <3>1, <3>2
  <2> QED
    BY <2>3, <2>4, <2>5
<1> QED
  BY <1>1, <1>2

LEMMA Implied == IInv => TypeOK /\ MatchesDisjoint /\ MatchesCopy /\ PendingInReach
<1> SUFFICES ASSUME IInv PROVE TypeOK /\ MatchesDisjoint /\ MatchesCopy /\ PendingInReach
  OBVIOUS
<1>1. TypeOK
  BY DEF IInv, Scanning, Emitted, Held, Good, TypeOK
<1>2. MatchesDisjoint
  BY ListedFacts DEF MatchesDisjoint, Good
<1>3. MatchesCopy
  BY ListedFacts DEF MatchesCopy, Good, Copies
<1>4. PendingInReach
  BY DEF IInv, Held, PendingInReach
<1> QED
  BY <1>1, <1>2, <1>3, <1>4

(***************************************************************************)
(* Every position, length and distance of findMatches keeps its range, for *)
(* every input and hash function: lengths and distances fit the tables.    *)
(***************************************************************************)
THEOREM TypeCorrect == Spec => []TypeOK
  BY Implied, Invariance, PTL

(***************************************************************************)
(* The matches of findMatches, the one held back included, never overlap   *)
(* and end inside the input.                                               *)
(***************************************************************************)
THEOREM MatchesDisjointHolds == Spec => []MatchesDisjoint
  BY Implied, Invariance, PTL

(***************************************************************************)
(* Every match of findMatches is a true copy, whatever the hash function   *)
(* makes of different words and although unused table entries are zero.    *)
(***************************************************************************)
THEOREM MatchesCopyHolds == Spec => []MatchesCopy
  BY Implied, Invariance, PTL

(***************************************************************************)
(* A match held back is still ahead of everything emitted and reached by   *)
(* the scan whenever it is looked at again.                                *)
(***************************************************************************)
THEOREM PendingInReachHolds == Spec => []PendingInReach
  BY Implied, Invariance, PTL

\* What BlockSplitter assumes of an input [n |-> n, matches |-> matches].
MatchList ==
    /\ n \in Nat
    /\ matches \in Seq([pos : Nat, M : 1 .. MaxMValue, D : Nat \ {0}])
    /\ \A k \in 1 .. Len(matches) : matches[k].pos + matches[k].M <= n
    /\ \A j, k \in 1 .. Len(matches) :
          j < k => matches[j].pos + matches[j].M <= matches[k].pos

(***************************************************************************)
(* The list findMatches returns is what compressLZFSE is written for, and  *)
(* what BlockSplitter assumes of its inputs: matches in order, any two of  *)
(* them disjoint, all inside the input.                                    *)
(***************************************************************************)
THEOREM ReturnsMatchList == Spec => [](pc = "done" => MatchList)
<1>1. IInv => MatchList
  <2> SUFFICES ASSUME IInv PROVE MatchList
    OBVIOUS
  <2> DEFINE Record == [pos : Nat, M : 1 .. MaxMValue, D : Nat \ {0}]
  <2>1. n \in Nat /\ matches \in Seq(Found) /\ src \in Sources
    BY LengthIsNat DEF IInv, Scanning, Emitted
  <2>2. \A m \in Found : m \in Record
    BY <2>1, FinderAssumption DEF Found
  <2>3. matches \in Seq(Record)
    <3> HIDE DEF Record
    <3> QED
      BY <2>1, <2>2
  <2>4. \A k \in 1 .. Len(matches) : matches[k].pos + matches[k].M <= n
    BY DEF IInv, Emitted, Good, EndOf
  <2>5. \A j, k \in 1 .. Len(matches) :
           j < k => matches[j].pos + matches[j].M <= matches[k].pos
    <3> SUFFICES ASSUME NEW j \in 1 .. Len(matches), NEW k \in 1 .. Len(matches), j < k
                 PROVE  EndOf(matches[j]) <= matches[k].pos
      BY DEF EndOf
    <3>1. j \in 1 .. k - 1
      BY <2>1
    <3> QED
      BY <3>1 DEF IInv, Emitted
  <2> QED
    BY <2>1, <2>3, <2>4, <2>5 DEF MatchList
<1> QED
  BY <1>1, Invariance, PTL
=============================================================================
