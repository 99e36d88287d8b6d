-------------------------- MODULE BlockCodecProofs --------------------------
(***************************************************************************)
(* Safety of BlockDecoder for every stream of frames, every limit and      *)
(* every width of the fixed copies: no slice leaves the backing array, the *)
(* output stays within its bounds and what was decoded stays.  Then        *)
(* BlockCodec for every source: what the decoder writes on the encoder's   *)
(* blocks is the source.                                                   *)
(***************************************************************************)
EXTENDS BlockCodec, LibraryLemmas

(***************************************************************************)
(* What the helpers on the output slice do.  None of them but growOut      *)
(* changes the capacity, and growOut leaves at least what it was asked for.*)
(***************************************************************************)
Written(r, S, m, at, bytes) ==
    /\ r \in Seq(S) /\ Len(r) = Len(m)
    /\ \A j \in 1 .. Len(m) :
         r[j] = IF at < j /\ j <= at + Len(bytes) THEN bytes[j - at] ELSE m[j]

LEMMA WriteIs ==
    ASSUME NEW S, NEW m \in Seq(S), NEW at \in Nat, NEW bytes \in Seq(S)
    PROVE  Written(Write(m, at, bytes), S, m, at, bytes)
<1> DEFINE r == Write(m, at, bytes)
           n == Len(m)
<1>0. n \in Nat /\ \A j \in 1 .. n : m[j] \in S
  OBVIOUS
<1>1. r = [j \in 1 .. n |-> IF at < j /\ j <= at + Len(bytes) THEN bytes[j - at] ELSE m[j]]
  BY DEF Write
<1>2. ASSUME NEW j \in 1 .. n
      PROVE  (IF at < j /\ j <= at + Len(bytes) THEN bytes[j - at] ELSE m[j]) \in S
  <2>1. CASE at < j /\ j <= at + Len(bytes)
    <3>1. j - at \in 1 .. Len(bytes)
      BY <2>1
    <3>2. bytes[j - at] \in S
      BY <3>1, ElementOfSeq
    <3> QED
      BY <2>1, <3>2
  <2>2. CASE ~ (at < j /\ j <= at + Len(bytes))
    BY <1>0, <2>2
  <2> QED
    BY <2>1, <2>2
<1> HIDE DEF n
<1>3. r \in [1 .. n -> S]
  BY <1>1, <1>2, Zenon
<1>4. \A j \in 1 .. n :
         r[j] = IF at < j /\ j <= at + Len(bytes) THEN bytes[j - at] ELSE m[j]
  BY <1>1, Zenon
<1> HIDE DEF r
<1>5. r \in Seq(S) /\ Len(r) = n
  BY <1>0, <1>3, AsSequence
<1> QED
  BY <1>4, <1>5 DEF Written, r, n

Sliced(r, S, m, from, to) ==
    /\ r \in Seq(S) /\ Len(r) = to - from
    /\ \A i \in 1 .. to - from : r[i] = m[from + i]

LEMMA SliceIs ==
    ASSUME NEW S, NEW m \in Seq(S), NEW from \in Nat, NEW to \in Nat,
           from <= to, to <= Len(m)
    PROVE  Sliced(Slice(m, from, to), S, m, from, to)
<1>1. \A i \in from + 1 .. to : m[i] \in S
  OBVIOUS
<1>2. from + 1 \in Int /\ to \in Int
  OBVIOUS
<1> DEFINE r == SubSeq(m, from + 1, to)
<1>3. /\ r \in Seq(S)
      /\ Len(r) = IF from + 1 <= to THEN to - (from + 1) + 1 ELSE 0
      /\ \A i \in 1 .. to - (from + 1) + 1 : r[i] = m[(from + 1) + i - 1]
  BY <1>1, <1>2, SubSeqProperties
<1> HIDE DEF r
<1>4. Len(r) = to - from
  BY <1>3
<1>5. ASSUME NEW i \in 1 .. to - from PROVE r[i] = m[from + i]
  <2>1. i \in 1 .. to - (from + 1) + 1 /\ (from + 1) + i - 1 = from + i
    OBVIOUS
  <2> QED
    BY <1>3, <2>1
<1> QED
  BY <1>3, <1>4, <1>5 DEF Sliced, r, Slice

Moved(r, S, o, used, c) ==
    /\ r \in Seq(S) /\ Len(r) = c
    /\ \A j \in 1 .. c : j <= used => r[j] = o.mem[j]

LEMMA ReallocIs ==
    ASSUME NEW S, NEW o, o.mem \in Seq(S), NEW used \in Nat, used <= Len(o.mem),
           NEW c \in Nat, Zero \in S
    PROVE  Moved(Realloc(o, used, c), S, o, used, c)
<1> DEFINE r == Realloc(o, used, c)
           mem == o.mem
<1>1. r = [j \in 1 .. c |-> IF j <= used THEN mem[j] ELSE Zero]
  BY DEF Realloc
<1>2. ASSUME NEW j \in 1 .. c PROVE (IF j <= used THEN mem[j] ELSE Zero) \in S
  <2>1. CASE j <= used
    <3>1. j \in 1 .. Len(mem)
      BY <2>1
    <3> QED
      BY <2>1, <3>1, ElementOfSeq
  <2>2. CASE ~ (j <= used)
    BY <2>2
  <2> QED
    BY <2>1, <2>2
<1> HIDE DEF mem
<1>3. r \in [1 .. c -> S] /\ \A j \in 1 .. c : r[j] = IF j <= used THEN mem[j] ELSE Zero
  BY <1>1, <1>2, Zenon
<1> HIDE DEF r
<1>4. r \in Seq(S) /\ Len(r) = c
  BY <1>3, AsSequence
<1> QED
  BY <1>3, <1>4 DEF Moved, r, mem

LEMMA GrowOutIs ==
    ASSUME NEW S, NEW o, o.mem \in Seq(S), Zero \in S,
           NEW used \in Nat, NEW extra \in Nat, used <= Len(o.mem)
    PROVE  LET g == GrowOut(o, used, extra)
           IN  /\ DOMAIN g = {"mem", "len"} /\ g.len = used + extra
               /\ g.mem \in Seq(S) /\ g.len <= Len(g.mem)
               /\ \A j \in 1 .. used : g.mem[j] = o.mem[j]
<1> DEFINE need == used + extra
           grow == IF 2 * Capacity(o) < need THEN need ELSE 2 * Capacity(o)
           g == GrowOut(o, used, extra)
<1>0. Len(o.mem) \in Nat
  OBVIOUS
<1>1. need \in Nat /\ used <= need /\ grow \in Nat /\ need <= grow
  BY <1>0 DEF Capacity
<1>2. g = [len |-> need, mem |-> IF need <= Capacity(o) THEN o.mem
                                 ELSE Realloc(o, used, grow)]
  BY DEF GrowOut
<1> HIDE DEF grow, need, g
<1>3. DOMAIN g = {"mem", "len"} /\ g.len = need
  BY <1>2
<1>4. CASE need <= Capacity(o)
  <2>1. g.mem = o.mem
    BY <1>2, <1>4
  <2> QED
    BY <1>3, <1>4, <2>1 DEF Capacity, g, need
<1>5. CASE ~ (need <= Capacity(o))
  <2> DEFINE r == Realloc(o, used, grow)
  <2>1. g.mem = r
    BY <1>2, <1>5
  <2>2. /\ r \in Seq(S) /\ Len(r) = grow
        /\ \A j \in 1 .. grow : j <= used => r[j] = o.mem[j]
    <3>1. Moved(r, S, o, used, grow)
      BY <1>1, ReallocIs
    <3> QED
      BY <3>1 DEF Moved
  <2> HIDE DEF r
  <2>3. \A j \in 1 .. used : r[j] = o.mem[j]
    BY <1>1, <2>2
  <2>4. need <= Len(r)
    BY <1>1, <2>2
  <2> QED
    BY <1>3, <2>1, <2>2, <2>3, <2>4 DEF g, need
<1> QED
  BY <1>4, <1>5

(***************************************************************************)
(* The doubling.  A pattern of n bytes repeats its first d; unless it      *)
(* fills the region it also ends as it begins, so that a copy of it        *)
(* continues it.                                                           *)
(***************************************************************************)
Patterns(S, base, d, region) ==
    { p \in Seq(S) :
        /\ Len(p) \in d .. region
        /\ \A i \in 1 .. d : p[i] = base[i]
        /\ \A i \in d + 1 .. Len(p) : p[i] = p[i - d]
        /\ Len(p) < region => \A t \in 1 .. d : p[Len(p) - d + t] = p[t] }

\* What CopyForward makes of a pattern: its bytes, and its bytes once more.
Doubled(p, q, n, w) == \A i \in 1 .. w : q[i] = IF i <= n THEN p[i] ELSE p[i - n]

LEMMA CopyForwardIs ==
    ASSUME NEW S, NEW d \in Nat \ {0}, NEW region \in Nat, NEW p \in Seq(S),
           Len(p) \in d .. region
    PROVE  LET q == CopyForward(p, region)
               w == IF 2 * Len(p) < region THEN 2 * Len(p) ELSE region
           IN  q \in Seq(S) /\ Len(q) = w /\ Doubled(p, q, Len(p), w)
<1> DEFINE n == Len(p)
           w == IF 2 * n < region THEN 2 * n ELSE region
           u == p \o p
           q == CopyForward(p, region)
<1>1. w \in Nat /\ n \in Nat /\ n >= 1 /\ n <= region /\ w <= n + n
  OBVIOUS
<1>2. /\ u \in Seq(S) /\ Len(u) = n + n
      /\ \A i \in 1 .. n + n : u[i] = IF i <= n THEN p[i] ELSE p[i - n]
  BY ConcatProperties
<1>3. q = Slice(u, 0, w)
  BY DEF CopyForward
<1> HIDE DEF u, w, n, q
<1>4. q \in Seq(S) /\ Len(q) = w - 0 /\ \A i \in 1 .. w - 0 : q[i] = u[0 + i]
  <2>1. Sliced(q, S, u, 0, w)
    BY <1>1, <1>2, <1>3, SliceIs
  <2> QED
    BY <2>1 DEF Sliced
<1>5. Doubled(p, q, n, w)
  BY <1>1, <1>2, <1>4 DEF Doubled
<1> QED
  BY <1>1, <1>4, <1>5 DEF n, w, q

LEMMA CopyForwardKeeps ==
    ASSUME NEW S, NEW d \in Nat \ {0}, NEW region \in Nat, NEW base,
           NEW p \in Patterns(S, base, d, region)
    PROVE  /\ CopyForward(p, region) \in Patterns(S, base, d, region)
           /\ \A k \in Nat : Len(p) >= d + k /\ d + k + 1 <= region =>
                 Len(CopyForward(p, region)) >= d + k + 1
<1> DEFINE n == Len(p)
           w == IF 2 * n < region THEN 2 * n ELSE region
           q == CopyForward(p, region)
<1>1. /\ p \in Seq(S) /\ n \in d .. region /\ n \in Nat
      /\ \A i \in 1 .. d : p[i] = base[i]
      /\ \A i \in d + 1 .. n : p[i] = p[i - d]
      /\ n < region => \A t \in 1 .. d : p[n - d + t] = p[t]
  BY DEF Patterns
<1>2. q \in Seq(S) /\ Len(q) = w /\ Doubled(p, q, n, w)
  BY <1>1, CopyForwardIs
<1>3. w \in Nat /\ n <= w /\ w <= region /\ w <= n + n /\ (w < region => w = n + n)
  BY <1>1
<1>4. n = region => w = n
  BY <1>1
<1>5. \A k \in Nat : n >= d + k /\ d + k + 1 <= region => w >= d + k + 1
  BY <1>1
<1> HIDE DEF n, w, q
<1>6. \A i \in 1 .. w : q[i] = IF i <= n THEN p[i] ELSE p[i - n]
  BY <1>2 DEF Doubled
<1>7. \A i \in 1 .. d : q[i] = base[i]
  BY <1>1, <1>3, <1>6
<1>8. ASSUME NEW i \in d + 1 .. w PROVE q[i] = q[i - d]
  <2>1. CASE i <= n
    <3>1. i \in d + 1 .. n /\ i \in 1 .. w /\ i - d \in 1 .. w /\ i - d <= n
      BY <1>1, <1>3, <2>1
    <3> QED
      BY <1>1, <1>6, <2>1, <3>1
  <2>2. CASE i > n /\ i - d <= n
    <3> DEFINE t == i - n
    <3>1. t \in 1 .. d /\ i - d = n - d + t /\ n < region
      BY <1>1, <1>3, <2>2
    <3>2. i \in 1 .. w /\ i - d \in 1 .. w /\ ~ (i <= n)
      BY <1>1, <1>3, <2>2
    <3>3. q[i] = p[t]
      BY <1>6, <3>2
    <3>4. q[i - d] = p[i - d]
      BY <1>6, <2>2, <3>2
    <3> HIDE DEF t
    <3> QED
      BY <1>1, <3>1, <3>3, <3>4
  <2>3. CASE i - d > n
    <3>1. i \in 1 .. w /\ i - d \in 1 .. w /\ ~ (i <= n) /\ ~ (i - d <= n)
      BY <1>1, <1>3, <2>3
    <3>2. q[i] = p[i - n] /\ q[i - d] = p[(i - d) - n]
      BY <1>6, <3>1
    <3>3. i - n \in d + 1 .. n /\ (i - n) - d = (i - d) - n
      BY <1>1, <1>3, <2>3
    <3> QED
      BY <1>1, <3>2, <3>3
  <2> QED
    BY <1>1, <2>1, <2>2, <2>3
<1>9. ASSUME w < region, NEW t \in 1 .. d PROVE q[w - d + t] = q[t]
  <2>1. w = n + n /\ n < region
    BY <1>1, <1>3, <1>9
  <2>2. /\ w - d + t \in 1 .. w /\ (w - d + t) - n = n - d + t
        /\ t \in 1 .. w /\ t <= n
    BY <1>1, <2>1
  <2>3. q[t] = p[t] /\ p[n - d + t] = p[t]
    BY <1>1, <1>6, <2>1, <2>2
  <2>4. CASE w - d + t <= n
    <3>1. n = d /\ t \in 1 .. d /\ w - d + t = n + t
      BY <1>1, <2>1, <2>4
    <3> QED
      BY <2>4, <3>1
  <2>5. CASE ~ (w - d + t <= n)
    <3>1. q[w - d + t] = p[(w - d + t) - n]
      BY <1>6, <2>2, <2>5
    <3> QED
      BY <2>2, <2>3, <3>1
  <2> QED
    BY <2>4, <2>5
<1>10. q \in Patterns(S, base, d, region)
  <2>1. Len(q) \in d .. region
    BY <1>1, <1>2, <1>3
  <2>2. \A i \in d + 1 .. Len(q) : q[i] = q[i - d]
    BY <1>2, <1>8
  <2>3. Len(q) < region => \A t \in 1 .. d : q[Len(q) - d + t] = q[t]
    BY <1>2, <1>9
  <2> QED
    BY <1>2, <1>7, <2>1, <2>2, <2>3 DEF Patterns
<1> QED
  BY <1>2, <1>5, <1>10 DEF q, n

\* After M rounds the pattern fills the region.
WritesPattern(S, m, at, mpos, M) ==
    \E e \in Patterns(S, Slice(m, mpos, at), at - mpos, at - mpos + M) :
        Len(e) = at - mpos + M /\ MatchCopy(m, at, mpos, M) = Write(m, mpos, e)

LEMMA ExpandedIs ==
    ASSUME NEW S, NEW m \in Seq(S), NEW at \in Nat, NEW mpos \in Nat, NEW M \in Nat,
           mpos < at, at <= Len(m), ~ (at - mpos >= M)
    PROVE  WritesPattern(S, m, at, mpos, M)
<1> DEFINE d == at - mpos
           region == d + M
           base == Slice(m, mpos, at)
           R == Patterns(S, base, d, region)
           G == [k \in 1 .. M |-> [p \in R |-> CopyForward(p, region)]]
           Step(g) == [k \in 0 .. M |-> IF k = 0 THEN base ELSE CopyForward(g[k - 1], region)]
           expanded == CHOOSE g : g = Step(g)
<1>1. d \in Nat \ {0} /\ region \in Nat /\ d <= region
  OBVIOUS
<1>2. base \in Seq(S) /\ Len(base) = d
  <2>1. mpos <= at
    OBVIOUS
  <2>2. /\ base \in Seq(S) /\ Len(base) = at - mpos
        /\ \A i \in 1 .. at - mpos : base[i] = m[mpos + i]
    <3>1. Sliced(base, S, m, mpos, at)
      BY <2>1, SliceIs
    <3> QED
      BY <3>1 DEF Sliced
  <2> QED
    BY <2>2
<1>3. base \in R
  <2> HIDE DEF base, d, region
  <2>1. /\ Len(base) \in d .. region /\ \A i \in 1 .. d : base[i] = base[i]
        /\ \A i \in d + 1 .. Len(base) : base[i] = base[i - d]
    BY <1>1, <1>2
  <2>2. \A t \in 1 .. d : base[Len(base) - d + t] = base[t]
    BY <1>1, <1>2
  <2> QED
    BY <1>2, <2>1, <2>2 DEF Patterns
<1>4. MatchCopy(m, at, mpos, M) = Write(m, mpos, expanded[M])
  BY DEF MatchCopy
<1> HIDE DEF d, region, base
<1>5. \A p \in R : CopyForward(p, region) \in R
  BY <1>1, CopyForwardKeeps
<1>6. Extends(G, M, R)
  <2> HIDE DEF R
  <2> QED
    BY <1>5 DEF Extends
<1>7. PICK f \in [0 .. M -> R] : Chains(f, base, M, G)
  <2> HIDE DEF R, G
  <2> QED
    BY <1>3, <1>6, ChainExists
<1>8. f = Step(f)
  <2>1. ASSUME NEW k \in 0 .. M
        PROVE  f[k] = IF k = 0 THEN base ELSE CopyForward(f[k - 1], region)
    <3> HIDE DEF R
    <3>1. CASE k = 0
      BY <1>7, <3>1 DEF Chains
    <3>2. CASE k # 0
      <4>1. k \in 1 .. M /\ k - 1 \in 0 .. M
        BY <3>2
      <4>2. f[k] = G[k][f[k - 1]] /\ f[k - 1] \in R
        BY <1>7, <4>1 DEF Chains
      <4> QED
        BY <3>2, <4>1, <4>2
    <3> QED
      BY <3>1, <3>2
  <2> HIDE DEF R
  <2> QED
    BY <1>7, <2>1
<1>9. expanded = Step(expanded)
  <2> HIDE DEF Step
  <2> QED
    BY <1>8
<1>10. \A k \in 0 .. M : expanded[k] = IF k = 0 THEN base ELSE CopyForward(expanded[k - 1], region)
  <2> HIDE DEF expanded
  <2> QED
    BY <1>9
<1> HIDE DEF expanded
<1> DEFINE T == {k \in Nat : k <= M => expanded[k] \in R /\ Len(expanded[k]) >= d + k}
<1>11. 0 \in T
  BY <1>1, <1>2, <1>3, <1>10
<1>12. ASSUME NEW k \in Nat, k \in T PROVE k + 1 \in T
  <2> SUFFICES ASSUME k + 1 <= M
               PROVE  expanded[k + 1] \in R /\ Len(expanded[k + 1]) >= d + k + 1
    BY <1>1
  <2>1. expanded[k] \in R /\ Len(expanded[k]) >= d + k
    BY <1>12
  <2>2. expanded[k + 1] = CopyForward(expanded[k], region)
    BY <1>10
  <2>3. d + k + 1 <= region
    BY <1>1 DEF region
  <2> QED
    BY <1>1, <2>1, <2>2, <2>3, CopyForwardKeeps
<1>13. M \in T
  <2> HIDE DEF T
  <2> QED
    BY <1>11, <1>12, Induction
<1>14. expanded[M] \in R /\ Len(expanded[M]) >= region
  BY <1>13 DEF region
<1>15. Len(expanded[M]) = region
  BY <1>1, <1>14 DEF Patterns
<1> QED
  BY <1>4, <1>14, <1>15 DEF WritesPattern, d, region, base

\* matchCopyInto leaves what is before the match alone, and every byte of the
\* match is the byte one distance earlier.
LEMMA MatchCopyIs ==
    ASSUME NEW S, NEW m \in Seq(S), NEW at \in Nat, NEW mpos \in Nat, NEW M \in Nat,
           mpos < at, at + M <= Len(m)
    PROVE  LET r == MatchCopy(m, at, mpos, M)
           IN  /\ r \in Seq(S) /\ Len(r) = Len(m)
               /\ \A j \in 1 .. at : r[j] = m[j]
               /\ \A j \in at + 1 .. at + M : r[j] = r[j - (at - mpos)]
<1> DEFINE d == at - mpos
           r == MatchCopy(m, at, mpos, M)
<1>0. d \in Nat \ {0} /\ mpos = at - d /\ Len(m) \in Nat
  OBVIOUS
<1>1. CASE d >= M
  <2> DEFINE bytes == Slice(m, mpos, mpos + M)
  <2>1. r = Write(m, at, bytes)
    BY <1>1 DEF MatchCopy
  <2>2. mpos + M \in Nat /\ mpos <= mpos + M /\ mpos + M <= Len(m)
    OBVIOUS
  <2>3. bytes \in Seq(S) /\ Len(bytes) = M /\ \A i \in 1 .. M : bytes[i] = m[mpos + i]
    <3>1. Sliced(bytes, S, m, mpos, mpos + M)
      BY <2>2, SliceIs
    <3> HIDE DEF bytes
    <3> QED
      BY <3>1 DEF Sliced
  <2> HIDE DEF bytes, r
  <2>4. /\ r \in Seq(S) /\ Len(r) = Len(m)
        /\ \A j \in 1 .. Len(m) :
             r[j] = IF at < j /\ j <= at + Len(bytes) THEN bytes[j - at] ELSE m[j]
    <3>1. Written(r, S, m, at, bytes)
      BY <2>1, <2>3, WriteIs
    <3> QED
      BY <3>1 DEF Written
  <2> HIDE DEF d
  <2>5. \A j \in 1 .. at : r[j] = m[j]
    BY <1>0, <2>4
  <2>6. ASSUME NEW j \in at + 1 .. at + M PROVE r[j] = r[j - d]
    <3>1. j \in 1 .. Len(m) /\ j - at \in 1 .. M /\ mpos + (j - at) = j - d /\ j - d \in 1 .. at
      BY <1>0, <1>1
    <3>2. r[j] = bytes[j - at]
      BY <1>0, <2>3, <2>4, <3>1
    <3>3. bytes[j - at] = m[j - d]
      BY <2>3, <3>1
    <3> QED
      BY <2>5, <3>1, <3>2, <3>3
  <2> QED
    BY <2>4, <2>5, <2>6 DEF d, r
<1>2. CASE ~ (d >= M)
  <2> DEFINE base == Slice(m, mpos, at)
  <2>0. at <= Len(m) /\ mpos <= at /\ ~ (at - mpos >= M)
    BY <1>2
  <2>w. WritesPattern(S, m, at, mpos, M)
    BY <2>0, ExpandedIs
  <2>1. PICK e \in Patterns(S, base, d, d + M) :
           Len(e) = d + M /\ r = Write(m, mpos, e)
    BY <2>w DEF WritesPattern
  <2>2. /\ base \in Seq(S) /\ Len(base) = at - mpos
        /\ \A i \in 1 .. at - mpos : base[i] = m[mpos + i]
    <3>1. Sliced(base, S, m, mpos, at)
      BY <2>0, SliceIs
    <3> QED
      BY <3>1 DEF Sliced
  <2> HIDE DEF base, r
  <2>3. /\ e \in Seq(S)
        /\ \A i \in 1 .. d : e[i] = m[mpos + i]
        /\ \A i \in d + 1 .. d + M : e[i] = e[i - d]
    BY <2>1, <2>2 DEF Patterns
  <2> HIDE DEF d
  <2>4. /\ r \in Seq(S) /\ Len(r) = Len(m)
        /\ \A j \in 1 .. Len(m) :
             r[j] = IF mpos < j /\ j <= mpos + Len(e) THEN e[j - mpos] ELSE m[j]
    <3>1. Written(r, S, m, mpos, e)
      BY <2>1, <2>3, WriteIs
    <3> QED
      BY <3>1 DEF Written
  <2>5. ASSUME NEW j \in mpos + 1 .. at + M PROVE r[j] = e[j - mpos]
    BY <1>0, <2>1, <2>4
  <2>6. ASSUME NEW j \in 1 .. at PROVE r[j] = m[j]
    <3>1. CASE j <= mpos
      BY <1>0, <2>4, <3>1
    <3>2. CASE mpos < j
      <4>1. j \in mpos + 1 .. at + M /\ j - mpos \in 1 .. d /\ mpos + (j - mpos) = j
        BY <1>0, <3>2
      <4> QED
        BY <2>3, <2>5, <4>1
    <3> QED
      BY <3>1, <3>2
  <2>7. ASSUME NEW j \in at + 1 .. at + M PROVE r[j] = r[j - d]
    <3>1. /\ j \in mpos + 1 .. at + M /\ j - d \in mpos + 1 .. at + M
          /\ j - mpos \in d + 1 .. d + M /\ (j - d) - mpos = (j - mpos) - d
      BY <1>0
    <3> QED
      BY <2>3, <2>5, <3>1
  <2> QED
    BY <2>4, <2>6, <2>7 DEF d, r
<1> QED
  BY <1>1, <1>2

(***************************************************************************)
(* The inductive invariant of the decoder.  Its parts say what the         *)
(* properties do not: the write position never leads the length, and the   *)
(* length never leads the backing array, so reslicing to the length        *)
(* growOut asked for cannot panic; and the loop only ever runs on a frame. *)
(***************************************************************************)
Counters ==
    /\ di \in Nat /\ blockStart \in Nat /\ litPos \in Nat /\ rec \in Nat /\ D \in Nat

Reserved ==
    /\ DOMAIN out = {"mem", "len"} /\ out.mem \in Seq(Bytes)
    /\ out.len \in Nat
    /\ out.len <= Capacity(out)
    /\ di <= out.len

Framed ==
    /\ pc \in {"block", "records", "done"} \cup Failed
    /\ frame = NoFrame \/ IsFrame(frame)
    /\ pc = "records" => IsFrame(frame)

IInv ==
    /\ Counters
    /\ Reserved
    /\ Framed
    /\ ProducedWithinBound
    /\ OutputWithinLimit
-----------------------------------------------------------------------------
(***************************************************************************)
(* One record: its fields, and the output after growOut.                   *)
(***************************************************************************)
LEMMA RecordFields ==
    ASSUME IInv, AtRecord
    PROVE  /\ Rec.L \in Nat /\ Rec.D \in Nat /\ Rec.M \in Nat /\ Rec.M <= MaxMValue
           /\ Literals \in Seq(Bytes) /\ Len(Literals) \in Nat /\ Len(frame.recs) \in Nat
           /\ rec + 1 <= Len(frame.recs)
<1>1. IsFrame(frame) /\ rec \in Nat /\ rec < Len(frame.recs)
  BY DEF IInv, AtRecord, Counters, Framed
<1>2. /\ Len(frame.recs) \in Nat /\ frame.literals \in Seq(Bytes)
      /\ \A k \in 1 .. Len(frame.recs) :
           /\ frame.recs[k].L \in Nat /\ frame.recs[k].D \in Nat
           /\ frame.recs[k].M \in 0 .. MaxMValue
  BY <1>1 DEF IsFrame
<1>3. rec + 1 \in 1 .. Len(frame.recs)
  BY <1>1, <1>2
<1> QED
  BY <1>1, <1>2, <1>3, DecoderAssumption DEF Rec, Literals

LEMMA OneMoreRecord ==
    ASSUME NEW produced \in Nat, NEW start \in Nat, NEW used \in Nat, NEW bound \in Nat,
           NEW L \in Nat, NEW M \in Nat, NEW most \in Nat,
           produced - start <= used + bound, M <= most
    PROVE  (produced + L + M) - start <= (used + L) + (bound + most)
OBVIOUS

LEMMA DistanceNat ==
    ASSUME IInv, AtRecord
    PROVE  Dist \in Nat
BY RecordFields DEF Dist, IInv, Counters

LEMMA RoomSuffices ==
    ASSUME IInv, AtRecord
    PROVE  /\ DOMAIN Room = {"mem", "len"} /\ Room.len \in Nat
           /\ di + Rec.L + Rec.M + Over <= Room.len
           /\ Room.mem \in Seq(Bytes) /\ Capacity(Room) \in Nat
           /\ Room.len <= Capacity(Room)
           /\ \A j \in 1 .. di : Room.mem[j] = out.mem[j]
<1>1. /\ Rec.L \in Nat /\ Rec.M \in Nat /\ di \in Nat /\ Over \in Nat
      /\ DOMAIN out = {"mem", "len"} /\ out.len \in Nat /\ out.mem \in Seq(Bytes)
      /\ out.len <= Len(out.mem) /\ di <= Len(out.mem) /\ Zero \in Bytes
  BY RecordFields, DecoderAssumption DEF IInv, Counters, Reserved, Capacity
<1>2. CASE di + Rec.L + Rec.M + Over > out.len
  <2> DEFINE extra == Rec.L + Rec.M + Over
  <2>1. Room = GrowOut(out, di, extra)
    BY <1>2 DEF Room
  <2>2. extra \in Nat /\ di + extra = di + Rec.L + Rec.M + Over
    BY <1>1, SMTT(30)
  <2> HIDE DEF extra
  <2>3. /\ DOMAIN Room = {"mem", "len"} /\ Room.len = di + extra
        /\ Room.mem \in Seq(Bytes) /\ Room.len <= Len(Room.mem)
        /\ \A j \in 1 .. di : Room.mem[j] = out.mem[j]
    BY <1>1, <2>1, <2>2, GrowOutIs, SMTT(30)
  <2>4. di + extra \in Nat /\ di + Rec.L + Rec.M + Over <= di + extra
    BY <1>1, <2>2
  <2> QED
    BY <2>3, <2>4 DEF Capacity
<1>3. CASE ~ (di + Rec.L + Rec.M + Over > out.len)
  <2>1. Room = out
    BY <1>3 DEF Room
  <2> QED
    BY <1>1, <1>3, <2>1 DEF Capacity
<1> QED
  BY <1>2, <1>3

\* What one record does to the output: what was decoded stays, its literals
\* follow, and then a match copies what lies its distance before.
LEMMA RecordWrites ==
    ASSUME IInv, AtRecord, ~ LiteralsExhausted, ~ DistanceInvalid
    PROVE  /\ AfterMatch \in Seq(Bytes) /\ Len(AfterMatch) = Capacity(Room)
           /\ \A j \in 1 .. di : AfterMatch[j] = out.mem[j]
           /\ \A j \in 1 .. Rec.L : AfterMatch[di + j] = Literals[litPos + j]
           /\ \A j \in MatchAt + 1 .. MatchAt + Rec.M : AfterMatch[j] = AfterMatch[j - Dist]
<1> DEFINE L == Rec.L
           M == Rec.M
           w == LitWidth
           n == Len(Room.mem)
           lits == Slice(Literals, litPos, litPos + w)
           A == AfterLiterals
           B == AfterMatch
           at == MatchAt
           dist == Dist
           mpos == MatchAt - Dist
<1>1. /\ L \in Nat /\ M \in Nat /\ di \in Nat /\ litPos \in Nat /\ Over \in Nat /\ dist \in Nat
      /\ Literals \in Seq(Bytes) /\ Len(Literals) \in Nat
  BY RecordFields, DistanceNat, DecoderAssumption DEF IInv, Counters
<1>2. /\ Room.mem \in Seq(Bytes) /\ n \in Nat /\ di + L + M + Over <= n
      /\ \A j \in 1 .. di : Room.mem[j] = out.mem[j]
  BY <1>1, RoomSuffices DEF Capacity
<1>3. litPos + L <= Len(Literals)
  BY <1>1 DEF LiteralsExhausted
<1>4. w \in Nat /\ L <= w /\ litPos + w \in Nat /\ litPos + w <= Len(Literals)
  BY <1>1, <1>3 DEF LitWidth
<1>5. at = di + L /\ at \in Nat
  BY <1>1 DEF MatchAt
<1>6. M > 0 => dist > 0 /\ dist <= at
  BY <1>1, <1>5 DEF DistanceInvalid
<1>7. lits \in Seq(Bytes) /\ Len(lits) = w /\ \A i \in 1 .. w : lits[i] = Literals[litPos + i]
  <2> HIDE DEF w
  <2>1. litPos <= litPos + w
    BY <1>1, <1>4
  <2>2. Sliced(lits, Bytes, Literals, litPos, litPos + w)
    BY <1>1, <1>4, <2>1, SliceIs
  <2>3. (litPos + w) - litPos = w
    BY <1>1, <1>4
  <2> HIDE DEF lits
  <2> QED
    BY <2>2, <2>3 DEF Sliced
<1>8. A = Write(Room.mem, di, lits)
  BY DEF AfterLiterals
<1> HIDE DEF lits, A
<1>9. /\ A \in Seq(Bytes) /\ Len(A) = n
      /\ \A j \in 1 .. n : A[j] = IF di < j /\ j <= di + Len(lits) THEN lits[j - di] ELSE Room.mem[j]
  <2>1. Written(A, Bytes, Room.mem, di, lits)
    BY <1>1, <1>2, <1>7, <1>8, WriteIs
  <2> QED
    BY <2>1 DEF Written
<1>10. B = IF M = 0 THEN A
           ELSE IF MatchIsShort THEN Write(A, at, Slice(A, mpos, mpos + Over))
           ELSE MatchCopy(A, at, mpos, M)
  BY DEF AfterMatch, A
<1> HIDE DEF L, M, w, n, B, at, dist
<1>11. \A j \in 1 .. di : A[j] = out.mem[j]
  BY <1>1, <1>2, <1>9
<1>12. \A j \in 1 .. L : A[di + j] = Literals[litPos + j]
  <2> SUFFICES ASSUME NEW j \in 1 .. L PROVE A[di + j] = Literals[litPos + j]
    OBVIOUS
  <2>1. /\ di + j \in 1 .. n /\ di < di + j /\ di + j <= di + w /\ (di + j) - di = j
        /\ j \in 1 .. w
    BY <1>1, <1>2, <1>4
  <2> QED
    BY <1>7, <1>9, <2>1
<1>12a. at \in Nat /\ M \in Nat /\ n \in Nat /\ at + M <= n /\ at <= n /\ (M # 0 => M > 0)
  <2>1. L \in Nat /\ M \in Nat /\ di \in Nat /\ Over \in Nat
    BY <1>1
  <2>2. n \in Nat /\ di + L + M + Over <= n
    BY <1>2
  <2> QED
    BY <1>5, <2>1, <2>2
<1>13. /\ B \in Seq(Bytes) /\ Len(B) = n
       /\ \A j \in 1 .. at : B[j] = A[j]
       /\ \A j \in at + 1 .. at + M : B[j] = B[j - dist]
  <2>1. CASE M = 0
    <3>1. B = A
      BY <1>10, <2>1
    <3>2. \A j \in at + 1 .. at + M : FALSE
      BY <1>5, <2>1
    <3> QED
      BY <1>9, <3>1, <3>2
  <2>2. CASE M # 0 /\ MatchIsShort
    <3> DEFINE bytes == Slice(A, mpos, mpos + Over)
    <3>1. B = Write(A, at, bytes)
      BY <1>10, <2>2
    <3>2. M <= Over /\ dist >= Over /\ dist <= at /\ mpos = at - dist
      BY <1>1, <1>6, <2>2 DEF MatchIsShort, M, dist, at
    <3>3. mpos \in Nat /\ mpos + Over \in Nat /\ mpos <= mpos + Over /\ mpos + Over <= Len(A)
      BY <1>1, <1>2, <1>5, <1>9, <3>2
    <3> HIDE DEF mpos
    <3>4. Sliced(bytes, Bytes, A, mpos, mpos + Over)
      BY <1>9, <3>3, SliceIs
    <3> HIDE DEF bytes
    <3>5. bytes \in Seq(Bytes) /\ Len(bytes) = Over /\ \A i \in 1 .. Over : bytes[i] = A[mpos + i]
      <4>1. (mpos + Over) - mpos = Over
        BY <1>1, <3>3
      <4> QED
        BY <3>4, <4>1 DEF Sliced
    <3>6. /\ B \in Seq(Bytes) /\ Len(B) = Len(A)
          /\ \A j \in 1 .. Len(A) :
               B[j] = IF at < j /\ j <= at + Len(bytes) THEN bytes[j - at] ELSE A[j]
      <4>1. Written(B, Bytes, A, at, bytes)
        BY <1>5, <1>9, <3>1, <3>5, WriteIs
      <4> QED
        BY <4>1 DEF Written
    <3>7. ASSUME NEW j \in 1 .. at PROVE B[j] = A[j]
      <4>1. j \in 1 .. Len(A) /\ ~ (at < j)
        <5>1. at \in Nat /\ n \in Nat /\ at <= n /\ Len(A) = n
          BY <1>12a, <1>9
        <5> QED
          BY <5>1
      <4> QED
        BY <3>6, <4>1
    <3>8. ASSUME NEW j \in at + 1 .. at + M PROVE B[j] = B[j - dist]
      <4>1. /\ j \in 1 .. n /\ j - at \in 1 .. Over /\ mpos + (j - at) = j - dist
            /\ j - dist \in 1 .. at
        BY <1>1, <1>2, <1>5, <3>2
      <4>2. B[j] = bytes[j - at]
        <5>1. at < j /\ j <= at + Len(bytes) /\ j \in 1 .. Len(A)
          BY <1>1, <1>5, <1>9, <3>2, <3>5, <4>1
        <5> QED
          BY <3>6, <5>1
      <4>3. bytes[j - at] = A[j - dist]
        BY <3>5, <4>1
      <4> QED
        BY <3>7, <4>1, <4>2, <4>3
    <3> QED
      BY <1>9, <3>6, <3>7, <3>8
  <2>3. CASE M # 0 /\ ~ MatchIsShort
    <3>1. B = MatchCopy(A, at, mpos, M)
      BY <1>10, <2>3
    <3>2. /\ mpos \in Nat /\ mpos < at /\ at + M <= Len(A) /\ at - mpos = dist
      <4>1. mpos = at - dist
        BY DEF at, dist
      <4>2. dist \in Nat /\ dist > 0 /\ dist <= at /\ at \in Nat
        BY <1>1, <1>5, <1>6, <1>12a, <2>3
      <4>3. at + M <= Len(A)
        BY <1>9, <1>12a
      <4> HIDE DEF mpos
      <4> QED
        BY <4>1, <4>2, <4>3
    <3> HIDE DEF mpos
    <3>3. /\ B \in Seq(Bytes) /\ Len(B) = Len(A)
          /\ \A j \in 1 .. at : B[j] = A[j]
          /\ \A j \in at + 1 .. at + M : B[j] = B[j - (at - mpos)]
      BY <1>1, <1>5, <1>9, <3>1, <3>2, MatchCopyIs
    <3> QED
      BY <1>9, <3>2, <3>3
  <2> QED
    BY <2>1, <2>2, <2>3
<1>14. \A j \in 1 .. di : B[j] = out.mem[j]
  BY <1>1, <1>5, <1>11, <1>13
<1>15. \A j \in 1 .. L : B[di + j] = Literals[litPos + j]
  <2> SUFFICES ASSUME NEW j \in 1 .. L PROVE B[di + j] = Literals[litPos + j]
    OBVIOUS
  <2>1. di + j \in 1 .. at
    BY <1>1, <1>5
  <2> QED
    BY <1>12, <1>13, <2>1
<1> QED
  BY <1>13, <1>14, <1>15 DEF L, M, n, B, at, dist, Capacity
-----------------------------------------------------------------------------
(***************************************************************************)
(* One lemma per action: it keeps the invariant, and what was decoded.     *)
(***************************************************************************)
PrefixStays == \A j \in 1 .. di : j <= Capacity(out)' /\ out.mem'[j] = out.mem[j]

LEMMA RecordKeepsIInv ==
    ASSUME IInv, DecodeRecord
    PROVE  IInv' /\ PrefixStays
<1>1. /\ AtRecord /\ pc = "records" /\ pc' = pc /\ frame' = frame /\ blockStart' = blockStart
      /\ ~ LiteralsExhausted /\ ~ DistanceInvalid
      /\ out' = [len |-> Room.len, mem |-> AfterMatch]
      /\ di' = di + Rec.L + Rec.M
      /\ litPos' = litPos + Rec.L /\ D' = Dist /\ rec' = rec + 1
  BY DEF DecodeRecord, AtRecord, MatchAt
<1>2. /\ Rec.L \in Nat /\ Rec.M \in Nat /\ Rec.M <= MaxMValue /\ MaxMValue \in Nat
      /\ Len(Literals) \in Nat /\ Len(frame.recs) \in Nat
      /\ rec + 1 <= Len(frame.recs) /\ Over \in Nat /\ Dist \in Nat
  BY <1>1, RecordFields, DistanceNat, DecoderAssumption
<1>3. /\ di \in Nat /\ blockStart \in Nat /\ litPos \in Nat /\ rec \in Nat
      /\ di <= Len(out.mem) /\ Len(out.mem) \in Nat
      /\ di - blockStart <= litPos + rec * MaxMValue
      /\ blockStart + frame.nRaw <= MaxOut
  BY <1>1 DEF IInv, Counters, Reserved, Capacity, ProducedWithinBound
<1>4. Counters'
  <2>1. di' \in Nat
    BY <1>1, <1>2, <1>3, SMTT(30)
  <2>2. litPos' \in Nat /\ rec' \in Nat
    BY <1>1, <1>2, <1>3, SMTT(30)
  <2>3. D' \in Nat /\ blockStart' \in Nat
    BY <1>1, <1>2, <1>3
  <2> QED
    BY <2>1, <2>2, <2>3 DEF Counters
<1>5. /\ Room.len \in Nat /\ di + Rec.L + Rec.M + Over <= Room.len
      /\ Capacity(Room) \in Nat /\ Room.len <= Capacity(Room)
      /\ AfterMatch \in Seq(Bytes) /\ Len(AfterMatch) = Capacity(Room)
      /\ \A j \in 1 .. di : AfterMatch[j] = out.mem[j]
  BY <1>1, RoomSuffices, RecordWrites
<1>6. out'.len = Room.len /\ out'.mem = AfterMatch /\ DOMAIN out' = {"mem", "len"}
  BY <1>1
<1>7. Reserved'
  <2>1. di' <= out'.len
    BY <1>1, <1>2, <1>3, <1>5, <1>6, SMTT(30)
  <2> QED
    BY <1>5, <1>6, <2>1 DEF Reserved, Capacity
<1>8. PrefixStays
  <2>1. di <= Len(AfterMatch)
    BY <1>2, <1>3, <1>5, SMTT(30)
  <2> QED
    BY <1>3, <1>5, <1>6, <2>1 DEF PrefixStays, Capacity
<1>9. ProducedWithinBound'
  <2>1. (rec + 1) * MaxMValue = rec * MaxMValue + MaxMValue /\ rec * MaxMValue \in Nat
    BY <1>2, <1>3
  <2>2. di' - blockStart' <= litPos' + rec' * MaxMValue
    <3>1. (di + Rec.L + Rec.M) - blockStart
             <= (litPos + Rec.L) + (rec * MaxMValue + MaxMValue)
      BY <1>2, <1>3, <2>1, OneMoreRecord
    <3> QED
      BY <1>1, <2>1, <3>1
  <2>3. litPos' <= Len(Literals)'
    BY <1>1, <1>2, <1>3 DEF LiteralsExhausted, Literals
  <2>4. rec' <= Len(frame.recs)' /\ blockStart' + frame'.nRaw <= MaxOut
    BY <1>1, <1>2, <1>3
  <2> QED
    BY <2>2, <2>3, <2>4 DEF ProducedWithinBound
<1>10. Framed' /\ OutputWithinLimit'
  BY <1>1 DEF IInv, Framed, OutputWithinLimit
<1> QED
  BY <1>4, <1>7, <1>8, <1>9, <1>10 DEF IInv

\* An error leaves everything but the frame and the program counter alone.
LEMMA FailKeepsIInv ==
    ASSUME IInv, NEW why \in Failed, Fail(why), frame' = NoFrame \/ frame' = frame
    PROVE  IInv' /\ PrefixStays
<1>1. pc' \in Failed /\ pc' \notin {"records", "block", "done"}
  BY DEF Fail, Failed
<1>2. Counters' /\ Reserved'
  BY DEF Fail, IInv, Counters, Reserved, Capacity
<1>3. Framed'
  BY <1>1 DEF IInv, Framed
<1>4. PrefixStays
  <2>1. di \in Nat /\ di <= Len(out.mem) /\ Len(out.mem) \in Nat
    BY DEF IInv, Counters, Reserved, Capacity
  <2> QED
    BY <2>1 DEF Fail, PrefixStays, Capacity
<1> QED
  BY <1>1, <1>2, <1>3, <1>4 DEF IInv, ProducedWithinBound, OutputWithinLimit

LEMMA StoredKeepsIInv ==
    ASSUME IInv, NEW f, IsFrame(f), Stored(f)
    PROVE  /\ IInv' /\ PrefixStays
           /\ FitsLimit(f.nRaw) => \A i \in 1 .. f.nRaw : out'.mem[di + i] = f.literals[i]
<1>1. CASE ~ FitsLimit(f.nRaw)
  <2>1. Fail("too large") /\ frame' = NoFrame /\ "too large" \in Failed
    BY <1>1 DEF Stored, Failed
  <2> QED
    BY <1>1, <2>1, FailKeepsIInv
<1>2. CASE FitsLimit(f.nRaw)
  <2> DEFINE need == out.len + f.nRaw
  <2>1. PICK slack \in {0, Over} :
          out' = [len |-> need,
                  mem |-> Write(IF need <= Capacity(out) THEN out.mem
                                ELSE Realloc(out, out.len, need + slack),
                                out.len, f.literals)]
    BY <1>2 DEF Stored
  <2>2. /\ pc = "block" /\ pc' = pc /\ di' = need /\ frame' = NoFrame
        /\ UNCHANGED <<blockStart, litPos, D, rec>>
    BY <1>2 DEF Stored
  <2>3. /\ out.len \in Nat /\ f.nRaw \in Nat /\ Over \in Nat /\ Zero \in Bytes
        /\ out.mem \in Seq(Bytes) /\ Len(out.mem) \in Nat /\ out.len <= Len(out.mem)
        /\ f.literals \in Seq(Bytes) /\ Len(f.literals) = f.nRaw /\ di = out.len
    <3>1. f.nRaw \in Nat /\ f.literals \in Seq(Bytes) /\ Len(f.literals) = f.nRaw
      BY DEF IsFrame, Stored
    <3>2. /\ out.len \in Nat /\ out.mem \in Seq(Bytes) /\ out.len <= Len(out.mem)
          /\ di = out.len
      BY <2>2 DEF IInv, Reserved, Capacity, OutputWithinLimit
    <3>3. Over \in Nat /\ Zero \in Bytes
      BY DecoderAssumption
    <3>4. Len(out.mem) \in Nat
      BY <3>2
    <3> QED
      BY <3>1, <3>2, <3>3, <3>4
  <2>4. /\ need \in Nat /\ need + slack \in Nat /\ need <= need + slack /\ out.len <= need
        /\ need <= MaxOut
    BY <1>2, <2>3 DEF FitsLimit
  <2> HIDE DEF need
  <2> DEFINE base == IF need <= Capacity(out) THEN out.mem
                     ELSE Realloc(out, out.len, need + slack)
  <2>5. /\ base \in Seq(Bytes) /\ need <= Len(base)
        /\ \A j \in 1 .. out.len : base[j] = out.mem[j]
    <3>1. CASE need <= Capacity(out)
      BY <2>3, <3>1 DEF Capacity
    <3>2. CASE ~ (need <= Capacity(out))
      <4> DEFINE c == need + slack
                 r == Realloc(out, out.len, c)
      <4>1. /\ r \in Seq(Bytes) /\ Len(r) = c
            /\ \A j \in 1 .. c : j <= out.len => r[j] = out.mem[j]
        <5>1. Moved(r, Bytes, out, out.len, c)
          BY <2>3, <2>4, ReallocIs
        <5> QED
          BY <5>1 DEF Moved
      <4>2. base = r
        BY <3>2
      <4> HIDE DEF r, base
      <4>3. \A j \in 1 .. out.len : r[j] = out.mem[j]
        BY <2>3, <2>4, <4>1
      <4> QED
        BY <2>4, <4>1, <4>2, <4>3
    <3> QED
      BY <3>1, <3>2
  <2> DEFINE mem == Write(base, out.len, f.literals)
  <2>6. out' = [len |-> need, mem |-> mem]
    BY <2>1
  <2> HIDE DEF base
  <2>7. /\ mem \in Seq(Bytes) /\ Len(mem) = Len(base)
        /\ \A j \in 1 .. Len(base) : mem[j] =
             IF out.len < j /\ j <= out.len + Len(f.literals) THEN f.literals[j - out.len] ELSE base[j]
    <3>1. Written(mem, Bytes, base, out.len, f.literals)
      BY <2>3, <2>5, WriteIs
    <3> QED
      BY <3>1 DEF Written
  <2> HIDE DEF mem
  <2>8. DOMAIN out' = {"mem", "len"} /\ out'.len = need /\ out'.mem = mem
    BY <2>6
  <2>9. Reserved'
    BY <2>2, <2>4, <2>5, <2>7, <2>8 DEF Reserved, Capacity
  <2>10. Counters' /\ Framed'
    BY <2>2, <2>4 DEF IInv, Counters, Framed
  <2>11. PrefixStays
    <3> SUFFICES ASSUME NEW j \in 1 .. di PROVE j <= Len(mem) /\ mem[j] = out.mem[j]
      BY <2>8 DEF PrefixStays, Capacity
    <3>1. j \in 1 .. out.len /\ j \in 1 .. Len(base) /\ ~ (out.len < j)
      BY <2>3, <2>4, <2>5
    <3> QED
      BY <2>5, <2>7, <3>1
  <2>12. ASSUME NEW i \in 1 .. f.nRaw PROVE out'.mem[di + i] = f.literals[i]
    <3>1. /\ di + i \in 1 .. Len(base) /\ di < di + i /\ di + i <= out.len + Len(f.literals)
          /\ (di + i) - out.len = i
      <4>1. /\ di = out.len /\ Len(f.literals) = f.nRaw /\ need = out.len + f.nRaw
            /\ need <= Len(base) /\ Len(base) \in Nat /\ f.nRaw \in Nat /\ out.len \in Nat
        BY <2>3, <2>5 DEF need
      <4> QED
        BY <4>1
    <3> QED
      BY <2>3, <2>7, <2>8, <3>1
  <2> QED
    BY <2>12, <2>2, <2>4, <2>8, <2>9, <2>10, <2>11 DEF IInv, ProducedWithinBound, OutputWithinLimit
<1> QED
  BY <1>1, <1>2

LEMMA CompressedKeepsIInv ==
    ASSUME IInv, NEW f, IsFrame(f), Compressed(f)
    PROVE  IInv' /\ PrefixStays
<1>1. CASE Complaints(f) # {}
  <2>1. frame' = NoFrame /\ \E why \in Failed : Fail(why)
    BY <1>1 DEF Compressed, Complaints
  <2> QED
    BY <2>1, FailKeepsIInv
<1>2. CASE Complaints(f) = {}
  <2> DEFINE extra == f.nRaw + Over
  <2>1. /\ pc' = "records" /\ frame' = f /\ pc = "block"
        /\ out' = GrowOut(out, out.len, extra)
        /\ di' = out.len /\ blockStart' = out.len
        /\ litPos' = 0 /\ D' = 0 /\ rec' = 0
    BY <1>2 DEF Compressed
  <2>2. FitsLimit(f.nRaw)
    BY <1>2 DEF Complaints, Failed
  <2>3. /\ out.len \in Nat /\ f.nRaw \in Nat /\ Over \in Nat /\ MaxMValue \in Nat
        /\ out.mem \in Seq(Bytes) /\ out.len <= Len(out.mem) /\ Zero \in Bytes
        /\ f.literals \in Seq(Bytes) /\ Len(f.recs) \in Nat /\ di = out.len
    BY <2>1, DecoderAssumption DEF IInv, Reserved, Capacity, OutputWithinLimit, IsFrame
  <2>4. extra \in Nat
    BY <2>3
  <2> HIDE DEF extra
  <2>5. /\ DOMAIN out' = {"mem", "len"} /\ out'.len = out.len + extra
        /\ out'.mem \in Seq(Bytes) /\ out'.len <= Len(out'.mem)
        /\ \A j \in 1 .. out.len : out'.mem[j] = out.mem[j]
    BY <2>1, <2>3, <2>4, GrowOutIs, SMTT(30)
  <2>6. Reserved'
    BY <2>1, <2>3, <2>4, <2>5 DEF Reserved, Capacity
  <2>7. Counters' /\ Framed'
    BY <2>1, <2>3 DEF Counters, Framed
  <2>8. ProducedWithinBound'
    <3>1. di' - blockStart' <= litPos' + rec' * MaxMValue
      BY <2>1, <2>3
    <3>2. blockStart' + frame'.nRaw <= MaxOut
      BY <2>1, <2>2 DEF FitsLimit
    <3>3. litPos' <= Len(Literals)' /\ rec' <= Len(frame.recs)'
      BY <2>1, <2>3 DEF Literals
    <3> QED
      BY <3>1, <3>2, <3>3 DEF ProducedWithinBound
  <2>9. PrefixStays
    <3> SUFFICES ASSUME NEW j \in 1 .. di
                 PROVE  j <= Len(out'.mem) /\ out'.mem[j] = out.mem[j]
      BY DEF PrefixStays, Capacity
    <3>1. j \in 1 .. out.len /\ Len(out'.mem) \in Nat
      BY <2>3, <2>5
    <3>2. j <= Len(out'.mem)
      BY <2>3, <2>4, <2>5, <3>1
    <3> QED
      BY <2>5, <3>1, <3>2
  <2> QED
    BY <2>1, <2>6, <2>7, <2>8, <2>9 DEF IInv, OutputWithinLimit
<1> QED
  BY <1>1, <1>2

LEMMA EndBlockKeepsIInv ==
    ASSUME IInv, EndBlock
    PROVE  IInv' /\ PrefixStays
<1>1. CASE di - blockStart # frame.nRaw
  <2>1. Fail("length") /\ frame' = frame /\ "length" \in Failed
    BY <1>1 DEF EndBlock, Failed
  <2> QED
    BY <2>1, FailKeepsIInv
<1>2. CASE di - blockStart = frame.nRaw
  <2>1. /\ pc = "records" /\ pc' = "block" /\ di' = di /\ frame' = NoFrame
        /\ out' = [out EXCEPT !.len = di]
        /\ blockStart' = 0 /\ litPos' = 0 /\ D' = 0 /\ rec' = 0
    BY <1>2 DEF EndBlock, LocalsEnd
  <2>2. /\ di \in Nat /\ blockStart \in Nat /\ IsFrame(frame)
        /\ blockStart + frame.nRaw <= MaxOut
        /\ DOMAIN out = {"mem", "len"} /\ out.len \in Nat /\ di <= out.len
        /\ out.mem \in Seq(Bytes) /\ out.len <= Len(out.mem)
    BY <2>1 DEF IInv, Counters, Reserved, ProducedWithinBound, Framed, Capacity
  <2>3. frame.nRaw \in Nat /\ MaxOut \in Nat
    BY <2>2, DecoderAssumption DEF IsFrame
  <2>4. di <= MaxOut
    BY <1>2, <2>2, <2>3
  <2>5. out'.len = di /\ out'.mem = out.mem /\ DOMAIN out' = {"mem", "len"}
    BY <2>1, <2>2
  <2>6. Reserved'
    BY <2>1, <2>2, <2>5 DEF Reserved, Capacity
  <2>7. Counters' /\ Framed'
    BY <2>1, <2>2 DEF Counters, Framed
  <2>8. PrefixStays
    BY <2>2, <2>5 DEF PrefixStays, Capacity
  <2> QED
    BY <2>1, <2>4, <2>5, <2>6, <2>7, <2>8 DEF IInv, ProducedWithinBound, OutputWithinLimit
<1> QED
  BY <1>1, <1>2

LEMMA StillKeepsIInv ==
    ASSUME IInv, UNCHANGED <<frame, out, di, blockStart, litPos, D, rec>>,
           pc' = pc \/ (pc = "block" /\ pc' = "done")
    PROVE  IInv' /\ PrefixStays
<1>1. Counters' /\ Reserved' /\ Framed'
  BY DEF IInv, Counters, Reserved, Framed, Capacity
<1>2. ProducedWithinBound' /\ OutputWithinLimit'
  BY DEF IInv, ProducedWithinBound, OutputWithinLimit, Literals
<1>3. PrefixStays
  <2>1. di \in Nat /\ di <= Len(out.mem) /\ Len(out.mem) \in Nat
    BY DEF IInv, Counters, Reserved, Capacity
  <2> QED
    BY <2>1 DEF PrefixStays, Capacity
<1> QED
  BY <1>1, <1>2, <1>3 DEF IInv
-----------------------------------------------------------------------------
LEMMA InitIInv ==
    ASSUME Init
    PROVE  IInv
<1>1. /\ out.mem = << >> /\ Len(out.mem) = 0 /\ out.len = 0 /\ DOMAIN out = {"mem", "len"}
      /\ out.mem \in Seq(Bytes)
  BY DEF Init
<1>2. Counters /\ Reserved /\ Framed
  BY <1>1 DEF Init, Counters, Reserved, Framed, Capacity
<1> QED
  BY <1>1, <1>2, DecoderAssumption DEF Init, IInv, ProducedWithinBound, OutputWithinLimit

LEMMA RejectKeepsIInv ==
    ASSUME IInv, RejectRecord
    PROVE  IInv' /\ PrefixStays
<1>1. frame' = frame /\ \E why \in Failed : Fail(why)
  BY DEF RejectRecord, Failed
<1> QED
  BY <1>1, FailKeepsIInv

LEMMA StepKeepsIInv ==
    ASSUME IInv, [Next]_decoderVars
    PROVE  IInv' /\ PrefixStays
<1>1. ASSUME NEW f \in Frames, Stored(f)
      PROVE  IInv' /\ PrefixStays
  BY <1>1, StoredKeepsIInv, DecoderAssumption
<1>2. ASSUME NEW f \in Frames, Compressed(f)
      PROVE  IInv' /\ PrefixStays
  BY <1>2, CompressedKeepsIInv, DecoderAssumption
<1>3. CASE DecodeRecord
  BY <1>3, RecordKeepsIInv
<1>4. CASE RejectRecord
  BY <1>4, RejectKeepsIInv
<1>5. CASE EndBlock
  BY <1>5, EndBlockKeepsIInv
<1>6. CASE EndOfStream
  BY <1>6, StillKeepsIInv DEF EndOfStream
<1>7. CASE UNCHANGED decoderVars
  BY <1>7, StillKeepsIInv DEF decoderVars
<1> QED
  BY <1>1, <1>2, <1>3, <1>4, <1>5, <1>6, <1>7 DEF Next

THEOREM IInvHolds == Spec => []IInv
<1>1. Init => IInv
  BY InitIInv
<1>2. IInv /\ [Next]_decoderVars => IInv'
  BY StepKeepsIInv
<1> QED
  BY <1>1, <1>2, PTL DEF Spec

(***************************************************************************)
(* The decoder's state is well typed for every stream of frames: the       *)
(* length never leads the backing array, which holds bytes.                *)
(***************************************************************************)
THEOREM TypeOKHolds == Spec => []TypeOK
<1>1. IInv => TypeOK
  <2> SUFFICES ASSUME IInv PROVE TypeOK
    OBVIOUS
  <2>1. frame.nRaw \in Nat /\ frame.literals \in Seq(Bytes)
    <3>1. CASE frame = NoFrame
      BY <3>1 DEF NoFrame
    <3>2. CASE IsFrame(frame)
      BY <3>2 DEF IsFrame
    <3> QED
      BY <3>1, <3>2 DEF IInv, Framed
  <2> QED
    BY <2>1 DEF IInv, Counters, Reserved, Framed, TypeOK
<1> QED
  BY <1>1, IInvHolds, PTL

(***************************************************************************)
(* No step of the decoder, on any stream, changes or drops a byte that was *)
(* decoded: growOut copies all of the used prefix, and no over-wide copy   *)
(* reaches back.                                                           *)
(***************************************************************************)
THEOREM PrefixKeptHolds == Spec => PrefixKept
<1>1. IInv /\ [Next]_decoderVars =>
        [\A j \in 1 .. di : j <= Capacity(out)' /\ out.mem'[j] = out.mem[j]]_decoderVars
  BY StepKeepsIInv DEF PrefixStays
<1> QED
  BY <1>1, IInvHolds, PTL DEF Spec, PrefixKept

(***************************************************************************)
(* For every stream of frames, however its records, literals and declared  *)
(* sizes disagree: no copy of the L,M,D loop starts or ends outside the    *)
(* backing array, and a fixed copy of a short match reads only what was    *)
(* written.                                                                *)
(***************************************************************************)
THEOREM SlicesStayInBufferHolds == Spec => []SlicesStayInBuffer
<1>1. ASSUME IInv, AtRecord, ~ LiteralsExhausted, ~ DistanceInvalid
      PROVE  /\ di + LitWidth <= Capacity(Room)
             /\ litPos + LitWidth <= Len(Literals)
             /\ Rec.M > 0 =>
                  /\ 0 <= MatchAt - Dist
                  /\ MatchAt + (IF MatchIsShort THEN Over ELSE Rec.M) <= Capacity(Room)
                  /\ MatchIsShort => MatchAt - Dist + Over <= MatchAt
  <2>1. /\ Rec.L \in Nat /\ Rec.M \in Nat /\ Over \in Nat /\ Dist \in Nat
        /\ di \in Nat /\ litPos \in Nat /\ Len(Literals) \in Nat
    BY <1>1, RecordFields, DistanceNat, DecoderAssumption DEF IInv, Counters
  <2>2. di + Rec.L + Rec.M + Over <= Capacity(Room) /\ Capacity(Room) \in Nat
    BY <1>1, <2>1, RoomSuffices
  <2>3. litPos + Rec.L <= Len(Literals)
    BY <1>1, <2>1 DEF LiteralsExhausted
  <2>4. /\ di + LitWidth <= Capacity(Room)
        /\ litPos + LitWidth <= Len(Literals)
    BY <2>1, <2>2, <2>3, SMTT(30) DEF LitWidth
  <2>5. ASSUME Rec.M > 0
        PROVE  /\ 0 <= MatchAt - Dist
               /\ MatchAt + (IF MatchIsShort THEN Over ELSE Rec.M) <= Capacity(Room)
               /\ MatchIsShort => MatchAt - Dist + Over <= MatchAt
    <3>1. MatchAt \in Nat /\ MatchAt = di + Rec.L
      BY <2>1 DEF MatchAt
    <3>2. Dist <= MatchAt
      BY <1>1, <2>1, <2>5, <3>1 DEF DistanceInvalid
    <3>3. MatchIsShort => Rec.M <= Over /\ Dist >= Over
      BY DEF MatchIsShort
    <3>4. MatchAt + (IF MatchIsShort THEN Over ELSE Rec.M) <= Capacity(Room)
      BY <2>1, <2>2, <3>1, SMTT(30)
    <3>5. 0 <= MatchAt - Dist
      BY <2>1, <3>1, <3>2
    <3>6. MatchIsShort => MatchAt - Dist + Over <= MatchAt
      BY <2>1, <3>1, <3>3
    <3>. QED BY <3>4, <3>5, <3>6
  <2>. QED BY <2>4, <2>5
<1>2. IInv => SlicesStayInBuffer
  BY <1>1 DEF SlicesStayInBuffer
<1>. QED BY <1>2, IInvHolds, PTL

(***************************************************************************)
(* A block never produces more than its literals and records allow, even   *)
(* when it declares less: the growth of the output is bounded before the   *)
(* length check sees it.                                                   *)
(***************************************************************************)
THEOREM ProducedWithinBoundHolds == Spec => []ProducedWithinBound
<1>1. IInv => ProducedWithinBound
  BY DEF IInv
<1>. QED BY <1>1, IInvHolds, PTL

(***************************************************************************)
(* Between blocks, and at the end, the output is exactly as long as the    *)
(* accepted blocks declared and within the caller's limit.                 *)
(***************************************************************************)
THEOREM OutputWithinLimitHolds == Spec => []OutputWithinLimit
<1>1. IInv => OutputWithinLimit
  BY DEF IInv
<1>. QED BY <1>1, IInvHolds, PTL
-----------------------------------------------------------------------------
(***************************************************************************)
(* What the encoder's records say.  A list of raw records, with the        *)
(* positions its literals were taken from, walks the source from x to y:   *)
(* after record k it has reached at[k] and used[k] literals.  The literals *)
(* of a record are the positions it passes, all open (no match covers      *)
(* them); the rest it passes is covered, and src is there what it is the   *)
(* record's distance before.                                               *)
(***************************************************************************)
RawRecord == [L : Nat, M : 0 .. MaxMValue, D : Nat \ {0}]

Passes(r, lits, src, open, p, l) ==
    /\ \A j \in 1 .. r.L : p + j - 1 \in open /\ lits[l + j] = p + j - 1
    /\ \A q \in p + r.L .. p + r.L + r.M - 1 : q \notin open /\ src[q] = src[q - r.D]
    /\ r.M > 0 => r.D <= p + r.L

Walk(at, used, recs, lits, src, open, x, y) ==
    /\ at[0] = x /\ used[0] = 0
    /\ at[Len(recs)] = y /\ used[Len(recs)] = Len(lits)
    /\ \A k \in 0 .. Len(recs) : at[k] \in x .. y /\ used[k] \in 0 .. Len(lits)
    /\ \A k \in 1 .. Len(recs) :
         /\ at[k] = at[k - 1] + recs[k].L + recs[k].M
         /\ used[k] = used[k - 1] + recs[k].L
         /\ Passes(recs[k], lits, src, open, at[k - 1], used[k - 1])

Tells(recs, lits, src, open, x, y) ==
    /\ recs \in Seq(RawRecord) /\ lits \in Seq(Nat) /\ x \in Nat /\ y \in Nat
    /\ \E at \in [0 .. Len(recs) -> Nat], used \in [0 .. Len(recs) -> Nat] :
         Walk(at, used, recs, lits, src, open, x, y)

LEMMA TellsNothing ==
    ASSUME NEW x \in Nat, NEW src, NEW open
    PROVE  Tells(<< >>, << >>, src, open, x, x)
<1> DEFINE at == [k \in 0 .. 0 |-> x]
           used == [k \in 0 .. 0 |-> 0]
<1>1. at \in [0 .. 0 -> Nat] /\ used \in [0 .. 0 -> Nat] /\ at[0] = x /\ used[0] = 0
  OBVIOUS
<1> DEFINE recs == << >>
<1>2. recs \in Seq(RawRecord) /\ recs \in Seq(Nat) /\ Len(recs) = 0
  OBVIOUS
<1> HIDE DEF at, used, recs
<1>3. Walk(at, used, recs, recs, src, open, x, x)
  BY <1>1, <1>2 DEF Walk
<1>4. Tells(recs, recs, src, open, x, x)
  BY <1>1, <1>2, <1>3 DEF Tells
<1> QED
  BY <1>4 DEF recs

\* Two walks that meet.
LEMMA TellsBoth ==
    ASSUME NEW r1, NEW l1, NEW r2, NEW l2, NEW src, NEW open, NEW x, NEW y, NEW z,
           Tells(r1, l1, src, open, x, y), Tells(r2, l2, src, open, y, z)
    PROVE  Tells(r1 \o r2, l1 \o l2, src, open, x, z)
<1> DEFINE m == Len(r1)
           n == Len(r2)
           c == Len(l1)
           recs == r1 \o r2
           lits == l1 \o l2
<1>1. /\ r1 \in Seq(RawRecord) /\ l1 \in Seq(Nat) /\ r2 \in Seq(RawRecord) /\ l2 \in Seq(Nat)
      /\ x \in Nat /\ y \in Nat /\ z \in Nat
  BY DEF Tells
<1>2. m \in Nat /\ n \in Nat /\ c \in Nat /\ Len(l2) \in Nat
  BY <1>1
<1>3. /\ recs \in Seq(RawRecord) /\ Len(recs) = m + n
      /\ \A k \in 1 .. m + n : recs[k] = IF k <= m THEN r1[k] ELSE r2[k - m]
  BY <1>1, ConcatProperties
<1>4. /\ lits \in Seq(Nat) /\ Len(lits) = c + Len(l2)
      /\ \A k \in 1 .. c + Len(l2) : lits[k] = IF k <= c THEN l1[k] ELSE l2[k - c]
  BY <1>1, ConcatProperties
<1> HIDE DEF recs, lits
<1>5. PICK a1 \in [0 .. m -> Nat], u1 \in [0 .. m -> Nat] :
         Walk(a1, u1, r1, l1, src, open, x, y)
  BY DEF Tells
<1>6. PICK a2 \in [0 .. n -> Nat], u2 \in [0 .. n -> Nat] :
         Walk(a2, u2, r2, l2, src, open, y, z)
  BY DEF Tells
<1> HIDE DEF m, n, c
<1> DEFINE at == [k \in 0 .. m + n |-> IF k <= m THEN a1[k] ELSE a2[k - m]]
           used == [k \in 0 .. m + n |-> IF k <= m THEN u1[k] ELSE c + u2[k - m]]
<1>7. /\ a1[0] = x /\ u1[0] = 0 /\ a1[m] = y /\ u1[m] = c
      /\ \A k \in 0 .. m : a1[k] \in x .. y /\ u1[k] \in 0 .. c
      /\ \A k \in 1 .. m : /\ a1[k] = a1[k - 1] + r1[k].L + r1[k].M
                           /\ u1[k] = u1[k - 1] + r1[k].L
                           /\ Passes(r1[k], l1, src, open, a1[k - 1], u1[k - 1])
  BY <1>5 DEF Walk, m, c
<1>8. /\ a2[0] = y /\ u2[0] = 0 /\ a2[n] = z /\ u2[n] = Len(l2)
      /\ \A k \in 0 .. n : a2[k] \in y .. z /\ u2[k] \in 0 .. Len(l2)
      /\ \A k \in 1 .. n : /\ a2[k] = a2[k - 1] + r2[k].L + r2[k].M
                           /\ u2[k] = u2[k - 1] + r2[k].L
                           /\ Passes(r2[k], l2, src, open, a2[k - 1], u2[k - 1])
  BY <1>6 DEF Walk, n
<1>9. x <= y /\ y <= z
  <2>1. a1[m] \in x .. y /\ a2[n] \in y .. z /\ a1[0] \in x .. y /\ a2[0] \in y .. z
    BY <1>2, <1>7, <1>8
  <2> QED
    BY <1>1, <2>1
<1>b. ASSUME NEW v
      PROVE  /\ v \in x .. y => v \in x .. z
             /\ v \in y .. z => v \in x .. z
             /\ v \in 0 .. c => v \in 0 .. c + Len(l2) /\ v \in Nat
             /\ v \in 0 .. Len(l2) => c + v \in 0 .. c + Len(l2) /\ v \in Nat
  <2>1. v \in x .. y => v \in x .. z
    BY <1>1, <1>9
  <2>2. v \in y .. z => v \in x .. z
    BY <1>1, <1>9
  <2>3. Len(l2) \in Nat /\ c \in Nat
    BY <1>2
  <2>4. v \in 0 .. c => v \in 0 .. c + Len(l2) /\ v \in Nat
    BY <2>3
  <2>5. v \in 0 .. Len(l2) => c + v \in 0 .. c + Len(l2) /\ v \in Nat
    BY <2>3
  <2> QED
    BY <2>1, <2>2, <2>4, <2>5
<1>10. ASSUME NEW k \in 0 .. m PROVE at[k] = a1[k] /\ used[k] = u1[k]
  BY <1>2
<1>11. ASSUME NEW k \in 0 .. n PROVE at[m + k] = a2[k] /\ used[m + k] = c + u2[k]
  <2>1. CASE k = 0
    BY <1>2, <1>7, <1>8, <2>1
  <2>2. CASE k # 0
    <3>1. m + k \in 0 .. m + n /\ ~ (m + k <= m) /\ (m + k) - m = k
      BY <1>2, <2>2
    <3> QED
      BY <3>1
  <2> QED
    BY <2>1, <2>2
<1>12. at \in [0 .. m + n -> Nat] /\ used \in [0 .. m + n -> Nat]
  <2>1. ASSUME NEW k \in 0 .. m + n
        PROVE  /\ (IF k <= m THEN a1[k] ELSE a2[k - m]) \in Nat
               /\ (IF k <= m THEN u1[k] ELSE c + u2[k - m]) \in Nat
    <3>1. CASE k <= m
      <4>1. k \in 0 .. m
        BY <1>2, <3>1
      <4> QED
        BY <3>1, <4>1
    <3>2. CASE ~ (k <= m)
      <4>1. k - m \in 0 .. n
        BY <1>2, <3>2
      <4>2. a2[k - m] \in Nat /\ u2[k - m] \in Nat
        BY <4>1
      <4> QED
        BY <1>2, <3>2, <4>2, SMTT(30)
    <3> QED
      BY <3>1, <3>2
  <2> QED
    BY <2>1
<1> HIDE DEF at, used
<1>13. ASSUME NEW k \in 0 .. m + n
       PROVE  at[k] \in x .. z /\ used[k] \in 0 .. c + Len(l2)
  <2>1. CASE k <= m
    <3>1. k \in 0 .. m
      BY <1>2, <2>1
    <3>2. a1[k] \in x .. y /\ u1[k] \in 0 .. c
      BY <1>7, <3>1
    <3> QED
      BY <1>b, <1>10, <3>1, <3>2
  <2>2. CASE ~ (k <= m)
    <3> DEFINE i == k - m
    <3>1. i \in 0 .. n /\ m + i = k
      BY <1>2, <2>2
    <3> HIDE DEF i
    <3>2. a2[i] \in y .. z /\ u2[i] \in 0 .. Len(l2)
      BY <1>8, <3>1
    <3>3. at[k] = a2[i] /\ used[k] = c + u2[i]
      BY <1>11, <3>1
    <3> QED
      BY <1>b, <3>2, <3>3
  <2> QED
    BY <2>1, <2>2
<1>14. ASSUME NEW k \in 1 .. m + n
       PROVE  /\ at[k] = at[k - 1] + recs[k].L + recs[k].M
              /\ used[k] = used[k - 1] + recs[k].L
              /\ Passes(recs[k], lits, src, open, at[k - 1], used[k - 1])
  <2>1. CASE k <= m
    <3>1. k \in 1 .. m /\ k \in 0 .. m /\ k - 1 \in 0 .. m
      BY <1>2, <2>1
    <3>2. /\ at[k] = a1[k] /\ used[k] = u1[k] /\ at[k - 1] = a1[k - 1] /\ used[k - 1] = u1[k - 1]
          /\ recs[k] = r1[k]
      BY <1>3, <1>10, <2>1, <3>1
    <3>3. Passes(r1[k], lits, src, open, a1[k - 1], u1[k - 1])
      <4>1. Passes(r1[k], l1, src, open, a1[k - 1], u1[k - 1])
        BY <1>7, <3>1
      <4>2. /\ u1[k] = u1[k - 1] + r1[k].L /\ u1[k] \in 0 .. c /\ u1[k - 1] \in 0 .. c
            /\ r1[k].L \in Nat
        <5>1. r1[k] \in RawRecord
          BY <1>1, <3>1, ElementOfSeq DEF m
        <5>2. r1[k].L \in Nat
          BY <5>1 DEF RawRecord
        <5> QED
          BY <1>7, <3>1, <5>2
      <4>3. ASSUME NEW j \in 1 .. r1[k].L PROVE lits[u1[k - 1] + j] = l1[u1[k - 1] + j]
        <5> DEFINE u == u1[k - 1]
                   L == r1[k].L
                   w == u1[k]
        <5>1. w = u + L /\ w \in 0 .. c /\ u \in 0 .. c /\ L \in Nat /\ j \in 1 .. L
          BY <4>2
        <5> HIDE DEF u, L, w
        <5>2. u + j \in 1 .. c + Len(l2) /\ u + j <= c
          BY <1>2, <5>1
        <5>3. lits[u + j] = l1[u + j]
          BY <1>4, <5>2
        <5> QED
          BY <5>3 DEF u
      <4> QED
        BY <4>1, <4>3 DEF Passes
    <3> QED
      BY <1>7, <3>1, <3>2, <3>3
  <2>2. CASE ~ (k <= m)
    <3> DEFINE i == k - m
    <3>1. /\ i \in 1 .. n /\ i \in 0 .. n /\ i - 1 \in 0 .. n /\ m + i = k /\ m + (i - 1) = k - 1
      BY <1>2, <2>2
    <3>r. recs[k] = r2[i]
      BY <1>3, <2>2
    <3> HIDE DEF i
    <3>2. /\ at[k] = a2[i] /\ used[k] = c + u2[i]
          /\ at[k - 1] = a2[i - 1] /\ used[k - 1] = c + u2[i - 1]
      BY <1>11, <3>1
    <3>3. /\ u2[i] = u2[i - 1] + r2[i].L /\ u2[i] \in 0 .. Len(l2) /\ u2[i - 1] \in 0 .. Len(l2)
          /\ r2[i].L \in Nat
      <4>1. r2[i] \in RawRecord
        BY <1>1, <3>1, ElementOfSeq DEF n
      <4>2. r2[i].L \in Nat
        BY <4>1 DEF RawRecord
      <4> QED
        BY <1>8, <3>1, <4>2
    <3>4. Passes(r2[i], lits, src, open, a2[i - 1], c + u2[i - 1])
      <4>1. Passes(r2[i], l2, src, open, a2[i - 1], u2[i - 1])
        BY <1>8, <3>1
      <4>2. ASSUME NEW j \in 1 .. r2[i].L PROVE lits[(c + u2[i - 1]) + j] = l2[u2[i - 1] + j]
        <5> DEFINE u == u2[i - 1]
                   L == r2[i].L
                   w == u2[i]
        <5>1. w = u + L /\ w \in 0 .. Len(l2) /\ u \in 0 .. Len(l2) /\ L \in Nat /\ j \in 1 .. L
          BY <3>3
        <5> HIDE DEF u, L, w
        <5>2. /\ (c + u) + j \in 1 .. c + Len(l2) /\ ~ ((c + u) + j <= c)
              /\ ((c + u) + j) - c = u + j
          BY <1>2, <5>1
        <5>3. lits[(c + u) + j] = l2[u + j]
          BY <1>4, <5>2
        <5> QED
          BY <5>3 DEF u
      <4> QED
        BY <4>1, <4>2 DEF Passes
    <3>5. c + u2[i] = (c + u2[i - 1]) + r2[i].L
      <4>1. \A u \in Nat, L \in Nat : c + (u + L) = (c + u) + L
        BY <1>2
      <4>2. u2[i - 1] \in Nat
        BY <1>b, <3>3
      <4> QED
        BY <3>3, <4>1, <4>2
    <3>6. a2[i] = a2[i - 1] + r2[i].L + r2[i].M
      BY <1>8, <3>1
    <3> QED
      BY <3>r, <3>2, <3>4, <3>5, <3>6
  <2> QED
    BY <2>1, <2>2
<1>15. at[0] = x /\ used[0] = 0 /\ at[m + n] = z /\ used[m + n] = c + Len(l2)
  <2>1. 0 \in 0 .. m /\ n \in 0 .. n
    BY <1>2
  <2> QED
    BY <1>7, <1>8, <1>10, <1>11, <2>1
<1>16. Walk(at, used, recs, lits, src, open, x, z)
  BY <1>3, <1>4, <1>13, <1>14, <1>15 DEF Walk
<1>17. Tells(recs, lits, src, open, x, z)
  BY <1>1, <1>3, <1>4, <1>12, <1>16 DEF Tells
<1> QED
  BY <1>17 DEF recs, lits

LEMMA SplitsIs ==
    ASSUME NEW L \in Nat
    PROVE  Splits(L) \in Nat /\ Splits(L) * MaxLValue \in 0 .. L
<1> DEFINE s == (L - 1) \div MaxLValue
<1>0. MaxLValue \in Nat \ {0}
  BY MaxLValueAssumption
<1>1. CASE L > MaxLValue
  <2>1. L - 1 \in Nat /\ Splits(L) = s
    BY <1>0, <1>1 DEF Splits
  <2> DEFINE r == (L - 1) % MaxLValue
  <2>2. s \in Nat /\ r \in 0 .. MaxLValue - 1 /\ L - 1 = (s * MaxLValue) + r
    BY <1>0, <2>1, Division
  <2> HIDE DEF s, r
  <2>3. s * MaxLValue \in Nat
    BY <1>0, <2>2
  <2>4. s * MaxLValue <= L
    <3> DEFINE a == s * MaxLValue
    <3>1. L - 1 = a + r /\ a \in Nat /\ r \in Nat
      BY <1>0, <2>2, <2>3
    <3> HIDE DEF a
    <3>2. a <= L
      BY <3>1
    <3> QED
      BY <3>2 DEF a
  <2> QED
    BY <2>1, <2>2, <2>3, <2>4
<1>2. CASE ~ (L > MaxLValue)
  <2>1. Splits(L) = 0
    BY <1>2 DEF Splits
  <2>2. 0 * MaxLValue = 0
    BY <1>0
  <2> QED
    BY <2>1, <2>2
<1> QED
  BY <1>1, <1>2

LEMMA StretchIs ==
    ASSUME NEW b \in Nat, NEW e \in Nat, b <= e
    PROVE  /\ Stretch(b, e) \in Seq(Nat) /\ Len(Stretch(b, e)) = e - b
           /\ \A j \in 1 .. e - b : Stretch(b, e)[j] = b + j - 1
<1> DEFINE s == Stretch(b, e)
           n == e - b
<1>1. n \in Nat
  OBVIOUS
<1>2. s = [k \in 1 .. n |-> b + k - 1]
  BY DEF Stretch
<1>3. \A k \in 1 .. n : b + k - 1 \in Nat
  OBVIOUS
<1> HIDE DEF s, n
<1>4. s \in [1 .. n -> Nat] /\ \A k \in 1 .. n : s[k] = b + k - 1
  BY <1>2, <1>3
<1>5. s \in Seq(Nat) /\ Len(s) = n
  BY <1>1, <1>4, AsSequence
<1> QED
  BY <1>4, <1>5 DEF s, n

\* What the source must be for a literal run and a match to say it.
Runs(x, L, M, dist, src, open) ==
    /\ \A q \in x .. x + L - 1 : q \in open
    /\ \A q \in x + L .. x + L + M - 1 : q \notin open /\ src[q] = src[q - dist]
    /\ M > 0 => dist <= x + L

LEMMA TellsRun ==
    ASSUME NEW x \in Nat, NEW L \in Nat, NEW M \in 0 .. MaxMValue, NEW dist \in Nat \ {0},
           NEW src, NEW open, Runs(x, L, M, dist, src, open)
    PROVE  Tells(RunRecords(L, M, dist), Stretch(x, x + L), src, open, x, x + L + M)
<1> DEFINE s == Splits(L)
           Mx == MaxLValue
           full == [L |-> Mx, M |-> 0, D |-> dist]
           rest == [L |-> L - s * Mx, M |-> M, D |-> dist]
           run == [i \in 1 .. s |-> full]
           recs == RunRecords(L, M, dist)
           lits == Stretch(x, x + L)
           at == [k \in 0 .. s + 1 |-> IF k <= s THEN x + k * Mx ELSE x + L + M]
           used == [k \in 0 .. s + 1 |-> IF k <= s THEN k * Mx ELSE L]
<1>0. Mx \in Nat \ {0} /\ M \in Nat /\ MaxMValue \in Nat
  BY MaxLValueAssumption, DecoderAssumption
<1>1. s \in Nat /\ s * Mx \in Nat /\ s * Mx <= L
  BY SplitsIs
<1>2. recs = run \o << rest >>
  BY DEF RunRecords
<1>3. /\ lits \in Seq(Nat) /\ Len(lits) = L
      /\ \A j \in 1 .. L : lits[j] = x + j - 1
  <2>1. x + L \in Nat /\ x <= x + L /\ (x + L) - x = L
    OBVIOUS
  <2>2. /\ lits \in Seq(Nat) /\ Len(lits) = (x + L) - x
        /\ \A j \in 1 .. (x + L) - x : lits[j] = x + j - 1
    BY <2>1, StretchIs
  <2> HIDE DEF lits
  <2> QED
    BY <2>1, <2>2
<1> HIDE DEF s, Mx, recs, lits
<1>4. L - s * Mx \in Nat
  BY <1>1
<1>5. full \in RawRecord /\ rest \in RawRecord
  BY <1>0, <1>4 DEF RawRecord
<1>f. full.L = Mx /\ full.M = 0 /\ full.D = dist /\ rest.L = L - s * Mx /\ rest.M = M /\ rest.D = dist
  OBVIOUS
<1> HIDE DEF full, rest
<1>6. /\ recs \in Seq(RawRecord) /\ Len(recs) = s + 1
      /\ recs[s + 1] = rest /\ \A k \in 1 .. s : recs[k] = full
  <2>1. run \in Seq(RawRecord) /\ Len(run) = s
    BY <1>1, <1>5, AsSequence
  <2>2. << rest >> \in Seq(RawRecord) /\ Len(<< rest >>) = 1 /\ << rest >>[1] = rest
    BY <1>5
  <2> DEFINE tail == << rest >>
  <2>3. /\ recs \in Seq(RawRecord) /\ Len(recs) = s + 1
        /\ \A k \in 1 .. s + 1 : recs[k] = IF k <= s THEN run[k] ELSE tail[k - s]
    <3> HIDE DEF run, tail
    <3> QED
      BY <1>2, <2>1, <2>2, ConcatProperties DEF tail
  <2>4. recs[s + 1] = tail[1]
    <3>1. s + 1 \in 1 .. s + 1 /\ ~ (s + 1 <= s) /\ (s + 1) - s = 1
      BY <1>1
    <3> HIDE DEF tail
    <3> QED
      BY <2>3, <3>1
  <2>5. ASSUME NEW k \in 1 .. s PROVE recs[k] = full
    <3>1. k \in 1 .. s + 1 /\ k <= s /\ run[k] = full
      BY <1>1
    <3> HIDE DEF run, tail
    <3> QED
      BY <2>3, <3>1
  <2> QED
    BY <2>2, <2>3, <2>4, <2>5
<1> HIDE DEF run
<1>7. ASSUME NEW k \in 0 .. s
      PROVE  /\ k * Mx \in Nat /\ k * Mx <= s * Mx
             /\ at[k] = x + k * Mx /\ used[k] = k * Mx
  <2>1. k \in Nat /\ k <= s /\ k \in 0 .. s + 1
    BY <1>1
  <2>2. k * Mx \in Nat /\ k * Mx <= s * Mx
    BY <1>0, <1>1, <2>1, Times
  <2> QED
    BY <2>1, <2>2
<1>8. at[s + 1] = x + L + M /\ used[s + 1] = L
  <2>1. s + 1 \in 0 .. s + 1 /\ ~ (s + 1 <= s)
    BY <1>1
  <2> QED
    BY <2>1
<1>9. at \in [0 .. s + 1 -> Nat] /\ used \in [0 .. s + 1 -> Nat]
  <2>1. ASSUME NEW k \in 0 .. s + 1
        PROVE  /\ (IF k <= s THEN x + k * Mx ELSE x + L + M) \in Nat
               /\ (IF k <= s THEN k * Mx ELSE L) \in Nat
    <3>1. CASE k <= s
      <4>1. k \in 0 .. s
        BY <1>1, <3>1
      <4>2. k * Mx \in Nat
        BY <1>7, <4>1
      <4> QED
        BY <3>1, <4>2
    <3>2. CASE ~ (k <= s)
      BY <1>0, <3>2
    <3> QED
      BY <3>1, <3>2
  <2> QED
    BY <2>1
<1> HIDE DEF at, used
<1>10. ASSUME NEW k \in 0 .. s + 1
       PROVE  at[k] \in x .. x + L + M /\ used[k] \in 0 .. L
  <2>1. CASE k \in 0 .. s
    <3> DEFINE c == k * Mx
    <3>1. c \in Nat /\ c <= L
      BY <1>1, <1>7, <2>1
    <3>2. at[k] = x + c /\ used[k] = c
      BY <1>7, <2>1
    <3> HIDE DEF c
    <3> QED
      BY <1>0, <3>1, <3>2
  <2>2. CASE k = s + 1
    BY <1>0, <1>8, <2>2
  <2> QED
    BY <1>1, <2>1, <2>2
<1>11. ASSUME NEW k \in 1 .. s
       PROVE  /\ at[k] = at[k - 1] + recs[k].L + recs[k].M
              /\ used[k] = used[k - 1] + recs[k].L
              /\ Passes(recs[k], lits, src, open, at[k - 1], used[k - 1])
  <2>1. k \in 0 .. s /\ k - 1 \in 0 .. s /\ recs[k] = full
    BY <1>1, <1>6
  <2> DEFINE c == (k - 1) * Mx
  <2>2. k * Mx = c + Mx
    BY <1>0
  <2>3. /\ c \in Nat /\ c + Mx <= L
        /\ at[k] = x + (c + Mx) /\ used[k] = c + Mx /\ at[k - 1] = x + c /\ used[k - 1] = c
    BY <1>1, <1>7, <2>1, <2>2
  <2> HIDE DEF c
  <2>4. Passes(full, lits, src, open, x + c, c)
    <3>1. ASSUME NEW j \in 1 .. Mx
          PROVE  (x + c) + j - 1 \in open /\ lits[c + j] = (x + c) + j - 1
      <4>1. c + j \in 1 .. L /\ x + (c + j) - 1 = (x + c) + j - 1
            /\ (x + c) + j - 1 \in x .. x + L - 1
        BY <1>0, <2>3
      <4> QED
        BY <1>3, <4>1 DEF Runs
    <3>2. \A q \in (x + c) + Mx .. (x + c) + Mx + 0 - 1 : FALSE
      BY <1>0, <2>3
    <3> QED
      BY <1>f, <3>1, <3>2 DEF Passes
  <2>5. x + (c + Mx) = (x + c) + Mx + 0
    BY <1>0, <2>3
  <2> QED
    BY <1>f, <2>1, <2>3, <2>4, <2>5
<1>12. /\ at[s + 1] = at[s] + rest.L + rest.M
       /\ used[s + 1] = used[s] + rest.L
       /\ Passes(rest, lits, src, open, at[s], used[s])
  <2> DEFINE c == s * Mx
  <2>1. c \in Nat /\ c <= L /\ at[s] = x + c /\ used[s] = c /\ rest.L = L - c
    BY <1>1, <1>7, <1>f
  <2> HIDE DEF c
  <2>2. x + L + M = (x + c) + (L - c) + M /\ L = c + (L - c) /\ (x + c) + (L - c) = x + L
    BY <1>0, <2>1
  <2>3. ASSUME NEW j \in 1 .. L - c
        PROVE  (x + c) + j - 1 \in open /\ lits[c + j] = (x + c) + j - 1
    <3>1. c + j \in 1 .. L /\ x + (c + j) - 1 = (x + c) + j - 1
          /\ (x + c) + j - 1 \in x .. x + L - 1
      BY <2>1
    <3> QED
      BY <1>3, <3>1 DEF Runs
  <2>4. Passes(rest, lits, src, open, x + c, c)
    <3>1. \A q \in x + L .. x + L + M - 1 : q \notin open /\ src[q] = src[q - dist]
      BY DEF Runs
    <3>2. M > 0 => dist <= x + L
      BY DEF Runs
    <3> QED
      BY <1>f, <2>1, <2>2, <2>3, <3>1, <3>2 DEF Passes
  <2> QED
    BY <1>8, <1>f, <2>1, <2>2, <2>4
<1>13. ASSUME NEW k \in 1 .. s + 1
       PROVE  /\ at[k] = at[k - 1] + recs[k].L + recs[k].M
              /\ used[k] = used[k - 1] + recs[k].L
              /\ Passes(recs[k], lits, src, open, at[k - 1], used[k - 1])
  <2>1. CASE k \in 1 .. s
    BY <1>11, <2>1
  <2>2. CASE k = s + 1
    <3>1. k - 1 = s /\ recs[k] = rest
      BY <1>1, <1>6, <2>2
    <3> QED
      BY <1>12, <2>2, <3>1
  <2> QED
    BY <1>1, <2>1, <2>2
<1>14. at[0] = x /\ used[0] = 0
  <2>1. 0 \in 0 .. s /\ 0 * Mx = 0
    BY <1>0, <1>1
  <2> QED
    BY <1>7, <2>1
<1>15. Walk(at, used, recs, lits, src, open, x, x + L + M)
  BY <1>3, <1>6, <1>8, <1>10, <1>13, <1>14 DEF Walk
<1>16. x + L + M \in Nat
  BY <1>0
<1>17. Tells(recs, lits, src, open, x, x + L + M)
  BY <1>3, <1>6, <1>9, <1>15, <1>16 DEF Tells
<1> QED
  BY <1>17 DEF recs, lits
-----------------------------------------------------------------------------
(***************************************************************************)
(* The source and its matches.                                             *)
(***************************************************************************)
Matches == input.matches
Match == [pos : Nat, M : Nat, D : Nat]
Open == {p \in 0 .. input.n - 1 : Covering(p) = {}}

MatchAtIs(i) ==
    /\ Matches[i].pos \in Nat /\ Matches[i].M \in 1 .. MaxMValue
    /\ Matches[i].D \in 1 .. Matches[i].pos
    /\ EndOf(Matches[i]) = Matches[i].pos + Matches[i].M /\ EndOf(Matches[i]) \in Nat
    /\ EndOf(Matches[i]) <= input.n

LEMMA InputIs ==
    ASSUME input \in Inputs
    PROVE  /\ input.n \in Nat /\ input.n <= MaxOut /\ 0 .. input.n - 1 \subseteq Bytes
           /\ Matches \in Seq(Match) /\ Len(Matches) \in Nat
           /\ \A i \in 1 .. Len(Matches) : MatchAtIs(i)
           /\ \A i \in 2 .. Len(Matches) : EndOf(Matches[i - 1]) <= Matches[i].pos
<1>1. MatchList(input) /\ input.n <= MaxOut /\ 0 .. input.n - 1 \subseteq Bytes
  BY CodecAssumption
<1>2. input.n \in Nat /\ Matches \in Seq(Match) /\ Len(Matches) \in Nat
  BY <1>1 DEF MatchList, Matches, Match
<1>3. ASSUME NEW i \in 1 .. Len(Matches) PROVE MatchAtIs(i)
  <2>1. Matches[i] \in Match
    BY <1>2, ElementOfSeq
  <2>2. Matches[i].pos \in Nat /\ Matches[i].M \in Nat
    BY <2>1 DEF Match
  <2>3. /\ Matches[i].M \in 1 .. MaxMValue /\ Matches[i].D \in 1 .. Matches[i].pos
        /\ EndOf(Matches[i]) <= input.n
    BY <1>1 DEF MatchList, Matches
  <2>4. EndOf(Matches[i]) = Matches[i].pos + Matches[i].M
    BY DEF EndOf
  <2> QED
    BY <2>2, <2>3, <2>4 DEF MatchAtIs
<1>4. ASSUME NEW i \in 2 .. Len(Matches) PROVE EndOf(Matches[i - 1]) <= Matches[i].pos
  <2>1. i \in 1 .. Len(Matches) /\ i > 1
    BY <1>2
  <2> QED
    BY <1>1, <2>1 DEF MatchList, Matches
<1> QED
  BY <1>1, <1>2, <1>3, <1>4

LEMMA InOrder ==
    ASSUME input \in Inputs, NEW i \in 1 .. Len(Matches), NEW j \in 1 .. Len(Matches), i < j
    PROVE  EndOf(Matches[i]) <= Matches[j].pos
<1> DEFINE T == {k \in Nat : i + k + 1 <= Len(Matches) =>
                               EndOf(Matches[i]) <= Matches[i + k + 1].pos}
<1>0. Len(Matches) \in Nat
  BY InputIs
<1>1. 0 \in T
  <2> SUFFICES ASSUME i + 0 + 1 <= Len(Matches) PROVE EndOf(Matches[i]) <= Matches[i + 0 + 1].pos
    OBVIOUS
  <2>1. i + 0 + 1 = i + 1 /\ i + 1 \in 2 .. Len(Matches) /\ (i + 1) - 1 = i
    BY <1>0
  <2>2. EndOf(Matches[(i + 1) - 1]) <= Matches[i + 1].pos
    BY <2>1, InputIs
  <2> QED
    BY <2>1, <2>2
<1>2. ASSUME NEW k \in Nat, k \in T PROVE k + 1 \in T
  <2> SUFFICES ASSUME i + (k + 1) + 1 <= Len(Matches)
               PROVE  EndOf(Matches[i]) <= Matches[i + (k + 1) + 1].pos
    OBVIOUS
  <2> DEFINE a == i + k + 1
             b == i + (k + 1) + 1
  <2>1. a \in 1 .. Len(Matches) /\ b \in 2 .. Len(Matches) /\ b - 1 = a /\ b \in 1 .. Len(Matches)
    BY <1>0
  <2>2. EndOf(Matches[i]) <= Matches[a].pos
    BY <1>2, <2>1
  <2> HIDE DEF a, b
  <2>3. EndOf(Matches[a]) <= Matches[b].pos
    BY <2>1, InputIs
  <2>4. /\ EndOf(Matches[i]) \in Nat /\ Matches[a].pos \in Nat /\ Matches[b].pos \in Nat
        /\ Matches[a].M \in Nat /\ EndOf(Matches[a]) = Matches[a].pos + Matches[a].M
    <3>1. MatchAtIs(i) /\ MatchAtIs(a) /\ MatchAtIs(b) /\ MaxMValue \in Nat
      BY <2>1, InputIs, DecoderAssumption
    <3>2. Matches[a].M \in 1 .. MaxMValue
      BY <3>1 DEF MatchAtIs
    <3>3. Matches[a].M \in Nat
      BY <3>1, <3>2
    <3> QED
      BY <3>1, <3>3 DEF MatchAtIs
  <2>5. EndOf(Matches[i]) <= Matches[b].pos
    BY <2>2, <2>3, <2>4
  <2> QED
    BY <2>5 DEF b
<1>3. Nat \subseteq T
  <2> HIDE DEF T
  <2> QED
    BY <1>1, <1>2, Induction
<1>4. j - i - 1 \in Nat /\ i + (j - i - 1) + 1 = j
  BY <1>0
<1>5. j - i - 1 \in T
  BY <1>3, <1>4
<1> QED
  BY <1>0, <1>4, <1>5

\* The matches are disjoint: a position has at most one.
LEMMA CoveringIs ==
    ASSUME input \in Inputs, NEW i \in 1 .. Len(Matches),
           NEW p \in Matches[i].pos .. EndOf(Matches[i]) - 1
    PROVE  Covering(p) = {i}
<1>1. MatchAtIs(i) /\ Len(Matches) \in Nat
  BY InputIs
<1>2. i \in Covering(p)
  BY DEF Covering, Matches
<1>3. ASSUME NEW j \in Covering(p), j # i PROVE FALSE
  <2>1. j \in 1 .. Len(Matches) /\ p \in Matches[j].pos .. EndOf(Matches[j]) - 1
    BY DEF Covering, Matches
  <2>2. MatchAtIs(j)
    BY <2>1, InputIs
  <2>3. /\ Matches[i].pos \in Nat /\ EndOf(Matches[i]) \in Nat
        /\ Matches[j].pos \in Nat /\ EndOf(Matches[j]) \in Nat
    BY <1>1, <2>2 DEF MatchAtIs
  <2>4. CASE i < j
    <3>1. EndOf(Matches[i]) <= Matches[j].pos
      BY <2>1, <2>4, InOrder
    <3> QED
      BY <2>1, <2>3, <3>1
  <2>5. CASE j < i
    <3>1. EndOf(Matches[j]) <= Matches[i].pos
      BY <2>1, <2>5, InOrder
    <3> QED
      BY <2>1, <2>3, <3>1
  <2> QED
    BY <1>1, <1>3, <2>1, <2>4, <2>5
<1> QED
  BY <1>2, <1>3

\* Source is what its equations say, and made of bytes.
LEMMA SourceIs ==
    ASSUME input \in Inputs, NEW p \in 0 .. input.n - 1
    PROVE  /\ Source[p] \in Bytes
           /\ Source[p] = IF Covering(p) = {} THEN p
                          ELSE Source[p - Matches[CHOOSE i \in Covering(p) : TRUE].D]
<1> DEFINE far(e) == Matches[CHOOSE i \in Covering(e) : TRUE].D
           N == input.n - 1
           stop == [e \in 0 .. N |-> Covering(e) = {}]
           last == [e \in 0 .. N |-> e]
           prev == [e \in 0 .. N |-> e - far(e)]
           G == [e \in 0 .. N |-> [r \in Bytes |-> r]]
           Step(g) == [e \in 0 .. N |-> IF Covering(e) = {} THEN e ELSE g[e - far(e)]]
           src == CHOOSE g : g = Step(g)
<1>1. input.n \in Nat /\ N \in Nat /\ 0 .. N \subseteq Bytes
  BY InputIs
<1>2. ASSUME NEW e \in 0 .. N, Covering(e) # {} PROVE e - far(e) \in 0 .. e - 1
  <2> DEFINE i == CHOOSE i \in Covering(e) : TRUE
  <2>1. i \in Covering(e)
    BY <1>2
  <2> HIDE DEF i
  <2>2. i \in 1 .. Len(Matches) /\ e \in Matches[i].pos .. EndOf(Matches[i]) - 1
    BY <2>1 DEF Covering, Matches
  <2>3. MatchAtIs(i)
    BY <2>2, InputIs
  <2>4. e - Matches[i].D \in 0 .. e - 1
    <3>1. /\ Matches[i].pos \in Nat /\ Matches[i].D \in 1 .. Matches[i].pos
          /\ EndOf(Matches[i]) \in Nat
      BY <2>3 DEF MatchAtIs
    <3> QED
      BY <2>2, <3>1
  <2> QED
    BY <2>4 DEF i
<1> HIDE DEF far, N
<1>3. Earlier(N, stop, prev)
  BY <1>2 DEF Earlier
<1>4. Lands(N, stop, last, G, Bytes)
  BY <1>1 DEF Lands
<1>5. PICK f \in [0 .. N -> Bytes] : Descends(f, N, stop, last, prev, G)
  <2> HIDE DEF stop, last, prev, G
  <2> QED
    BY <1>1, <1>3, <1>4, DescentExists
<1>6. ASSUME NEW e \in 0 .. N PROVE f[e] = IF Covering(e) = {} THEN e ELSE f[e - far(e)]
  <2>1. f[e] = IF stop[e] THEN last[e] ELSE G[e][f[prev[e]]]
    <3> HIDE DEF stop, last, prev, G
    <3> QED
      BY <1>5 DEF Descends
  <2>2. CASE Covering(e) = {}
    BY <2>1, <2>2
  <2>3. CASE Covering(e) # {}
    <3>1. e - far(e) \in 0 .. N
      BY <1>1, <1>2, <2>3
    <3>2. f[e - far(e)] \in Bytes
      BY <3>1
    <3> QED
      BY <2>1, <2>3, <3>2
  <2> QED
    BY <2>2, <2>3
<1>7. f = Step(f)
  BY <1>6
<1>8. src = Step(src)
  <2> HIDE DEF Step
  <2> QED
    BY <1>7
<1>9. Source = src
  BY DEF Source, N, far, Matches
<1> HIDE DEF src
<1>10. \A e \in 0 .. N : src[e] = IF Covering(e) = {} THEN e ELSE src[e - far(e)]
  BY <1>8
<1> DEFINE T == {k \in Nat : \A e \in 0 .. N : e <= k => src[e] \in Bytes}
<1>11. 0 \in T
  <2> SUFFICES ASSUME 0 \in 0 .. N PROVE src[0] \in Bytes
    BY <1>1
  <2>1. Covering(0) = {}
    BY <1>2
  <2> QED
    BY <1>1, <1>10, <2>1
<1>12. ASSUME NEW k \in Nat, k \in T PROVE k + 1 \in T
  <2> SUFFICES ASSUME NEW e \in 0 .. N, e <= k + 1 PROVE src[e] \in Bytes
    OBVIOUS
  <2>1. CASE Covering(e) = {}
    BY <1>1, <1>10, <2>1
  <2>2. CASE Covering(e) # {}
    <3>1. e - far(e) \in 0 .. N /\ e - far(e) <= k
      BY <1>1, <1>2, <2>2
    <3>2. src[e - far(e)] \in Bytes
      BY <1>12, <3>1
    <3> QED
      BY <1>10, <2>2, <3>2
  <2> QED
    BY <2>1, <2>2
<1>13. Nat \subseteq T
  <2> HIDE DEF T
  <2> QED
    BY <1>11, <1>12, Induction
<1>14. p \in 0 .. N /\ p \in Nat
  BY DEF N
<1>15. src[p] \in Bytes
  <2>1. p \in T /\ p <= p
    BY <1>13, <1>14
  <2> QED
    BY <1>14, <2>1
<1> QED
  BY <1>9, <1>10, <1>14, <1>15 DEF far

LEMMA CopiesIs ==
    ASSUME input \in Inputs, NEW i \in 1 .. Len(Matches),
           NEW p \in Matches[i].pos .. EndOf(Matches[i]) - 1
    PROVE  p \in 0 .. input.n - 1 /\ p \notin Open /\ Source[p] = Source[p - Matches[i].D]
<1>1. MatchAtIs(i) /\ input.n \in Nat
  BY InputIs
<1>2. p \in 0 .. input.n - 1
  BY <1>1 DEF MatchAtIs
<1>3. Covering(p) = {i}
  BY CoveringIs
<1>4. (CHOOSE j \in Covering(p) : TRUE) = i /\ Covering(p) # {}
  BY <1>3
<1> QED
  BY <1>2, <1>4, SourceIs DEF Open

LEMMA OpenIs ==
    ASSUME input \in Inputs, NEW p \in Open
    PROVE  Source[p] = p /\ p \in 0 .. input.n - 1
BY SourceIs DEF Open

\* The piece [x, y) of the source with matches a + 1 .. k, cut where Partition
\* allows.
Piece(a, k, x, y) ==
    /\ a \in 0 .. Len(Matches) /\ k \in a .. Len(Matches)
    /\ x \in 0 .. input.n /\ y \in x .. input.n
    /\ \A i \in 1 .. a : EndOf(Matches[i]) <= x
    /\ \A i \in a + 1 .. k : x <= Matches[i].pos /\ EndOf(Matches[i]) <= y
    /\ \A i \in k + 1 .. Len(Matches) : y <= Matches[i].pos

\* The literal run before match i of the piece, or after its last one, is open.
GapFrom(a, x, i) == IF i = a + 1 THEN x ELSE EndOf(Matches[i - 1])
GapTo(k, y, i) == IF i = k + 1 THEN y ELSE Matches[i].pos

LEMMA GapIsOpen ==
    ASSUME input \in Inputs, NEW a, NEW k, NEW x, NEW y, Piece(a, k, x, y),
           NEW i \in a + 1 .. k + 1
    PROVE  /\ GapFrom(a, x, i) \in x .. y /\ GapTo(k, y, i) \in x .. y
           /\ GapFrom(a, x, i) <= GapTo(k, y, i)
           /\ \A q \in GapFrom(a, x, i) .. GapTo(k, y, i) - 1 : q \in Open
<1> DEFINE b == GapFrom(a, x, i)
           e == GapTo(k, y, i)
           n == Len(Matches)
<1>1. /\ a \in 0 .. n /\ k \in a .. n /\ n \in Nat
      /\ x \in 0 .. input.n /\ y \in x .. input.n /\ input.n \in Nat
  BY InputIs DEF Piece
<1>2. ASSUME NEW j \in 1 .. n
      PROVE  /\ Matches[j].pos \in Nat /\ EndOf(Matches[j]) \in Nat
             /\ Matches[j].pos <= EndOf(Matches[j])
  <2>1. MatchAtIs(j) /\ MaxMValue \in Nat
    BY InputIs, DecoderAssumption
  <2>2. /\ Matches[j].pos \in Nat /\ Matches[j].M \in 1 .. MaxMValue
        /\ EndOf(Matches[j]) = Matches[j].pos + Matches[j].M /\ EndOf(Matches[j]) \in Nat
    BY <2>1 DEF MatchAtIs
  <2> QED
    BY <2>1, <2>2
<1>3. b \in x .. y /\ \A j \in 1 .. i - 1 : EndOf(Matches[j]) <= b
  <2>1. CASE i = a + 1
    <3>1. b = x /\ i - 1 = a
      BY <1>1, <2>1 DEF GapFrom
    <3> QED
      BY <1>1, <3>1 DEF Piece
  <2>2. CASE i # a + 1
    <3>1. b = EndOf(Matches[i - 1]) /\ i - 1 \in a + 1 .. k /\ i - 1 \in 1 .. n
      BY <1>1, <2>2 DEF GapFrom
    <3>2. x <= Matches[i - 1].pos /\ EndOf(Matches[i - 1]) <= y
      BY <3>1 DEF Piece
    <3>3. b \in x .. y
      BY <1>1, <1>2, <3>1, <3>2
    <3>4. ASSUME NEW j \in 1 .. i - 1 PROVE EndOf(Matches[j]) <= b
      <4>1. CASE j = i - 1
        BY <1>2, <3>1, <4>1
      <4>2. CASE j # i - 1
        <5>1. j \in 1 .. n /\ j < i - 1
          BY <1>1, <3>1, <4>2
        <5>2. EndOf(Matches[j]) <= Matches[i - 1].pos
          BY <3>1, <5>1, InOrder
        <5> QED
          BY <1>2, <3>1, <5>1, <5>2
      <4> QED
        BY <4>1, <4>2
    <3> QED
      BY <3>3, <3>4
  <2> QED
    BY <2>1, <2>2
<1>4. e \in x .. y /\ \A j \in i .. n : e <= Matches[j].pos
  <2>1. CASE i = k + 1
    <3>1. e = y
      BY <2>1 DEF GapTo
    <3> QED
      BY <1>1, <2>1, <3>1 DEF Piece
  <2>2. CASE i # k + 1
    <3>1. e = Matches[i].pos /\ i \in a + 1 .. k /\ i \in 1 .. n
      BY <1>1, <2>2 DEF GapTo
    <3>2. x <= Matches[i].pos /\ EndOf(Matches[i]) <= y
      BY <3>1 DEF Piece
    <3>3. e \in x .. y
      BY <1>1, <1>2, <3>1, <3>2
    <3>4. ASSUME NEW j \in i .. n PROVE e <= Matches[j].pos
      <4>1. CASE j = i
        BY <1>2, <3>1, <4>1
      <4>2. CASE j # i
        <5>1. j \in 1 .. n /\ i < j
          BY <1>1, <3>1, <4>2
        <5>2. EndOf(Matches[i]) <= Matches[j].pos
          BY <3>1, <5>1, InOrder
        <5> QED
          BY <1>2, <3>1, <5>1, <5>2
      <4> QED
        BY <4>1, <4>2
    <3> QED
      BY <3>3, <3>4
  <2> QED
    BY <2>1, <2>2
<1>5. b <= e
  <2>1. CASE i = a + 1
    BY <1>1, <1>4, <2>1 DEF GapFrom
  <2>2. CASE i = k + 1
    BY <1>1, <1>3, <2>2 DEF GapTo
  <2>3. CASE i # a + 1 /\ i # k + 1
    <3>1. b = EndOf(Matches[i - 1]) /\ e = Matches[i].pos /\ i \in 2 .. n
      BY <1>1, <2>3 DEF GapFrom, GapTo
    <3> QED
      BY <3>1, InputIs
  <2> QED
    BY <2>1, <2>2, <2>3
<1> HIDE DEF b, e
<1>6. ASSUME NEW q \in b .. e - 1 PROVE q \in Open
  <2>1. q \in 0 .. input.n - 1
    BY <1>1, <1>3, <1>4
  <2>2. ASSUME NEW j \in Covering(q) PROVE FALSE
    <3>1. j \in 1 .. n /\ q \in Matches[j].pos .. EndOf(Matches[j]) - 1
      BY DEF Covering, Matches
    <3>2. CASE j < i
      <4>1. EndOf(Matches[j]) <= b
        BY <1>1, <1>3, <3>1, <3>2
      <4> QED
        BY <1>1, <1>2, <1>3, <3>1, <4>1
    <3>3. CASE ~ (j < i)
      <4>1. e <= Matches[j].pos
        BY <1>1, <1>4, <3>1, <3>3
      <4> QED
        BY <1>1, <1>2, <1>4, <3>1, <4>1
    <3> QED
      BY <3>2, <3>3
  <2> QED
    BY <2>1, <2>2 DEF Open
<1> QED
  BY <1>3, <1>4, <1>5, <1>6 DEF b, e

LEMMA SubSeqOfMatches ==
    ASSUME input \in Inputs, NEW a \in 0 .. Len(Matches), NEW k \in a .. Len(Matches)
    PROVE  /\ SubSeq(Matches, a + 1, k) \in Seq(Match)
           /\ Len(SubSeq(Matches, a + 1, k)) = k - a
           /\ \A j \in 1 .. k - a : SubSeq(Matches, a + 1, k)[j] = Matches[a + j]
<1>1. Matches \in Seq(Match) /\ Len(Matches) \in Nat
  BY InputIs
<1>2. a \in Nat /\ k \in Nat /\ a <= k /\ k <= Len(Matches)
  BY <1>1
<1>3. Sliced(Slice(Matches, a, k), Match, Matches, a, k)
  BY <1>1, <1>2, SliceIs
<1> QED
  BY <1>3 DEF Sliced, Slice

\* Match i with the run before it.
LEMMA TellsMatch ==
    ASSUME input \in Inputs, NEW a, NEW k, NEW x, NEW y, Piece(a, k, x, y),
           NEW i \in a + 1 .. k
    PROVE  LET b == GapFrom(a, x, i)
               m == Matches[i]
           IN  /\ b \in Nat /\ m.pos \in Nat /\ b <= m.pos
               /\ Tells(RunRecords(m.pos - b, m.M, m.D), Stretch(b, m.pos), Source, Open,
                        b, EndOf(m))
<1> DEFINE b == GapFrom(a, x, i)
           m == Matches[i]
           e == m.pos
           L == e - b
           dist == m.D
<1>1. /\ a \in Nat /\ k \in Nat /\ Len(Matches) \in Nat /\ k <= Len(Matches)
      /\ x \in Nat /\ y \in Nat /\ input.n \in Nat
  BY InputIs DEF Piece
<1>2. i \in a + 1 .. k + 1 /\ i \in 1 .. Len(Matches) /\ i # k + 1
  BY <1>1
<1>3. MatchAtIs(i)
  BY <1>2, InputIs
<1>4. /\ e \in Nat /\ m.M \in 1 .. MaxMValue /\ dist \in 1 .. e
      /\ EndOf(m) = e + m.M /\ MaxMValue \in Nat
  BY <1>3, DecoderAssumption DEF MatchAtIs
<1>5. GapTo(k, y, i) = e
  BY <1>2 DEF GapTo
<1>6. b \in x .. y /\ b <= e /\ \A q \in b .. e - 1 : q \in Open
  BY <1>2, <1>5, GapIsOpen
<1>7. \A q \in e .. EndOf(m) - 1 : q \notin Open /\ Source[q] = Source[q - dist]
  BY <1>2, CopiesIs
<1> HIDE DEF b, m, dist, e
<1>8. b \in Nat /\ L \in Nat /\ b + L = e /\ b + L + m.M = EndOf(m)
  BY <1>1, <1>4, <1>6
<1> HIDE DEF L
<1>9. Runs(b, L, m.M, dist, Source, Open)
  <2>1. \A q \in b .. b + L - 1 : q \in Open
    BY <1>6, <1>8
  <2>2. \A q \in b + L .. b + L + m.M - 1 : q \notin Open /\ Source[q] = Source[q - dist]
    <3>1. m.M \in Nat
      BY <1>4
    <3>2. b + L = e /\ b + L + m.M - 1 = EndOf(m) - 1
      BY <1>8, <3>1
    <3> QED
      BY <1>7, <3>2, Zenon
  <2>3. dist <= b + L
    BY <1>4, <1>8
  <2> QED
    BY <2>1, <2>2, <2>3 DEF Runs
<1>10. m.M \in 0 .. MaxMValue /\ dist \in Nat \ {0}
  BY <1>4
<1>11. Tells(RunRecords(L, m.M, dist), Stretch(b, b + L), Source, Open, b, b + L + m.M)
  BY <1>8, <1>9, <1>10, TellsRun
<1>12. Tells(RunRecords(e - b, m.M, dist), Stretch(b, e), Source, Open, b, EndOf(m))
  BY <1>8, <1>11 DEF L
<1> QED
  BY <1>4, <1>6, <1>8, <1>12 DEF b, m, e, dist

\* The run after the last match.
LEMMA TellsTail ==
    ASSUME input \in Inputs, NEW a, NEW k, NEW x, NEW y, Piece(a, k, x, y)
    PROVE  LET b == GapFrom(a, x, k + 1)
           IN  Tells(IF y > b THEN RunRecords(y - b, 0, 1) ELSE << >>, Stretch(b, y),
                     Source, Open, b, y)
<1> DEFINE b == GapFrom(a, x, k + 1)
           L == y - b
<1>1. /\ a \in Nat /\ k \in Nat /\ a <= k /\ x \in Nat /\ y \in Nat
  BY InputIs DEF Piece
<1>2. k + 1 \in a + 1 .. k + 1 /\ GapTo(k, y, k + 1) = y
  BY <1>1 DEF GapTo
<1>3. b \in x .. y /\ \A q \in b .. y - 1 : q \in Open
  BY <1>2, GapIsOpen
<1> HIDE DEF b
<1>4. b \in Nat /\ L \in Nat /\ b + L = y /\ b + L + 0 = y
  BY <1>1, <1>3
<1>5. CASE y > b
  <2> HIDE DEF L
  <2>1. Runs(b, L, 0, 1, Source, Open)
    <3>1. \A q \in b + L .. b + L + 0 - 1 : FALSE
      BY <1>4
    <3> QED
      BY <1>3, <1>4, <3>1 DEF Runs
  <2>2. 0 \in 0 .. MaxMValue /\ 1 \in Nat \ {0}
    BY DecoderAssumption
  <2>3. Tells(RunRecords(L, 0, 1), Stretch(b, b + L), Source, Open, b, b + L + 0)
    BY <1>4, <2>1, <2>2, TellsRun
  <2>4. Tells(RunRecords(y - b, 0, 1), Stretch(b, y), Source, Open, b, y)
    BY <1>4, <2>3 DEF L
  <2> QED
    BY <1>5, <2>4 DEF b
<1>6. CASE ~ (y > b)
  <2>1. y = b
    BY <1>1, <1>3, <1>6
  <2>2. Stretch(b, b) = << >>
    <3>1. Stretch(b, b) \in Seq(Nat) /\ Len(Stretch(b, b)) = b - b /\ b - b = 0
      BY <1>4, StretchIs
    <3> QED
      BY <3>1
  <2>3. Tells(<< >>, << >>, Source, Open, b, b)
    BY <1>4, TellsNothing
  <2> QED
    BY <1>6, <2>1, <2>2, <2>3 DEF b
<1> QED
  BY <1>5, <1>6

LEMMA TellsPiece ==
    ASSUME input \in Inputs, NEW a, NEW k, NEW x, NEW y, Piece(a, k, x, y)
    PROVE  LET ms == SubSeq(Matches, a + 1, k)
           IN  Tells(RawRecords(ms, x, y), LiteralPositions(ms, x, y), Source, Open, x, y)
<1> DEFINE ms == SubSeq(Matches, a + 1, k)
           n == k - a
           RR(i) == RunRecords(ms[i].pos - RunStart(ms, x, i), ms[i].M, ms[i].D)
           SS(i) == Stretch(RunStart(ms, x, i), ms[i].pos)
           R(j) == [i \in 1 .. j |-> RR(i)]
           S(j) == [i \in 1 .. j |-> SS(i)]
           b(i) == GapFrom(a, x, a + i)
           rest == IF y > b(n + 1) THEN RunRecords(y - b(n + 1), 0, 1) ELSE << >>
<1>1. /\ a \in 0 .. Len(Matches) /\ k \in a .. Len(Matches) /\ Len(Matches) \in Nat
      /\ a \in Nat /\ k \in Nat /\ n \in Nat /\ x \in Nat /\ y \in Nat
  BY InputIs DEF Piece
<1>2. ms \in Seq(Match) /\ Len(ms) = n /\ \A i \in 1 .. n : ms[i] = Matches[a + i]
  BY <1>1, SubSeqOfMatches
<1> HIDE DEF ms
<1>3. ASSUME NEW i \in 1 .. n + 1 PROVE RunStart(ms, x, i) = b(i)
  <2>1. CASE i = 1
    BY <1>1, <2>1 DEF RunStart, GapFrom
  <2>2. CASE i # 1
    <3>1. i - 1 \in 1 .. n /\ a + (i - 1) = (a + i) - 1 /\ a + i # a + 1
      BY <1>1, <2>2
    <3>2. ms[i - 1] = Matches[(a + i) - 1]
      BY <1>2, <3>1
    <3> QED
      BY <2>2, <3>1, <3>2 DEF RunStart, GapFrom
  <2> QED
    BY <2>1, <2>2
<1>4. ASSUME NEW i \in 1 .. n
      PROVE  Tells(RR(i), SS(i), Source, Open, b(i), b(i + 1))
  <2>1. a + i \in a + 1 .. k /\ i \in 1 .. n + 1
    BY <1>1
  <2>2. ms[i] = Matches[a + i] /\ RunStart(ms, x, i) = b(i)
    BY <1>2, <1>3, <2>1
  <2>3. b(i + 1) = EndOf(Matches[a + i])
    <3>1. a + (i + 1) # a + 1 /\ (a + (i + 1)) - 1 = a + i
      BY <1>1
    <3> QED
      BY <3>1 DEF GapFrom
  <2>4. Tells(RunRecords(Matches[a + i].pos - b(i), Matches[a + i].M, Matches[a + i].D),
              Stretch(b(i), Matches[a + i].pos), Source, Open, b(i), EndOf(Matches[a + i]))
    BY <2>1, TellsMatch
  <2> QED
    BY <2>2, <2>3, <2>4
<1> HIDE DEF RR, SS, b, n
<1>5. ASSUME NEW i \in 1 .. n PROVE RR(i) \in Seq(RawRecord) /\ SS(i) \in Seq(Nat)
  BY <1>4 DEF Tells
<1> DEFINE T == {j \in Nat : j <= n =>
                   /\ R(j) \in Seq(Seq(RawRecord)) /\ S(j) \in Seq(Seq(Nat))
                   /\ Len(R(j)) = j /\ Len(S(j)) = j
                   /\ Tells(FlattenSeq(R(j)), FlattenSeq(S(j)), Source, Open, x, b(j + 1))}
<1>6. 0 \in T
  <2>1. R(0) = << >> /\ S(0) = << >>
    BY <1>1
  <2>2. b(0 + 1) = x
    BY <1>1 DEF b, GapFrom
  <2>3. Tells(<< >>, << >>, Source, Open, x, x)
    BY <1>1, TellsNothing
  <2>4. << >> \in Seq(Seq(RawRecord)) /\ << >> \in Seq(Seq(Nat)) /\ Len(<< >>) = 0
    OBVIOUS
  <2>5. 0 <= n => /\ R(0) \in Seq(Seq(RawRecord)) /\ S(0) \in Seq(Seq(Nat))
                  /\ Len(R(0)) = 0 /\ Len(S(0)) = 0
                  /\ Tells(FlattenSeq(R(0)), FlattenSeq(S(0)), Source, Open, x, b(0 + 1))
    BY <2>1, <2>2, <2>3, <2>4, FlattenEmpty
  <2> HIDE DEF R, S
  <2> QED
    BY <2>5
<1>7. ASSUME NEW j \in Nat, j \in T PROVE j + 1 \in T
  <2> SUFFICES ASSUME j + 1 <= n
               PROVE  /\ R(j + 1) \in Seq(Seq(RawRecord)) /\ S(j + 1) \in Seq(Seq(Nat))
                      /\ Len(R(j + 1)) = j + 1 /\ Len(S(j + 1)) = j + 1
                      /\ Tells(FlattenSeq(R(j + 1)), FlattenSeq(S(j + 1)), Source, Open,
                               x, b((j + 1) + 1))
    OBVIOUS
  <2>1. /\ R(j) \in Seq(Seq(RawRecord)) /\ S(j) \in Seq(Seq(Nat))
        /\ Len(R(j)) = j /\ Len(S(j)) = j
        /\ Tells(FlattenSeq(R(j)), FlattenSeq(S(j)), Source, Open, x, b(j + 1))
    <3>1. j <= n
      BY <1>1
    <3> HIDE DEF R, S
    <3> QED
      BY <1>7, <3>1
  <2>2. j + 1 \in 1 .. n
    BY <1>1
  <2>3. R(j + 1) = Append(R(j), RR(j + 1))
    <3>1. Append(R(j), RR(j + 1)) =
            [i \in 1 .. j + 1 |-> IF i <= j THEN R(j)[i] ELSE RR(j + 1)]
      BY <2>1, AppendIs
    <3>2. ASSUME NEW i \in 1 .. j + 1
          PROVE  RR(i) = IF i <= j THEN R(j)[i] ELSE RR(j + 1)
      OBVIOUS
    <3> QED
      BY <3>1, <3>2
  <2>4. S(j + 1) = Append(S(j), SS(j + 1))
    <3>1. Append(S(j), SS(j + 1)) =
            [i \in 1 .. j + 1 |-> IF i <= j THEN S(j)[i] ELSE SS(j + 1)]
      BY <2>1, AppendIs
    <3>2. ASSUME NEW i \in 1 .. j + 1
          PROVE  SS(i) = IF i <= j THEN S(j)[i] ELSE SS(j + 1)
      OBVIOUS
    <3> QED
      BY <3>1, <3>2
  <2> HIDE DEF R, S
  <2>5. RR(j + 1) \in Seq(RawRecord) /\ SS(j + 1) \in Seq(Nat)
    BY <1>5, <2>2
  <2>6. /\ FlattenSeq(R(j + 1)) = FlattenSeq(R(j)) \o RR(j + 1)
        /\ FlattenSeq(S(j + 1)) = FlattenSeq(S(j)) \o SS(j + 1)
    BY <2>1, <2>3, <2>4, <2>5, FlattenAppend
  <2>7. Tells(RR(j + 1), SS(j + 1), Source, Open, b(j + 1), b((j + 1) + 1))
    BY <1>4, <2>2
  <2>8. Tells(FlattenSeq(R(j)) \o RR(j + 1), FlattenSeq(S(j)) \o SS(j + 1), Source, Open,
              x, b((j + 1) + 1))
    BY <2>1, <2>7, TellsBoth
  <2>9. /\ R(j + 1) \in Seq(Seq(RawRecord)) /\ Len(R(j + 1)) = j + 1
        /\ S(j + 1) \in Seq(Seq(Nat)) /\ Len(S(j + 1)) = j + 1
    <3>1. /\ Append(R(j), RR(j + 1)) \in Seq(Seq(RawRecord))
          /\ Len(Append(R(j), RR(j + 1))) = Len(R(j)) + 1
      BY <2>1, <2>5, AppendProperties
    <3>2. /\ Append(S(j), SS(j + 1)) \in Seq(Seq(Nat))
          /\ Len(Append(S(j), SS(j + 1))) = Len(S(j)) + 1
      BY <2>1, <2>5, AppendProperties
    <3> QED
      BY <2>1, <2>3, <2>4, <3>1, <3>2, Zenon
  <2> QED
    BY <2>6, <2>8, <2>9
<1>8. Tells(FlattenSeq(R(n)), FlattenSeq(S(n)), Source, Open, x, b(n + 1))
  <2>1. Nat \subseteq T
    <3> HIDE DEF T
    <3> QED
      BY <1>6, <1>7, Induction
  <2> HIDE DEF R, S
  <2> QED
    BY <1>1, <2>1
<1>9. Tells(rest, Stretch(b(n + 1), y), Source, Open, b(n + 1), y)
  <2>1. a + (n + 1) = k + 1
    BY <1>1 DEF n
  <2> QED
    BY <2>1, TellsTail DEF b
<1>10. Tells(FlattenSeq(R(n)) \o rest, FlattenSeq(S(n)) \o Stretch(b(n + 1), y),
             Source, Open, x, y)
  <2> HIDE DEF R, S, rest
  <2> QED
    BY <1>8, <1>9, TellsBoth
<1>11. RunStart(ms, x, Len(ms) + 1) = b(n + 1)
  <2>1. n + 1 \in 1 .. n + 1
    BY <1>1
  <2> QED
    BY <1>2, <1>3, <2>1
<1>12. RawRecords(ms, x, y) = FlattenSeq(R(n)) \o rest
  BY <1>2, <1>11, Zenon DEF RawRecords, RR
<1>13. LiteralPositions(ms, x, y) = FlattenSeq(S(n)) \o Stretch(b(n + 1), y)
  BY <1>2, <1>11, Zenon DEF LiteralPositions, SS
<1> QED
  BY <1>10, <1>12, <1>13 DEF ms
-----------------------------------------------------------------------------
(***************************************************************************)
(* What a walk implies: its length is within what rawFitsBlock allows, and *)
(* the literals used so far are the open positions passed so far.          *)
(***************************************************************************)
WalkStep(at, used, recs, lits, src, open, x, y, k) ==
    LET r == recs[k + 1]
    IN  /\ r.L \in Nat /\ r.M \in Nat /\ r.M <= MaxMValue
        /\ r.D \in Nat \ {0} /\ MaxMValue \in Nat
        /\ at[k] \in Nat /\ used[k] \in Nat
        /\ at[k + 1] \in Nat /\ used[k + 1] \in Nat
        /\ x <= at[k] /\ at[k + 1] <= y /\ used[k + 1] <= Len(lits)
        /\ at[k + 1] = at[k] + r.L + r.M /\ used[k + 1] = used[k] + r.L
        /\ Passes(r, lits, src, open, at[k], used[k])

LEMMA WalkSteps ==
    ASSUME NEW recs \in Seq(RawRecord), NEW lits \in Seq(Nat), NEW src, NEW open,
           NEW x \in Nat, NEW y \in Nat,
           NEW at \in [0 .. Len(recs) -> Nat], NEW used \in [0 .. Len(recs) -> Nat],
           Walk(at, used, recs, lits, src, open, x, y),
           NEW k \in 0 .. Len(recs) - 1
    PROVE  WalkStep(at, used, recs, lits, src, open, x, y, k)
<1> DEFINE i == k + 1
<1>1. i \in 1 .. Len(recs) /\ i \in 0 .. Len(recs) /\ k \in 0 .. Len(recs) /\ i - 1 = k
  OBVIOUS
<1> HIDE DEF i
<1>2. recs[i] \in RawRecord
  BY <1>1, ElementOfSeq
<1>3. /\ recs[i].L \in Nat /\ recs[i].M \in 0 .. MaxMValue
      /\ recs[i].D \in Nat \ {0} /\ MaxMValue \in Nat
  BY <1>2, DecoderAssumption DEF RawRecord
<1>4. recs[i].M \in Nat /\ recs[i].M <= MaxMValue
  BY <1>3
<1>5. at[k] \in Nat /\ used[k] \in Nat /\ at[i] \in Nat /\ used[i] \in Nat
  BY <1>1
<1>6. at[i] \in x .. y /\ used[i] \in 0 .. Len(lits) /\ at[k] \in x .. y
  BY <1>1 DEF Walk
<1>7. at[i] <= y /\ used[i] <= Len(lits) /\ x <= at[k]
  BY <1>6
<1>8. /\ at[i] = at[i - 1] + recs[i].L + recs[i].M
      /\ used[i] = used[i - 1] + recs[i].L
      /\ Passes(recs[i], lits, src, open, at[i - 1], used[i - 1])
  BY <1>1 DEF Walk
<1>9. /\ at[i] = at[k] + recs[i].L + recs[i].M
      /\ used[i] = used[k] + recs[i].L
      /\ Passes(recs[i], lits, src, open, at[k], used[k])
  BY <1>1, <1>8, Zenon
<1> QED
  BY <1>3, <1>4, <1>5, <1>7, <1>9 DEF i, WalkStep

LEMMA WalkFits ==
    ASSUME NEW recs \in Seq(RawRecord), NEW lits \in Seq(Nat), NEW src, NEW open,
           NEW x \in Nat, NEW y \in Nat,
           NEW at \in [0 .. Len(recs) -> Nat], NEW used \in [0 .. Len(recs) -> Nat],
           Walk(at, used, recs, lits, src, open, x, y)
    PROVE  y - x <= Len(lits) + Len(recs) * MaxMValue
<1> DEFINE n == Len(recs)
           T == {k \in Nat : k <= n => at[k] - x <= used[k] + k * MaxMValue}
<1>0. n \in Nat /\ MaxMValue \in Nat
  BY DecoderAssumption
<1>1. 0 \in T
  <2>1. at[0] = x /\ used[0] = 0
    BY DEF Walk
  <2>2. x - x <= 0 + 0 * MaxMValue
    BY <1>0
  <2> QED
    BY <2>1, <2>2
<1>2. ASSUME NEW k \in Nat, k \in T PROVE k + 1 \in T
  <2> SUFFICES ASSUME k + 1 <= n PROVE at[k + 1] - x <= used[k + 1] + (k + 1) * MaxMValue
    OBVIOUS
  <2>1. k \in 0 .. n - 1 /\ k <= n
    BY <1>0
  <2> DEFINE p == at[k]
             u == used[k]
             L == recs[k + 1].L
             M == recs[k + 1].M
             z == k * MaxMValue
  <2>2. /\ p \in Nat /\ u \in Nat /\ L \in Nat /\ M \in Nat /\ M <= MaxMValue
        /\ at[k + 1] = p + L + M /\ used[k + 1] = u + L
    <3>1. WalkStep(at, used, recs, lits, src, open, x, y, k)
      BY <2>1, WalkSteps
    <3> QED
      BY <3>1 DEF WalkStep
  <2>3. p - x <= u + z
    BY <1>2, <2>1
  <2>4. z \in Nat /\ (k + 1) * MaxMValue = z + MaxMValue
    BY <1>0
  <2> HIDE DEF p, u, L, M, z
  <2>5. (p + L + M) - x <= (u + L) + (z + MaxMValue)
    BY <1>0, <2>2, <2>3, <2>4, OneMoreRecord
  <2> QED
    BY <2>2, <2>4, <2>5
<1>3. n \in T
  <2> HIDE DEF T
  <2> QED
    BY <1>0, <1>1, <1>2, Induction
<1> HIDE DEF n
<1>4. at[n] - x <= used[n] + n * MaxMValue
  BY <1>0, <1>3
<1>5. at[n] = y /\ used[n] = Len(lits)
  BY DEF Walk, n
<1> QED
  BY <1>4, <1>5 DEF n

Between(open, x, e) == {q \in x .. e - 1 : q \in open}

Counted(at, used, open, x, k) == used[k] = Cardinality(Between(open, x, at[k]))

LEMMA WalkCounts ==
    ASSUME NEW recs \in Seq(RawRecord), NEW lits \in Seq(Nat), NEW src, NEW open,
           NEW x \in Nat, NEW y \in Nat,
           NEW at \in [0 .. Len(recs) -> Nat], NEW used \in [0 .. Len(recs) -> Nat],
           Walk(at, used, recs, lits, src, open, x, y),
           NEW k \in 0 .. Len(recs)
    PROVE  Counted(at, used, open, x, k)
<1> DEFINE n == Len(recs)
           C(e) == {q \in x .. e - 1 : q \in open}
           T == {i \in Nat : i <= n => /\ used[i] = Cardinality(C(at[i]))
                                       /\ IsFiniteSet(C(at[i]))}
<1>0. n \in Nat
  OBVIOUS
<1>1. 0 \in T
  <2>1. at[0] = x /\ used[0] = 0
    BY DEF Walk
  <2>2. C(x) = {}
    OBVIOUS
  <2>3. Cardinality({}) = 0 /\ IsFiniteSet({})
    BY FS_EmptySet
  <2> QED
    BY <2>1, <2>2, <2>3
<1>2. ASSUME NEW i \in Nat, i \in T PROVE i + 1 \in T
  <2> SUFFICES ASSUME i + 1 <= n
               PROVE  /\ used[i + 1] = Cardinality(C(at[i + 1]))
                      /\ IsFiniteSet(C(at[i + 1]))
    OBVIOUS
  <2>1. i \in 0 .. n - 1 /\ i <= n
    BY <1>0
  <2> DEFINE p == at[i]
             u == used[i]
             L == recs[i + 1].L
             M == recs[i + 1].M
  <2>2. /\ p \in Nat /\ u \in Nat /\ L \in Nat /\ M \in Nat /\ x <= p
        /\ at[i + 1] = p + L + M /\ used[i + 1] = u + L
        /\ Passes(recs[i + 1], lits, src, open, p, u)
    <3>1. WalkStep(at, used, recs, lits, src, open, x, y, i)
      BY <2>1, WalkSteps
    <3> QED
      BY <3>1 DEF WalkStep
  <2>3. u = Cardinality(C(p)) /\ IsFiniteSet(C(p))
    BY <1>2, <2>1
  <2>4. /\ \A j \in 1 .. L : p + j - 1 \in open
        /\ \A q \in p + L .. p + L + M - 1 : q \notin open
    BY <2>2 DEF Passes
  <2> HIDE DEF p, u, L, M
  <2>5. \A q \in p .. p + L - 1 : q \in open
    <3> SUFFICES ASSUME NEW q \in p .. p + L - 1 PROVE q \in open
      OBVIOUS
    <3>1. (q - p) + 1 \in 1 .. L /\ p + ((q - p) + 1) - 1 = q
      BY <2>2
    <3> QED
      BY <2>4, <3>1
  <2>6. C(p + L + M) = C(p) \cup (p .. p + L - 1)
    <3>1. ASSUME NEW q \in C(p + L + M) PROVE q \in C(p) \cup (p .. p + L - 1)
      BY <2>2, <2>4
    <3>2. ASSUME NEW q \in C(p) \cup (p .. p + L - 1) PROVE q \in C(p + L + M)
      BY <2>2, <2>5
    <3> QED
      BY <3>1, <3>2
  <2>7. IsFiniteSet(p .. p + L - 1) /\ Cardinality(p .. p + L - 1) = L
    <3>1. p \in Int /\ p + L - 1 \in Int
      BY <2>2
    <3>2. Cardinality(p .. p + L - 1) = IF p > p + L - 1 THEN 0 ELSE (p + L - 1) - p + 1
      BY <3>1, FS_Interval
    <3>3. (IF p > p + L - 1 THEN 0 ELSE (p + L - 1) - p + 1) = L
      BY <2>2
    <3> QED
      BY <3>1, <3>2, <3>3, FS_Interval
  <2>8. C(p) \cap (p .. p + L - 1) = {}
    BY <2>2
  <2> HIDE DEF C
  <2>9. /\ IsFiniteSet(C(p) \cup (p .. p + L - 1))
        /\ Cardinality(C(p) \cup (p .. p + L - 1)) = u + L - Cardinality({})
    BY <2>3, <2>7, <2>8, FS_Union
  <2>10. u + L - Cardinality({}) = u + L
    BY <2>2, FS_EmptySet
  <2> QED
    BY <2>2, <2>6, <2>9, <2>10
<1>3. Nat \subseteq T
  <2> HIDE DEF T
  <2> QED
    BY <1>1, <1>2, Induction
<1>4. k \in Nat /\ k <= n
  BY <1>0
<1> QED
  BY <1>3, <1>4 DEF Counted, Between

\* Copying from dist before gives the source wherever the source repeats so.
Holds(mem, src, e) == \A p \in 0 .. e - 1 : mem[p + 1] = src[p]

LEMMA CopiesFollow ==
    ASSUME NEW mem, NEW src, NEW s \in Nat, NEW e \in Nat, NEW dist \in Nat \ {0},
           dist <= s, Holds(mem, src, s),
           \A j \in s + 1 .. e : mem[j] = mem[j - dist],
           \A q \in s .. e - 1 : src[q] = src[q - dist]
    PROVE  Holds(mem, src, e)
<1> DEFINE T == {k \in Nat : \A p \in 0 .. k : p \in 0 .. e - 1 => mem[p + 1] = src[p]}
<1>0. \A p \in 0 .. s - 1 : mem[p + 1] = src[p]
  BY DEF Holds
<1>1. 0 \in T
  BY <1>0
<1>2. ASSUME NEW k \in Nat, k \in T PROVE k + 1 \in T
  <2> SUFFICES ASSUME k + 1 \in 0 .. e - 1 PROVE mem[(k + 1) + 1] = src[k + 1]
    BY <1>2
  <2>1. CASE k + 1 < s
    BY <1>0, <2>1
  <2>2. CASE ~ (k + 1 < s)
    <3> DEFINE p == k + 1
               o == p - dist
    <3>1. p + 1 \in s + 1 .. e /\ p \in s .. e - 1 /\ (p + 1) - dist = o + 1
          /\ o \in 0 .. k /\ o \in 0 .. e - 1
      BY <2>2
    <3>2. mem[o + 1] = src[o]
      BY <1>2, <3>1
    <3> HIDE DEF p, o
    <3>3. mem[p + 1] = mem[o + 1]
      BY <3>1
    <3>4. src[p] = src[o]
      BY <3>1 DEF o
    <3> QED
      BY <3>2, <3>3, <3>4 DEF p
  <2> QED
    BY <2>1, <2>2
<1>3. Nat \subseteq T
  <2> HIDE DEF T
  <2> QED
    BY <1>1, <1>2, Induction
<1> SUFFICES ASSUME NEW p \in 0 .. e - 1 PROVE mem[p + 1] = src[p]
  BY DEF Holds
<1>4. p \in T /\ p \in 0 .. p
  BY <1>3
<1> QED
  BY <1>4
LEMMA WalkLiterals ==
    ASSUME NEW recs \in Seq(RawRecord), NEW lits \in Seq(Nat), NEW src, NEW open,
           NEW x \in Nat, NEW y \in Nat,
           NEW at \in [0 .. Len(recs) -> Nat], NEW used \in [0 .. Len(recs) -> Nat],
           Walk(at, used, recs, lits, src, open, x, y)
    PROVE  \A j \in 1 .. Len(lits) : lits[j] \in open
<1> DEFINE n == Len(recs)
           T == {i \in Nat : i <= n => \A j \in 1 .. used[i] : lits[j] \in open}
<1>0. n \in Nat
  OBVIOUS
<1>1. 0 \in T
  <2>1. used[0] = 0
    BY DEF Walk
  <2> QED
    BY <2>1
<1>2. ASSUME NEW i \in Nat, i \in T PROVE i + 1 \in T
  <2> SUFFICES ASSUME i + 1 <= n PROVE \A j \in 1 .. used[i + 1] : lits[j] \in open
    OBVIOUS
  <2>1. i \in 0 .. n - 1 /\ i <= n
    BY <1>0
  <2> DEFINE p == at[i]
             u == used[i]
             L == recs[i + 1].L
  <2>2. /\ p \in Nat /\ u \in Nat /\ L \in Nat /\ used[i + 1] = u + L
        /\ Passes(recs[i + 1], lits, src, open, p, u)
    <3>1. WalkStep(at, used, recs, lits, src, open, x, y, i)
      BY <2>1, WalkSteps
    <3> QED
      BY <3>1 DEF WalkStep
  <2>3. \A j \in 1 .. u : lits[j] \in open
    BY <1>2, <2>1
  <2>4. \A j \in 1 .. L : p + j - 1 \in open /\ lits[u + j] = p + j - 1
    BY <2>2 DEF Passes
  <2> HIDE DEF p, u, L
  <2>5. ASSUME NEW j \in 1 .. u + L PROVE lits[j] \in open
    <3>1. CASE j <= u
      BY <2>2, <2>3, <3>1
    <3>2. CASE ~ (j <= u)
      <4>1. j - u \in 1 .. L /\ u + (j - u) = j
        BY <2>2, <3>2
      <4>2. lits[u + (j - u)] \in open
        BY <2>4, <4>1
      <4> QED
        BY <4>1, <4>2
    <3> QED
      BY <3>1, <3>2
  <2> QED
    BY <2>2, <2>5
<1>3. n \in T
  <2> HIDE DEF T
  <2> QED
    BY <1>0, <1>1, <1>2, Induction
<1> HIDE DEF n
<1>4. \A j \in 1 .. used[n] : lits[j] \in open
  BY <1>0, <1>3
<1>5. used[n] = Len(lits)
  BY DEF Walk, n
<1> QED
  BY <1>4, <1>5

-----------------------------------------------------------------------------
(***************************************************************************)
(* What encodeBlock presents to the decoder.                               *)
(***************************************************************************)
LEMMA PaddedIs ==
    ASSUME NEW n \in Nat
    PROVE  /\ Padded(n, Lanes) \in Nat /\ Padded(n, Lanes) % Lanes = 0
           /\ n <= Padded(n, Lanes) /\ Padded(n, Lanes) - n \in 0 .. Lanes - 1
<1> DEFINE s == n + Lanes - 1
           q == s \div Lanes
           r == s % Lanes
           w == q * Lanes
<1>0. Lanes \in Nat \ {0} /\ s \in Nat
  BY DecoderAssumption
<1> HIDE DEF s
<1>1. q \in Nat /\ r \in 0 .. Lanes - 1 /\ s = w + r
  BY <1>0, Division
<1>2. (q * Lanes + 0) % Lanes = 0
  <2> HIDE DEF q
  <2>1. 0 \in 0 .. Lanes - 1
    BY <1>0
  <2> QED
    BY <1>0, <1>1, <2>1, Quotient
<1>3. w \in Nat /\ w + 0 = w
  <2> HIDE DEF q
  <2> QED
    BY <1>0, <1>1
<1>4. w % Lanes = 0
  BY <1>2, <1>3
<1> HIDE DEF w, r
<1>5. n <= w /\ w - n \in 0 .. Lanes - 1
  BY <1>0, <1>1, <1>3 DEF s
<1> QED
  BY <1>3, <1>4, <1>5 DEF Padded, w, q, s

\* The distance the decoder has after k records of raw.
DistanceAfter(raw, k) == IF k = 0 THEN 0 ELSE raw[k].D

LEMMA ReuseIs ==
    ASSUME NEW raw \in Seq(RawRecord)
    PROVE  /\ Len(ReuseD(raw)) = Len(raw)
           /\ \A k \in 0 .. Len(raw) - 1 :
                /\ ReuseD(raw)[k + 1].L = raw[k + 1].L
                /\ ReuseD(raw)[k + 1].M = raw[k + 1].M
                /\ ReuseD(raw)[k + 1].D = IF raw[k + 1].D = DistanceAfter(raw, k)
                                          THEN 0 ELSE raw[k + 1].D
<1> DEFINE n == Len(raw)
           reuse(i) == [raw[i] EXCEPT !.D = IF @ = (IF i = 1 THEN 0 ELSE raw[i - 1].D)
                                            THEN 0 ELSE @]
           r == ReuseD(raw)
<1>1. n \in Nat
  OBVIOUS
<1>2. r = [i \in 1 .. n |-> reuse(i)]
  BY DEF ReuseD
<1>3. Len(r) = n
  <2> DEFINE S == {reuse(i) : i \in 1 .. n}
  <2>1. r \in [1 .. n -> S]
    BY <1>2
  <2> HIDE DEF r, S, n
  <2> QED
    BY <1>1, <2>1, AsSequence
<1>4. ASSUME NEW k \in 0 .. n - 1
      PROVE  /\ r[k + 1].L = raw[k + 1].L /\ r[k + 1].M = raw[k + 1].M
             /\ r[k + 1].D = IF raw[k + 1].D = DistanceAfter(raw, k) THEN 0 ELSE raw[k + 1].D
  <2> DEFINE i == k + 1
  <2>1. i \in 1 .. n /\ i - 1 = k /\ (i = 1 <=> k = 0)
    BY <1>1
  <2> HIDE DEF i
  <2>2. raw[i] \in RawRecord
    BY <2>1, ElementOfSeq
  <2>3. r[i] = reuse(i)
    <3> HIDE DEF reuse, r
    <3> QED
      BY <1>2, <2>1
  <2>4. /\ reuse(i).L = raw[i].L /\ reuse(i).M = raw[i].M
        /\ reuse(i).D = IF raw[i].D = (IF i = 1 THEN 0 ELSE raw[i - 1].D) THEN 0 ELSE raw[i].D
    BY <2>2 DEF RawRecord
  <2>5. (IF i = 1 THEN 0 ELSE raw[i - 1].D) = DistanceAfter(raw, k)
    BY <2>1 DEF DistanceAfter
  <2> HIDE DEF reuse, r
  <2> QED
    BY <2>3, <2>4, <2>5 DEF i
<1> QED
  BY <1>3, <1>4

\* A frame that carries the raw records raw, with their distances reused, and
\* the bytes of src at lits, padded.
Carries(f, raw, lits, src) ==
    /\ Len(f.recs) = Len(raw)
    /\ \A k \in 0 .. Len(raw) - 1 :
         /\ f.recs[k + 1].L = raw[k + 1].L
         /\ f.recs[k + 1].M = raw[k + 1].M
         /\ f.recs[k + 1].D = IF raw[k + 1].D = DistanceAfter(raw, k)
                              THEN 0 ELSE raw[k + 1].D
    /\ Len(f.literals) = Padded(Len(lits), Lanes)
    /\ \A i \in 1 .. Len(lits) : f.literals[i] = src[lits[i]]

RawOf(b, k, x, y) == RawRecords(SubSeq(Matches, b + 1, k), x, y)
LitsOf(b, k, x, y) == LiteralPositions(SubSeq(Matches, b + 1, k), x, y)

LEMMA EncodedIs ==
    ASSUME input \in Inputs, NEW k, NEW to, Piece(taken, k, pos, to), k # taken
    PROVE  LET f == Encode(to, k)
           IN  /\ f.kind = "v2" /\ f.nRaw = to - pos /\ IsFrame(f)
               /\ Carries(f, RawOf(taken, k, pos, to), LitsOf(taken, k, pos, to), Source)
               /\ Len(f.literals) % Lanes = 0 /\ RawFitsBlock(f)
<1> DEFINE ms == SubSeq(input.matches, taken + 1, k)
           raw == RawRecords(ms, pos, to)
           lits == LiteralPositions(ms, pos, to)
           w == Padded(Len(lits), Lanes)
           bytes == [i \in 1 .. w |-> IF i <= Len(lits) THEN Source[lits[i]] ELSE Zero]
           f == Encode(to, k)
<1>1. /\ raw \in Seq(RawRecord) /\ lits \in Seq(Nat) /\ pos \in Nat /\ to \in Nat
      /\ \E at \in [0 .. Len(raw) -> Nat], used \in [0 .. Len(raw) -> Nat] :
           Walk(at, used, raw, lits, Source, Open, pos, to)
  BY TellsPiece DEF Tells, Matches
<1>2. f = [kind |-> "v2", nRaw |-> to - pos, recs |-> ReuseD(raw), literals |-> bytes]
  BY DEF Encode, BlockRecords
<1> HIDE DEF f, ms, raw, lits
<1>3. to - pos \in Nat
  <2>1. pos \in 0 .. input.n /\ to \in pos .. input.n /\ input.n \in Nat
    BY InputIs DEF Piece
  <2> QED
    BY <2>1
<1>4. w \in Nat /\ w % Lanes = 0 /\ Len(lits) <= w /\ Len(lits) \in Nat
  BY <1>1, PaddedIs
<1>5. \A i \in 1 .. Len(lits) : lits[i] \in Open
  BY <1>1, WalkLiterals
<1> HIDE DEF w
<1>6. bytes \in [1 .. w -> Bytes]
  <2>1. ASSUME NEW i \in 1 .. w
        PROVE  (IF i <= Len(lits) THEN Source[lits[i]] ELSE Zero) \in Bytes
    <3>1. CASE i <= Len(lits)
      <4>1. lits[i] \in Open
        BY <1>4, <1>5, <3>1
      <4>2. Source[lits[i]] \in Bytes
        BY <4>1, OpenIs, SourceIs
      <4> QED
        BY <3>1, <4>2
    <3>2. CASE ~ (i <= Len(lits))
      BY <3>2, DecoderAssumption
    <3> QED
      BY <3>1, <3>2
  <2> QED
    BY <2>1
<1>7. \A i \in 1 .. Len(lits) : bytes[i] = Source[lits[i]]
  BY <1>4
<1> HIDE DEF bytes
<1>8. bytes \in Seq(Bytes) /\ Len(bytes) = w
  BY <1>4, <1>6, AsSequence
<1>9. /\ f.kind = "v2" /\ f.nRaw = to - pos /\ f.recs = ReuseD(raw) /\ f.literals = bytes
  BY <1>2
<1>10. /\ Len(f.recs) = Len(raw) /\ Len(raw) \in Nat
       /\ \A i \in 0 .. Len(raw) - 1 :
            /\ f.recs[i + 1].L = raw[i + 1].L
            /\ f.recs[i + 1].M = raw[i + 1].M
            /\ f.recs[i + 1].D = IF raw[i + 1].D = DistanceAfter(raw, i)
                                 THEN 0 ELSE raw[i + 1].D
  BY <1>1, <1>9, ReuseIs
<1>11. Carries(f, raw, lits, Source)
  BY <1>7, <1>8, <1>9, <1>10 DEF Carries, w
<1>12. ASSUME NEW j \in 1 .. Len(f.recs)
       PROVE  /\ f.recs[j].L \in Nat /\ f.recs[j].D \in Nat
              /\ f.recs[j].M \in 0 .. MaxMValue
  <2>1. j - 1 \in 0 .. Len(raw) - 1 /\ (j - 1) + 1 = j /\ j \in 1 .. Len(raw)
    BY <1>10
  <2>2. raw[j] \in RawRecord
    BY <1>1, <2>1, ElementOfSeq
  <2>3. /\ f.recs[j].L = raw[j].L /\ f.recs[j].M = raw[j].M
        /\ f.recs[j].D = IF raw[j].D = DistanceAfter(raw, j - 1) THEN 0 ELSE raw[j].D
    <3>1. /\ f.recs[(j - 1) + 1].L = raw[(j - 1) + 1].L
          /\ f.recs[(j - 1) + 1].M = raw[(j - 1) + 1].M
          /\ f.recs[(j - 1) + 1].D = IF raw[(j - 1) + 1].D = DistanceAfter(raw, j - 1)
                                     THEN 0 ELSE raw[(j - 1) + 1].D
      BY <1>10, <2>1, Zenon
    <3> QED
      BY <2>1, <3>1
  <2> QED
    BY <2>2, <2>3 DEF RawRecord
<1>13. IsFrame(f)
  BY <1>3, <1>8, <1>9, <1>10, <1>12 DEF IsFrame
<1>14. RawFitsBlock(f)
  <2>1. to - pos <= Len(lits) + Len(raw) * MaxMValue
    BY <1>1, WalkFits
  <2> DEFINE most == Len(raw) * MaxMValue
  <2>2. most \in Nat
    BY <1>10, DecoderAssumption
  <2> HIDE DEF most
  <2>3. to - pos <= w + most
    BY <1>3, <1>4, <2>1, <2>2 DEF most
  <2> QED
    BY <1>8, <1>9, <1>10, <2>3 DEF RawFitsBlock, most
<1>15. Carries(f, RawOf(taken, k, pos, to), LitsOf(taken, k, pos, to), Source)
  BY <1>11 DEF RawOf, LitsOf, Matches, raw, lits, ms
<1> QED
  BY <1>4, <1>8, <1>9, <1>13, <1>14, <1>15 DEF f

LEMMA EncodedStoredIs ==
    ASSUME input \in Inputs, NEW to, Piece(taken, taken, pos, to)
    PROVE  LET f == Encode(to, taken)
           IN  /\ f.kind = "stored" /\ f.nRaw = to - pos /\ IsFrame(f)
               /\ \A i \in 1 .. to - pos : f.literals[i] = Source[pos + i - 1]
<1> DEFINE f == Encode(to, taken)
           bytes == [i \in 1 .. to - pos |-> Source[pos + i - 1]]
<1>1. f = [kind |-> "stored", nRaw |-> to - pos, recs |-> << >>, literals |-> bytes]
  BY DEF Encode
<1>2. pos \in 0 .. input.n /\ to \in pos .. input.n /\ input.n \in Nat
  BY InputIs DEF Piece
<1>3. to - pos \in Nat /\ \A i \in 1 .. to - pos : pos + i - 1 \in 0 .. input.n - 1
  BY <1>2
<1>4. bytes \in [1 .. to - pos -> Bytes]
  BY <1>3, SourceIs
<1>5. \A i \in 1 .. to - pos : bytes[i] = Source[pos + i - 1]
  OBVIOUS
<1> HIDE DEF f, bytes
<1>6. bytes \in Seq(Bytes) /\ Len(bytes) = to - pos
  BY <1>3, <1>4, AsSequence
<1>7. f.kind = "stored" /\ f.nRaw = to - pos /\ f.literals = bytes /\ f.recs = << >>
  BY <1>1
<1>8. IsFrame(f)
  BY <1>3, <1>6, <1>7 DEF IsFrame
<1> QED
  BY <1>5, <1>7, <1>8 DEF f
-----------------------------------------------------------------------------
(***************************************************************************)
(* The inductive invariant of the composition.  Between blocks the decoder *)
(* is where the encoder is.  Within a block it is part of the way along    *)
(* the walk the block's records describe, with as many literals used as    *)
(* the walk says and the distance of the record before.                    *)
(***************************************************************************)
Cutting ==
    /\ input \in Inputs
    /\ pos \in 0 .. input.n /\ taken \in 0 .. Len(Matches)
    /\ \A i \in 1 .. taken : EndOf(Matches[i]) <= pos
    /\ \A i \in taken + 1 .. Len(Matches) : pos <= Matches[i].pos

Along(raw, lits, at, used) ==
    /\ Carries(frame, raw, lits, Source) /\ frame.nRaw = pos - blockStart
    /\ at \in [0 .. Len(raw) -> Nat] /\ used \in [0 .. Len(raw) -> Nat]
    /\ Walk(at, used, raw, lits, Source, Open, blockStart, pos)
    /\ rec \in 0 .. Len(raw) /\ di = at[rec] /\ litPos = used[rec]
    /\ D = DistanceAfter(raw, rec)

Following ==
    \E b \in 0 .. taken :
        /\ Piece(b, taken, blockStart, pos)
        /\ \E at, used : Along(RawOf(b, taken, blockStart, pos),
                               LitsOf(b, taken, blockStart, pos), at, used)

CodecInv ==
    /\ IInv
    /\ Cutting
    /\ DecodedIsSource
    /\ pc \in {"block", "done"} => di = pos
    /\ pc = "records" => Following

LEMMA SourceSame ==
    ASSUME input' = input
    PROVE  Source' = Source /\ Open' = Open /\ Matches' = Matches
<1>1. \A p : Covering(p)' = Covering(p)
  BY DEF Covering
<1>2. Source' = Source
  BY DEF Source, Covering
<1>3. Open' = Open
  BY <1>1 DEF Open
<1> QED
  BY <1>2, <1>3 DEF Matches

LEMMA CutIs ==
    ASSUME Cutting, NEW to \in pos + 1 .. input.n, NEW k \in taken .. Len(input.matches),
           Splitting!Cut(to, k)
    PROVE  /\ Piece(taken, k, pos, to) /\ Cutting'
           /\ input' = input /\ pos' = to /\ taken' = k
<1>1. /\ input.n \in Nat /\ Len(Matches) \in Nat
      /\ \A i \in 1 .. Len(Matches) : MatchAtIs(i)
  BY InputIs DEF Cutting
<1>2. /\ pos \in Nat /\ taken \in Nat /\ k \in Nat /\ to \in Nat
      /\ taken <= k /\ k <= Len(Matches) /\ pos <= to /\ to <= input.n
  BY <1>1 DEF Cutting, Matches
<1>3. input' = input /\ pos' = to /\ taken' = k
  BY DEF Splitting!Cut
<1>4. ASSUME NEW i \in taken + 1 .. k
      PROVE  pos <= Matches[i].pos /\ EndOf(Matches[i]) <= to
  <2> DEFINE j == i - 1
  <2>1. j \in taken .. k - 1 /\ j + 1 = i
    BY <1>2
  <2>2. pos <= Matches[j + 1].pos /\ Matches[j + 1].pos + Matches[j + 1].M <= to
    BY <2>1 DEF Splitting!Cut, Splitting!M, Matches
  <2> QED
    BY <2>1, <2>2 DEF EndOf
<1>5. ASSUME NEW i \in k + 1 .. Len(Matches)
      PROVE  to <= Matches[i].pos
  <2> DEFINE j == i - 1
  <2>1. j \in k .. Len(Matches) - 1 /\ j + 1 = i
    BY <1>1, <1>2
  <2>2. to <= Matches[j + 1].pos
    BY <2>1 DEF Splitting!Cut, Splitting!M, Matches
  <2> QED
    BY <2>1, <2>2
<1>6. Piece(taken, k, pos, to)
  BY <1>1, <1>2, <1>4, <1>5 DEF Piece, Cutting
<1>7. ASSUME NEW i \in 1 .. k PROVE EndOf(Matches[i]) <= to
  <2>1. CASE i <= taken
    <3>1. i \in 1 .. taken /\ i \in 1 .. Len(Matches)
      BY <1>1, <1>2, <2>1
    <3>2. EndOf(Matches[i]) <= pos /\ EndOf(Matches[i]) \in Nat
      BY <1>1, <3>1 DEF Cutting, MatchAtIs
    <3> QED
      BY <1>2, <3>2
  <2>2. CASE ~ (i <= taken)
    BY <1>2, <1>4, <2>2
  <2> QED
    BY <2>1, <2>2
<1>8. Cutting'
  BY <1>1, <1>2, <1>3, <1>5, <1>7 DEF Cutting, Matches
<1> QED
  BY <1>3, <1>6, <1>8

LEMMA InitFollows ==
    ASSUME CodecInit
    PROVE  CodecInv
<1>1. IInv /\ di = 0 /\ pos = 0 /\ taken = 0 /\ pc = "block" /\ input \in Inputs
  BY InitIInv DEF CodecInit, Init
<1>2. Cutting
  <2>1. /\ input.n \in Nat /\ Len(Matches) \in Nat
        /\ \A i \in 1 .. Len(Matches) : MatchAtIs(i)
    BY <1>1, InputIs
  <2>2. \A i \in 1 .. Len(Matches) : 0 <= Matches[i].pos
    BY <2>1 DEF MatchAtIs
  <2> QED
    BY <1>1, <2>1, <2>2 DEF Cutting
<1>3. DecodedIsSource
  BY <1>1 DEF DecodedIsSource, Failed
<1> QED
  BY <1>1, <1>2, <1>3 DEF CodecInv

\* What the encoder makes of a piece fits the limit.
LEMMA PieceFits ==
    ASSUME CodecInv, pc = "block", NEW to \in pos + 1 .. input.n
    PROVE  /\ out.len = pos /\ di = pos /\ pos \in Nat /\ to \in Nat /\ pos <= to
           /\ FitsLimit(to - pos)
<1>1. input.n \in Nat /\ input.n <= MaxOut /\ MaxOut \in Nat
  BY InputIs, DecoderAssumption DEF CodecInv, Cutting
<1>2. out.len = di /\ di = pos
  BY DEF CodecInv, IInv, OutputWithinLimit
<1>3. pos \in 0 .. input.n
  BY DEF CodecInv, Cutting
<1> QED
  BY <1>1, <1>2, <1>3 DEF FitsLimit

LEMMA StoredFollows ==
    ASSUME CodecInv, NEW to \in pos + 1 .. input.n, Splitting!Cut(to, taken),
           taken \in taken .. Len(input.matches), Stored(Encode(to, taken))
    PROVE  CodecInv'
<1> DEFINE f == Encode(to, taken)
           n == to - pos
<1>0. Cutting /\ input \in Inputs /\ IInv
  BY DEF CodecInv, Cutting
<1>1. /\ Piece(taken, taken, pos, to) /\ Cutting' /\ input' = input /\ pos' = to
  BY <1>0, CutIs
<1>2. /\ f.nRaw = n /\ IsFrame(f)
      /\ \A i \in 1 .. n : f.literals[i] = Source[pos + i - 1]
  BY <1>0, <1>1, EncodedStoredIs
<1> HIDE DEF f
<1>3. pc = "block" /\ Stored(f)
  BY DEF Stored, f
<1>4. /\ out.len = pos /\ di = pos /\ pos \in Nat /\ to \in Nat /\ pos <= to /\ FitsLimit(n)
  BY <1>3, PieceFits
<1>5. pc' = pc /\ di' = out.len + n
  BY <1>2, <1>3, <1>4 DEF Stored
<1>6. /\ IInv' /\ \A j \in 1 .. di : out'.mem[j] = out.mem[j]
      /\ \A i \in 1 .. n : out'.mem[di + i] = f.literals[i]
  BY <1>0, <1>2, <1>3, <1>4, StoredKeepsIInv DEF PrefixStays
<1>7. DecodedIsSource'
  <2>1. pc' \notin Failed
    BY <1>3, <1>5 DEF Failed
  <2>2. Source' = Source
    BY <1>1, SourceSame
  <2>3. di' = to
    BY <1>4, <1>5
  <2>4. ASSUME NEW p \in 0 .. to - 1 PROVE out'.mem[p + 1] = Source[p]
    <3>1. CASE p < pos
      <4>1. p + 1 \in 1 .. di /\ p \in 0 .. di - 1
        BY <1>4, <3>1
      <4> QED
        BY <1>6, <4>1 DEF CodecInv, DecodedIsSource
    <3>2. CASE ~ (p < pos)
      <4> DEFINE i == p - pos + 1
      <4>1. i \in 1 .. n /\ di + i = p + 1 /\ pos + i - 1 = p
        BY <1>4, <3>2
      <4> HIDE DEF i, n
      <4>2. out'.mem[di + i] = Source[pos + i - 1]
        BY <1>2, <1>6, <4>1
      <4> QED
        BY <4>1, <4>2
    <3> QED
      BY <3>1, <3>2
  <2> QED
    BY <2>1, <2>2, <2>3, <2>4 DEF DecodedIsSource
<1>8. pc' = "block" /\ di' = pos'
  BY <1>1, <1>3, <1>4, <1>5
<1> QED
  BY <1>1, <1>6, <1>7, <1>8 DEF CodecInv

LEMMA CompressedFollows ==
    ASSUME CodecInv, NEW to \in pos + 1 .. input.n,
           NEW k \in taken .. Len(input.matches), k # taken,
           Splitting!Cut(to, k), WithinBudgets(Encode(to, k)), Compressed(Encode(to, k))
    PROVE  CodecInv'
<1> DEFINE f == Encode(to, k)
<1>r. PICK b, raw, lits :
        b = taken /\ raw = RawOf(b, k, pos, to) /\ lits = LitsOf(b, k, pos, to)
  OBVIOUS
<1>0. Cutting /\ input \in Inputs /\ IInv
  BY DEF CodecInv, Cutting
<1>1. /\ Piece(taken, k, pos, to) /\ Cutting'
      /\ input' = input /\ pos' = to /\ taken' = k
  BY <1>0, CutIs
<1>2. /\ f.kind = "v2" /\ f.nRaw = to - pos /\ IsFrame(f)
      /\ Carries(f, raw, lits, Source)
      /\ Len(f.literals) % Lanes = 0 /\ RawFitsBlock(f)
  BY <1>0, <1>1, <1>r, EncodedIs
<1>t. Tells(raw, lits, Source, Open, pos, to)
  BY <1>0, <1>1, <1>r, TellsPiece DEF RawOf, LitsOf
<1>b. WithinBudgets(f)
  OBVIOUS
<1> HIDE DEF f
<1>3. pc = "block" /\ Compressed(f)
  BY DEF Compressed, f
<1>4. /\ out.len = pos /\ di = pos /\ pos \in Nat /\ to \in Nat /\ pos <= to
      /\ FitsLimit(to - pos)
  BY <1>3, PieceFits
<1>5. Complaints(f) = {}
  <2>1. ~ (Len(f.literals) > LiteralsPerBlock) /\ ~ (Len(f.recs) > RecordsPerBlock)
    <3>1. /\ Len(f.literals) <= LiteralsPerBlock /\ Len(f.recs) <= RecordsPerBlock
      BY <1>2, <1>b DEF WithinBudgets
    <3>2. /\ Len(f.literals) \in Nat /\ Len(f.recs) \in Nat
          /\ LiteralsPerBlock \in Nat /\ RecordsPerBlock \in Nat
      BY <1>2, DecoderAssumption DEF IsFrame
    <3> QED
      BY <3>1, <3>2
  <2> QED
    BY <1>2, <1>4, <2>1, Zenon DEF Complaints
<1>6. /\ frame' = f /\ pc' = "records"
      /\ di' = out.len /\ blockStart' = out.len /\ litPos' = 0 /\ D' = 0 /\ rec' = 0
  BY <1>3, <1>5 DEF Compressed
<1>7. IInv' /\ \A j \in 1 .. di : out'.mem[j] = out.mem[j]
  BY <1>0, <1>2, <1>3, CompressedKeepsIInv DEF PrefixStays
<1>8. Source' = Source /\ Open' = Open /\ Matches' = Matches
  BY <1>1, SourceSame
<1>9. DecodedIsSource'
  <2>1. pc' \notin Failed
    BY <1>6 DEF Failed
  <2>2. ASSUME NEW p \in 0 .. pos - 1 PROVE out'.mem[p + 1] = Source[p]
    <3>1. p + 1 \in 1 .. di /\ p \in 0 .. di - 1
      BY <1>4
    <3> QED
      BY <1>7, <3>1 DEF CodecInv, DecodedIsSource
  <2> QED
    BY <1>4, <1>6, <1>8, <2>1, <2>2 DEF DecodedIsSource
<1>10. PICK at \in [0 .. Len(raw) -> Nat], used \in [0 .. Len(raw) -> Nat] :
         Walk(at, used, raw, lits, Source, Open, pos, to)
  BY <1>t DEF Tells
<1>11. at[0] = pos /\ used[0] = 0 /\ 0 \in 0 .. Len(raw)
  BY <1>10, <1>t DEF Walk, Tells
<1>12. Along(raw, lits, at, used)'
  <2>1. Carries(frame', raw, lits, Source') /\ frame'.nRaw = pos' - blockStart'
    BY <1>1, <1>2, <1>4, <1>6, <1>8
  <2>2. Walk(at, used, raw, lits, Source', Open', blockStart', pos')
    BY <1>1, <1>4, <1>6, <1>8, <1>10
  <2>3. /\ rec' \in 0 .. Len(raw) /\ di' = at[rec'] /\ litPos' = used[rec']
        /\ D' = DistanceAfter(raw, rec')
    BY <1>4, <1>6, <1>11 DEF DistanceAfter
  <2> QED
    BY <1>10, <2>1, <2>2, <2>3 DEF Along
<1>13. Following'
  <2>1. b \in 0 .. taken'
    <3>1. taken \in Nat /\ k \in Nat /\ taken <= k
      BY <1>0, InputIs DEF Cutting, Matches
    <3> QED
      BY <1>1, <1>r, <3>1
  <2>2. Piece(b, taken, blockStart, pos)'
    <3>1. Piece(b, k, pos, to) /\ taken' = k /\ blockStart' = pos /\ pos' = to
      BY <1>1, <1>4, <1>6, <1>r
    <3> QED
      BY <1>1, <1>8, <3>1 DEF Piece
  <2>3. /\ raw = RawOf(b, taken, blockStart, pos)'
        /\ lits = LitsOf(b, taken, blockStart, pos)'
    BY <1>1, <1>4, <1>6, <1>8, <1>r DEF RawOf, LitsOf
  <2>4. \E at1, used1 : Along(RawOf(b, taken, blockStart, pos),
                              LitsOf(b, taken, blockStart, pos), at1, used1)'
    BY <1>12, <2>3 DEF Along
  <2> QED
    BY <2>1, <2>2, <2>4 DEF Following
<1>14. pc' \notin {"block", "done"}
  BY <1>6
<1> QED
  BY <1>1, <1>7, <1>9, <1>13, <1>14 DEF CodecInv

\* The decoder reads from the frame the record the encoder put there, with the
\* distance it meant, and finds nothing to complain about.
LEMMA RecordIs ==
    ASSUME IInv, input \in Inputs, AtRecord,
           NEW b, NEW raw, NEW lits, NEW at, NEW used,
           Piece(b, taken, blockStart, pos),
           raw = RawOf(b, taken, blockStart, pos), lits = LitsOf(b, taken, blockStart, pos),
           Along(raw, lits, at, used)
    PROVE  /\ raw \in Seq(RawRecord) /\ lits \in Seq(Nat)
           /\ rec \in 0 .. Len(raw) - 1
           /\ Rec.L = raw[rec + 1].L /\ Rec.M = raw[rec + 1].M /\ Dist = raw[rec + 1].D
           /\ WalkStep(at, used, raw, lits, Source, Open, blockStart, pos, rec)
           /\ \A j \in 1 .. Rec.L : Literals[litPos + j] = Source[lits[litPos + j]]
           /\ ~ LiteralsExhausted /\ ~ DistanceInvalid
<1>1. raw \in Seq(RawRecord) /\ lits \in Seq(Nat) /\ blockStart \in Nat /\ pos \in Nat
  BY TellsPiece DEF Tells, RawOf, LitsOf
<1>2. /\ at \in [0 .. Len(raw) -> Nat] /\ used \in [0 .. Len(raw) -> Nat]
      /\ Walk(at, used, raw, lits, Source, Open, blockStart, pos)
      /\ rec \in 0 .. Len(raw) /\ di = at[rec] /\ litPos = used[rec]
      /\ D = DistanceAfter(raw, rec)
  BY DEF Along
<1>3. /\ Len(frame.recs) = Len(raw)
      /\ \A k \in 0 .. Len(raw) - 1 :
           /\ frame.recs[k + 1].L = raw[k + 1].L
           /\ frame.recs[k + 1].M = raw[k + 1].M
           /\ frame.recs[k + 1].D = IF raw[k + 1].D = DistanceAfter(raw, k)
                                    THEN 0 ELSE raw[k + 1].D
      /\ Len(Literals) = Padded(Len(lits), Lanes)
      /\ \A i \in 1 .. Len(lits) : Literals[i] = Source[lits[i]]
  BY DEF Along, Carries, Literals
<1>4. rec \in 0 .. Len(raw) - 1
  <2>1. Len(raw) \in Nat
    BY <1>1
  <2> QED
    BY <1>2, <1>3, <2>1 DEF AtRecord
<1>5. WalkStep(at, used, raw, lits, Source, Open, blockStart, pos, rec)
  BY <1>1, <1>2, <1>4, WalkSteps
<1> DEFINE r == raw[rec + 1]
<1>6. /\ r.L \in Nat /\ r.M \in Nat /\ r.D \in Nat \ {0}
      /\ at[rec] \in Nat /\ used[rec] \in Nat
      /\ used[rec + 1] <= Len(lits) /\ used[rec + 1] = used[rec] + r.L
      /\ r.M > 0 => r.D <= at[rec] + r.L
  BY <1>5 DEF WalkStep, Passes
<1>7. /\ Rec.L = r.L /\ Rec.M = r.M
      /\ Rec.D = IF r.D = D THEN 0 ELSE r.D
  BY <1>2, <1>3, <1>4 DEF Rec
<1>8. Dist = r.D
  BY <1>6, <1>7 DEF Dist
<1> HIDE DEF r
<1>9. Len(lits) \in Nat /\ Len(lits) <= Len(Literals) /\ Len(Literals) \in Nat
  BY <1>1, <1>3, PaddedIs
<1>10. litPos + r.L <= Len(lits) /\ litPos \in Nat
  BY <1>2, <1>6
<1>11. ~ LiteralsExhausted
  BY <1>6, <1>7, <1>9, <1>10 DEF LiteralsExhausted
<1>12. ~ DistanceInvalid
  BY <1>2, <1>6, <1>7, <1>8 DEF DistanceInvalid, MatchAt
<1>13. \A j \in 1 .. Rec.L : Literals[litPos + j] = Source[lits[litPos + j]]
  <2>1. \A j \in 1 .. r.L : litPos + j \in 1 .. Len(lits)
    BY <1>6, <1>9, <1>10
  <2> QED
    BY <1>3, <1>7, <2>1
<1> QED
  BY <1>1, <1>4, <1>5, <1>7, <1>8, <1>11, <1>12, <1>13 DEF r

LEMMA RecordFollows ==
    ASSUME CodecInv, DecodeRecord, UNCHANGED encoderVars
    PROVE  CodecInv'
<1>0. Cutting /\ input \in Inputs /\ IInv /\ AtRecord /\ pc = "records"
  BY DEF CodecInv, Cutting, DecodeRecord, AtRecord
<1>1. /\ input' = input /\ pos' = pos /\ taken' = taken
      /\ frame' = frame /\ blockStart' = blockStart /\ pc' = pc
      /\ out'.mem = AfterMatch /\ di' = di + Rec.L + Rec.M
      /\ litPos' = litPos + Rec.L /\ D' = Dist /\ rec' = rec + 1
      /\ ~ LiteralsExhausted /\ ~ DistanceInvalid
  BY DEF DecodeRecord, encoderVars, MatchAt
<1>2. PICK b \in 0 .. taken :
        /\ Piece(b, taken, blockStart, pos)
        /\ \E at, used : Along(RawOf(b, taken, blockStart, pos),
                               LitsOf(b, taken, blockStart, pos), at, used)
  BY <1>0 DEF CodecInv, Following
<1>3. PICK raw, lits, at, used :
        /\ raw = RawOf(b, taken, blockStart, pos) /\ lits = LitsOf(b, taken, blockStart, pos)
        /\ Along(raw, lits, at, used)
  BY <1>2
<1>4. /\ raw \in Seq(RawRecord) /\ lits \in Seq(Nat)
      /\ rec \in 0 .. Len(raw) - 1
      /\ Rec.L = raw[rec + 1].L /\ Rec.M = raw[rec + 1].M /\ Dist = raw[rec + 1].D
      /\ WalkStep(at, used, raw, lits, Source, Open, blockStart, pos, rec)
      /\ \A j \in 1 .. Rec.L : Literals[litPos + j] = Source[lits[litPos + j]]
  BY <1>0, <1>2, <1>3, RecordIs
<1>5. /\ Carries(frame, raw, lits, Source) /\ frame.nRaw = pos - blockStart
      /\ at \in [0 .. Len(raw) -> Nat] /\ used \in [0 .. Len(raw) -> Nat]
      /\ Walk(at, used, raw, lits, Source, Open, blockStart, pos)
      /\ di = at[rec] /\ litPos = used[rec]
  BY <1>3 DEF Along
<1> DEFINE L == Rec.L
           M == Rec.M
           dist == Dist
           s == di + L
           e == di + L + M
<1>6. /\ L \in Nat /\ M \in Nat /\ dist \in Nat \ {0} /\ di \in Nat /\ litPos \in Nat
      /\ at[rec + 1] = di + L + M /\ used[rec + 1] = litPos + L
      /\ \A j \in 1 .. L : di + j - 1 \in Open /\ lits[litPos + j] = di + j - 1
      /\ \A q \in di + L .. di + L + M - 1 : Source[q] = Source[q - dist]
      /\ M > 0 => dist <= di + L
  BY <1>4, <1>5 DEF WalkStep, Passes
<1>7. /\ \A j \in 1 .. di : AfterMatch[j] = out.mem[j]
      /\ \A j \in 1 .. L : AfterMatch[di + j] = Literals[litPos + j]
      /\ \A j \in s + 1 .. e : AfterMatch[j] = AfterMatch[j - dist]
  <2>1. MatchAt = s /\ MatchAt + Rec.M = e
    BY DEF MatchAt
  <2>2. /\ \A j \in 1 .. di : AfterMatch[j] = out.mem[j]
        /\ \A j \in 1 .. Rec.L : AfterMatch[di + j] = Literals[litPos + j]
        /\ \A j \in MatchAt + 1 .. MatchAt + Rec.M : AfterMatch[j] = AfterMatch[j - Dist]
    BY <1>0, <1>1, RecordWrites
  <2> HIDE DEF s, e
  <2> QED
    BY <2>1, <2>2, Zenon
<1>l. \A j \in 1 .. L : Literals[litPos + j] = Source[lits[litPos + j]]
  BY <1>4
<1>8. di' = e /\ litPos' = litPos + L /\ D' = dist
  BY <1>1
<1> HIDE DEF L, M, dist
<1>9. s \in Nat /\ e \in Nat /\ di <= s /\ s <= e /\ (M = 0 => e = s)
  BY <1>6
<1>10. \A p \in 0 .. s - 1 : AfterMatch[p + 1] = Source[p]
  <2> SUFFICES ASSUME NEW p \in 0 .. s - 1 PROVE AfterMatch[p + 1] = Source[p]
    OBVIOUS
  <2>1. CASE p < di
    <3>1. p + 1 \in 1 .. di /\ p \in 0 .. di - 1
      BY <1>6, <2>1
    <3> QED
      BY <1>7, <3>1 DEF CodecInv, DecodedIsSource
  <2>2. CASE ~ (p < di)
    <3> DEFINE j == p - di + 1
    <3>1. j \in 1 .. L /\ di + j = p + 1 /\ di + j - 1 = p
      BY <1>6, <2>2
    <3> HIDE DEF j
    <3>2. AfterMatch[di + j] = Source[lits[litPos + j]] /\ lits[litPos + j] = di + j - 1
      BY <1>6, <1>7, <1>l, <3>1
    <3> QED
      BY <3>1, <3>2
  <2> QED
    BY <2>1, <2>2
<1>11. \A p \in 0 .. e - 1 : AfterMatch[p + 1] = Source[p]
  <2>1. CASE M = 0
    BY <1>9, <1>10, <2>1
  <2>2. CASE M # 0
    <3>1. dist <= s
      BY <1>6, <2>2
    <3>2. \A q \in s .. e - 1 : Source[q] = Source[q - dist]
      BY <1>6
    <3>3. Holds(AfterMatch, Source, s)
      BY <1>10 DEF Holds
    <3> HIDE DEF s, e
    <3>4. Holds(AfterMatch, Source, e)
      BY <1>6, <1>7, <1>9, <3>1, <3>2, <3>3, CopiesFollow
    <3> QED
      BY <3>4 DEF Holds
  <2> QED
    BY <2>1, <2>2
<1>12. Source' = Source /\ Open' = Open /\ Matches' = Matches
  BY <1>1, SourceSame
<1>13. DecodedIsSource'
  BY <1>0, <1>1, <1>8, <1>11, <1>12 DEF DecodedIsSource, Failed
<1>14. Along(raw, lits, at, used)'
  <2>1. rec' \in 0 .. Len(raw) /\ rec' # 0
    BY <1>1, <1>4
  <2>2. di' = at[rec'] /\ litPos' = used[rec']
    BY <1>1, <1>6, <1>8
  <2>3. D' = DistanceAfter(raw, rec')
    BY <1>1, <1>4, <2>1 DEF DistanceAfter
  <2>4. /\ Carries(frame', raw, lits, Source') /\ frame'.nRaw = pos' - blockStart'
        /\ Walk(at, used, raw, lits, Source', Open', blockStart', pos')
    BY <1>1, <1>5, <1>12
  <2> QED
    BY <1>5, <2>1, <2>2, <2>3, <2>4 DEF Along
<1>15. Following'
  <2>1. Piece(b, taken, blockStart, pos)'
    BY <1>1, <1>2, <1>12 DEF Piece
  <2>2. raw = RawOf(b, taken, blockStart, pos)' /\ lits = LitsOf(b, taken, blockStart, pos)'
    BY <1>1, <1>3, <1>12 DEF RawOf, LitsOf
  <2>3. \E at1, used1 : Along(RawOf(b, taken, blockStart, pos),
                              LitsOf(b, taken, blockStart, pos), at1, used1)'
    BY <1>14, <2>2 DEF Along
  <2> QED
    BY <1>1, <2>1, <2>3 DEF Following
<1>16. Cutting'
  BY <1>0, <1>1, <1>12 DEF Cutting
<1>17. IInv'
  BY <1>0, RecordKeepsIInv
<1> QED
  BY <1>0, <1>1, <1>13, <1>15, <1>16, <1>17 DEF CodecInv

LEMMA NeverRejected ==
    ASSUME CodecInv, RejectRecord
    PROVE  FALSE
<1>1. input \in Inputs /\ IInv /\ AtRecord /\ pc = "records"
  BY DEF CodecInv, Cutting, RejectRecord, AtRecord
<1>2. PICK b \in 0 .. taken :
        /\ Piece(b, taken, blockStart, pos)
        /\ \E at, used : Along(RawOf(b, taken, blockStart, pos),
                               LitsOf(b, taken, blockStart, pos), at, used)
  BY <1>1 DEF CodecInv, Following
<1>3. PICK raw, lits, at, used :
        /\ raw = RawOf(b, taken, blockStart, pos) /\ lits = LitsOf(b, taken, blockStart, pos)
        /\ Along(raw, lits, at, used)
  BY <1>2
<1>4. ~ LiteralsExhausted /\ ~ DistanceInvalid
  BY <1>1, <1>2, <1>3, RecordIs
<1> QED
  BY <1>4 DEF RejectRecord

LEMMA EndBlockFollows ==
    ASSUME CodecInv, EndBlock, UNCHANGED encoderVars
    PROVE  CodecInv'
<1>1. input \in Inputs /\ Cutting /\ IInv /\ pc = "records" /\ rec >= Len(frame.recs)
  BY DEF CodecInv, Cutting, EndBlock
<1>2. PICK b \in 0 .. taken :
        /\ Piece(b, taken, blockStart, pos)
        /\ \E at, used : Along(RawOf(b, taken, blockStart, pos),
                               LitsOf(b, taken, blockStart, pos), at, used)
  BY <1>1 DEF CodecInv, Following
<1>3. PICK raw, lits, at, used :
        /\ raw = RawOf(b, taken, blockStart, pos) /\ lits = LitsOf(b, taken, blockStart, pos)
        /\ Along(raw, lits, at, used)
  BY <1>2
<1>4. raw \in Seq(RawRecord)
  BY <1>1, <1>2, <1>3, TellsPiece DEF Tells, RawOf
<1>5. /\ rec \in 0 .. Len(raw) /\ di = at[rec] /\ at[Len(raw)] = pos
      /\ frame.nRaw = pos - blockStart /\ Len(frame.recs) = Len(raw)
  BY <1>3 DEF Along, Walk, Carries
<1>6. rec = Len(raw)
  <2>1. Len(raw) \in Nat
    BY <1>4
  <2> QED
    BY <1>1, <1>5, <2>1
<1>7. di = pos
  BY <1>5, <1>6
<1>8. /\ pc' = "block" /\ di' = di /\ out'.mem = out.mem
  <2>1. DOMAIN out = {"mem", "len"}
    BY <1>1 DEF IInv, Reserved
  <2> QED
    BY <1>5, <1>7, <2>1 DEF EndBlock
<1>9. input' = input /\ pos' = pos /\ taken' = taken
  BY DEF encoderVars
<1>10. Source' = Source /\ Matches' = Matches
  BY <1>9, SourceSame
<1>11. Cutting' /\ DecodedIsSource'
  BY <1>1, <1>8, <1>9, <1>10 DEF Cutting, CodecInv, DecodedIsSource, Failed
<1>12. IInv'
  BY <1>1, EndBlockKeepsIInv
<1> QED
  BY <1>7, <1>8, <1>9, <1>11, <1>12 DEF CodecInv

LEMMA StillFollows ==
    ASSUME CodecInv, UNCHANGED encoderVars,
           UNCHANGED <<frame, out, di, blockStart, litPos, D, rec>>,
           pc' = pc \/ (pc = "block" /\ pc' = "done")
    PROVE  CodecInv'
<1>1. input' = input /\ pos' = pos /\ taken' = taken
  BY DEF encoderVars
<1>2. Source' = Source /\ Open' = Open /\ Matches' = Matches
  BY <1>1, SourceSame
<1>3. Cutting' /\ DecodedIsSource'
  BY <1>1, <1>2 DEF Cutting, CodecInv, DecodedIsSource, Failed
<1>4. pc' = "records" => Following'
  BY <1>1, <1>2 DEF CodecInv, Following, Along, Piece, RawOf, LitsOf
<1>5. IInv'
  BY StillKeepsIInv DEF CodecInv
<1> QED
  BY <1>1, <1>3, <1>4, <1>5 DEF CodecInv

LEMMA StepFollows ==
    ASSUME CodecInv, [CodecNext]_vars
    PROVE  CodecInv'
<1>1. ASSUME NEW to \in pos + 1 .. input.n, NEW k \in taken .. Len(input.matches),
             Splitting!Cut(to, k), WithinBudgets(Encode(to, k)), Stored(Encode(to, k))
      PROVE  CodecInv'
  <2>1. k = taken
    BY <1>1, Zenon DEF Encode, Stored
  <2> QED
    BY <1>1, <2>1, StoredFollows
<1>2. ASSUME NEW to \in pos + 1 .. input.n, NEW k \in taken .. Len(input.matches),
             Splitting!Cut(to, k), WithinBudgets(Encode(to, k)), Compressed(Encode(to, k))
      PROVE  CodecInv'
  <2>1. k # taken
    BY <1>2 DEF Encode, Compressed
  <2> QED
    BY <1>2, <2>1, CompressedFollows
<1>3. CASE Transfer
  BY <1>1, <1>2, <1>3 DEF Transfer
<1>4. CASE Decode
  BY <1>4, RecordFollows, NeverRejected, EndBlockFollows DEF Decode
<1>5. CASE Finish
  BY <1>5, StillFollows DEF Finish, EndOfStream
<1>6. CASE UNCHANGED vars
  BY <1>6, StillFollows DEF vars, encoderVars, decoderVars
<1> QED
  BY <1>3, <1>4, <1>5, <1>6 DEF CodecNext

THEOREM CodecInvHolds == CodecSpec => []CodecInv
<1>1. CodecInit => CodecInv
  BY InitFollows
<1>2. CodecInv /\ [CodecNext]_vars => CodecInv'
  BY StepFollows
<1> QED
  BY <1>1, <1>2, PTL DEF CodecSpec

(***************************************************************************)
(* Whatever the source, its matches and the blocks it is cut into: the     *)
(* decoder never refuses what the encoder wrote, and after every record    *)
(* the output is the source up to the write position.                      *)
(***************************************************************************)
THEOREM DecodedIsSourceHolds == CodecSpec => []DecodedIsSource
<1>1. CodecInv => DecodedIsSource
  BY DEF CodecInv
<1> QED
  BY <1>1, CodecInvHolds, PTL

(***************************************************************************)
(* At every record boundary the literals used are the uncovered positions  *)
(* of the block so far, and after the last record only padding is left.    *)
(***************************************************************************)
THEOREM LiteralsInStepHolds == CodecSpec => []LiteralsInStep
<1>1. CodecInv => LiteralsInStep
  <2> SUFFICES ASSUME CodecInv, pc = "records"
               PROVE  /\ litPos = Cardinality({p \in blockStart .. di - 1 : Covering(p) = {}})
                      /\ rec = Len(frame.recs) => Len(Literals) - litPos \in 0 .. Lanes - 1
    BY DEF LiteralsInStep
  <2>1. input \in Inputs
    BY DEF CodecInv, Cutting
  <2>a. PICK b \in 0 .. taken :
          /\ Piece(b, taken, blockStart, pos)
          /\ \E at, used : Along(RawOf(b, taken, blockStart, pos),
                                 LitsOf(b, taken, blockStart, pos), at, used)
    BY DEF CodecInv, Following
  <2>2. PICK raw, lits, at, used :
          /\ raw = RawOf(b, taken, blockStart, pos) /\ lits = LitsOf(b, taken, blockStart, pos)
          /\ Along(raw, lits, at, used)
    BY <2>a
  <2>3. raw \in Seq(RawRecord) /\ lits \in Seq(Nat) /\ blockStart \in Nat /\ pos \in Nat
    BY <2>1, <2>a, <2>2, TellsPiece DEF Tells, RawOf, LitsOf
  <2>4. /\ at \in [0 .. Len(raw) -> Nat] /\ used \in [0 .. Len(raw) -> Nat]
        /\ Walk(at, used, raw, lits, Source, Open, blockStart, pos)
        /\ rec \in 0 .. Len(raw) /\ di = at[rec] /\ litPos = used[rec]
        /\ Len(frame.recs) = Len(raw) /\ Len(Literals) = Padded(Len(lits), Lanes)
    BY <2>2 DEF Along, Carries, Literals
  <2>5. litPos = Cardinality({p \in blockStart .. di - 1 : p \in Open})
    <3>1. used[rec] = Cardinality(Between(Open, blockStart, at[rec]))
      <4>1. Counted(at, used, Open, blockStart, rec)
        BY <2>3, <2>4, WalkCounts
      <4> QED
        BY <4>1 DEF Counted
    <3> QED
      BY <2>4, <3>1 DEF Between
  <2>6. {p \in blockStart .. di - 1 : p \in Open}
          = {p \in blockStart .. di - 1 : Covering(p) = {}}
    <3>1. di \in blockStart .. pos /\ used[Len(raw)] = Len(lits)
      BY <2>4 DEF Walk
    <3>2. pos \in 0 .. input.n /\ input.n \in Nat
      BY <2>1, InputIs DEF CodecInv, Cutting
    <3>3. \A p \in blockStart .. di - 1 : p \in 0 .. input.n - 1
      BY <2>3, <3>1, <3>2
    <3> QED
      BY <3>3 DEF Open
  <2>7. rec = Len(frame.recs) => Len(Literals) - litPos \in 0 .. Lanes - 1
    <3>1. used[Len(raw)] = Len(lits) /\ Len(lits) \in Nat
      BY <2>3, <2>4 DEF Walk
    <3> QED
      BY <2>4, <3>1, PaddedIs
  <2> QED
    BY <2>5, <2>6, <2>7
<1> QED
  BY <1>1, CodecInvHolds, PTL

(***************************************************************************)
(* The distance the decoder holds after a record is the one the encoder    *)
(* had for it before it dropped the repeated ones.                         *)
(***************************************************************************)
THEOREM DistancesAgreeHolds == CodecSpec => []DistancesAgree
<1>1. CodecInv => DistancesAgree
  <2> DEFINE passed == {i \in 1 .. taken : input.matches[i].pos < blockStart}
  <2> SUFFICES ASSUME CodecInv, pc = "records", rec > 0
               PROVE  D = RawRecords(SubSeq(input.matches, 1 + Cardinality(passed), taken),
                                     blockStart, pos)[rec].D
    BY DEF DistancesAgree
  <2>1. input \in Inputs
    BY DEF CodecInv, Cutting
  <2>a. PICK b \in 0 .. taken :
          /\ Piece(b, taken, blockStart, pos)
          /\ \E at, used : Along(RawOf(b, taken, blockStart, pos),
                                 LitsOf(b, taken, blockStart, pos), at, used)
    BY DEF CodecInv, Following
  <2>2. PICK raw, lits, at, used :
          /\ raw = RawOf(b, taken, blockStart, pos) /\ lits = LitsOf(b, taken, blockStart, pos)
          /\ Along(raw, lits, at, used)
    BY <2>a
  <2>3. D = raw[rec].D
    BY <2>2 DEF Along, DistanceAfter
  <2>4. /\ Len(Matches) \in Nat /\ b \in Nat /\ taken \in Nat /\ b <= taken
        /\ taken <= Len(Matches) /\ blockStart \in Nat /\ MaxMValue \in Nat
    BY <2>1, <2>a, InputIs, DecoderAssumption DEF Piece
  <2>5. ASSUME NEW i \in 1 .. taken PROVE i \in passed <=> i <= b
    <3>1. i \in 1 .. Len(Matches)
      BY <2>4
    <3>2. MatchAtIs(i)
      BY <2>1, <3>1, InputIs
    <3>3. /\ Matches[i].pos \in Nat /\ EndOf(Matches[i]) \in Nat
          /\ Matches[i].pos < EndOf(Matches[i])
      BY <2>4, <3>2 DEF MatchAtIs
    <3>4. CASE i <= b
      <4>1. i \in 1 .. b
        BY <2>4, <3>4
      <4>2. EndOf(Matches[i]) <= blockStart
        BY <2>a, <4>1 DEF Piece
      <4>3. Matches[i].pos < blockStart
        BY <2>4, <3>3, <4>2
      <4> QED
        BY <3>4, <4>3 DEF Matches
    <3>5. CASE ~ (i <= b)
      <4>1. i \in b + 1 .. taken
        BY <2>4, <3>5
      <4>2. blockStart <= Matches[i].pos
        BY <2>a, <4>1 DEF Piece
      <4>3. ~ (Matches[i].pos < blockStart)
        BY <2>4, <3>3, <4>2
      <4> QED
        BY <3>5, <4>3 DEF Matches
    <3> QED
      BY <3>4, <3>5
  <2>6. passed = 1 .. b
    <3>1. passed \subseteq 1 .. taken
      OBVIOUS
    <3> HIDE DEF passed
    <3>2. ASSUME NEW i \in 1 .. b PROVE i \in passed
      <4>1. i \in 1 .. taken /\ i <= b
        BY <2>4
      <4> QED
        BY <2>5, <4>1
    <3>3. ASSUME NEW i \in passed PROVE i \in 1 .. b
      <4>1. i \in 1 .. taken /\ i <= b
        BY <2>5, <3>1
      <4> QED
        BY <2>4, <4>1
    <3> QED
      BY <3>2, <3>3
  <2>7. Cardinality(1 .. b) = b
    <3>1. Cardinality(1 .. b) = IF 1 > b THEN 0 ELSE b - 1 + 1
      BY <2>4, FS_Interval
    <3> QED
      BY <2>4, <3>1
  <2> HIDE DEF passed
  <2>8. 1 + Cardinality(passed) = b + 1
    <3>1. Cardinality(passed) = b
      BY <2>6, <2>7
    <3> QED
      BY <2>4, <3>1
  <2> QED
    BY <2>2, <2>3, <2>8 DEF RawOf, Matches
<1> QED
  BY <1>1, CodecInvHolds, PTL
=============================================================================
