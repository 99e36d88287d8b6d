--------------------------- MODULE LibraryLemmas ---------------------------
(***************************************************************************)
(* What the proofs need of natural numbers, folds and sequences and the    *)
(* provers do not know: least elements and induction over sets of          *)
(* naturals, products, division with remainder, and what the library's     *)
(* folds compute.  Induction and recursion are stated over sets and        *)
(* functions, so that the lemmas are first-order facts.                    *)
(***************************************************************************)
EXTENDS Integers, FiniteSets, Functions, SequencesExt,
        FiniteSetTheorems, SequenceTheorems, WellFoundedInduction, TLAPS

LEMMA Smallest ==
    ASSUME NEW T, T \subseteq Nat, T # {}
    PROVE  \E x \in T : \A y \in T : x <= y
<1>1. PICK x \in T : \A y \in T : ~ (<<y, x>> \in OpToRel(<, Nat))
  BY NatLessThanWellFounded, WFMin
<1>2. x \in T /\ \A y \in T : ~ (y < x)
  BY <1>1 DEF OpToRel
<1> QED
  BY <1>2

LEMMA Largest ==
    ASSUME NEW n \in Nat, NEW T, T \subseteq 0 .. n, T # {}
    PROVE  \E x \in T : \A y \in T : y <= x
<1> DEFINE U == {n - x : x \in T}
<1>1. \A x \in T : n - x \in Nat
  OBVIOUS
<1>2. PICK u \in U : \A v \in U : u <= v
  <2>1. U \subseteq Nat /\ U # {}
    BY <1>1
  <2> HIDE DEF U
  <2> QED
    BY <2>1, Smallest
<1>3. PICK x \in T : u = n - x
  BY <1>2
<1>4. \A y \in T : n - x <= n - y
  BY <1>2, <1>3
<1> QED
  BY <1>3, <1>4

\* Max of the community modules is the largest element.
LEMMA MaxIs ==
    ASSUME NEW n \in Nat, NEW T, T \subseteq 0 .. n, T # {}
    PROVE  Max(T) \in T /\ \A y \in T : Max(T) >= y
<1>1. \E x \in T : \A y \in T : x >= y
  <2>1. PICK x \in T : \A y \in T : y <= x
    BY Largest
  <2> QED
    BY <2>1
<1> QED
  BY <1>1 DEF Max

LEMMA Times ==
    ASSUME NEW a \in Nat, NEW b \in Nat, NEW c \in Nat, a <= b
    PROVE  a * c <= b * c /\ a * c \in Nat /\ b * c \in Nat
<1>1. PICK d \in Nat : b = a + d
  BY b - a \in Nat
<1>2. b * c = a * c + d * c /\ a * c \in Nat /\ d * c \in Nat
  BY <1>1
<1> QED
  BY <1>2

LEMMA Division ==
    ASSUME NEW s \in Nat, NEW p \in Nat \ {0}
    PROVE  /\ s \div p \in Nat /\ s % p \in 0 .. p - 1
           /\ s = (s \div p) * p + (s % p)
<1>1. s \div p \in Nat /\ s % p \in 0 .. p - 1
  OBVIOUS
<1>2. s = p * (s \div p) + (s % p)
  BY <1>1
<1>3. p * (s \div p) = (s \div p) * p
  BY <1>1
<1> QED
  BY <1>1, <1>2, <1>3

\* The quotient and the remainder are determined by these bounds.
LEMMA Quotient ==
    ASSUME NEW p \in Nat \ {0}, NEW q \in Nat, NEW b \in 0 .. p - 1
    PROVE  (q * p + b) \div p = q /\ (q * p + b) % p = b
OBVIOUS

LEMMA QuotientBelow ==
    ASSUME NEW p \in Nat \ {0}, NEW q \in Nat, NEW s \in Nat, s < q * p
    PROVE  s \div p < q
<1> SUFFICES ASSUME q <= s \div p PROVE FALSE
  BY Division
<1>1. q * p <= (s \div p) * p /\ q * p \in Nat
  BY Division, Times
<1> QED
  BY <1>1, Division

LEMMA QuotientAbove ==
    ASSUME NEW p \in Nat \ {0}, NEW q \in Nat, NEW s \in Nat, q * p <= s
    PROVE  q <= s \div p
<1> SUFFICES ASSUME s \div p + 1 <= q PROVE FALSE
  BY Division
<1> DEFINE a == s \div p
<1>1. a \in Nat /\ s < a * p + p /\ a + 1 <= q
  BY Division
<1> HIDE DEF a
<1>2. (a + 1) * p <= q * p
  BY <1>1, Times
<1>3. (a + 1) * p = a * p + p
  BY <1>1
<1>4. a * p \in Nat /\ q * p \in Nat
  BY <1>1
<1> QED
  BY <1>1, <1>2, <1>3, <1>4
-----------------------------------------------------------------------------
(* Induction and folds *)

LEMMA Induction ==
    ASSUME NEW T, 0 \in T, \A k \in Nat : k \in T => k + 1 \in T
    PROVE  Nat \subseteq T
<1> SUFFICES ASSUME Nat \ T # {} PROVE FALSE
  OBVIOUS
<1>1. PICK x \in Nat \ T : \A y \in Nat \ T : x <= y
  BY Smallest
<1>2. x # 0 /\ x - 1 \in Nat
  BY <1>1
<1>3. x - 1 \in T
  BY <1>1, <1>2
<1>4. (x - 1) + 1 \in T
  BY <1>2, <1>3
<1> QED
  BY <1>1, <1>4

(***************************************************************************)
(* A fold over the subsets of a finite set S that takes elements in the    *)
(* order pick gives them and combines with G, from base.                   *)
(***************************************************************************)
Picks(pick, S) == \A s \in SUBSET S : s # {} => pick[s] \in s
Combines(G, S, R) == \A x \in S, r \in R : G[x][r] \in R

Folding(iter, S, base, pick, G) ==
    \A s \in SUBSET S :
        iter[s] = IF s = {} THEN base ELSE G[pick[s]][iter[s \ {pick[s]}]]

Shrinks(pick, S) ==
    \A s \in SUBSET S :
        /\ IsFiniteSet(s) /\ Cardinality(s) \in Nat
        /\ s = {} <=> Cardinality(s) = 0
        /\ s # {} => /\ pick[s] \in S /\ s \ {pick[s]} \in SUBSET S
                     /\ Cardinality(s \ {pick[s]}) = Cardinality(s) - 1

LEMMA SmallerSubset ==
    ASSUME NEW S, IsFiniteSet(S), NEW pick, Picks(pick, S)
    PROVE  Shrinks(pick, S)
<1> SUFFICES ASSUME NEW s \in SUBSET S
             PROVE  /\ IsFiniteSet(s) /\ Cardinality(s) \in Nat
                    /\ s = {} <=> Cardinality(s) = 0
                    /\ s # {} => /\ pick[s] \in S /\ s \ {pick[s]} \in SUBSET S
                                 /\ Cardinality(s \ {pick[s]}) = Cardinality(s) - 1
  BY DEF Shrinks
<1>1. IsFiniteSet(s) /\ Cardinality(s) \in Nat /\ (s = {} <=> Cardinality(s) = 0)
  BY FS_Subset, FS_CardinalityType, FS_EmptySet
<1>2. ASSUME s # {} PROVE Cardinality(s \ {pick[s]}) = Cardinality(s) - 1
  <2>1. pick[s] \in s
    BY <1>2 DEF Picks
  <2> QED
    BY <1>1, <2>1, FS_RemoveElement
<1> QED
  BY <1>1, <1>2 DEF Picks

LEMMA FoldExists ==
    ASSUME NEW S, IsFiniteSet(S), NEW R, NEW base \in R,
           NEW pick, Picks(pick, S), NEW G, Combines(G, S, R)
    PROVE  \E iter \in [SUBSET S -> R] : Folding(iter, S, base, pick, G)
<1> DEFINE Sub(k) == {s \in SUBSET S : Cardinality(s) <= k}
           Next(g, s) == IF s = {} THEN base ELSE G[pick[s]][g[s \ {pick[s]}]]
           Folds(g, k) == g \in [Sub(k) -> R] /\ \A s \in Sub(k) : g[s] = Next(g, s)
           T == {k \in Nat : \E g : Folds(g, k)}
<1>0. Shrinks(pick, S)
  BY SmallerSubset
<1>1. ASSUME NEW k \in Nat, NEW s \in Sub(k + 1)
      PROVE  /\ s \in SUBSET S /\ Cardinality(s) \in Nat
             /\ s # {} => pick[s] \in S /\ s \ {pick[s]} \in Sub(k)
  <2>1. s \in SUBSET S /\ Cardinality(s) <= k + 1
    OBVIOUS
  <2>2. /\ Cardinality(s) \in Nat
        /\ s # {} => /\ pick[s] \in S /\ s \ {pick[s]} \in SUBSET S
                     /\ Cardinality(s \ {pick[s]}) = Cardinality(s) - 1
    BY <1>0, <2>1, Zenon DEF Shrinks
  <2> QED
    BY <2>1, <2>2
<1>2. 0 \in T
  <2> DEFINE g == [s \in Sub(0) |-> base]
  <2>1. ASSUME NEW s \in Sub(0) PROVE s = {}
    <3>1. s \in SUBSET S /\ Cardinality(s) <= 0
      OBVIOUS
    <3>2. Cardinality(s) \in Nat /\ (s = {} <=> Cardinality(s) = 0)
      BY <1>0, <3>1, Zenon DEF Shrinks
    <3> QED
      BY <3>1, <3>2
  <2>2. Folds(g, 0)
    BY <2>1
  <2> HIDE DEF g, Folds
  <2> QED
    BY <2>2
<1>3. ASSUME NEW k \in Nat, k \in T PROVE k + 1 \in T
  <2>1. PICK g : Folds(g, k)
    BY <1>3
  <2> DEFINE h == [s \in Sub(k + 1) |-> Next(g, s)]
  <2>2. ASSUME NEW s \in Sub(k + 1) PROVE h[s] = Next(g, s) /\ Next(g, s) \in R
    <3>1. ASSUME s # {} PROVE g[s \ {pick[s]}] \in R /\ pick[s] \in S
      BY <1>1, <2>1, <3>1
    <3> QED
      BY <3>1 DEF Combines
  <2>3. ASSUME NEW s \in Sub(k) PROVE s \in Sub(k + 1) /\ h[s] = g[s]
    <3>1. s \in Sub(k + 1)
      <4>1. s \in SUBSET S /\ Cardinality(s) \in Nat /\ Cardinality(s) <= k
        BY <1>0 DEF Shrinks
      <4> QED
        BY <4>1
    <3>2. h[s] = Next(g, s)
      BY <2>2, <3>1
    <3> HIDE DEF h, Next
    <3> QED
      BY <2>1, <3>1, <3>2
  <2>4. ASSUME NEW s \in Sub(k + 1) PROVE h[s] = Next(h, s)
    <3>1. s # {} => h[s \ {pick[s]}] = g[s \ {pick[s]}]
      BY <1>1, <2>3
    <3> QED
      BY <2>2, <3>1
  <2>5. h \in [Sub(k + 1) -> R]
    <3> HIDE DEF Next, Sub
    <3> QED
      BY <2>2
  <2> HIDE DEF h, Next, Sub
  <2>6. Folds(h, k + 1)
    BY <2>4, <2>5
  <2> HIDE DEF Folds
  <2> QED
    BY <2>6
<1>4. Cardinality(S) \in T
  <2> HIDE DEF T
  <2>1. Cardinality(S) \in Nat
    BY FS_CardinalityType
  <2> QED
    BY <1>2, <1>3, <2>1, Induction
<1>5. SUBSET S = Sub(Cardinality(S))
  BY FS_Subset
<1>6. PICK g : Folds(g, Cardinality(S))
  BY <1>4
<1> HIDE DEF Sub
<1> QED
  BY <1>5, <1>6 DEF Folding

Keeps(g, S, pick, R) ==
    \A s \in SUBSET S : s # {} /\ g[s \ {pick[s]}] \in R => g[s] \in R

\* Whatever obeys the equations of a fold, where they are about values of R,
\* has values in R.
LEMMA FoldTyped ==
    ASSUME NEW S, IsFiniteSet(S), NEW R, NEW pick, Picks(pick, S),
           NEW g, g[{}] \in R, Keeps(g, S, pick, R)
    PROVE  \A s \in SUBSET S : g[s] \in R
<1> DEFINE T == {k \in Nat : \A s \in SUBSET S : Cardinality(s) = k => g[s] \in R}
<1>0. Shrinks(pick, S)
  BY SmallerSubset
<1>1. 0 \in T
  BY <1>0 DEF Shrinks
<1>2. ASSUME NEW k \in Nat, k \in T PROVE k + 1 \in T
  <2> SUFFICES ASSUME NEW s \in SUBSET S, Cardinality(s) = k + 1 PROVE g[s] \in R
    OBVIOUS
  <2>1. s # {} /\ s \ {pick[s]} \in SUBSET S /\ Cardinality(s \ {pick[s]}) = k
    <3>1. /\ Cardinality(s) \in Nat /\ (s = {} <=> Cardinality(s) = 0)
          /\ s # {} => /\ s \ {pick[s]} \in SUBSET S
                       /\ Cardinality(s \ {pick[s]}) = Cardinality(s) - 1
      BY <1>0 DEF Shrinks
    <3> QED
      BY <3>1
  <2> QED
    BY <1>2, <2>1 DEF Keeps
<1>3. Nat \subseteq T
  <2> HIDE DEF T
  <2> QED
    BY <1>1, <1>2, Induction
<1> QED
  BY <1>3, <1>0 DEF Shrinks
-----------------------------------------------------------------------------
(* Sums *)

\* The function SumFunctionOnSet folds with.
SumsUp(iter, f, D) ==
    \A s \in SUBSET D :
        iter[s] = IF s = {} THEN 0
                  ELSE f[CHOOSE x \in s : TRUE] + iter[s \ {CHOOSE x \in s : TRUE}]

Summable(f, D) == IsFiniteSet(D) /\ \A x \in D : f[x] \in Int

LEMMA SumUnfold ==
    ASSUME NEW D, NEW f, Summable(f, D)
    PROVE  \E iter \in [SUBSET D -> Int] : SumsUp(iter, f, D) /\ SumFunctionOnSet(f, D) = iter[D]
<1> DEFINE pick == [s \in SUBSET D |-> CHOOSE x \in s : TRUE]
           G == [x \in D |-> [r \in Int |-> f[x] + r]]
           Step(g) == [s \in SUBSET D |-> IF s = {} THEN 0
                         ELSE LET x == CHOOSE x \in s : TRUE IN f[x] + g[s \ {x}]]
           sum == CHOOSE g : g = Step(g)
<1> USE DEF Summable
<1>1. Picks(pick, D)
  BY DEF Picks
<1>2. \A x \in D, r \in Int : G[x][r] = f[x] + r /\ G[x][r] \in Int
  OBVIOUS
<1>3. PICK iter \in [SUBSET D -> Int] : Folding(iter, D, 0, pick, G)
  <2>1. Combines(G, D, Int)
    BY <1>2 DEF Combines
  <2>2. 0 \in Int
    OBVIOUS
  <2> HIDE DEF pick, G
  <2> QED
    BY <1>1, <2>1, <2>2, FoldExists
<1>4. ASSUME NEW s \in SUBSET D, s # {}
      PROVE  /\ pick[s] = (CHOOSE x \in s : TRUE) /\ pick[s] \in D
             /\ s \ {pick[s]} \in SUBSET D
  BY <1>1, <1>4 DEF Picks
<1>5. ASSUME NEW s \in SUBSET D, s # {}
      PROVE  iter[s] = f[CHOOSE x \in s : TRUE] + iter[s \ {CHOOSE x \in s : TRUE}]
  <2> HIDE DEF pick, G
  <2>1. iter[s] = f[pick[s]] + iter[s \ {pick[s]}]
    BY <1>2, <1>3, <1>4, <1>5 DEF Folding
  <2> QED
    BY <1>4, <1>5, <2>1
<1>6. iter = Step(iter)
  BY <1>3, <1>5 DEF Folding
<1>7. sum = Step(sum)
  <2> HIDE DEF Step
  <2> QED
    BY <1>6
<1>8. SumFunctionOnSet(f, D) = sum[D]
  BY DEF SumFunctionOnSet, FoldFunctionOnSet, MapThenFoldSet
<1> HIDE DEF sum
<1>9. SumsUp(sum, f, D) /\ sum = [s \in SUBSET D |-> sum[s]]
  BY <1>7 DEF SumsUp
<1>10. \A s \in SUBSET D : sum[s] \in Int
  <2>1. ASSUME NEW s \in SUBSET D, s # {}, sum[s \ {pick[s]}] \in Int PROVE sum[s] \in Int
    <3>1. sum[s] = f[pick[s]] + sum[s \ {pick[s]}] /\ f[pick[s]] \in Int
      <4> HIDE DEF pick
      <4> QED
        BY <1>4, <1>9, <2>1 DEF SumsUp
    <3> QED
      BY <2>1, <3>1
  <2>2. sum[{}] \in Int
    <3>1. {} \in SUBSET D /\ 0 \in Int
      OBVIOUS
    <3>2. sum[{}] = 0
      BY <1>9, <3>1, Zenon DEF SumsUp
    <3> QED
      BY <3>1, <3>2
  <2>3. Keeps(sum, D, pick, Int)
    BY <2>1 DEF Keeps
  <2> HIDE DEF pick
  <2> QED
    BY <1>1, <2>2, <2>3, FoldTyped
<1>11. sum \in [SUBSET D -> Int]
  BY <1>9, <1>10
<1> QED
  BY <1>8, <1>9, <1>11

AnyOrder(iter, f, D) ==
    \A s \in SUBSET D : \A a \in s : iter[s] = f[a] + iter[s \ {a}]

\* The sum does not depend on the order.
LEMMA SumAnyOrder ==
    ASSUME NEW D, NEW f, Summable(f, D),
           NEW iter \in [SUBSET D -> Int], SumsUp(iter, f, D)
    PROVE  AnyOrder(iter, f, D)
<1> DEFINE P(s) == \A a \in s : iter[s] = f[a] + iter[s \ {a}]
           T == {k \in Nat : \A s \in SUBSET D : Cardinality(s) = k => P(s)}
           Some(s) == CHOOSE x \in s : TRUE
<1>1. ASSUME NEW s \in SUBSET D, NEW a \in s
      PROVE  /\ IsFiniteSet(s) /\ Cardinality(s) \in Nat /\ Cardinality(s) # 0
             /\ s \ {a} \in SUBSET D /\ Cardinality(s \ {a}) = Cardinality(s) - 1
             /\ iter[s] \in Int /\ iter[s \ {a}] \in Int /\ f[a] \in Int
             /\ Some(s) \in s /\ iter[s] = f[Some(s)] + iter[s \ {Some(s)}]
  <2>1. IsFiniteSet(s) /\ Cardinality(s) \in Nat /\ Cardinality(s) # 0
    BY FS_Subset, FS_CardinalityType, FS_EmptySet DEF Summable
  <2>2. Cardinality(s \ {a}) = Cardinality(s) - 1 /\ s \ {a} \in SUBSET D
    BY <2>1, FS_RemoveElement
  <2>3. iter[s] = f[Some(s)] + iter[s \ {Some(s)}]
    BY DEF SumsUp
  <2>4. iter[s] \in Int /\ iter[s \ {a}] \in Int /\ f[a] \in Int
    BY DEF Summable
  <2> QED
    BY <2>1, <2>2, <2>3, <2>4
<1> HIDE DEF Some
<1>2. 0 \in T
  BY <1>1
<1>3. ASSUME NEW k \in Nat, k \in T PROVE k + 1 \in T
  <2> SUFFICES ASSUME NEW s \in SUBSET D, Cardinality(s) = k + 1, NEW a \in s
               PROVE  iter[s] = f[a] + iter[s \ {a}]
    OBVIOUS
  <2> DEFINE x == Some(s)
  <2>1. x \in s /\ iter[s] = f[x] + iter[s \ {x}] /\ f[x] \in Int /\ f[a] \in Int
    BY <1>1
  <2> HIDE DEF x
  <2>2. CASE x = a
    BY <2>1, <2>2
  <2>3. CASE x # a
    <3> DEFINE u == s \ {x}
               v == s \ {a}
    <3>1. u \in SUBSET D /\ Cardinality(u) = k /\ a \in u
      <4>1. u \in SUBSET D /\ Cardinality(u) = Cardinality(s) - 1
        BY <1>1, <2>1
      <4> QED
        BY <2>3, <4>1
    <3>2. v \in SUBSET D /\ Cardinality(v) = k /\ x \in v
      <4>1. v \in SUBSET D /\ Cardinality(v) = Cardinality(s) - 1
        BY <1>1
      <4> QED
        BY <2>1, <2>3, <4>1
    <3>3. iter[u] = f[a] + iter[u \ {a}] /\ iter[v] = f[x] + iter[v \ {x}]
      <4> HIDE DEF u, v
      <4> QED
        BY <1>3, <3>1, <3>2
    <3>4. u \ {a} = v \ {x}
      OBVIOUS
    <3>5. iter[v \ {x}] \in Int
      <4> HIDE DEF v
      <4> QED
        BY <1>1, <3>2
    <3>6. iter[s] = f[x] + iter[u] /\ iter[v] = iter[s \ {a}]
      BY <2>1
    <3> DEFINE c == iter[v \ {x}]
    <3>7. /\ iter[s] = f[x] + (f[a] + c) /\ iter[s \ {a}] = f[x] + c
          /\ f[x] \in Int /\ f[a] \in Int /\ c \in Int
      <4> HIDE DEF u, v
      <4> QED
        BY <2>1, <3>3, <3>4, <3>5, <3>6
    <3> HIDE DEF c
    <3> QED
      BY <3>7
  <2> QED
    BY <2>2, <2>3
<1>4. Nat \subseteq T
  <2> HIDE DEF T
  <2> QED
    BY <1>2, <1>3, Induction
<1> SUFFICES ASSUME NEW s \in SUBSET D, NEW a \in s
             PROVE  iter[s] = f[a] + iter[s \ {a}]
  BY DEF AnyOrder
<1>5. Cardinality(s) \in T
  BY <1>1, <1>4
<1> QED
  BY <1>5

\* Nor on the set of which the elements summed are a subset.
LEMMA SumWithin ==
    ASSUME NEW D, NEW f, Summable(f, D),
           NEW iter \in [SUBSET D -> Int], SumsUp(iter, f, D), NEW E \in SUBSET D
    PROVE  iter[E] = SumFunctionOnSet(f, E)
<1>1. IsFiniteSet(E) /\ Summable(f, E)
  BY FS_Subset DEF Summable
<1>2. PICK part \in [SUBSET E -> Int] : SumsUp(part, f, E) /\ SumFunctionOnSet(f, E) = part[E]
  BY <1>1, SumUnfold
<1> DEFINE diff == [s \in SUBSET E |-> iter[s] - part[s]]
           pick == [s \in SUBSET E |-> CHOOSE x \in s : TRUE]
<1>3. Picks(pick, E)
  BY DEF Picks
<1>4. ASSUME NEW s \in SUBSET E
      PROVE  /\ s \in SUBSET D /\ diff[s] = iter[s] - part[s]
             /\ iter[s] \in Int /\ part[s] \in Int
  OBVIOUS
<1>5. ASSUME NEW s \in SUBSET E, s # {}, diff[s \ {pick[s]}] \in {0} PROVE diff[s] \in {0}
  <2> DEFINE x == pick[s]
  <2>1. x = (CHOOSE e \in s : TRUE) /\ x \in s
    BY <1>5
  <2> HIDE DEF x
  <2>2. iter[s] = f[x] + iter[s \ {x}]
    <3>1. s \in SUBSET D
      OBVIOUS
    <3> QED
      BY <1>5, <2>1, <3>1 DEF SumsUp
  <2>3. part[s] = f[x] + part[s \ {x}]
    BY <1>2, <1>5, <2>1 DEF SumsUp
  <2>4. s \ {x} \in SUBSET E /\ f[x] \in Int
    BY <2>1 DEF Summable
  <2>5. iter[s \ {x}] - part[s \ {x}] = 0
    BY <1>4, <1>5, <2>4 DEF x
  <2>6. iter[s \ {x}] \in Int /\ part[s \ {x}] \in Int
    BY <1>4, <2>4
  <2> HIDE DEF diff, pick
  <2>7. diff[s] = iter[s] - part[s]
    BY <1>4
  <2> QED
    BY <2>2, <2>3, <2>4, <2>5, <2>6, <2>7
<1>6. diff[{}] \in {0}
  <2>1. {} \in SUBSET D /\ {} \in SUBSET E
    OBVIOUS
  <2>2. iter[{}] = 0 /\ part[{}] = 0
    BY <1>2, <2>1, Zenon DEF SumsUp
  <2> HIDE DEF diff
  <2> QED
    BY <1>4, <2>1, <2>2
<1>7. diff[E] \in {0}
  <2> DEFINE R == {0}
  <2> HIDE DEF diff, pick
  <2>1. Keeps(diff, E, pick, R) /\ diff[{}] \in R
    BY <1>5, <1>6 DEF Keeps
  <2> HIDE DEF R
  <2>2. \A s \in SUBSET E : diff[s] \in R
    BY <1>1, <1>3, <2>1, FoldTyped
  <2> QED
    BY <2>2 DEF R
<1> QED
  BY <1>2, <1>4, <1>7

LEMMA SumEmpty == ASSUME NEW f PROVE SumFunctionOnSet(f, {}) = 0
<1>1. IsFiniteSet({}) /\ Summable(f, {})
  BY FS_EmptySet DEF Summable
<1>2. PICK iter \in [SUBSET {} -> Int] : SumsUp(iter, f, {}) /\ SumFunctionOnSet(f, {}) = iter[{}]
  BY <1>1, SumUnfold
<1> QED
  BY <1>2, Zenon DEF SumsUp

LEMMA SumIsInt ==
    ASSUME NEW D, NEW f, Summable(f, D)
    PROVE  SumFunctionOnSet(f, D) \in Int
<1>1. PICK iter \in [SUBSET D -> Int] : SumsUp(iter, f, D) /\ SumFunctionOnSet(f, D) = iter[D]
  BY SumUnfold
<1> QED
  BY <1>1

LEMMA SumRemove ==
    ASSUME NEW D, NEW f, Summable(f, D), NEW a \in D
    PROVE  SumFunctionOnSet(f, D) = f[a] + SumFunctionOnSet(f, D \ {a})
<1>1. PICK iter \in [SUBSET D -> Int] : SumsUp(iter, f, D) /\ SumFunctionOnSet(f, D) = iter[D]
  BY SumUnfold
<1>2. AnyOrder(iter, f, D)
  BY <1>1, SumAnyOrder
<1>3. iter[D] = f[a] + iter[D \ {a}]
  BY <1>2 DEF AnyOrder
<1>4. iter[D \ {a}] = SumFunctionOnSet(f, D \ {a})
  BY <1>1, SumWithin
<1> QED
  BY <1>1, <1>3, <1>4

\* A sum depends only on the values summed.
LEMMA SumSame ==
    ASSUME NEW D, NEW f, Summable(f, D), NEW g, \A x \in D : g[x] = f[x]
    PROVE  SumFunctionOnSet(g, D) = SumFunctionOnSet(f, D)
<1>1. PICK iter \in [SUBSET D -> Int] : SumsUp(iter, f, D) /\ SumFunctionOnSet(f, D) = iter[D]
  BY SumUnfold
<1>2. ASSUME NEW s \in SUBSET D, s # {}
      PROVE  g[CHOOSE x \in s : TRUE] = f[CHOOSE x \in s : TRUE]
  BY <1>2
<1>3. SumsUp(iter, g, D)
  BY <1>1, <1>2 DEF SumsUp
<1>4. Summable(g, D) /\ D \in SUBSET D
  BY DEF Summable
<1> QED
  BY <1>1, <1>3, <1>4, SumWithin

LEMMA SumAppend ==
    ASSUME NEW s \in Seq(Int), NEW e \in Int
    PROVE  /\ SumFunction(Append(s, e)) = SumFunction(s) + e
           /\ SumFunction(s) \in Int
<1> DEFINE t == Append(s, e)
           D == DOMAIN t
           k == Len(s) + 1
<1>1. /\ D = 1 .. k /\ DOMAIN s = 1 .. Len(s) /\ k \in D /\ D \ {k} = DOMAIN s
      /\ t[k] = e /\ \A i \in DOMAIN s : t[i] = s[i] /\ s[i] \in Int
      /\ \A i \in D : t[i] \in Int
  <2>1. Len(s) \in Nat /\ DOMAIN s = 1 .. Len(s)
    OBVIOUS
  <2>2. D = 1 .. k /\ t[k] = e
    BY <2>1
  <2>3. ASSUME NEW i \in DOMAIN s PROVE t[i] = s[i] /\ s[i] \in Int
    BY <2>1
  <2>4. k \in D /\ D \ {k} = DOMAIN s
    BY <2>1, <2>2
  <2>5. ASSUME NEW i \in D PROVE t[i] \in Int
    BY <2>2, <2>3, <2>4
  <2> QED
    BY <2>1, <2>2, <2>3, <2>4, <2>5
<1>2. IsFiniteSet(1 .. k) /\ IsFiniteSet(1 .. Len(s))
  BY FS_Interval
<1> HIDE DEF t, k
<1>3. Summable(t, D) /\ Summable(s, DOMAIN s)
  BY <1>1, <1>2 DEF Summable
<1>4. SumFunctionOnSet(t, D) = t[k] + SumFunctionOnSet(t, D \ {k})
  BY <1>1, <1>3, SumRemove
<1>5. SumFunctionOnSet(t, DOMAIN s) = SumFunctionOnSet(s, DOMAIN s)
  BY <1>1, <1>3, SumSame
<1>6. SumFunctionOnSet(s, DOMAIN s) \in Int
  BY <1>3, SumIsInt
<1>7. SumFunction(t) = e + SumFunction(s) /\ SumFunction(s) \in Int
  BY <1>1, <1>4, <1>5, <1>6 DEF SumFunction
<1> QED
  BY <1>7 DEF t
-----------------------------------------------------------------------------
(* Sequences *)

LEMMA AsSequence ==
    ASSUME NEW S, NEW k \in Nat, NEW f \in [1 .. k -> S]
    PROVE  f \in Seq(S) /\ Len(f) = k
OBVIOUS

LEMMA AppendIs ==
    ASSUME NEW S, NEW s \in Seq(S), NEW x
    PROVE  Append(s, x) = [i \in 1 .. Len(s) + 1 |-> IF i <= Len(s) THEN s[i] ELSE x]
<1> DEFINE T == S \cup {x}
           k == Len(s) + 1
           f == [i \in 1 .. k |-> IF i <= Len(s) THEN s[i] ELSE x]
           t == Append(s, x)
<1>1. s \in Seq(T) /\ x \in T /\ k \in Nat
  OBVIOUS
<1>2. t \in Seq(T) /\ Len(t) = k /\ \A i \in 1 .. k : t[i] = f[i]
  BY <1>1
<1>3. f \in [1 .. k -> T]
  BY <1>1
<1> HIDE DEF f, t, k, T
<1>4. f \in Seq(T) /\ Len(f) = k
  BY <1>1, <1>3, AsSequence
<1>5. t = f
  BY <1>2, <1>4, SeqEqual
<1> QED
  BY <1>5 DEF f, t, k
-----------------------------------------------------------------------------
(* Recursion along 0 .. n, and FlattenSeq *)

Chains(f, base, n, G) == f[0] = base /\ \A i \in 1 .. n : f[i] = G[i][f[i - 1]]
Extends(G, n, R) == \A i \in 1 .. n, r \in R : G[i][r] \in R

LEMMA ChainExists ==
    ASSUME NEW n \in Nat, NEW R, NEW base \in R, NEW G, Extends(G, n, R)
    PROVE  \E f \in [0 .. n -> R] : Chains(f, base, n, G)
<1> DEFINE Chain(f, k) == f \in [0 .. k -> R] /\ Chains(f, base, k, G)
           T == {k \in Nat : k <= n => \E f : Chain(f, k)}
<1>1. 0 \in T
  <2> DEFINE f == [i \in 0 .. 0 |-> base]
  <2>1. Chain(f, 0)
    BY DEF Chains
  <2> HIDE DEF f, Chain
  <2> QED
    BY <2>1
<1>2. ASSUME NEW k \in Nat, k \in T PROVE k + 1 \in T
  <2> SUFFICES ASSUME k + 1 <= n PROVE \E f : Chain(f, k + 1)
    OBVIOUS
  <2>1. PICK f : Chain(f, k)
    BY <1>2
  <2> DEFINE h == [i \in 0 .. k + 1 |-> IF i <= k THEN f[i] ELSE G[i][f[k]]]
  <2>2. f[k] \in R /\ k + 1 \in 1 .. n
    BY <2>1
  <2>3. G[k + 1][f[k]] \in R
    BY <2>2 DEF Extends
  <2>4. h \in [0 .. k + 1 -> R]
    BY <2>1, <2>3
  <2>5. h[0] = base
    BY <2>1 DEF Chains
  <2>6. ASSUME NEW i \in 1 .. k + 1 PROVE h[i] = G[i][h[i - 1]]
    <3>1. CASE i <= k
      <4>1. i \in 1 .. k /\ i - 1 \in 0 .. k /\ i \in 0 .. k
        BY <3>1
      <4>2. f[i] = G[i][f[i - 1]]
        BY <2>1, <4>1 DEF Chains
      <4>3. h[i] = f[i] /\ h[i - 1] = f[i - 1]
        BY <3>1, <4>1
      <4> QED
        BY <4>2, <4>3
    <3>2. CASE i = k + 1
      BY <3>2
    <3> QED
      BY <3>1, <3>2
  <2>7. Chain(h, k + 1)
    <3> HIDE DEF h
    <3> QED
      BY <2>4, <2>5, <2>6 DEF Chains
  <2> HIDE DEF h, Chain
  <2> QED
    BY <2>7
<1>3. n \in T
  <2> HIDE DEF T
  <2> QED
    BY <1>1, <1>2, Induction
<1> QED
  BY <1>3

\* The same, where each step goes from one set to the next.
GoesOn(G, n, S) == \A i \in 1 .. n : \A r \in S[i - 1] : G[i][r] \in S[i]
Follows(f, n, S) == f = [i \in 0 .. n |-> f[i]] /\ \A i \in 0 .. n : f[i] \in S[i]

LEMMA ChainFollows ==
    ASSUME NEW n \in Nat, NEW S, NEW base \in S[0], NEW G, GoesOn(G, n, S)
    PROVE  \E f : Follows(f, n, S) /\ Chains(f, base, n, G)
<1> DEFINE Chain(f, k) == Follows(f, k, S) /\ Chains(f, base, k, G)
           T == {k \in Nat : k <= n => \E f : Chain(f, k)}
<1>1. 0 \in T
  <2> DEFINE f == [i \in 0 .. 0 |-> base]
  <2>1. Chain(f, 0)
    BY DEF Chains, Follows
  <2> HIDE DEF f, Chain
  <2> QED
    BY <2>1
<1>2. ASSUME NEW k \in Nat, k \in T PROVE k + 1 \in T
  <2> SUFFICES ASSUME k + 1 <= n PROVE \E f : Chain(f, k + 1)
    OBVIOUS
  <2>1. PICK f : Chain(f, k)
    BY <1>2
  <2> DEFINE h == [i \in 0 .. k + 1 |-> IF i <= k THEN f[i] ELSE G[i][f[k]]]
  <2>2. f[k] \in S[k] /\ k + 1 \in 1 .. n /\ (k + 1) - 1 = k
    BY <2>1 DEF Follows
  <2>3. G[k + 1][f[k]] \in S[k + 1]
    BY <2>2 DEF GoesOn
  <2>4. \A i \in 0 .. k + 1 : h[i] \in S[i]
    <3>1. ASSUME NEW i \in 0 .. k + 1 PROVE h[i] \in S[i]
      <4>1. CASE i <= k
        BY <2>1, <4>1 DEF Follows
      <4>2. CASE i = k + 1
        BY <2>3, <4>2
      <4> QED
        BY <4>1, <4>2
    <3> QED
      BY <3>1
  <2>5. h[0] = base
    BY <2>1 DEF Chains
  <2>6. ASSUME NEW i \in 1 .. k + 1 PROVE h[i] = G[i][h[i - 1]]
    <3>1. CASE i <= k
      <4>1. i \in 1 .. k /\ i - 1 \in 0 .. k /\ i \in 0 .. k
        BY <3>1
      <4>2. f[i] = G[i][f[i - 1]]
        BY <2>1, <4>1 DEF Chains
      <4>3. h[i] = f[i] /\ h[i - 1] = f[i - 1]
        BY <3>1, <4>1
      <4> QED
        BY <4>2, <4>3
    <3>2. CASE i = k + 1
      BY <3>2
    <3> QED
      BY <3>1, <3>2
  <2>7. h = [i \in 0 .. k + 1 |-> h[i]]
    OBVIOUS
  <2>8. Chain(h, k + 1)
    <3> HIDE DEF h
    <3> QED
      BY <2>4, <2>5, <2>6, <2>7 DEF Chains, Follows
  <2> HIDE DEF h, Chain
  <2> QED
    BY <2>8
<1>3. n \in T
  <2> HIDE DEF T
  <2> QED
    BY <1>1, <1>2, Induction
<1> QED
  BY <1>3

\* A recursion that goes up by step until it stops, at n at the latest.
Climbs(f, stop, last, step) ==
    /\ f = [e \in Nat |-> f[e]]
    /\ \A e \in Nat : f[e] = IF stop[e] THEN last[e] ELSE f[e + step]
Stops(stop, n) == \A e \in Nat : e >= n => stop[e]

LEMMA ClimbExists ==
    ASSUME NEW n \in Nat, NEW step \in Nat, step > 0, NEW stop, NEW last, Stops(stop, n)
    PROVE  \E f : Climbs(f, stop, last, step)
<1> DEFINE Dom(k) == {e \in Nat : n <= e + k}
           Goes(f, k) == \A e \in Dom(k) :
                             f[e] = IF stop[e] THEN last[e] ELSE f[e + step]
           T == {k \in Nat : \E f : Goes(f, k)}
<1>1. 0 \in T
  <2> DEFINE f == [e \in Nat |-> last[e]]
  <2>1. Goes(f, 0)
    BY DEF Stops
  <2> HIDE DEF f, Goes
  <2> QED
    BY <2>1
<1>2. ASSUME NEW k \in Nat, k \in T PROVE k + 1 \in T
  <2>1. PICK f : Goes(f, k)
    BY <1>2
  <2> DEFINE g == [e \in Nat |-> IF e \in Dom(k) THEN f[e]
                                ELSE IF stop[e] THEN last[e] ELSE f[e + step]]
  <2>2. ASSUME NEW e \in Dom(k) PROVE g[e] = f[e] /\ e + step \in Dom(k)
    OBVIOUS
  <2>3. ASSUME NEW e \in Dom(k + 1)
        PROVE  g[e] = IF stop[e] THEN last[e] ELSE g[e + step]
    <3>1. e + step \in Dom(k)
      OBVIOUS
    <3>2. g[e + step] = f[e + step]
      BY <2>2, <3>1
    <3>3. g[e] = IF stop[e] THEN last[e] ELSE f[e + step]
      <4>1. CASE e \in Dom(k)
        BY <2>1, <2>2, <4>1
      <4>2. CASE e \notin Dom(k)
        BY <4>2
      <4> QED
        BY <4>1, <4>2
    <3> HIDE DEF g
    <3> QED
      BY <3>2, <3>3
  <2>4. Goes(g, k + 1)
    <3> HIDE DEF g, Dom
    <3> QED
      BY <2>3
  <2> HIDE DEF g, Goes
  <2> QED
    BY <2>4
<1>3. n \in T
  <2> HIDE DEF T
  <2> QED
    BY <1>1, <1>2, Induction
<1>4. PICK f : Goes(f, n)
  BY <1>3
<1> DEFINE g == [e \in Nat |-> f[e]]
<1>5. Climbs(g, stop, last, step)
  BY <1>4 DEF Climbs
<1> HIDE DEF g
<1> QED
  BY <1>5

\* A recursion that goes down, from e to prev[e] < e, until it stops.
Descends(f, n, stop, last, prev, G) ==
    \A e \in 0 .. n : f[e] = IF stop[e] THEN last[e] ELSE G[e][f[prev[e]]]
Earlier(n, stop, prev) == \A e \in 0 .. n : ~ stop[e] => prev[e] \in 0 .. e - 1
Lands(n, stop, last, G, R) ==
    \A e \in 0 .. n : /\ stop[e] => last[e] \in R
                      /\ ~ stop[e] => \A r \in R : G[e][r] \in R

LEMMA DescentExists ==
    ASSUME NEW n \in Nat, NEW stop, NEW last, NEW prev, NEW G, NEW R,
           Earlier(n, stop, prev), Lands(n, stop, last, G, R)
    PROVE  \E f \in [0 .. n -> R] : Descends(f, n, stop, last, prev, G)
<1> DEFINE Step(f, e) == IF stop[e] THEN last[e] ELSE G[e][f[prev[e]]]
           Goes(f, k) == \A e \in 0 .. n : e < k => f[e] = Step(f, e) /\ f[e] \in R
           T == {k \in Nat : \E f : Goes(f, k)}
<1>1. 0 \in T
  OBVIOUS
<1>2. ASSUME NEW k \in Nat, k \in T PROVE k + 1 \in T
  <2>1. PICK f : Goes(f, k)
    BY <1>2
  <2> DEFINE g == [e \in 0 .. n |-> IF e < k THEN f[e] ELSE Step(f, e)]
  <2>2. ASSUME NEW e \in 0 .. n, e < k PROVE g[e] = f[e] /\ f[e] \in R
    BY <2>1, <2>2
  <2>3. ASSUME NEW e \in 0 .. n, e < k + 1 PROVE g[e] = Step(g, e) /\ g[e] \in R
    <3>1. ASSUME ~ stop[e] PROVE g[prev[e]] = f[prev[e]] /\ f[prev[e]] \in R
      <4>1. prev[e] \in 0 .. n /\ prev[e] < k
        BY <2>3, <3>1 DEF Earlier
      <4> HIDE DEF g
      <4> QED
        BY <2>2, <4>1
    <3>2. g[e] = Step(f, e)
      BY <2>1
    <3> HIDE DEF g
    <3> QED
      BY <3>1, <3>2 DEF Lands
  <2> HIDE DEF g
  <2>4. Goes(g, k + 1)
    BY <2>3
  <2> HIDE DEF Goes
  <2> QED
    BY <2>4
<1>3. n + 1 \in T
  <2>1. Nat \subseteq T
    <3> HIDE DEF T
    <3> QED
      BY <1>1, <1>2, Induction
  <2> HIDE DEF T
  <2> QED
    BY <2>1
<1>4. PICK f : Goes(f, n + 1)
  BY <1>3
<1> DEFINE g == [e \in 0 .. n |-> f[e]]
<1>5. ASSUME NEW e \in 0 .. n PROVE g[e] = Step(g, e) /\ g[e] \in R
  <2>1. e < n + 1
    OBVIOUS
  <2>2. g[e] = Step(f, e) /\ g[e] \in R
    BY <1>4, <2>1
  <2>3. ASSUME ~ stop[e] PROVE g[prev[e]] = f[prev[e]]
    <3>1. prev[e] \in 0 .. n
      BY <2>3 DEF Earlier
    <3> QED
      BY <3>1
  <2> HIDE DEF g
  <2> QED
    BY <2>2, <2>3
<1>6. g \in [0 .. n -> R]
  BY <1>5
<1> HIDE DEF g
<1>7. Descends(g, n, stop, last, prev, G)
  BY <1>5 DEF Descends
<1> QED
  BY <1>6, <1>7

Agree(F, G, k) == \A i \in 1 .. k : F[i] = G[i]

\* Chains whose first k links agree are equal there.
LEMMA ChainSame ==
    ASSUME NEW k \in Nat, NEW m \in Nat, NEW n \in Nat, k <= m, k <= n,
           NEW base, NEW f, NEW F, Chains(f, base, m, F),
           NEW g, NEW G, Chains(g, base, n, G), Agree(F, G, k)
    PROVE  f[k] = g[k]
<1> DEFINE T == {i \in Nat : i <= k => f[i] = g[i]}
<1>1. 0 \in T
  BY DEF Chains
<1>2. ASSUME NEW i \in Nat, i \in T PROVE i + 1 \in T
  <2> SUFFICES ASSUME i + 1 <= k PROVE f[i + 1] = g[i + 1]
    OBVIOUS
  <2>1. i + 1 \in 1 .. m /\ i + 1 \in 1 .. n /\ i + 1 \in 1 .. k /\ (i + 1) - 1 = i
    OBVIOUS
  <2>2. f[i + 1] = F[i + 1][f[i]] /\ g[i + 1] = G[i + 1][g[i]]
    BY <2>1, Zenon DEF Chains
  <2>3. f[i] = g[i] /\ F[i + 1] = G[i + 1]
    BY <1>2, <2>1 DEF Agree
  <2> QED
    BY <2>1, <2>2, <2>3
<1>3. k \in T
  <2> HIDE DEF T
  <2> QED
    BY <1>1, <1>2, Induction
<1> QED
  BY <1>3

\* The links of the chain FlattenSeq builds.
Links(ss, S) == [i \in 1 .. Len(ss) |-> [r \in Seq(S) |-> r \o ss[i]]]

LEMMA FlattenUnfold ==
    ASSUME NEW S, NEW ss \in Seq(Seq(S))
    PROVE  \E f \in [0 .. Len(ss) -> Seq(S)] :
              Chains(f, << >>, Len(ss), Links(ss, S)) /\ FlattenSeq(ss) = f[Len(ss)]
<1> DEFINE n == Len(ss)
           link == Links(ss, S)
           Step(f) == [i \in 1 .. n |-> IF i = 1 THEN ss[i] ELSE f[i - 1] \o ss[i]]
           flatten == CHOOSE f : f = Step(f)
<1>0. n \in Nat /\ (n = 0 => ss = << >>) /\ \A i \in 1 .. n : ss[i] \in Seq(S)
  OBVIOUS
<1>1. ASSUME NEW i \in 1 .. n, NEW r \in Seq(S)
      PROVE  link[i][r] = r \o ss[i] /\ link[i][r] \in Seq(S)
  BY <1>0 DEF Links
<1>e. ASSUME NEW i \in 1 .. n PROVE link[i][<< >>] = ss[i]
  <2>1. << >> \in Seq(S) /\ ss[i] \in Seq(S)
    BY <1>0
  <2>2. << >> \o ss[i] = ss[i]
    BY <2>1
  <2> QED
    BY <1>1, <2>1, <2>2
<1>7. ASSUME n # 0 PROVE FlattenSeq(ss) = flatten[n]
  BY <1>7 DEF FlattenSeq
<1>8. ASSUME n = 0 PROVE FlattenSeq(ss) = << >>
  BY <1>0, <1>8 DEF FlattenSeq
<1> HIDE DEF n, link
<1>2. PICK f \in [0 .. n -> Seq(S)] : Chains(f, << >>, n, link)
  <2>1. Extends(link, n, Seq(S)) /\ << >> \in Seq(S)
    BY <1>1 DEF Extends
  <2> QED
    BY <1>0, <2>1, ChainExists
<1>3. f[0] = << >> /\ \A i \in 1 .. n : f[i] = link[i][f[i - 1]]
  BY <1>2 DEF Chains
<1>r. ASSUME NEW i \in 1 .. n
      PROVE  f[i] = IF i = 1 THEN ss[i] ELSE f[i - 1] \o ss[i]
  <2>1. CASE i = 1
    <3>1. i - 1 = 0
      BY <2>1
    <3>2. f[i] = link[i][<< >>]
      BY <1>3, <3>1
    <3> QED
      BY <1>e, <2>1, <3>2
  <2>2. CASE i # 1
    <3>1. i - 1 \in 0 .. n
      BY <1>0
    <3>2. f[i - 1] \in Seq(S) /\ f[i] = link[i][f[i - 1]]
      BY <1>2, <1>3, <3>1
    <3> QED
      BY <1>1, <2>2, <3>2
  <2> QED
    BY <2>1, <2>2
<1> DEFINE part == [i \in 1 .. n |-> f[i]]
<1>4. part = Step(part)
  <2>1. ASSUME NEW i \in 1 .. n
        PROVE  f[i] = IF i = 1 THEN ss[i] ELSE part[i - 1] \o ss[i]
    <3>1. i # 1 => part[i - 1] = f[i - 1]
      BY <1>0
    <3> HIDE DEF part
    <3> QED
      BY <1>r, <3>1
  <2> QED
    BY <2>1
<1> HIDE DEF part
<1>5. flatten = Step(flatten)
  <2> HIDE DEF Step
  <2> QED
    BY <1>4
<1> HIDE DEF flatten
<1>s. ASSUME NEW i \in 1 .. n
      PROVE  flatten[i] = IF i = 1 THEN ss[i] ELSE flatten[i - 1] \o ss[i]
  BY <1>5
<1> HIDE DEF Step
<1> DEFINE T == {i \in Nat : i \in 1 .. n => flatten[i] = f[i]}
<1>6. n \in T
  <2>1. 0 \in T
    OBVIOUS
  <2>2. ASSUME NEW i \in Nat, i \in T PROVE i + 1 \in T
    <3> SUFFICES ASSUME i + 1 \in 1 .. n PROVE flatten[i + 1] = f[i + 1]
      OBVIOUS
    <3>1. CASE i = 0
      <4>1. i + 1 = 1
        BY <3>1
      <4> QED
        BY <1>r, <1>s, <4>1, Zenon
    <3>2. CASE i # 0
      <4>1. i + 1 # 1 /\ (i + 1) - 1 = i /\ i \in 1 .. n
        BY <1>0, <3>2
      <4>2. flatten[i] = f[i]
        BY <2>2, <4>1
      <4>3. /\ flatten[i + 1] = flatten[(i + 1) - 1] \o ss[i + 1]
            /\ f[i + 1] = f[(i + 1) - 1] \o ss[i + 1]
        BY <1>r, <1>s, <4>1, Zenon
      <4> QED
        BY <4>1, <4>2, <4>3, Zenon
    <3> QED
      BY <3>1, <3>2
  <2> HIDE DEF T
  <2> QED
    BY <1>0, <2>1, <2>2, Induction
<1>9. FlattenSeq(ss) = f[n]
  <2>1. CASE n = 0
    BY <1>3, <1>8, <2>1
  <2>2. CASE n # 0
    BY <1>0, <1>6, <1>7, <2>2
  <2> QED
    BY <2>1, <2>2
<1> QED
  BY <1>2, <1>9 DEF n, link

LEMMA FlattenAppend ==
    ASSUME NEW S, NEW ss \in Seq(Seq(S)), NEW x \in Seq(S)
    PROVE  /\ FlattenSeq(ss) \in Seq(S)
           /\ FlattenSeq(Append(ss, x)) = FlattenSeq(ss) \o x
<1> DEFINE tt == Append(ss, x)
           k == Len(ss)
           F == Links(ss, S)
           G == Links(tt, S)
<1>1. /\ tt \in Seq(Seq(S)) /\ k \in Nat /\ Len(tt) = k + 1
      /\ tt[k + 1] = x /\ \A i \in 1 .. k : tt[i] = ss[i]
  OBVIOUS
<1> HIDE DEF tt
<1>2. PICK f \in [0 .. k -> Seq(S)] : Chains(f, << >>, k, F) /\ FlattenSeq(ss) = f[k]
  BY FlattenUnfold
<1>3. PICK g \in [0 .. k + 1 -> Seq(S)] :
         Chains(g, << >>, k + 1, G) /\ FlattenSeq(tt) = g[k + 1]
  BY <1>1, FlattenUnfold
<1>4. Agree(F, G, k)
  <2> SUFFICES ASSUME NEW i \in 1 .. k PROVE F[i] = G[i]
    BY DEF Agree
  <2>1. F[i] = [r \in Seq(S) |-> r \o ss[i]]
    BY DEF Links
  <2>2. i \in 1 .. Len(tt)
    BY <1>1
  <2>3. G[i] = [r \in Seq(S) |-> r \o tt[i]]
    BY <2>2, Zenon DEF Links
  <2> QED
    BY <1>1, <2>1, <2>3
<1>s. ASSUME NEW r \in Seq(S) PROVE G[k + 1][r] = r \o x
  <2>1. k + 1 \in 1 .. Len(tt)
    BY <1>1
  <2>2. G[k + 1][r] = r \o tt[k + 1]
    BY <2>1, Zenon DEF Links
  <2> QED
    BY <1>1, <2>2
<1> DEFINE empty == << >>
<1>c. Chains(f, empty, k, F) /\ Chains(g, empty, k + 1, G)
  BY <1>2, <1>3
<1>k. k \in Nat
  BY <1>1
<1> HIDE DEF k, F, G, empty
<1>5. f[k] = g[k]
  <2>1. k <= k /\ k <= k + 1 /\ k + 1 \in Nat
    BY <1>k
  <2> QED
    BY <1>k, <1>c, <1>4, <2>1, ChainSame, SMTT(30)
<1>6. g[k] \in Seq(S) /\ k + 1 \in 1 .. k + 1 /\ (k + 1) - 1 = k
  <2>1. k \in 0 .. k + 1 /\ k + 1 \in 1 .. k + 1 /\ (k + 1) - 1 = k
    BY <1>k
  <2> QED
    BY <2>1
<1>7. g[k + 1] = G[k + 1][g[k]]
  <2>1. g[k + 1] = G[k + 1][g[(k + 1) - 1]]
    BY <1>3, <1>6, Zenon DEF Chains
  <2> QED
    BY <1>6, <2>1
<1>8. g[k + 1] = g[k] \o x
  BY <1>6, <1>7, <1>s
<1> QED
  BY <1>2, <1>3, <1>5, <1>6, <1>8 DEF tt

LEMMA FlattenEmpty == FlattenSeq(<< >>) = << >>
  BY DEF FlattenSeq
-----------------------------------------------------------------------------
=============================================================================
