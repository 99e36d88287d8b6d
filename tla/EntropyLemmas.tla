--------------------------- MODULE EntropyLemmas ---------------------------
(***************************************************************************)
(* The operators EntropyCodec is built from, for every size of the four    *)
(* tables.                                                                 *)
(*                                                                         *)
(* The first part is about one step of the coder (fse.go): what the        *)
(* encoder writes for a symbol leads the decoder from the encoder's new    *)
(* state back to its old one.  Then come tables, normalisation, bit        *)
(* streams, and what the headers and the frequency code are made of.       *)
(*                                                                         *)
(* The second part reads back what was written: a pushed number is a       *)
(* window of the bits, the reader's accumulator always is the window that  *)
(* ends where the unread bits end, a finished stream has those bits, and   *)
(* what is taken value by value is what was put.  A V1 header reads back   *)
(* as it was written.                                                      *)
(***************************************************************************)
EXTENDS EntropyCodec, LibraryLemmas

-----------------------------------------------------------------------------
(* The shift *)

LEMMA PowerGrows ==
    ASSUME NEW i \in 0 .. PrecisionBits, NEW j \in 0 .. PrecisionBits, i <= j
    PROVE  2^i \in Nat \ {0} /\ 2^j \in Nat \ {0} /\ 2^i <= 2^j
<1>1. j - i \in 0 .. PrecisionBits /\ i + (j - i) = j /\ PrecisionBits \in Nat
  BY PowersOfTwo
<1>2. 2^j = 2^i * 2^(j - i)
  BY <1>1, PowersOfTwo
<1> DEFINE a == 2^i
           b == 2^(j - i)
<1>3. a \in Nat \ {0} /\ b \in Nat \ {0} /\ 2^j \in Nat \ {0}
  BY <1>1, PowersOfTwo
<1> HIDE DEF a, b
<1>4. a <= a * b
  <2>1. 1 * a <= b * a
    BY <1>3, Times
  <2> QED
    BY <2>1, <1>3
<1> QED
  BY <1>2, <1>3, <1>4 DEF a, b

LEMMA Doubles ==
    ASSUME NEW k \in 0 .. PrecisionBits, k > 0
    PROVE  k - 1 \in 0 .. PrecisionBits /\ 2^(k - 1) \in Nat \ {0} /\ 2^k = 2 * 2^(k - 1)
<1>1. k - 1 \in 0 .. PrecisionBits /\ 1 \in 0 .. PrecisionBits /\ 1 + (k - 1) = k
               /\ k <= PrecisionBits
  BY PowersOfTwo
<1> DEFINE i == k - 1
<1>2. 2^(1 + i) = 2^1 * 2^i
  <2>1. 1 + i <= PrecisionBits /\ i \in 0 .. PrecisionBits
    BY <1>1
  <2> HIDE DEF i
  <2> QED
    BY <1>1, <2>1, PowersOfTwo
<1> QED
  BY <1>1, <1>2, PowersOfTwo

LEMMA Log2OfPower ==
    ASSUME NEW r \in 0 .. PrecisionBits - 1
    PROVE  Log2(2^r) = r
<1>1. r \in 0 .. PrecisionBits /\ r + 1 \in 0 .. PrecisionBits /\ PrecisionBits \in Nat
  BY PowersOfTwo
<1>2. 2^r <= 2^r /\ 2^r < 2^(r + 1)
  BY <1>1, Doubles, PowerGrows
<1>3. ASSUME NEW i \in 0 .. PrecisionBits - 1, 2^i <= 2^r, 2^r < 2^(i + 1) PROVE i = r
  <2>1. i \in 0 .. PrecisionBits /\ i + 1 \in 0 .. PrecisionBits
    BY <1>1
  <2>2. CASE i < r
    BY <2>1, <2>2, <1>1, <1>3, PowerGrows
  <2>3. CASE i > r
    BY <2>1, <2>3, <1>1, <1>2, <1>3, PowerGrows
  <2> QED
    BY <2>2, <2>3, <1>1
<1> QED
  BY <1>2, <1>3 DEF Log2

LEMMA ShiftExists ==
    ASSUME NEW r \in 0 .. PrecisionBits - 1, NEW f \in 1 .. 2^r
    PROVE  \E k \in 0 .. r : 2^r <= f * 2^k /\ f * 2^k < 2 * 2^r
<1> DEFINE n == 2^r
           T == {k \in 0 .. r : n <= f * 2^k}
<1>1. PrecisionBits \in Nat /\ r \in 0 .. PrecisionBits /\ n \in Nat \ {0} /\ f \in Nat \ {0}
  BY PowersOfTwo
<1>2. 1 * n <= f * n
  BY <1>1, Times
<1>3. r \in T
  BY <1>1, <1>2
<1>4. PICK k \in T : \A y \in T : k <= y
  <2>1. T \subseteq Nat /\ T # {}
    BY <1>3
  <2> HIDE DEF T
  <2> QED
    BY <2>1, Smallest
<1>5. CASE k = 0
  BY <1>1, <1>4, <1>5, PowersOfTwo
<1>6. CASE k > 0
  <2>1. k \in 0 .. PrecisionBits /\ k - 1 \in 0 .. r /\ k - 1 \notin T
    BY <1>1, <1>4, <1>6
  <2> DEFINE h == 2^(k - 1)
  <2>2. h \in Nat \ {0} /\ 2^k = 2 * h
    BY <2>1, <1>6, Doubles
  <2>3. f * h < n
    <3>1. f * h \in Nat /\ ~ (n <= f * h)
      BY <1>1, <2>1, <2>2
    <3> QED
      BY <3>1, <1>1
  <2> HIDE DEF h
  <2>4. f * (2 * h) = 2 * (f * h) /\ f * h \in Nat
    BY <1>1, <2>2
  <2> QED
    BY <1>1, <1>4, <2>2, <2>3, <2>4
<1> QED
  BY <1>4, <1>5, <1>6

\* Shift(f, n): f is brought into n .. 2n - 1, and n is a multiple of the
\* power of two it is multiplied by.
LEMMA ShiftFacts ==
    ASSUME NEW r \in 0 .. PrecisionBits - 1, NEW f \in 1 .. 2^r,
           NEW k, k = Shift(f, 2^r)
    PROVE  /\ k \in 0 .. r
           /\ 2^r <= f * 2^k /\ f * 2^k < 2 * 2^r
           /\ 2^r = 2^(r - k) * 2^k
           /\ 2^k \in Nat \ {0} /\ 2^(r - k) \in Nat \ {0}
<1>1. k \in 0 .. r /\ 2^r <= f * 2^k /\ f * 2^k < 2 * 2^r
  BY ShiftExists, Log2OfPower DEF Shift
<1>2. r - k \in 0 .. PrecisionBits /\ k \in 0 .. PrecisionBits /\ (r - k) + k = r /\ r <= PrecisionBits
  BY <1>1, PowersOfTwo
<1>3. 2^((r - k) + k) = 2^(r - k) * 2^k
  BY <1>2, PowersOfTwo
<1> QED
  BY <1>1, <1>2, <1>3, PowersOfTwo

-----------------------------------------------------------------------------
(* One step *)

\* f * p brought to n = q * p: what the two halves of a table are cut by.
LEMMA Halves ==
    ASSUME NEW p \in Nat \ {0}, NEW q \in Nat \ {0}, NEW f \in Nat \ {0},
           q * p <= f * p, f * p < 2 * (q * p)
    PROVE  /\ q <= f /\ f < 2 * q
           /\ (q * p) \div p = q /\ (2 * (q * p)) \div p = 2 * q
           /\ f * p - q * p = (f - q) * p
<1>1. q <= f
  <2> SUFFICES ASSUME f + 1 <= q PROVE FALSE
    OBVIOUS
  <2>1. (f + 1) * p <= q * p
    BY Times
  <2>2. (f + 1) * p = f * p + p /\ f * p \in Nat /\ q * p \in Nat
    OBVIOUS
  <2> QED
    BY <2>1, <2>2
<1>2. 2 * (q * p) = (2 * q) * p
  OBVIOUS
<1>3. f < 2 * q
  <2> SUFFICES ASSUME 2 * q <= f PROVE FALSE
    OBVIOUS
  <2>1. (2 * q) * p <= f * p
    BY Times
  <2>2. f * p \in Nat /\ (2 * q) * p \in Nat
    OBVIOUS
  <2> QED
    BY <1>2, <2>1, <2>2
<1>4. (q * p + 0) \div p = q /\ ((2 * q) * p + 0) \div p = 2 * q
  BY Quotient
<1>5. (q * p + 0) = q * p /\ ((2 * q) * p + 0) = (2 * q) * p
  OBVIOUS
<1>6. f * p - q * p = (f - q) * p
  OBVIOUS
<1> QED
  BY <1>1, <1>2, <1>3, <1>4, <1>5, <1>6

\* The same, of Shift: n = q * p with p = 2^k; with k = 0 the symbol owns the
\* whole table, otherwise p is even and n = (2q) * (p / 2).
LEMMA Cut ==
    ASSUME NEW r \in 0 .. PrecisionBits - 1, NEW f \in 1 .. 2^r
    PROVE  LET k == Shift(f, 2^r)
               n == 2^r
               p == 2^k
               h == 2^(k - 1)
               q == 2^(r - k)
           IN /\ k \in Nat
              /\ n \in Nat \ {0} /\ p \in Nat \ {0} /\ q \in Nat \ {0}
              /\ n = q * p /\ q <= f /\ f < 2 * q
              /\ n \div p = q /\ (2 * n) \div p = 2 * q
              /\ f * p - n = (f - q) * p
              /\ k = 0 => f = q /\ n = q
              /\ k # 0 => /\ h \in Nat \ {0} /\ p = 2 * h
                         /\ n = (2 * q) * h /\ n \div h = 2 * q
<1> DEFINE k == Shift(f, 2^r)
           n == 2^r
           p == 2^k
           h == 2^(k - 1)
           q == 2^(r - k)
<1>1. /\ k \in 0 .. r /\ n <= f * p /\ f * p < 2 * n /\ n = q * p
      /\ p \in Nat \ {0} /\ q \in Nat \ {0}
  BY ShiftFacts
<1>2. n \in Nat \ {0} /\ f \in 1 .. n /\ f \in Nat \ {0}
      /\ PrecisionBits \in Nat /\ k \in 0 .. PrecisionBits
  BY <1>1, PowersOfTwo
<1>3. k = 0 => p = 1
  BY PowersOfTwo
<1>4. k # 0 => h \in Nat \ {0} /\ p = 2 * h
  BY <1>2, Doubles
<1> HIDE DEF k, n, p, h, q
<1>5. /\ q <= f /\ f < 2 * q /\ n \div p = q /\ (2 * n) \div p = 2 * q
      /\ f * p - n = (f - q) * p
  BY <1>1, <1>2, Halves
<1>6. k = 0 => f = q /\ n = q
  BY <1>1, <1>2, <1>3, <1>5
<1>7. ASSUME k # 0 PROVE n = (2 * q) * h /\ n \div h = 2 * q
  <2>1. q * (2 * h) = (2 * q) * h
    BY <1>1, <1>4, <1>7
  <2>2. ((2 * q) * h + 0) \div h = 2 * q /\ (2 * q) * h + 0 = (2 * q) * h
    <3> DEFINE u == 2 * q
    <3>1. u \in Nat /\ h \in Nat \ {0}
      BY <1>1, <1>4, <1>7
    <3> HIDE DEF u
    <3>2. (u * h + 0) \div h = u
      BY <3>1, Quotient
    <3>3. u * h + 0 = u * h
      BY <3>1
    <3> QED
      BY <3>2, <3>3 DEF u
  <2> QED
    BY <1>1, <1>4, <1>7, <2>1, <2>2
<1> QED
  BY <1>1, <1>2, <1>4, <1>5, <1>6, <1>7 DEF k, n, p, h, q

\* Decoding what encoding wrote.  For every symbol, every state s of the
\* encoder and every value of extra bits: the encoder's new state belongs to
\* the symbol, its entry in the decoder's table reads as many bits as were
\* written, gives the value back, and leads to s again (fseEncode and
\* fseValueDecode over the tables of fseInitEncoderTable and
\* fseInitValueDecoderTable; this is what lets the decoder run backwards
\* through what the encoder did).
THEOREM StepInverts ==
    ASSUME NEW r \in 0 .. PrecisionBits - 1, NEW freqs, NEW sym,
           freqs[sym] \in 1 .. 2^r, Offset(freqs, sym) \in Nat,
           NEW s \in 0 .. 2^r - 1
    PROVE  LET w == Encode(EncoderEntry(freqs, sym, 2^r), s)
               j == w.state - Offset(freqs, sym)
               step == Step(freqs[sym], j, 2^r)
           IN /\ j \in 0 .. freqs[sym] - 1
              /\ step.bits = w.nbits
              /\ w.b \in 0 .. 2^w.nbits - 1
              /\ step.delta + w.b = s
<1> DEFINE f == freqs[sym]
           o == Offset(freqs, sym)
           k == Shift(f, 2^r)
           n == 2^r
           p == 2^k
           h == 2^(k - 1)
           q == 2^(r - k)
           w == Encode(EncoderEntry(freqs, sym, 2^r), s)
           j == w.state - o
           step == Step(f, j, n)
<1>1. /\ k \in Nat
      /\ n \in Nat \ {0} /\ p \in Nat \ {0} /\ q \in Nat \ {0}
      /\ n = q * p /\ q <= f /\ f < 2 * q
      /\ n \div p = q /\ (2 * n) \div p = 2 * q
      /\ f * p - n = (f - q) * p
  BY Cut
<1>2. k = 0 => f = q /\ n = q
  BY Cut
<1>3. k # 0 => /\ h \in Nat \ {0} /\ p = 2 * h
               /\ n = (2 * q) * h /\ n \div h = 2 * q
  BY Cut
<1>4. f \in Nat \ {0} /\ o \in Nat /\ s \in Nat /\ s < n
  BY <1>1
<1>5. CASE s >= f * p - n
  <2> DEFINE t == s \div p
  <2>1. w = [nbits |-> k, b |-> s % p, state |-> (o - f + q) + t]
    BY <1>1, <1>5 DEF Encode, EncoderEntry
  <2>2. step = IF j < 2 * q - f THEN [bits |-> k, delta |-> (f + j) * p - n]
               ELSE [bits |-> k - 1, delta |-> (j - (2 * q - f)) * h]
    BY <1>1 DEF Step
  <2>3. t \in Nat /\ s % p \in 0 .. p - 1 /\ s = t * p + (s % p)
    BY <1>1, <1>4, Division
  <2>4. t < q
    BY <1>1, <1>4, QuotientBelow
  <2>5. f - q <= t
    <3> DEFINE u == f - q
    <3>1. u \in Nat /\ u * p <= s
      BY <1>1, <1>4, <1>5
    <3> HIDE DEF u, p
    <3>2. u <= s \div p
      BY <1>1, <1>4, <3>1, QuotientAbove
    <3> QED
      BY <3>2 DEF u
  <2> HIDE DEF t, w, step, n, p, h, q, f, o, k
  <2>6. j = t + q - f /\ w.nbits = k /\ w.b = s % p
    BY <2>1, <2>3, <1>1, <1>4
  <2>7. j \in 0 .. f - 1 /\ j < 2 * q - f /\ f + j = q + t
    BY <2>3, <2>4, <2>5, <2>6, <1>1, <1>4
  <2> HIDE DEF j
  <2>8. step.bits = k /\ step.delta = (q + t) * p - n
    BY <2>2, <2>7
  <2>9. (q + t) * p = q * p + t * p
    BY <1>1, <2>3
  <2>10. step.delta = t * p
    BY <1>1, <2>3, <2>8, <2>9
  <2>11. /\ j \in 0 .. f - 1 /\ step.bits = w.nbits
         /\ w.b \in 0 .. 2^w.nbits - 1 /\ step.delta + w.b = s
    BY <2>3, <2>6, <2>7, <2>8, <2>10 DEF p
  <2> QED
    BY <2>11 DEF j, w, step, n, f, o
<1>6. CASE s < f * p - n
  <2>1. k # 0
    BY <1>1, <1>2, <1>4, <1>6
  <2> DEFINE t == s \div h
  <2>2. w = [nbits |-> k - 1, b |-> s % h, state |-> (o - f + 2 * q) + t]
    BY <1>1, <1>3, <1>4, <1>6, <2>1 DEF Encode, EncoderEntry
  <2>3. step = IF j < 2 * q - f THEN [bits |-> k, delta |-> (f + j) * p - n]
               ELSE [bits |-> k - 1, delta |-> (j - (2 * q - f)) * h]
    BY <1>1 DEF Step
  <2>4. h \in Nat \ {0} /\ t \in Nat /\ s % h \in 0 .. h - 1 /\ s = t * h + (s % h)
    BY <1>3, <1>4, <2>1, Division
  <2>5. t < 2 * (f - q)
    <3> DEFINE u == 2 * (f - q)
    <3>1. u \in Nat /\ (f - q) * (2 * h) = u * h
      <4> DEFINE v == f - q
      <4>1. v \in Nat
        BY <1>1, <1>4
      <4> HIDE DEF v, h
      <4>2. v * (2 * h) = (2 * v) * h
        BY <2>4, <4>1
      <4> QED
        BY <4>1, <4>2 DEF v
    <3>2. s < u * h
      BY <1>1, <1>3, <1>6, <2>1, <3>1
    <3> HIDE DEF u
    <3>3. t < u
      BY <1>4, <2>4, <3>1, <3>2, QuotientBelow
    <3> QED
      BY <3>3 DEF u
  <2> HIDE DEF t, w, step, n, p, h, q, f, o, k
  <2>6. j = t + 2 * q - f /\ w.nbits = k - 1 /\ w.b = s % h
    BY <2>2, <2>4, <1>1, <1>4
  <2>7. j \in 0 .. f - 1 /\ ~ (j < 2 * q - f) /\ j - (2 * q - f) = t
    BY <2>4, <2>5, <2>6, <1>1, <1>4
  <2> HIDE DEF j
  <2>8. step.bits = k - 1 /\ step.delta = t * h
    BY <2>3, <2>7
  <2>9. /\ j \in 0 .. f - 1 /\ step.bits = w.nbits
        /\ w.b \in 0 .. 2^w.nbits - 1 /\ step.delta + w.b = s
    BY <2>4, <2>6, <2>7, <2>8 DEF h
  <2> QED
    BY <2>9 DEF j, w, step, n, f, o
<1>7. f * p - n \in Int
  BY <1>1, <1>4
<1> QED
  BY <1>4, <1>5, <1>6, <1>7

\* A decoding step never leaves the table: whatever bits are read, state j of
\* a symbol's f states leads to one of the n states (fseDecode and
\* fseValueDecode index the table with it unchecked).
THEOREM StepStaysInTable ==
    ASSUME NEW r \in 0 .. PrecisionBits - 1, NEW f \in 1 .. 2^r, NEW j \in 0 .. f - 1,
           NEW b \in 0 .. 2^Step(f, j, 2^r).bits - 1
    PROVE  /\ Step(f, j, 2^r).bits \in Nat
           /\ Step(f, j, 2^r).delta + b \in 0 .. 2^r - 1
<1> DEFINE k == Shift(f, 2^r)
           n == 2^r
           p == 2^k
           h == 2^(k - 1)
           q == 2^(r - k)
           step == Step(f, j, n)
<1>1. /\ k \in Nat
      /\ n \in Nat \ {0} /\ p \in Nat \ {0} /\ q \in Nat \ {0}
      /\ n = q * p /\ q <= f /\ f < 2 * q
      /\ n \div p = q /\ (2 * n) \div p = 2 * q
  BY Cut
<1>2. k = 0 => f = q /\ n = q
  BY Cut
<1>3. k # 0 => h \in Nat \ {0} /\ n = (2 * q) * h
  BY Cut
<1>4. f \in Nat \ {0} /\ j \in Nat /\ j < f
  BY <1>1
<1>5. step = IF j < 2 * q - f THEN [bits |-> k, delta |-> (f + j) * p - n]
             ELSE [bits |-> k - 1, delta |-> (j - (2 * q - f)) * h]
  BY <1>1 DEF Step
<1>6. CASE j < 2 * q - f
  <2>1. step.bits = k /\ b \in 0 .. p - 1 /\ step.delta = (f + j) * p - n
    BY <1>5, <1>6
  <2> DEFINE t == f + j - q
  <2>2. t \in Nat /\ t + 1 <= q /\ f + j = q + t
    BY <1>1, <1>4, <1>6
  <2> HIDE DEF t, step, n, p, q, k
  <2>3. (q + t) * p = q * p + t * p /\ (t + 1) * p = t * p + p /\ t * p \in Nat
    BY <1>1, <2>2
  <2>4. (t + 1) * p <= q * p
    BY <1>1, <2>2, Times
  <2>5. step.bits \in Nat /\ step.delta + b \in 0 .. n - 1
    <3>1. step.delta = t * p
      BY <1>1, <2>1, <2>2, <2>3
    <3>2. b \in Nat /\ b + 1 <= p /\ t * p + p <= n
      BY <1>1, <2>1, <2>3, <2>4
    <3> QED
      BY <1>1, <2>1, <2>3, <3>1, <3>2
  <2> QED
    BY <2>5 DEF step, n
<1>7. CASE ~ (j < 2 * q - f)
  <2>1. k # 0
    BY <1>1, <1>2, <1>4, <1>7
  <2>2. step.bits = k - 1 /\ b \in 0 .. h - 1 /\ step.delta = (j - (2 * q - f)) * h
    BY <1>5, <1>7
  <2> DEFINE t == j - (2 * q - f)
  <2>3. t \in Nat /\ t + 1 <= 2 * q /\ h \in Nat \ {0} /\ n = (2 * q) * h
    BY <1>1, <1>3, <1>4, <1>7, <2>1
  <2> HIDE DEF step, n, p, q, k, h
  <2>4. step.delta = t * h
    BY <2>2
  <2> HIDE DEF t
  <2>5. (t + 1) * h = t * h + h /\ t * h \in Nat
    BY <2>3
  <2>6. (t + 1) * h <= n
    <3> DEFINE u == 2 * q
    <3>1. u \in Nat /\ t + 1 <= u /\ n = u * h
      BY <1>1, <2>3
    <3> HIDE DEF u
    <3> QED
      BY <2>3, <3>1, Times
  <2>7. step.bits \in Nat /\ step.delta + b \in 0 .. n - 1
    BY <1>1, <2>1, <2>2, <2>3, <2>4, <2>5, <2>6
  <2> QED
    BY <2>7 DEF step, n
<1> QED
  BY <1>6, <1>7

\* The same with the extra bits v of a value, written behind the state's bits
\* (encodeBlock writes the state's bits last, the decoder reads backwards): one
\* read of totalBits gives the decoder the encoder's old state and the value.
THEOREM DecodeInvertsEncode ==
    ASSUME NEW r \in 0 .. PrecisionBits - 1, NEW freqs, NEW sym,
           freqs[sym] \in 1 .. 2^r, Offset(freqs, sym) \in Nat,
           NEW extra, NEW base, extra[sym] \in 0 .. PrecisionBits,
           NEW s \in 0 .. 2^r - 1, NEW v \in 0 .. 2^extra[sym] - 1
    PROVE  LET w == Encode(EncoderEntry(freqs, sym, 2^r), s)
               e == Entry(freqs, sym, w.state - Offset(freqs, sym), 2^r, extra, base)
           IN /\ e.totalBits = w.nbits + extra[sym]
              /\ Decode(e, w.b * 2^extra[sym] + v) = [state |-> s, value |-> base[sym] + v]
<1> DEFINE w == Encode(EncoderEntry(freqs, sym, 2^r), s)
           j == w.state - Offset(freqs, sym)
           step == Step(freqs[sym], j, 2^r)
           x == 2^extra[sym]
           e == Entry(freqs, sym, j, 2^r, extra, base)
<1>1. step.bits = w.nbits /\ step.delta + w.b = s
  BY StepInverts
<1>2. w.b \in Nat /\ x \in Nat \ {0} /\ v \in 0 .. x - 1
  <2>1. w.b \in 0 .. 2^w.nbits - 1
    BY StepInverts
  <2> QED
    BY <2>1, PowersOfTwo
<1>3. e = [totalBits |-> step.bits + extra[sym], valueBits |-> extra[sym],
           delta |-> step.delta, vbase |-> base[sym]]
  BY DEF Entry
<1> HIDE DEF w, step, x, e, j
<1>4. (w.b * x + v) \div x = w.b /\ (w.b * x + v) % x = v
  BY <1>2, Quotient
<1>5. Decode(e, w.b * x + v) = [state |-> step.delta + w.b, value |-> base[sym] + v]
  BY <1>3, <1>4 DEF Decode, x
<1>6. e.totalBits = w.nbits + extra[sym]
  BY <1>1, <1>3
<1> QED
  BY <1>1, <1>5, <1>6 DEF w, x, e, j

-----------------------------------------------------------------------------
(***************************************************************************)
(* The tables: the runs of states of the symbols follow one another and    *)
(* cover the first Total(freqs) states.                                    *)
(***************************************************************************)
Before(k) == 0 .. k - 1

LEMMA TableSums ==
    ASSUME NEW k \in Nat, NEW f \in [Before(k) -> Int], NEW D \in SUBSET Before(k)
    PROVE  IsFiniteSet(D) /\ Summable(f, D)
<1>1. IsFiniteSet(Before(k))
  BY FS_Interval DEF Before
<1>2. IsFiniteSet(D)
  BY <1>1, FS_Subset
<1> QED
  BY <1>2 DEF Summable

LEMMA Offsets ==
    ASSUME NEW k \in Nat, NEW f \in [Before(k) -> Nat]
    PROVE  /\ Offset(f, 0) = 0 /\ Total(f) = Offset(f, k) /\ Total(f) \in Int
           /\ \A s \in 0 .. k : Offset(f, s) \in Int
           /\ \A s \in Before(k) : Offset(f, s + 1) = Offset(f, s) + f[s]
<1>1. DOMAIN f = Before(k) /\ \A D \in SUBSET Before(k) : Summable(f, D)
  BY TableSums
<1>2. Offset(f, 0) = 0
  <2>1. {x \in DOMAIN f : x < 0} = {}
    BY <1>1 DEF Before
  <2> QED
    BY <2>1, SumEmpty DEF Offset
<1>3. Total(f) = Offset(f, k) /\ Total(f) \in Int
  <2>1. {x \in DOMAIN f : x < k} = DOMAIN f
    BY <1>1 DEF Before
  <2> QED
    BY <1>1, <2>1, SumIsInt DEF Offset, Total, SumFunction
<1>4. ASSUME NEW s \in 0 .. k PROVE Offset(f, s) \in Int
  <2>1. {x \in DOMAIN f : x < s} \in SUBSET Before(k)
    BY <1>1
  <2> QED
    BY <1>1, <2>1, SumIsInt DEF Offset
<1>5. ASSUME NEW s \in Before(k) PROVE Offset(f, s + 1) = Offset(f, s) + f[s]
  <2> DEFINE D == {x \in DOMAIN f : x < s + 1}
  <2>1. D \in SUBSET Before(k) /\ s \in D /\ D \ {s} = {x \in DOMAIN f : x < s}
    BY <1>1 DEF Before
  <2>2. SumFunctionOnSet(f, D) = f[s] + SumFunctionOnSet(f, D \ {s})
    <3> HIDE DEF D
    <3> QED
      BY <1>1, <2>1, SumRemove
  <2>3. SumFunctionOnSet(f, D \ {s}) \in Int
    <3>1. D \ {s} \in SUBSET Before(k)
      BY <2>1
    <3> HIDE DEF D
    <3> QED
      BY <1>1, <3>1, SumIsInt
  <2>4. f[s] \in Int
    OBVIOUS
  <2>5. Offset(f, s + 1) = SumFunctionOnSet(f, D) /\ Offset(f, s) = SumFunctionOnSet(f, D \ {s})
    BY <2>1 DEF Offset
  <2> HIDE DEF D
  <2> QED
    BY <2>2, <2>3, <2>4, <2>5
<1> QED
  BY <1>2, <1>3, <1>4, <1>5

LEMMA OffsetsGrow ==
    ASSUME NEW k \in Nat, NEW f \in [Before(k) -> Nat]
    PROVE  \A s \in 0 .. k : Offset(f, s) \in Nat /\ Offset(f, s) <= Total(f)
<1> DEFINE T == {m \in Nat : m <= k => Offset(f, m) \in Nat}
           U(s) == {m \in Nat : s + m <= k => Offset(f, s) <= Offset(f, s + m)}
<1>1. ASSUME NEW s \in 0 .. k PROVE Offset(f, s) \in Nat
  <2>1. 0 \in T
    BY Offsets
  <2>2. ASSUME NEW m \in Nat, m \in T PROVE m + 1 \in T
    <3> SUFFICES ASSUME m + 1 <= k PROVE Offset(f, m + 1) \in Nat
      OBVIOUS
    <3>1. m \in Before(k) /\ Offset(f, m) \in Nat
      BY <2>2 DEF Before
    <3>2. f[m] \in Nat /\ Offset(f, m + 1) = Offset(f, m) + f[m]
      BY <3>1, Offsets
    <3> QED
      BY <3>1, <3>2
  <2> HIDE DEF T
  <2>3. Nat \subseteq T
    BY <2>1, <2>2, Induction
  <2> QED
    BY <2>3 DEF T
<1>2. ASSUME NEW s \in 0 .. k PROVE Offset(f, s) <= Total(f)
  <2>1. 0 \in U(s)
    BY <1>1
  <2>2. ASSUME NEW m \in Nat, m \in U(s) PROVE m + 1 \in U(s)
    <3> SUFFICES ASSUME s + (m + 1) <= k PROVE Offset(f, s) <= Offset(f, s + (m + 1))
      OBVIOUS
    <3>1. s + m \in Before(k) /\ s + m \in 0 .. k /\ Offset(f, s) <= Offset(f, s + m)
          /\ s + (m + 1) = (s + m) + 1
      BY <2>2 DEF Before
    <3>2. f[s + m] \in Nat /\ Offset(f, (s + m) + 1) = Offset(f, s + m) + f[s + m]
      BY <3>1, Offsets
    <3>3. Offset(f, s) \in Nat /\ Offset(f, s + m) \in Nat
      BY <1>1, <3>1
    <3> QED
      BY <3>1, <3>2, <3>3
  <2> HIDE DEF U
  <2>3. Nat \subseteq U(s)
    BY <2>1, <2>2, Induction
  <2>4. k - s \in Nat /\ s + (k - s) = k
    OBVIOUS
  <2>5. Offset(f, s) <= Offset(f, s + (k - s))
    BY <2>3, <2>4 DEF U
  <2> QED
    BY <2>4, <2>5, Offsets
<1> QED
  BY <1>1, <1>2

\* A state below the total is in the run of some symbol.
LEMMA Tiled ==
    ASSUME NEW k \in Nat, NEW f \in [Before(k) -> Nat], NEW i \in Nat, i < Total(f)
    PROVE  \E s \in DOMAIN f : Offset(f, s) <= i /\ i < Offset(f, s) + f[s]
<1> DEFINE T == {m \in 0 .. k : i < Offset(f, m)}
<1>1. k \in T
  BY Offsets
<1>2. PICK m \in T : \A y \in T : m <= y
  <2>1. T \subseteq Nat /\ T # {}
    BY <1>1
  <2> HIDE DEF T
  <2> QED
    BY <2>1, Smallest
<1>3. m # 0
  BY Offsets
<1>4. m - 1 \in Before(k) /\ m - 1 \in 0 .. k /\ (m - 1) + 1 = m
  BY <1>3 DEF Before
<1>5. m - 1 \notin T
  BY <1>2, <1>4
<1>6. Offset(f, m - 1) <= i
  BY <1>4, <1>5, OffsetsGrow
<1>7. Offset(f, m) = Offset(f, m - 1) + f[m - 1]
  BY <1>4, Offsets
<1> QED
  BY <1>2, <1>4, <1>6, <1>7

\* The run of a symbol ends within the total.
LEMMA RunWithin ==
    ASSUME NEW k \in Nat, NEW f \in [Before(k) -> Nat], NEW s \in Before(k)
    PROVE  Offset(f, s) \in Nat /\ f[s] \in Nat /\ Offset(f, s) + f[s] <= Total(f)
<1>1. s \in 0 .. k /\ s + 1 \in 0 .. k
  BY DEF Before
<1>2. Offset(f, s) \in Nat /\ Offset(f, s + 1) <= Total(f)
  BY <1>1, OffsetsGrow
<1>3. Offset(f, s + 1) = Offset(f, s) + f[s]
  BY Offsets
<1> QED
  BY <1>2, <1>3

LEMMA TotalUpdate ==
    ASSUME NEW k \in Nat, NEW f \in [Before(k) -> Nat], NEW a \in Before(k), NEW v \in Nat
    PROVE  Total([f EXCEPT ![a] = v]) = Total(f) - f[a] + v
<1> DEFINE g == [f EXCEPT ![a] = v]
           D == Before(k)
<1>1. g \in [D -> Nat] /\ DOMAIN g = D /\ DOMAIN f = D /\ g[a] = v /\ f[a] \in Nat
      /\ \A x \in D \ {a} : g[x] = f[x]
  OBVIOUS
<1> HIDE DEF g
<1>2. Summable(f, D) /\ Summable(g, D) /\ Summable(f, D \ {a})
  BY <1>1, TableSums
<1> HIDE DEF D
<1>3. SumFunctionOnSet(f, D) = f[a] + SumFunctionOnSet(f, D \ {a})
      /\ SumFunctionOnSet(g, D) = g[a] + SumFunctionOnSet(g, D \ {a})
  BY <1>2, SumRemove DEF D
<1>4. SumFunctionOnSet(g, D \ {a}) = SumFunctionOnSet(f, D \ {a})
      /\ SumFunctionOnSet(f, D \ {a}) \in Int
  BY <1>1, <1>2, SumSame, SumIsInt
<1> QED
  BY <1>1, <1>3, <1>4 DEF g, Total, SumFunction
-----------------------------------------------------------------------------
(***************************************************************************)
(* Normalisation: whatever the counts, the shares add up to the states, and*)
(* a symbol has a share if and only if it occurs.                          *)
(***************************************************************************)
LEMMA LargerOf ==
    ASSUME NEW a \in Nat, NEW b \in Nat
    PROVE  Max({a, b}) \in Nat /\ Max({a, b}) >= a /\ Max({a, b}) >= b
<1>1. \E x \in {a, b} : \A y \in {a, b} : x >= y
  OBVIOUS
<1>2. Max({a, b}) \in {a, b} /\ \A y \in {a, b} : Max({a, b}) >= y
  BY <1>1 DEF Max
<1> QED
  BY <1>2

LEMMA SmallerOf ==
    ASSUME NEW a \in Nat, NEW b \in Nat
    PROVE  /\ Min({a, b}) \in Nat /\ Min({a, b}) <= a /\ Min({a, b}) <= b
           /\ Min({a, b}) \in {a, b}
<1>1. \E x \in {a, b} : \A y \in {a, b} : x =< y
  OBVIOUS
<1>2. Min({a, b}) \in {a, b} /\ \A y \in {a, b} : Min({a, b}) =< y
  BY <1>1 DEF Min
<1> QED
  BY <1>2

LEMMA RoundedIs ==
    ASSUME NEW r \in 0 .. PrecisionBits - 1, NEW count \in Nat, NEW sCount \in Nat \ {0}
    PROVE  Rounded(count, sCount, 2^r) \in Nat /\ (Rounded(count, sCount, 2^r) > 0 <=> count > 0)
<1> DEFINE p == 2^PrecisionBits
           d == 2^(PrecisionBits - 1 - r)
           m == p \div sCount
           scaled == (count * m) \div d
<1>1. p \in Nat \ {0} /\ d \in Nat \ {0}
  BY PowersOfTwo
<1>2. m \in Nat
  BY <1>1
<1>3. scaled \in Nat
  <2> HIDE DEF m, d
  <2>1. count * m \in Nat
    BY <1>2
  <2> QED
    BY <1>1, <2>1, Division
<1>4. (scaled + 1) \div 2 \in Nat
  <2> HIDE DEF scaled
  <2> QED
    BY <1>3
<1>5. Rounded(count, sCount, 2^r) = IF count = 0 THEN 0 ELSE Max({1, (scaled + 1) \div 2})
  BY Log2OfPower DEF Rounded
<1> HIDE DEF scaled
<1> QED
  BY <1>4, <1>5, LargerOf

\* Shares that name the same symbols as another table and exceed n by no more than excess.
Shares(k, n, f0) ==
    {a \in [freqs : [Before(k) -> Nat], excess : Nat] :
        /\ Total(a.freqs) = n + a.excess
        /\ \A s \in Before(k) : a.freqs[s] > 0 <=> f0[s] > 0}

\* fse_adjust_freqs at one symbol, having `spare` to take at most.
TakeBack(a, sym, spare) ==
    LET n == IF a.freqs[sym] > 1 THEN Min({spare, a.excess}) ELSE 0
    IN  [freqs |-> [a.freqs EXCEPT ![sym] = @ - n], excess |-> a.excess - n]

LEMMA TakeBackKeeps ==
    ASSUME NEW k \in Nat, NEW n \in Nat, NEW f0, NEW a \in Shares(k, n, f0), NEW sym \in Before(k),
           NEW spare, a.freqs[sym] > 1 => spare \in 0 .. a.freqs[sym] - 1
    PROVE  /\ TakeBack(a, sym, spare) \in Shares(k, n, f0)
           /\ \A s \in Before(k) : s # sym => TakeBack(a, sym, spare).freqs[s] = a.freqs[s]
           /\ a.excess = 0 => TakeBack(a, sym, spare).excess = 0
           /\ spare = a.freqs[sym] - 1 =>
                TakeBack(a, sym, spare).freqs[sym] <= 1 \/ TakeBack(a, sym, spare).excess = 0
<1> DEFINE f == a.freqs
           e == a.excess
           m == IF f[sym] > 1 THEN Min({spare, e}) ELSE 0
           v == f[sym] - m
           g == [f EXCEPT ![sym] = v]
<1>1. f \in [Before(k) -> Nat] /\ e \in Nat /\ Total(f) = n + e
      /\ \A s \in Before(k) : f[s] > 0 <=> f0[s] > 0
  BY DEF Shares
<1>2. f[sym] \in Nat
  BY <1>1
<1>3. m \in Nat /\ m <= e /\ v \in Nat /\ v <= f[sym] /\ (v > 0 <=> f[sym] > 0)
      /\ (spare = f[sym] - 1 => v <= 1 \/ m = e)
  <2>1. CASE f[sym] > 1
    <3>1. spare \in Nat /\ spare <= f[sym] - 1
      BY <1>2, <2>1
    <3>2. m = Min({spare, e})
      BY <2>1
    <3> HIDE DEF m
    <3>3. m \in Nat /\ m <= spare /\ m <= e /\ (m = spare \/ m = e)
      BY <1>1, <3>1, <3>2, SmallerOf
    <3> HIDE DEF f, e
    <3> QED
      BY <1>2, <2>1, <3>1, <3>3
  <2>2. CASE ~ (f[sym] > 1)
    BY <1>1, <1>2, <2>2
  <2> QED
    BY <2>1, <2>2
<1>4. TakeBack(a, sym, spare) = [freqs |-> g, excess |-> e - m]
  BY DEF TakeBack
<1> HIDE DEF m, f, e
<1>5. g \in [Before(k) -> Nat] /\ g[sym] = v /\ \A s \in Before(k) : s # sym => g[s] = f[s]
  BY <1>1, <1>3
<1>6. Total(g) = n + (e - m)
  <2>1. Total(g) = Total(f) - f[sym] + v
    BY <1>1, <1>3, TotalUpdate
  <2> QED
    BY <1>1, <1>2, <1>3, <2>1
<1>7. e - m \in Nat
  BY <1>1, <1>3
<1>8. \A s \in Before(k) : g[s] > 0 <=> f0[s] > 0
  BY <1>1, <1>3, <1>5
<1> HIDE DEF g
<1>9. TakeBack(a, sym, spare) \in Shares(k, n, f0)
  BY <1>4, <1>5, <1>6, <1>7, <1>8 DEF Shares
<1> QED
  BY <1>1, <1>3, <1>4, <1>5, <1>9 DEF f, e

\* A table no symbol of which has more than one state has no more than symbols.
LEMMA OnesAtMost ==
    ASSUME NEW k \in Nat, NEW f \in [Before(k) -> Nat], \A s \in Before(k) : f[s] <= 1
    PROVE  Total(f) <= k
<1> DEFINE T == {m \in Nat : m <= k => Offset(f, m) <= m}
<1>1. 0 \in T
  BY Offsets
<1>2. ASSUME NEW m \in Nat, m \in T PROVE m + 1 \in T
  <2> SUFFICES ASSUME m + 1 <= k PROVE Offset(f, m + 1) <= m + 1
    OBVIOUS
  <2>1. m \in Before(k) /\ m \in 0 .. k /\ Offset(f, m) <= m
    BY <1>2 DEF Before
  <2>2. f[m] \in Nat /\ f[m] <= 1 /\ Offset(f, m + 1) = Offset(f, m) + f[m] /\ Offset(f, m) \in Int
    BY <2>1, Offsets
  <2> QED
    BY <2>1, <2>2
<1> HIDE DEF T
<1>3. Nat \subseteq T
  BY <1>1, <1>2, Induction
<1>4. Offset(f, k) <= k
  BY <1>3 DEF T
<1> QED
  BY <1>4, Offsets

\* The four passes: what the eighth, quarter, half and all of what a symbol can
\* spare are.
Spare(f, sym, pass) == (f[sym] - 1) \div 2^(3 - pass)

LEMMA SpareIs ==
    ASSUME 3 <= PrecisionBits, NEW k \in Nat, NEW f \in [Before(k) -> Nat], NEW sym \in Before(k),
           NEW pass \in 0 .. 3, f[sym] > 1
    PROVE  Spare(f, sym, pass) \in 0 .. f[sym] - 1 /\ Spare(f, sym, 3) = f[sym] - 1
<1> DEFINE x == f[sym] - 1
           p == 2^(3 - pass)
<1>1. x \in Nat
  OBVIOUS
<1>2. p \in Nat \ {0} /\ 2^(3 - 3) = 1
  BY PowersOfTwo
<1> HIDE DEF x, p
<1>3. x \div p \in Nat /\ x \div p <= x
  <2>1. x \div p \in Nat /\ x = (x \div p) * p + (x % p) /\ x % p \in 0 .. p - 1
    BY <1>1, <1>2, Division
  <2> DEFINE q == x \div p
  <2> HIDE DEF q
  <2>2. 1 * q <= p * q /\ p * q = q * p
    BY <1>2, <2>1, Times, SMTT(30) DEF q
  <2> QED
    BY <1>1, <1>2, <2>1, <2>2 DEF q
<1>4. x \div 1 = x
  BY <1>1
<1> QED
  BY <1>1, <1>2, <1>3, <1>4 DEF Spare, x, p

LEMMA AdjustFreqsIs ==
    ASSUME 3 <= PrecisionBits, NEW n \in Nat, NEW f,
           Cardinality(DOMAIN f) \in 1 .. n, f \in [Before(Cardinality(DOMAIN f)) -> Nat],
           NEW excess \in Nat, Total(f) = n + excess
    PROVE  /\ AdjustFreqs(f, excess) \in [DOMAIN f -> Nat] /\ Total(AdjustFreqs(f, excess)) = n
           /\ \A s \in DOMAIN f : AdjustFreqs(f, excess)[s] > 0 <=> f[s] > 0
<1> DEFINE k == Cardinality(DOMAIN f)
           R == Shares(k, n, f)
           base == [freqs |-> f, excess |-> excess]
           sym(t) == (t - 1) % k
           pass(t) == (t - 1) \div k
           One(a, t) == TakeBack(a, sym(t), Spare(a.freqs, sym(t), pass(t)))
           G == [t \in 1 .. 4 * k |-> [a \in R |-> One(a, t)]]
           Rounds(g) == [t \in 0 .. 4 * k |-> IF t = 0 THEN base ELSE One(g[t - 1], t)]
           adjusted == CHOOSE g : g = Rounds(g)
<1>1. /\ k \in Nat \ {0} /\ 4 * k \in Nat /\ k <= n
      /\ f \in [Before(k) -> Nat] /\ DOMAIN f = Before(k)
  OBVIOUS
<1>2. AdjustFreqs(f, excess) = adjusted[4 * k].freqs
  BY DEF AdjustFreqs, TakeBack, Spare
<1> HIDE DEF k
<1>3. ASSUME NEW t \in 1 .. 4 * k PROVE sym(t) \in Before(k) /\ pass(t) \in 0 .. 3
  <2>1. t - 1 \in Nat /\ t - 1 < 4 * k
    BY <1>1
  <2>2. (t - 1) \div k < 4 /\ (t - 1) \div k \in Nat /\ (t - 1) % k \in 0 .. k - 1
    BY <1>1, <2>1, QuotientBelow, Division
  <2> QED
    BY <2>2 DEF Before
<1>4. base \in R
  BY <1>1 DEF Shares
<1>5. ASSUME NEW t \in 1 .. 4 * k, NEW a \in R PROVE One(a, t) \in R
  <2> DEFINE s == sym(t)
             q == pass(t)
  <2>1. s \in Before(k) /\ q \in 0 .. 3
    BY <1>3
  <2> HIDE DEF s, q
  <2>2. a.freqs \in [Before(k) -> Nat]
    BY DEF Shares
  <2>3. a.freqs[s] > 1 => Spare(a.freqs, s, q) \in 0 .. a.freqs[s] - 1
    BY <1>1, <2>1, <2>2, SpareIs
  <2> QED
    BY <1>1, <2>1, <2>3, TakeBackKeeps DEF s, q
<1> HIDE DEF R, One
<1>6. Extends(G, 4 * k, R)
  BY <1>5 DEF Extends
<1>7. PICK g \in [0 .. 4 * k -> R] : Chains(g, base, 4 * k, G)
  <2> HIDE DEF G, base
  <2> QED
    BY <1>1, <1>4, <1>6, ChainExists
<1>8. g = Rounds(g)
  <2>1. ASSUME NEW t \in 0 .. 4 * k PROVE g[t] = IF t = 0 THEN base ELSE One(g[t - 1], t)
    <3>1. CASE t = 0
      BY <1>7, <3>1 DEF Chains
    <3>2. CASE t # 0
      <4>1. t \in 1 .. 4 * k /\ t - 1 \in 0 .. 4 * k
        BY <1>1, <3>2
      <4>2. g[t] = G[t][g[t - 1]] /\ g[t - 1] \in R
        BY <1>7, <4>1 DEF Chains
      <4> QED
        BY <3>2, <4>1, <4>2
    <3> QED
      BY <3>1, <3>2
  <2> QED
    BY <1>7, <2>1
<1>9. adjusted = Rounds(adjusted)
  <2> HIDE DEF Rounds
  <2> QED
    BY <1>8
<1>10. \A t \in 0 .. 4 * k : adjusted[t] = IF t = 0 THEN base ELSE One(adjusted[t - 1], t)
  <2> HIDE DEF adjusted
  <2> QED
    BY <1>9
<1> HIDE DEF adjusted
<1> DEFINE T == {t \in Nat : t <= 4 * k => adjusted[t] \in R}
<1>11. 0 \in T
  BY <1>1, <1>4, <1>10
<1>12. ASSUME NEW t \in Nat, t \in T PROVE t + 1 \in T
  <2> SUFFICES ASSUME t + 1 <= 4 * k PROVE adjusted[t + 1] \in R
    OBVIOUS
  <2>1. adjusted[t] \in R /\ t + 1 \in 1 .. 4 * k /\ t + 1 # 0 /\ (t + 1) - 1 = t
    BY <1>1, <1>12
  <2>2. adjusted[t + 1] = One(adjusted[t], t + 1)
    BY <1>10, <2>1
  <2> QED
    BY <1>5, <2>1, <2>2
<1> HIDE DEF T
<1>13. \A t \in 0 .. 4 * k : adjusted[t] \in R
  <2>1. Nat \subseteq T
    BY <1>11, <1>12, Induction
  <2> QED
    BY <2>1 DEF T
\* The last pass leaves a symbol one state, or nothing to take.
<1> DEFINE Spent(a, j) == a.excess = 0 \/ \A s \in Before(j) : a.freqs[s] <= 1
           U == {j \in Nat : j <= k => Spent(adjusted[3 * k + j], j)}
<1>14. 0 \in U
  BY DEF Before
<1>15. ASSUME NEW j \in Nat, j \in U PROVE j + 1 \in U
  <2> SUFFICES ASSUME j + 1 <= k PROVE Spent(adjusted[3 * k + (j + 1)], j + 1)
    OBVIOUS
  <2> DEFINE t == 3 * k + (j + 1)
             a == adjusted[3 * k + j]
             b == adjusted[t]
  <2>1. t \in 1 .. 4 * k /\ t # 0 /\ t - 1 = 3 * k + j /\ 3 * k + j \in 0 .. 4 * k /\ j \in 0 .. k - 1
    BY <1>1
  <2>2. b = One(a, t) /\ a \in R
    BY <1>10, <1>13, <2>1
  <2>3. sym(t) = j /\ pass(t) = 3
    <3>1. (3 * k + j) \div k = 3 /\ (3 * k + j) % k = j
      BY <1>1, <2>1, Quotient
    <3> QED
      BY <2>1, <3>1
  <2>4. Spent(a, j)
    BY <1>1, <1>15, <2>1
  <2>5. b = TakeBack(a, j, Spare(a.freqs, j, 3))
    BY <2>2, <2>3 DEF One
  <2> HIDE DEF a, b, t
  <2>6. j \in Before(k)
    BY <2>1 DEF Before
  <2>7. a.freqs \in [Before(k) -> Nat] /\ a \in Shares(k, n, f)
    BY <2>2 DEF R, Shares
  <2>8. a.freqs[j] > 1 => Spare(a.freqs, j, 3) = a.freqs[j] - 1
    BY <1>1, <2>6, <2>7, SpareIs, SMTT(30)
  <2>9. CASE a.freqs[j] > 1
    <3>1. Spare(a.freqs, j, 3) \in 0 .. a.freqs[j] - 1 /\ Spare(a.freqs, j, 3) = a.freqs[j] - 1
      BY <2>6, <2>7, <2>8, <2>9
    <3>2. /\ \A s \in Before(k) : s # j => b.freqs[s] = a.freqs[s]
          /\ a.excess = 0 => b.excess = 0
          /\ b.freqs[j] <= 1 \/ b.excess = 0
      BY <1>1, <2>5, <2>6, <2>7, <3>1, TakeBackKeeps
    <3>3. \A s \in Before(j + 1) : s = j \/ (s \in Before(j) /\ s \in Before(k) /\ s # j)
      BY <1>1, <2>1 DEF Before
    <3> QED
      BY <2>4, <3>2, <3>3 DEF b, t
  <2>10. CASE ~ (a.freqs[j] > 1)
    <3>1. b.freqs = [a.freqs EXCEPT ![j] = a.freqs[j] - 0] /\ b.excess = a.excess - 0
      BY <2>5, <2>10 DEF TakeBack
    <3>2. a.freqs[j] \in Nat /\ a.excess \in Nat
      BY <2>6, <2>7 DEF Shares
    <3>3. a.freqs[j] - 0 = a.freqs[j] /\ b.excess = a.excess /\ a.freqs[j] <= 1
      BY <2>10, <3>1, <3>2
    <3>5. b.freqs = a.freqs
      <4> DEFINE own == a.freqs
      <4>1. own \in [Before(k) -> Nat]
        BY <2>7
      <4> HIDE DEF own
      <4>2. [own EXCEPT ![j] = own[j]] = own
        BY <4>1
      <4> QED
        BY <3>1, <3>3, <4>2 DEF own
    <3>4. \A s \in Before(j + 1) : s = j \/ s \in Before(j)
      BY <2>1 DEF Before
    <3> QED
      BY <2>4, <3>3, <3>5, <3>4 DEF b, t
  <2> QED
    BY <2>9, <2>10
<1> HIDE DEF U
<1>16. Spent(adjusted[4 * k], k)
  <2>1. Nat \subseteq U
    BY <1>14, <1>15, Induction
  <2>2. 3 * k + k = 4 * k
    BY <1>1
  <2> QED
    BY <1>1, <2>1, <2>2 DEF U
<1> DEFINE last == adjusted[4 * k]
<1>17. last \in Shares(k, n, f)
  BY <1>1, <1>13 DEF R
<1> HIDE DEF last
<1>18. last.freqs \in [Before(k) -> Nat] /\ last.excess \in Nat /\ Total(last.freqs) = n + last.excess
  BY <1>17 DEF Shares
<1>19. last.excess = 0
  <2>1. CASE \A s \in Before(k) : last.freqs[s] <= 1
    <3>1. Total(last.freqs) <= k
      BY <1>1, <1>18, <2>1, OnesAtMost
    <3> QED
      BY <1>1, <1>18, <3>1
  <2> QED
    BY <1>16, <2>1 DEF last
<1>20. /\ last.freqs \in [Before(k) -> Nat] /\ Total(last.freqs) = n
       /\ \A s \in Before(k) : last.freqs[s] > 0 <=> f[s] > 0
  BY <1>17, <1>18, <1>19 DEF Shares
<1> QED
  BY <1>1, <1>2, <1>20 DEF last

Normal(freqs, counts, n) ==
    /\ freqs \in [DOMAIN counts -> Nat] /\ Total(freqs) = n
    /\ \A s \in DOMAIN counts : freqs[s] > 0 <=> counts[s] > 0

LEMMA NormalizeFreqIs ==
    ASSUME 3 <= PrecisionBits, NEW r \in 0 .. PrecisionBits - 1, NEW k \in 1 .. 2^r,
           NEW counts \in [Before(k) -> Nat], NEW some \in Before(k), counts[some] > 0
    PROVE  Normal(NormalizeFreq(counts, 2^r), counts, 2^r)
<1> DEFINE n == 2^r
           sCount == Total(counts)
           rounded == [s \in DOMAIN counts |-> Rounded(counts[s], sCount, n)]
           remaining == n - Total(rounded)
           maxFreq == Max(Range(rounded))
           maxFreqSym == Min({s \in DOMAIN counts : rounded[s] = maxFreq})
<1>1. n \in Nat /\ k \in Nat /\ k \in 1 .. n /\ DOMAIN counts = Before(k)
  <2>1. r \in 0 .. PrecisionBits
    BY PowersOfTwo
  <2> QED
    BY <2>1, PowersOfTwo
<1>2. sCount \in Nat \ {0}
  <2>1. Offset(counts, some) \in Nat /\ counts[some] \in Nat /\ Offset(counts, some) + counts[some] <= sCount
        /\ sCount \in Int
    BY <1>1, RunWithin, Offsets
  <2> HIDE DEF sCount
  <2> QED
    BY <2>1
<1> HIDE DEF sCount
<1>3. ASSUME NEW s \in Before(k)
      PROVE  rounded[s] \in Nat /\ (rounded[s] > 0 <=> counts[s] > 0)
  <2>1. counts[s] \in Nat /\ rounded[s] = Rounded(counts[s], sCount, 2^r)
    BY <1>1
  <2> QED
    BY <1>2, <2>1, RoundedIs
<1>4. rounded \in [Before(k) -> Nat] /\ DOMAIN rounded = Before(k)
  BY <1>1, <1>3
<1>5. NormalizeFreq(counts, n) = IF -remaining < maxFreq \div 4
                                 THEN [rounded EXCEPT ![maxFreqSym] = @ + remaining]
                                 ELSE AdjustFreqs(rounded, -remaining)
  BY DEF NormalizeFreq, sCount
<1> HIDE DEF n, rounded
<1>6. Total(rounded) \in Nat /\ \A s \in Before(k) : rounded[s] <= Total(rounded)
  <2>1. Total(rounded) \in Nat
    <3>1. k \in 0 .. k
      BY <1>1
    <3> QED
      BY <1>1, <1>4, <3>1, Offsets, OffsetsGrow
  <2>2. ASSUME NEW s \in Before(k) PROVE rounded[s] <= Total(rounded)
    <3>1. Offset(rounded, s) \in Nat /\ rounded[s] \in Nat
          /\ Offset(rounded, s) + rounded[s] <= Total(rounded)
      BY <1>1, <1>4, RunWithin
    <3> QED
      BY <2>1, <3>1
  <2> QED
    BY <2>1, <2>2
<1>7. /\ maxFreq \in Nat /\ \A s \in Before(k) : rounded[s] <= maxFreq
      /\ \E s \in Before(k) : rounded[s] = maxFreq
  <2> DEFINE S == Range(rounded)
  <2>1. S \subseteq 0 .. Total(rounded) /\ S # {}
    BY <1>3, <1>4, <1>6 DEF Range
  <2>2. Max(S) \in S /\ \A y \in S : Max(S) >= y
    <3> HIDE DEF S
    <3> QED
      BY <1>6, <2>1, MaxIs
  <2>3. \A s \in Before(k) : rounded[s] \in S
    BY <1>4 DEF Range
  <2>4. \A y \in S : \E s \in Before(k) : rounded[s] = y
    BY <1>4 DEF Range
  <2> HIDE DEF S
  <2>5. Max(S) \in Nat
    <3>1. Max(S) \in 0 .. Total(rounded)
      BY <2>1, <2>2
    <3> HIDE DEF S
    <3> QED
      BY <1>6, <3>1
  <2> QED
    BY <1>3, <2>2, <2>3, <2>4, <2>5 DEF S
<1> HIDE DEF maxFreq
<1>8. maxFreqSym \in Before(k) /\ rounded[maxFreqSym] = maxFreq
  <2> DEFINE S == {s \in DOMAIN counts : rounded[s] = maxFreq}
  <2>1. S \subseteq Nat /\ S # {}
    <3>1. \A s \in Before(k) : s \in Nat
      BY <1>1 DEF Before
    <3>2. DOMAIN counts = Before(k) /\ \E s \in Before(k) : rounded[s] = maxFreq
      BY <1>1, <1>7
    <3> QED
      BY <3>1, <3>2
  <2>2. \E x \in S : \A y \in S : x =< y
    <3> HIDE DEF S
    <3> QED
      BY <2>1, Smallest
  <2>3. Min(S) \in S
    <3> HIDE DEF S
    <3> QED
      BY <2>2 DEF Min
  <2> QED
    BY <1>1, <2>3
<1> HIDE DEF maxFreqSym
<1>9. maxFreq > 0 /\ counts[maxFreqSym] > 0
  <2>1. rounded[some] > 0 /\ rounded[some] \in Nat
    BY <1>3
  <2>2. maxFreq > 0
    BY <1>7, <2>1
  <2> QED
    BY <1>3, <1>8, <2>2
<1>10. CASE -remaining < maxFreq \div 4
  <2> DEFINE v == maxFreq + remaining
             f == [rounded EXCEPT ![maxFreqSym] = v]
  <2>1. v \in Nat /\ v > 0 /\ remaining \in Int
    <3>1. maxFreq \div 4 <= maxFreq
      BY <1>7
    <3> QED
      BY <1>1, <1>6, <1>7, <1>9, <1>10, <3>1
  <2>2. NormalizeFreq(counts, n) = f
    <3>1. f = [rounded EXCEPT ![maxFreqSym] = @ + remaining]
      BY <1>4, <1>8
    <3> HIDE DEF f
    <3> QED
      BY <1>5, <1>10, <3>1
  <2>3. Total(f) = n
    <3> HIDE DEF v
    <3>1. Total(f) = Total(rounded) - rounded[maxFreqSym] + v
      BY <1>1, <1>4, <1>8, <2>1, TotalUpdate
    <3>2. Total(f) = Total(rounded) - maxFreq + v
      BY <1>8, <3>1
    <3> QED
      BY <1>1, <1>6, <1>7, <3>2 DEF v
  <2>4. f \in [Before(k) -> Nat]
    <3> HIDE DEF v
    <3> QED
      BY <1>4, <1>8, <2>1
  <2>5. ASSUME NEW s \in Before(k) PROVE f[s] > 0 <=> counts[s] > 0
    <3> HIDE DEF v
    <3> QED
      BY <1>3, <1>4, <1>8, <1>9, <2>1
  <2> HIDE DEF f
  <2> QED
    BY <1>1, <2>2, <2>3, <2>4, <2>5 DEF Normal, n
<1>11. CASE ~ (-remaining < maxFreq \div 4)
  <2> DEFINE f == AdjustFreqs(rounded, -remaining)
  <2>1. -remaining \in Nat /\ Total(rounded) = n + (-remaining)
    <3>1. maxFreq \div 4 \in Nat
      BY <1>7
    <3> QED
      BY <1>1, <1>6, <1>11, <3>1
  <2>2. Cardinality(DOMAIN rounded) = k
    BY <1>1, <1>4, FS_Interval DEF Before
  <2> HIDE DEF remaining
  <2>3. f \in [Before(k) -> Nat] /\ Total(f) = n /\ \A s \in Before(k) : f[s] > 0 <=> rounded[s] > 0
    BY <1>1, <1>4, <2>1, <2>2, AdjustFreqsIs
  <2>4. NormalizeFreq(counts, n) = f
    BY <1>5, <1>11
  <2> HIDE DEF f
  <2> QED
    BY <1>1, <1>3, <2>3, <2>4 DEF Normal, n
<1> QED
  BY <1>10, <1>11
-----------------------------------------------------------------------------
(***************************************************************************)
(* The tables of a block: whatever bits are read in any state of a table,  *)
(* the next state is one of the table, and a value has MaxBits at most.    *)
(***************************************************************************)
LEMMA WordIs ==
    /\ WordBits \in Nat /\ ByteBits \in Nat \ {0} /\ WordBytes \in Nat /\ WordBytes > 1
    /\ WordBits = ByteBits * WordBytes /\ ByteBits < WordBits /\ WordBits - ByteBits \in Nat
<1>1. ByteBits \in Nat \ {0} /\ WordBytes \in Nat /\ WordBytes > 1
  BY BitStreamsAssumption
<1>2. 2 * ByteBits <= WordBytes * ByteBits /\ WordBytes * ByteBits \in Nat
  BY <1>1, Times
<1>3. WordBits = WordBytes * ByteBits
  BY <1>1 DEF WordBits
<1> QED
  BY <1>1, <1>2, <1>3 DEF WordBits

LEMMA WordPowers ==
    ASSUME NEW i \in Nat, NEW j \in Nat, i + j <= WordBits
    PROVE  2^i \in Nat \ {0} /\ 2^j \in Nat \ {0} /\ 2^(i + j) = 2^i * 2^j
<1>1. i \in 0 .. WordBits /\ j \in 0 .. WordBits
  BY WordIs
<1> QED
  BY <1>1, EntropyAssumption

LEMMA WordPower ==
    ASSUME NEW i \in Nat, i <= WordBits
    PROVE  2^i \in Nat \ {0}
<1>1. i \in 0 .. WordBits
  BY WordIs
<1> QED
  BY <1>1, EntropyAssumption

LEMMA TheCoders == Range(Coders) = {"l", "m", "d", "lit"}
<1>1. DOMAIN Coders = 1 .. 4 /\ Coders[1] = "l" /\ Coders[2] = "m" /\ Coders[3] = "d" /\ Coders[4] = "lit"
  BY DEF Coders
<1>2. \A i \in 1 .. 4 : i = 1 \/ i = 2 \/ i = 3 \/ i = 4
  OBVIOUS
<1> QED
  BY <1>1, <1>2 DEF Range

CoderIs(c, r) ==
    /\ NStates[c] = 2^r /\ NStates[c] \in Nat \ {0} /\ NSym(c) \in 1 .. NStates[c]
    /\ DOMAIN Base[c] = Before(NSym(c)) /\ Base[c] \in [Before(NSym(c)) -> Nat]
    /\ MaxBits(c) \in Nat /\ r <= MaxBits(c)
    /\ \A s \in Before(NSym(c)) : Extra[c][s] \in 0 .. PrecisionBits /\ r + Extra[c][s] <= MaxBits(c)

LEMMA CoderFacts ==
    ASSUME NEW c \in Range(Coders)
    PROVE  \E r \in 0 .. PrecisionBits - 1 : CoderIs(c, r)
<1>1. PICK r \in 0 .. PrecisionBits - 1 : NStates[c] = 2^r
  BY EntropyAssumption
<1>2. /\ NSym(c) \in 1 .. NStates[c] /\ DOMAIN Base[c] = 0 .. NSym(c) - 1
      /\ Base[c] \in [DOMAIN Base[c] -> Nat] /\ Extra[c] \in [DOMAIN Base[c] -> 0 .. PrecisionBits]
  BY EntropyAssumption
<1>3. NStates[c] \in Nat \ {0} /\ Log2(NStates[c]) = r /\ PrecisionBits \in Nat
  BY <1>1, Log2OfPower, PowersOfTwo
<1> DEFINE S == Range(Extra[c])
<1>4. S \subseteq 0 .. PrecisionBits /\ S # {} /\ \A s \in Before(NSym(c)) : Extra[c][s] \in S
  <2>1. 0 \in DOMAIN Base[c] /\ DOMAIN Extra[c] = DOMAIN Base[c]
    BY <1>2, <1>3
  <2> QED
    BY <1>2, <2>1 DEF Range, Before
<1>5. Max(S) \in S /\ \A y \in S : Max(S) >= y
  <2> HIDE DEF S
  <2> QED
    BY <1>3, <1>4, MaxIs
<1>6. MaxBits(c) = r + Max(S)
  BY <1>3 DEF MaxBits
<1> HIDE DEF S
<1>7. Max(S) \in 0 .. PrecisionBits
  BY <1>4, <1>5
<1>8. ASSUME NEW s \in Before(NSym(c))
      PROVE  Extra[c][s] \in 0 .. PrecisionBits /\ r + Extra[c][s] <= MaxBits(c)
  <2>1. Extra[c][s] \in S
    BY <1>4
  <2>2. Extra[c][s] \in 0 .. PrecisionBits /\ Extra[c][s] <= Max(S)
    BY <1>4, <1>5, <2>1
  <2> QED
    BY <1>6, <1>7, <2>2
<1>9. MaxBits(c) \in Nat /\ r <= MaxBits(c)
  BY <1>6, <1>7
<1> QED
  BY <1>1, <1>2, <1>3, <1>8, <1>9 DEF CoderIs, Before

LEMMA MaxBitsFit ==
    ASSUME NEW c \in Range(Coders)
    PROVE  MaxBits(c) \in Nat /\ MaxBits(c) <= WordBits - ByteBits
<1>1. \A x \in Range(Coders) : MaxBits(x) \in Nat
  BY CoderFacts DEF CoderIs
<1>2. MaxBits("l") \in Nat /\ MaxBits("m") \in Nat /\ MaxBits("d") \in Nat /\ MaxBits("lit") \in Nat
  BY <1>1, TheCoders
<1>3. MaxBits("lit") <= WordBits - ByteBits
  <2>1. 1 * MaxBits("lit") <= Lanes * MaxBits("lit") /\ Lanes * MaxBits("lit") \in Nat
    <3>1. Lanes \in Nat /\ 1 <= Lanes
      BY EntropyAssumption
    <3> QED
      BY <1>2, <3>1, Times
  <2>2. Lanes * MaxBits("lit") <= WordBits - ByteBits
    BY EntropyAssumption
  <2> QED
    BY <1>2, <2>1, <2>2, WordIs
<1>4. MaxBits("l") + MaxBits("m") <= WordBits - ByteBits /\ MaxBits("d") <= WordBits - ByteBits
  BY EntropyAssumption
<1>5. MaxBits("l") <= WordBits - ByteBits /\ MaxBits("m") <= WordBits - ByteBits
  BY <1>2, <1>4, WordIs
<1> QED
  BY <1>2, <1>3, <1>4, <1>5, TheCoders

\* An entry of a table of n states that takes no more than w bits.
EntryOK(e, n, w) ==
    /\ e.totalBits \in Nat /\ e.valueBits \in Nat /\ e.totalBits <= w /\ e.vbase \in Nat
    /\ 2^e.valueBits \in Nat \ {0}
    /\ \A b \in 0 .. 2^e.totalBits - 1 : e.delta + b \div 2^e.valueBits \in 0 .. n - 1

LEMMA EntryIsOK ==
    ASSUME NEW r \in 0 .. PrecisionBits - 1, NEW freqs, NEW sym, freqs[sym] \in 1 .. 2^r,
           NEW j \in 0 .. freqs[sym] - 1, NEW extra, NEW base, extra[sym] \in Nat,
           base[sym] \in Nat, NEW w \in Nat, r + extra[sym] <= w, w <= WordBits
    PROVE  EntryOK(Entry(freqs, sym, j, 2^r, extra, base), 2^r, w)
<1> DEFINE f == freqs[sym]
           step == Step(f, j, 2^r)
           x == extra[sym]
           k == Shift(f, 2^r)
           n == 2^r
<1>1. step.bits \in {k, k - 1}
  BY DEF Step
<1>2. k \in 0 .. r
  BY ShiftFacts
<1>3. step.bits \in Nat /\ \A b \in 0 .. 2^step.bits - 1 : step.delta + b \in 0 .. 2^r - 1
  <2>1. r \in 0 .. PrecisionBits /\ 2^r \in Nat \ {0}
    BY PowersOfTwo
  <2>2. f \in Nat \ {0} /\ f \in 1 .. 2^r
    BY <2>1
  <2>3. k \in Nat /\ 2^k \in Nat \ {0} /\ (k # 0 => 2^(k - 1) \in Nat \ {0})
    BY <2>1, Cut
  <2>4. step.bits \in Nat
    <3>2. CASE step.bits = k
      BY <2>3, <3>2
    <3>3. CASE step.bits # k
      <4>1. step.bits = k - 1
        BY <1>1, <3>3
      <4>2. k # 0
        <5>1. SUFFICES ASSUME k = 0 PROVE FALSE
          OBVIOUS
        <5>2. k = 0 => f = 2^(r - k) /\ 2^r = 2^(r - k)
          BY Cut
        <5>3. (2 * 2^r) \div 2^k = 2 * 2^(r - k)
          BY Cut
        <5>4. j < (2 * 2^r) \div 2^k - f
          BY <2>1, <2>2, <5>1, <5>2, <5>3
        <5>5. step.bits = k
          BY <5>4 DEF Step
        <5> QED
          BY <3>3, <5>5
      <4> QED
        BY <1>2, <4>1, <4>2
    <3> QED
      BY <3>2, <3>3
  <2> QED
    BY <2>4, StepStaysInTable
<1>4. /\ Entry(freqs, sym, j, 2^r, extra, base).totalBits = step.bits + x
      /\ Entry(freqs, sym, j, 2^r, extra, base).valueBits = x
      /\ Entry(freqs, sym, j, 2^r, extra, base).delta = step.delta
      /\ Entry(freqs, sym, j, 2^r, extra, base).vbase = base[sym]
  BY DEF Entry
<1> DEFINE e == Entry(freqs, sym, j, 2^r, extra, base)
<1> HIDE DEF e, step, f, k
<1>5. step.bits + x \in Nat /\ step.bits + x <= w
  BY <1>1, <1>2, <1>3
<1>6. ASSUME NEW b \in 0 .. 2^e.totalBits - 1
      PROVE  e.delta + b \div 2^e.valueBits \in 0 .. 2^r - 1
  <2>1. 2^step.bits \in Nat \ {0} /\ 2^x \in Nat \ {0} /\ 2^e.totalBits = 2^step.bits * 2^x
    <3>1. step.bits + x <= WordBits
      BY <1>5, WordIs
    <3> QED
      BY <1>3, <1>4, <3>1, WordPowers DEF e
  <2> DEFINE p == 2^step.bits
             q == 2^x
  <2>2. p \in Nat \ {0} /\ q \in Nat \ {0} /\ b \in Nat /\ b < p * q
    <3>1. p * q \in Nat
      BY <2>1
    <3> QED
      BY <2>1, <3>1
  <2> HIDE DEF p, q
  <2>3. b \div q < p /\ b \div q \in Nat
    BY <2>2, QuotientBelow, Division
  <2>4. b \div q \in 0 .. p - 1
    BY <2>2, <2>3
  <2> QED
    BY <1>3, <1>4, <2>4 DEF p, q, e
<1>7. 2^x \in Nat \ {0}
  BY <1>1, <1>3, <1>5, WordPowers, WordIs
<1> QED
  BY <1>4, <1>5, <1>6, <1>7 DEF EntryOK, e

TableOK(t, c) == \A i \in 0 .. NStates[c] - 1 : EntryOK(t[i], NStates[c], MaxBits(c))

LEMMA ZeroTableOK ==
    ASSUME NEW c \in Range(Coders)
    PROVE  TableOK(ZeroTable(NStates[c]), c)
<1> SUFFICES ASSUME NEW i \in 0 .. NStates[c] - 1
             PROVE  EntryOK(ZeroTable(NStates[c])[i], NStates[c], MaxBits(c))
  BY DEF TableOK
<1> DEFINE e == ZeroTable(NStates[c])[i]
<1>1. NStates[c] \in Nat \ {0} /\ MaxBits(c) \in Nat
  BY CoderFacts DEF CoderIs
<1>2. e.totalBits = 0 /\ e.valueBits = 0 /\ e.delta = 0 /\ e.vbase = 0
  BY DEF ZeroTable
<1> HIDE DEF e
<1>3. 2^e.totalBits = 1 /\ 2^e.valueBits = 1
  BY <1>2, PowersOfTwo
<1>4. ASSUME NEW b \in 0 .. 2^e.totalBits - 1
      PROVE  e.delta + b \div 2^e.valueBits \in 0 .. NStates[c] - 1
  <2>1. b = 0 /\ b \div 2^e.valueBits = 0
    BY <1>3
  <2> QED
    BY <1>1, <1>2, <2>1
<1> QED
  BY <1>1, <1>2, <1>3, <1>4 DEF EntryOK, e

LEMMA DecoderTableOK ==
    ASSUME NEW c \in Range(Coders), NEW f \in [Before(NSym(c)) -> Nat], FitsTable(f, NStates[c]),
           NEW old, TableOK(old, c)
    PROVE  TableOK(DecoderTable(f, NStates[c], Extra[c], Base[c], old), c)
<1> DEFINE n == NStates[c]
           k == NSym(c)
           w == MaxBits(c)
           t == DecoderTable(f, n, Extra[c], Base[c], old)
<1>1. PICK r \in 0 .. PrecisionBits - 1 : CoderIs(c, r)
  BY CoderFacts
<1>2. n = 2^r /\ n \in Nat \ {0} /\ k \in Nat /\ w \in Nat /\ w <= WordBits
      /\ f \in [Before(k) -> Nat]
  BY <1>1, MaxBitsFit, WordIs DEF CoderIs
<1> SUFFICES ASSUME NEW i \in 0 .. n - 1
             PROVE  EntryOK(t[i], n, w)
  BY DEF TableOK
<1> DEFINE sym == CHOOSE s \in DOMAIN f : Offset(f, s) <= i /\ i < Offset(f, s) + f[s]
<1>3. t[i] = IF i >= Total(f) THEN old[i]
             ELSE Entry(f, sym, i - Offset(f, sym), n, Extra[c], Base[c])
  BY DEF DecoderTable
<1>4. CASE i >= Total(f)
  BY <1>3, <1>4 DEF TableOK
<1>5. CASE ~ (i >= Total(f))
  <2> HIDE DEF n, k, w, t
  <2>1. Total(f) \in Int /\ Total(f) <= n /\ i \in Nat
    BY <1>2, Offsets DEF FitsTable, n
  <2>2. i < Total(f)
    BY <1>5, <2>1
  <2>3. \E s \in DOMAIN f : Offset(f, s) <= i /\ i < Offset(f, s) + f[s]
    BY <1>2, <2>1, <2>2, Tiled
  <2>4. sym \in DOMAIN f /\ Offset(f, sym) <= i /\ i < Offset(f, sym) + f[sym]
    BY <2>3
  <2> HIDE DEF sym
  <2>5. sym \in Before(k)
    BY <1>2, <2>4
  <2>6. Offset(f, sym) \in Nat /\ f[sym] \in Nat /\ Offset(f, sym) + f[sym] <= Total(f)
    BY <1>2, <2>5, RunWithin
  <2>7. i - Offset(f, sym) \in 0 .. f[sym] - 1 /\ f[sym] \in 1 .. 2^r
    BY <1>2, <2>1, <2>4, <2>6
  <2>8. Extra[c][sym] \in Nat /\ r + Extra[c][sym] <= w /\ Base[c][sym] \in Nat
    BY <1>1, <2>5, PowersOfTwo DEF CoderIs, k, w
  <2>9. EntryOK(Entry(f, sym, i - Offset(f, sym), 2^r, Extra[c], Base[c]), 2^r, w)
    BY <1>2, <2>7, <2>8, EntryIsOK
  <2>10. t[i] = Entry(f, sym, i - Offset(f, sym), 2^r, Extra[c], Base[c])
    BY <1>2, <1>3, <1>5
  <2> QED
    BY <1>2, <2>9, <2>10
<1> QED
  BY <1>4, <1>5
-----------------------------------------------------------------------------
(***************************************************************************)
(* The input stream: its accumulator holds no more than its bit count says,*)
(* and after a flush it has all the bits a refill provides, or the whole   *)
(* stream is loaded.                                                       *)
(***************************************************************************)
LEMMA PlaceValue ==
    ASSUME NEW q \in Nat \ {0}, NEW b \in Nat \ {0}, NEW a \in 0 .. q - 1, NEW x \in 0 .. b - 1
    PROVE  a + x * q \in 0 .. q * b - 1
<1>1. x * q <= (b - 1) * q /\ x * q \in Nat /\ (b - 1) * q \in Nat
  BY Times
<1>2. (b - 1) * q = b * q - q /\ b * q = q * b /\ q * b \in Nat
  OBVIOUS
<1> QED
  BY <1>1, <1>2

\* The sums that lead to a word, one byte more at a time.
LEMMA LoadWordSum ==
    ASSUME NEW buf \in Seq(Byte), NEW from \in Nat, NEW n \in 0 .. WordBytes, from + n <= Len(buf)
    PROVE  \E sum :
             /\ sum[0] = 0 /\ \A i \in 0 .. n : sum[i] \in 0 .. 2^(ByteBits * i) - 1
             /\ \A i \in 1 .. n : sum[i] = sum[i - 1] + buf[from + i] * 2^(ByteBits * (i - 1))
             /\ LoadWord(buf, from, n) = sum[n]
<1> DEFINE G == [i \in 1 .. n |-> [r \in Nat |-> r + buf[from + i] * 2^(ByteBits * (i - 1))]]
           Loads(g) == [i \in 0 .. n |-> IF i = 0 THEN 0
                          ELSE g[i - 1] + buf[from + i] * 2^(ByteBits * (i - 1))]
           word == CHOOSE g : g = Loads(g)
<1>1. n \in Nat /\ n <= WordBytes
  BY WordIs
<1>2. ASSUME NEW i \in 0 .. WordBytes
      PROVE  /\ 2^(ByteBits * i) \in Nat \ {0} /\ 2^ByteBits \in Nat \ {0}
             /\ i < WordBytes => 2^(ByteBits * (i + 1)) = 2^(ByteBits * i) * 2^ByteBits
  <2>1. ByteBits \in Nat /\ WordBytes \in Nat /\ i \in Nat /\ i <= WordBytes
    BY WordIs
  <2>2. i * ByteBits <= WordBytes * ByteBits /\ i * ByteBits \in Nat
    BY <2>1, Times
  <2>3. i < WordBytes => (i + 1) * ByteBits <= WordBytes * ByteBits
    BY <2>1, Times
  <2>4. /\ ByteBits * i = i * ByteBits /\ ByteBits * WordBytes = WordBytes * ByteBits
        /\ ByteBits * (i + 1) = ByteBits * i + ByteBits /\ (i + 1) * ByteBits = ByteBits * (i + 1)
    BY <2>1
  <2>5. ByteBits * i \in Nat /\ ByteBits * i <= WordBits /\ ByteBits <= WordBits
        /\ (i < WordBytes => ByteBits * i + ByteBits <= WordBits)
    BY <2>2, <2>3, <2>4, WordIs
  <2>6. 2^(ByteBits * i) \in Nat \ {0} /\ 2^ByteBits \in Nat \ {0}
    BY <2>1, <2>5, WordPower
  <2> QED
    BY <2>1, <2>4, <2>5, <2>6, WordPowers
<1>3. ASSUME NEW i \in 1 .. n
      PROVE  buf[from + i] \in 0 .. 2^ByteBits - 1 /\ i - 1 \in 0 .. WordBytes
             /\ buf[from + i] * 2^(ByteBits * (i - 1)) \in Nat
  <2>1. from + i \in 1 .. Len(buf) /\ i - 1 \in 0 .. WordBytes
    BY <1>1, WordIs
  <2>2. buf[from + i] \in 0 .. 2^ByteBits - 1
    <3>1. buf[from + i] \in Byte
      BY <2>1
    <3> QED
      BY <3>1 DEF Byte
  <2>3. 2^ByteBits \in Nat /\ 2^(ByteBits * (i - 1)) \in Nat
    BY <1>2, <2>1
  <2>4. \A x, y \in Nat : x * y \in Nat
    OBVIOUS
  <2> QED
    BY <2>1, <2>2, <2>3, <2>4
<1>4. LoadWord(buf, from, n) = word[n]
  BY DEF LoadWord
<1>5. Extends(G, n, Nat)
  BY <1>3 DEF Extends
<1>6. PICK g \in [0 .. n -> Nat] : Chains(g, 0, n, G)
  <2> HIDE DEF G
  <2> QED
    BY <1>1, <1>5, ChainExists
<1>7. g = Loads(g)
  <2>1. ASSUME NEW i \in 0 .. n
        PROVE  g[i] = IF i = 0 THEN 0 ELSE g[i - 1] + buf[from + i] * 2^(ByteBits * (i - 1))
    <3>1. CASE i = 0
      BY <1>6, <3>1 DEF Chains
    <3>2. CASE i # 0
      <4>1. i \in 1 .. n /\ i - 1 \in 0 .. n
        BY <3>2
      <4>2. g[i] = G[i][g[i - 1]] /\ g[i - 1] \in Nat
        BY <1>6, <4>1 DEF Chains
      <4> QED
        BY <3>2, <4>1, <4>2
    <3> QED
      BY <3>1, <3>2
  <2> QED
    BY <1>6, <2>1
<1>8. word = Loads(word)
  <2> HIDE DEF Loads
  <2> QED
    BY <1>7
<1>9. \A i \in 0 .. n : word[i] = IF i = 0 THEN 0
                                  ELSE word[i - 1] + buf[from + i] * 2^(ByteBits * (i - 1))
  <2> HIDE DEF word
  <2> QED
    BY <1>8
<1> HIDE DEF word
<1> DEFINE T == {i \in Nat : i <= n => word[i] \in 0 .. 2^(ByteBits * i) - 1}
<1>10. 0 \in T
  <2>1. ByteBits * 0 = 0
    BY WordIs
  <2>2. 2^(ByteBits * 0) = 1
    BY <2>1, PowersOfTwo
  <2>3. 0 \in 0 .. 1 - 1 /\ word[0] = 0
    BY <1>1, <1>9
  <2> QED
    BY <2>2, <2>3
<1>11. ASSUME NEW i \in Nat, i \in T PROVE i + 1 \in T
  <2> SUFFICES ASSUME i + 1 <= n PROVE word[i + 1] \in 0 .. 2^(ByteBits * (i + 1)) - 1
    OBVIOUS
  <2>1. i + 1 \in 1 .. n /\ (i + 1) - 1 = i /\ i \in 0 .. WordBytes /\ i < WordBytes /\ i + 1 # 0
    BY <1>1, WordIs
  <2>2. word[i + 1] = word[i] + buf[from + (i + 1)] * 2^(ByteBits * i)
    BY <1>9, <2>1
  <2>3. word[i] \in 0 .. 2^(ByteBits * i) - 1
    BY <1>11
  <2>4. buf[from + (i + 1)] \in 0 .. 2^ByteBits - 1
    BY <1>3, <2>1
  <2>5. /\ 2^(ByteBits * i) \in Nat \ {0} /\ 2^ByteBits \in Nat \ {0}
        /\ 2^(ByteBits * (i + 1)) = 2^(ByteBits * i) * 2^ByteBits
    BY <1>2, <2>1
  <2> DEFINE q == 2^(ByteBits * i)
             b == 2^ByteBits
             x == buf[from + (i + 1)]
  <2>6. /\ q \in Nat \ {0} /\ b \in Nat \ {0} /\ word[i] \in 0 .. q - 1 /\ x \in 0 .. b - 1
        /\ word[i + 1] = word[i] + x * q /\ 2^(ByteBits * (i + 1)) = q * b
    BY <2>2, <2>3, <2>4, <2>5
  <2> HIDE DEF q, b, x
  <2>7. word[i] + x * q \in 0 .. q * b - 1
    BY <2>6, PlaceValue
  <2> QED
    BY <2>6, <2>7
<1> HIDE DEF T
<1>12. Nat \subseteq T
  BY <1>10, <1>11, Induction
<1>13. \A i \in 0 .. n : word[i] \in 0 .. 2^(ByteBits * i) - 1
  BY <1>1, <1>12 DEF T
<1>14. word[0] = 0 /\ \A i \in 1 .. n : word[i] = word[i - 1] + buf[from + i] * 2^(ByteBits * (i - 1))
  <2>1. 0 \in 0 .. n /\ \A i \in 1 .. n : i \in 0 .. n /\ i # 0
    BY <1>1
  <2> QED
    BY <1>9, <2>1
<1> QED
  BY <1>4, <1>13, <1>14

LEMMA LoadWordIs ==
    ASSUME NEW buf \in Seq(Byte), NEW from \in Nat, NEW n \in 0 .. WordBytes, from + n <= Len(buf)
    PROVE  LoadWord(buf, from, n) \in 0 .. 2^(ByteBits * n) - 1
<1>1. PICK sum :
         /\ sum[0] = 0 /\ \A i \in 0 .. n : sum[i] \in 0 .. 2^(ByteBits * i) - 1
         /\ \A i \in 1 .. n : sum[i] = sum[i - 1] + buf[from + i] * 2^(ByteBits * (i - 1))
         /\ LoadWord(buf, from, n) = sum[n]
  BY LoadWordSum
<1>2. n \in 0 .. n
  BY WordIs
<1> QED
  BY <1>1, <1>2

Streams == [ok : {TRUE}, accum : Nat, accumNBits : Int, ptr : Int]

Sound(s, buf) ==
    /\ s \in Streams /\ s.accumNBits < WordBits /\ s.ptr <= Len(buf)
    /\ s.accumNBits >= 0 => s.accum < 2^s.accumNBits

\* k bits can be pulled, if the stream is not at its front.
Ready(s, k) == s.accumNBits >= k \/ s.ptr <= 0

LEMMA SoundFields ==
    ASSUME NEW buf, NEW s, Sound(s, buf)
    PROVE  /\ s \in Streams /\ s.accumNBits \in Int /\ s.accum \in Nat /\ s.ptr \in Int
           /\ s.accumNBits < WordBits /\ s.ptr <= Len(buf)
           /\ s.accumNBits >= 0 => s.accum < 2^s.accumNBits
<1>1. /\ s \in Streams /\ s.accumNBits < WordBits /\ s.ptr <= Len(buf)
      /\ (s.accumNBits >= 0 => s.accum < 2^s.accumNBits)
  BY DEF Sound
<1>2. s.accumNBits \in Int /\ s.accum \in Nat /\ s.ptr \in Int
  BY <1>1 DEF Streams
<1> QED
  BY <1>1, <1>2

StreamAt(s, a, n, p) == [s EXCEPT !.accum = a, !.accumNBits = n, !.ptr = p]

LEMMA StreamWith ==
    ASSUME NEW s \in Streams, NEW a \in Nat, NEW n \in Int, NEW p \in Int,
           NEW t, t = StreamAt(s, a, n, p)
    PROVE  t \in Streams /\ t.accum = a /\ t.accumNBits = n /\ t.ptr = p
BY DEF Streams, StreamAt

LEMMA RemainderAtMost ==
    ASSUME NEW a \in Nat, NEW p \in Nat \ {0}
    PROVE  a % p \in Nat /\ a % p <= a /\ a % p < p
<1>1. a = (a \div p) * p + (a % p) /\ a \div p \in Nat /\ a % p \in 0 .. p - 1
  BY Division
<1>2. (a \div p) * p \in Nat
  BY <1>1
<1> QED
  BY <1>1, <1>2

LEMMA PullKeeps ==
    ASSUME NEW buf, NEW s, Sound(s, buf), NEW n \in Nat, n <= WordBits, NEW k \in Nat
    PROVE  /\ Sound(InPull(s, n).stream, buf)
           /\ Ready(s, n + k) => Ready(InPull(s, n).stream, k)
           /\ InPull(s, n).b \in 0 .. 2^n - 1
<1> DEFINE left == s.accumNBits - n
           t == InPull(s, n).stream
           b == InPull(s, n).b
<1>1. /\ s \in Streams /\ s.accumNBits \in Int /\ s.accum \in Nat /\ s.ptr \in Int
      /\ s.accumNBits < WordBits /\ s.ptr <= Len(buf) /\ left \in Int
      /\ s.accumNBits >= 0 => s.accum < 2^s.accumNBits
  BY SoundFields
<1>2. 2^n \in Nat \ {0}
  BY WordPower
<1>3. CASE n = 0
  <2>1. t = s /\ b = 0
    BY <1>3 DEF InPull
  <2>2. s.accumNBits >= n + k => s.accumNBits >= k
    BY <1>1, <1>3
  <2> QED
    BY <1>2, <2>1, <2>2 DEF Ready
<1>4. CASE n # 0 /\ left < 0
  <2>1. t = [s EXCEPT !.accumNBits = left] /\ b = 0
    BY <1>4 DEF InPull
  <2>2. t \in Streams /\ t.accumNBits = left /\ t.ptr = s.ptr
    BY <1>1, <2>1 DEF Streams
  <2>3. Sound(t, buf)
    BY <1>1, <1>4, <2>2, WordIs DEF Sound
  <2>4. Ready(s, n + k) => Ready(t, k)
    BY <1>1, <1>4, <2>2 DEF Ready
  <2> QED
    BY <1>2, <2>1, <2>3, <2>4
<1>5. CASE n # 0 /\ ~ (left < 0)
  <2> DEFINE p == 2^left
             a == s.accum % p
  <2>1. t = [s EXCEPT !.accumNBits = left, !.accum = a] /\ b = s.accum \div p
    BY <1>5 DEF InPull
  <2>2. left \in Nat /\ left + n = s.accumNBits /\ left + n <= WordBits /\ left < WordBits
    BY <1>1, <1>5, WordIs
  <2>3. p \in Nat \ {0} /\ 2^(left + n) = p * 2^n
    <3> HIDE DEF left
    <3> QED
      BY <2>2, WordPowers
  <2>4. s.accum < p * 2^n
    <3>1. s.accum < 2^s.accumNBits /\ 2^s.accumNBits = 2^(left + n)
      BY <1>1, <2>2
    <3> QED
      BY <2>3, <3>1
  <2> HIDE DEF p, left
  <2>5. a \in Nat /\ a < p
    BY <1>1, <2>3, RemainderAtMost
  <2> DEFINE q == 2^n
  <2>6. b < q /\ b \in Nat
    <3>1. s.accum < q * p /\ q \in Nat \ {0}
      BY <1>2, <2>3, <2>4
    <3> HIDE DEF q
    <3> QED
      BY <1>1, <2>1, <2>3, <3>1, QuotientBelow, Division
  <2> HIDE DEF a, b, t
  <2>7. t \in Streams /\ t.accumNBits = left /\ t.ptr = s.ptr /\ t.accum = a
    BY <1>1, <2>1, <2>2, <2>5 DEF Streams
  <2>8. Sound(t, buf)
    BY <1>1, <2>2, <2>5, <2>7 DEF Sound, p
  <2>9. Ready(s, n + k) => Ready(t, k)
    BY <1>1, <2>2, <2>7 DEF Ready
  <2> QED
    BY <1>2, <2>6, <2>8, <2>9 DEF t, b
<1> QED
  BY <1>3, <1>4, <1>5

LEMMA ShiftInIs ==
    ASSUME NEW a \in Nat, NEW n \in Nat, n < WordBits, NEW m \in Nat, a < 2^m, m + n <= WordBits,
           NEW x \in 0 .. 2^n - 1
    PROVE  ShiftIn(a, n) + x \in 0 .. 2^(m + n) - 1
<1> DEFINE p == 2^m
           q == 2^n
           h == 2^(WordBits - n)
           c == a % h
<1>1. p \in Nat \ {0} /\ q \in Nat \ {0} /\ 2^(m + n) = p * q
  BY WordPowers
<1>2. h \in Nat \ {0}
  <2>1. WordBits - n \in Nat /\ WordBits - n <= WordBits
    BY WordIs
  <2> QED
    BY <2>1, WordPower
<1>3. ShiftIn(a, n) = c * q
  BY WordIs DEF ShiftIn
<1> HIDE DEF p, q, h
<1>4. c \in Nat /\ c <= a
  BY <1>2, RemainderAtMost
<1>5. c \in 0 .. p - 1 /\ x \in 0 .. q - 1
  <2>1. a < p
    BY DEF p
  <2>2. x \in 0 .. q - 1
    BY DEF q
  <2> QED
    BY <1>1, <1>4, <2>1, <2>2
<1> HIDE DEF c
<1>6. x + c * q \in 0 .. q * p - 1
  BY <1>1, <1>5, PlaceValue
<1>7. c * q \in Nat /\ q * p = p * q /\ x \in Nat
  BY <1>1, <1>5
<1> QED
  BY <1>1, <1>3, <1>6, <1>7

LEMMA BytesOf ==
    ASSUME NEW buf \in Seq(Byte), NEW i \in 1 .. Len(buf)
    PROVE  buf[i] \in 0 .. 2^ByteBits - 1
<1>1. buf[i] \in Byte
  OBVIOUS
<1> QED
  BY <1>1 DEF Byte

\* One byte more, as long as the word has room for it.
LEMMA OneByteKeeps ==
    ASSUME NEW buf \in Seq(Byte), NEW s \in Streams, Sound(s, buf), s.accumNBits >= 0,
           s.accumNBits + ByteBits < WordBits, NEW x \in 0 .. 2^ByteBits - 1,
           NEW t, t = [s EXCEPT !.accum = ShiftIn(@, ByteBits) + x,
                                !.accumNBits = @ + ByteBits, !.ptr = @ - 1]
    PROVE  Sound(t, buf) /\ t.accumNBits = s.accumNBits + ByteBits /\ t.ptr = s.ptr - 1
<1> DEFINE m == s.accumNBits
           a == s.accum
<1>1. m \in Nat /\ a \in Nat /\ s.ptr \in Int /\ a < 2^m /\ s.ptr <= Len(buf) /\ Len(buf) \in Nat
  BY SoundFields
<1>2. ByteBits \in Nat /\ ByteBits < WordBits /\ WordBits \in Nat
  BY WordIs
<1>3. ShiftIn(a, ByteBits) + x \in 0 .. 2^(m + ByteBits) - 1
  <2>1. m + ByteBits <= WordBits
    BY <1>1, <1>2
  <2> HIDE DEF m, a
  <2> QED
    BY <1>1, <1>2, <2>1, ShiftInIs
<1>4. 2^(m + ByteBits) \in Nat \ {0}
  <2>1. m + ByteBits \in Nat /\ m + ByteBits <= WordBits
    BY <1>1, <1>2
  <2> HIDE DEF m
  <2> QED
    BY <2>1, WordPower
<1>5. /\ t \in Streams /\ t.accum = ShiftIn(a, ByteBits) + x
      /\ t.accumNBits = m + ByteBits /\ t.ptr = s.ptr - 1
  <2> DEFINE v == ShiftIn(a, ByteBits) + x
             u == m + ByteBits
             w == s.ptr - 1
  <2>1. v \in Nat /\ u \in Int /\ w \in Int
    BY <1>1, <1>2, <1>3, <1>4, SMTT(30)
  <2>2. t = StreamAt(s, v, u, w)
    BY DEF StreamAt
  <2> HIDE DEF u, v, w, m, a
  <2>3. s \in Streams
    OBVIOUS
  <2>4. t \in Streams /\ t.accum = v /\ t.accumNBits = u /\ t.ptr = w
    BY <2>1, <2>2, <2>3 DEF Streams, StreamAt
  <2> QED
    BY <2>4 DEF u, v, w
<1> HIDE DEF m, a
<1>6. t.accumNBits >= 0 => t.accum < 2^t.accumNBits
  BY <1>3, <1>4, <1>5
<1>7. t.accumNBits < WordBits /\ t.ptr <= Len(buf)
  BY <1>1, <1>2, <1>5 DEF m
<1> QED
  BY <1>5, <1>6, <1>7 DEF Sound, m

\* The streams that lead to the rest loaded, one byte more at a time.
RestSteps(rest, n, s, buf) ==
    /\ rest[0] = s
    /\ \A i \in 0 .. n : /\ Sound(rest[i], buf) /\ rest[i].accumNBits = s.accumNBits + ByteBits * i
                         /\ rest[i].ptr = s.ptr - i
    /\ \A i \in 1 .. n :
         rest[i] = [rest[i - 1] EXCEPT !.accum = ShiftIn(@, ByteBits) + buf[s.ptr - i + 1],
                                       !.accumNBits = @ + ByteBits, !.ptr = @ - 1]

LEMMA LoadRestSteps ==
    ASSUME NEW buf \in Seq(Byte), NEW s, Sound(s, buf), s.accumNBits >= 0,
           NEW nbytes \in Nat, s.accumNBits + ByteBits * nbytes < WordBits, s.ptr < nbytes
    PROVE  \E n \in Nat : \E rest :
             /\ n <= nbytes /\ s.ptr - n <= 0 /\ (n > 0 => n = s.ptr)
             /\ RestSteps(rest, n, s, buf) /\ LoadRest(s, buf, nbytes) = rest[n]
<1> DEFINE n == IF s.ptr < 0 THEN 0 ELSE IF s.ptr < nbytes THEN s.ptr ELSE nbytes
           One(r, i) == [r EXCEPT !.accum = ShiftIn(@, ByteBits) + buf[s.ptr - i + 1],
                                  !.accumNBits = @ + ByteBits, !.ptr = @ - 1]
           G == [i \in 1 .. n |-> [r \in Streams |-> One(r, i)]]
           Loads(g) == [i \in 0 .. n |-> IF i = 0 THEN s ELSE One(g[i - 1], i)]
           rest == CHOOSE g : g = Loads(g)
<1>1. /\ s \in Streams /\ s.ptr \in Int /\ s.accumNBits \in Nat /\ s.ptr <= Len(buf)
      /\ n \in Nat /\ n <= nbytes /\ s.ptr - n <= 0 /\ (n > 0 => n = s.ptr)
  <2>1. s \in Streams /\ s.ptr \in Int /\ s.accumNBits \in Nat /\ s.ptr <= Len(buf)
    BY SoundFields
  <2> QED
    BY <2>1
<1>2. LoadRest(s, buf, nbytes) = rest[n]
  BY DEF LoadRest
<1> HIDE DEF n
<1>3. ASSUME NEW i \in 1 .. n PROVE buf[s.ptr - i + 1] \in 0 .. 2^ByteBits - 1
  <2>1. s.ptr - i + 1 \in 1 .. Len(buf)
    BY <1>1
  <2> QED
    BY <2>1, BytesOf
<1>4. 2^ByteBits \in Nat \ {0} /\ ByteBits \in Nat
  BY WordPower, WordIs
<1>5. ASSUME NEW i \in 1 .. n, NEW r \in Streams PROVE One(r, i) \in Streams
  <2> DEFINE x == buf[s.ptr - i + 1]
             a == ShiftIn(r.accum, ByteBits)
  <2>1. r.accum \in Nat /\ r.accumNBits \in Int /\ r.ptr \in Int
    BY DEF Streams
  <2>2. a \in Nat
    <3>1. ShiftIn(r.accum, ByteBits) = (r.accum % 2^(WordBits - ByteBits)) * 2^ByteBits
      BY WordIs DEF ShiftIn
    <3>2. 2^(WordBits - ByteBits) \in Nat \ {0}
      BY WordPower, WordIs
    <3>3. r.accum % 2^(WordBits - ByteBits) \in Nat
      BY <2>1, <3>2, RemainderAtMost
    <3>4. \A u, v \in Nat : u * v \in Nat
      OBVIOUS
    <3> QED
      BY <1>4, <3>1, <3>3, <3>4
  <2>3. x \in Nat
    BY <1>3, <1>4
  <2> DEFINE v == a + x
             u == r.accumNBits + ByteBits
             w == r.ptr - 1
  <2>4. One(r, i) = StreamAt(r, v, u, w)
    BY DEF StreamAt
  <2>5. v \in Nat /\ u \in Int /\ w \in Int
    BY <1>4, <2>1, <2>2, <2>3, SMTT(30)
  <2> HIDE DEF u, v, w, One
  <2> QED
    BY <2>4, <2>5, StreamWith
<1> HIDE DEF One
<1>6. Extends(G, n, Streams)
  BY <1>5 DEF Extends
<1>7. PICK g \in [0 .. n -> Streams] : Chains(g, s, n, G)
  <2> HIDE DEF G
  <2> QED
    BY <1>1, <1>6, ChainExists
<1>8. g = Loads(g)
  <2>1. ASSUME NEW i \in 0 .. n PROVE g[i] = IF i = 0 THEN s ELSE One(g[i - 1], i)
    <3>1. CASE i = 0
      BY <1>7, <3>1 DEF Chains
    <3>2. CASE i # 0
      <4>1. i \in 1 .. n /\ i - 1 \in 0 .. n
        BY <1>1, <3>2
      <4>2. g[i] = G[i][g[i - 1]] /\ g[i - 1] \in Streams
        BY <1>7, <4>1 DEF Chains
      <4> QED
        BY <3>2, <4>1, <4>2
    <3> QED
      BY <3>1, <3>2
  <2> QED
    BY <1>7, <2>1
<1>9. rest = Loads(rest)
  <2> HIDE DEF Loads
  <2> QED
    BY <1>8
<1>10. \A i \in 0 .. n : rest[i] = IF i = 0 THEN s ELSE One(rest[i - 1], i)
  <2> HIDE DEF rest
  <2> QED
    BY <1>9
<1> HIDE DEF rest
<1> DEFINE Loaded(i) == /\ Sound(rest[i], buf) /\ rest[i].accumNBits = s.accumNBits + ByteBits * i
                        /\ rest[i].ptr = s.ptr - i
           T == {i \in Nat : i <= n => Loaded(i)}
<1>11. 0 \in T
  <2>1. rest[0] = s /\ ByteBits * 0 = 0
    BY <1>1, <1>4, <1>10
  <2>2. s.accumNBits = s.accumNBits + 0 /\ s.ptr = s.ptr - 0
    BY <1>1
  <2> QED
    BY <2>1, <2>2
<1>12. ASSUME NEW i \in Nat, i \in T PROVE i + 1 \in T
  <2> SUFFICES ASSUME i + 1 <= n PROVE Loaded(i + 1)
    OBVIOUS
  <2> DEFINE r == rest[i]
             t == rest[i + 1]
             x == buf[s.ptr - (i + 1) + 1]
  <2>1. i + 1 \in 1 .. n /\ i + 1 # 0 /\ (i + 1) - 1 = i /\ i <= n
    BY <1>1
  <2>2. Sound(r, buf) /\ r.accumNBits = s.accumNBits + ByteBits * i /\ r.ptr = s.ptr - i
    BY <1>12, <2>1
  <2>3. t = [r EXCEPT !.accum = ShiftIn(@, ByteBits) + x, !.accumNBits = @ + ByteBits, !.ptr = @ - 1]
    <3>1. t = One(rest[(i + 1) - 1], i + 1)
      BY <1>1, <1>10, <2>1
    <3>2. t = One(r, i + 1)
      BY <2>1, <3>1
    <3> QED
      BY <3>2 DEF One
  <2>4. x \in 0 .. 2^ByteBits - 1
    BY <1>3, <2>1
  <2>5. /\ ByteBits * (i + 1) = ByteBits * i + ByteBits /\ ByteBits * i \in Nat
        /\ ByteBits * (i + 1) <= ByteBits * nbytes /\ ByteBits * nbytes \in Nat
    <3>1. (i + 1) * ByteBits <= nbytes * ByteBits
      BY <1>1, <1>4, <2>1, Times
    <3>2. i * ByteBits \in Nat /\ nbytes * ByteBits \in Nat
      BY <1>4, Times
    <3> QED
      BY <1>4, <3>1, <3>2
  <2> HIDE DEF r, t, x
  <2>6. r \in Streams
    BY <2>2 DEF Sound
  <2> DEFINE z == ByteBits * i
             y == ByteBits * nbytes
  <2>7. r.accumNBits >= 0 /\ r.accumNBits + ByteBits < WordBits
    <3>1. r.accumNBits = s.accumNBits + z /\ z \in Nat /\ z + ByteBits <= y /\ y \in Nat
          /\ s.accumNBits + y < WordBits
      BY <2>2, <2>5
    <3> HIDE DEF z, y
    <3> QED
      BY <1>1, <1>4, <3>1, WordIs
  <2>8. Sound(t, buf) /\ t.accumNBits = r.accumNBits + ByteBits /\ t.ptr = r.ptr - 1
    BY <2>2, <2>3, <2>4, <2>6, <2>7, OneByteKeeps
  <2>9. t.accumNBits = s.accumNBits + ByteBits * (i + 1) /\ t.ptr = s.ptr - (i + 1)
    <3>1. r.accumNBits = s.accumNBits + z /\ z \in Nat /\ ByteBits * (i + 1) = z + ByteBits
      BY <2>2, <2>5
    <3>2. t.ptr = s.ptr - (i + 1)
      BY <1>1, <2>2, <2>8
    <3>3. t.accumNBits = (s.accumNBits + z) + ByteBits
      BY <2>8, <3>1
    <3> HIDE DEF z
    <3>4. (s.accumNBits + z) + ByteBits = s.accumNBits + (z + ByteBits)
      BY <1>1, <1>4, <3>1
    <3> QED
      BY <3>1, <3>2, <3>3, <3>4
  <2> QED
    BY <2>8, <2>9 DEF t
<1> HIDE DEF T
<1>13. \A i \in 0 .. n : Loaded(i)
  <2>1. Nat \subseteq T
    BY <1>11, <1>12, Induction
  <2> QED
    BY <1>1, <2>1 DEF T
<1>14. ASSUME NEW i \in 1 .. n
       PROVE rest[i] = [rest[i - 1] EXCEPT !.accum = ShiftIn(@, ByteBits) + buf[s.ptr - i + 1],
                                           !.accumNBits = @ + ByteBits, !.ptr = @ - 1]
  <2>1. i \in 0 .. n /\ i # 0
    BY <1>1
  <2>2. rest[i] = One(rest[i - 1], i)
    BY <1>10, <2>1
  <2> QED
    BY <2>2 DEF One
<1>15. rest[0] = s
  BY <1>1, <1>10
<1>16. RestSteps(rest, n, s, buf)
  BY <1>13, <1>14, <1>15 DEF RestSteps
<1> QED
  BY <1>1, <1>2, <1>16

LEMMA LoadRestKeeps ==
    ASSUME NEW buf \in Seq(Byte), NEW s, Sound(s, buf), s.accumNBits >= 0,
           NEW nbytes \in Nat, s.accumNBits + ByteBits * nbytes < WordBits, s.ptr < nbytes
    PROVE  Sound(LoadRest(s, buf, nbytes), buf) /\ LoadRest(s, buf, nbytes).ptr <= 0
<1>1. PICK n \in Nat : \E rest :
         /\ n <= nbytes /\ s.ptr - n <= 0 /\ (n > 0 => n = s.ptr)
         /\ RestSteps(rest, n, s, buf) /\ LoadRest(s, buf, nbytes) = rest[n]
  BY LoadRestSteps
<1>2. PICK rest :
         /\ s.ptr - n <= 0 /\ RestSteps(rest, n, s, buf) /\ LoadRest(s, buf, nbytes) = rest[n]
  BY <1>1
<1>3. n \in 0 .. n
  OBVIOUS
<1> QED
  BY <1>2, <1>3 DEF RestSteps

\* At its front a stream has nothing left to load.
LEMMA LoadRestNone ==
    ASSUME NEW buf, NEW s, s.ptr \in Int, s.ptr <= 0, NEW nbytes \in Nat
    PROVE  LoadRest(s, buf, nbytes) = s
<1> DEFINE n == IF s.ptr < 0 THEN 0 ELSE IF s.ptr < nbytes THEN s.ptr ELSE nbytes
           One(r, i) == [r EXCEPT !.accum = ShiftIn(@, ByteBits) + buf[s.ptr - i + 1],
                                  !.accumNBits = @ + ByteBits, !.ptr = @ - 1]
           Loads(g) == [i \in 0 .. n |-> IF i = 0 THEN s ELSE One(g[i - 1], i)]
           rest == CHOOSE g : g = Loads(g)
           g0 == [i \in 0 .. n |-> s]
<1>1. n = 0
  OBVIOUS
<1>2. LoadRest(s, buf, nbytes) = rest[n]
  BY DEF LoadRest
<1> HIDE DEF n, One
<1>3. g0 = Loads(g0)
  <2>1. \A i \in 0 .. n : i = 0
    BY <1>1
  <2> QED
    BY <2>1
<1>4. rest = Loads(rest)
  <2> HIDE DEF Loads, g0
  <2> QED
    BY <1>3
<1>5. \A i \in 0 .. n : rest[i] = IF i = 0 THEN s ELSE One(rest[i - 1], i)
  <2> HIDE DEF rest
  <2> QED
    BY <1>4
<1> HIDE DEF rest
<1>6. rest[n] = s
  BY <1>1, <1>5
<1> QED
  BY <1>2, <1>6

\* The bytes that a flush has room for.
LEMMA FlushBytes ==
    ASSUME NEW m \in Int, m < WordBits, NEW nbytes, nbytes = (WordBits - 1 - m) \div ByteBits,
           NEW k, k = ByteBits * nbytes
    PROVE  /\ nbytes \in Nat /\ k \in Nat /\ k <= WordBits - 1 - m /\ WordBits - 1 - m < k + ByteBits
           /\ k = nbytes * ByteBits
<1> DEFINE d == WordBits - 1 - m
           q == d \div ByteBits
<1>1. d \in Nat /\ ByteBits \in Nat \ {0}
  BY WordIs
<1>2. q \in Nat /\ d % ByteBits \in 0 .. ByteBits - 1 /\ d = q * ByteBits + (d % ByteBits)
  <2> HIDE DEF d
  <2> QED
    BY <1>1, Division
<1> DEFINE z == q * ByteBits
           y == d % ByteBits
<1>3. z \in Nat /\ ByteBits * q = z
  <2> HIDE DEF q
  <2> QED
    BY <1>1, <1>2
<1>4. y \in 0 .. ByteBits - 1 /\ d = z + y
  BY <1>2
<1>5. z <= d /\ d < z + ByteBits
  <2> HIDE DEF z, d, y
  <2> QED
    BY <1>1, <1>3, <1>4
<1> QED
  BY <1>2, <1>3, <1>5

\* A flush leaves one byte free at most, unless it reaches the front.
LEMMA FlushKeeps ==
    ASSUME NEW buf \in Seq(Byte), NEW s, Sound(s, buf), Ready(s, 0)
    PROVE  Sound(InFlush(s, buf), buf) /\ Ready(InFlush(s, buf), WordBits - ByteBits)
<1> DEFINE nbytes == (WordBits - 1 - s.accumNBits) \div ByteBits
           newPtr == s.ptr - nbytes
           loaded == IF nbytes < WordBytes THEN nbytes ELSE WordBytes
           a == s.accum
           m == s.accumNBits
           k == ByteBits * nbytes
<1>1. /\ s \in Streams /\ m \in Int /\ a \in Nat /\ s.ptr \in Int
      /\ m < WordBits /\ s.ptr <= Len(buf) /\ (m >= 0 => a < 2^m)
  BY SoundFields
<1>2. /\ nbytes \in Nat /\ k \in Nat /\ k <= WordBits - 1 - m /\ WordBits - 1 - m < k + ByteBits
      /\ k = nbytes * ByteBits
  <2> HIDE DEF m
  <2> QED
    BY <1>1, FlushBytes DEF m
<1>3. InFlush(s, buf) = IF newPtr < 0 THEN LoadRest(s, buf, nbytes)
        ELSE [s EXCEPT !.accum = ShiftIn(@, k) + LoadWord(buf, newPtr, loaded),
                       !.accumNBits = @ + k, !.ptr = newPtr]
  BY DEF InFlush
<1>4. m < 0 => s.ptr <= 0
  BY <1>1 DEF Ready
<1>5. CASE newPtr < 0 /\ m < 0
  <2>1. InFlush(s, buf) = s
    BY <1>1, <1>2, <1>3, <1>4, <1>5, LoadRestNone
  <2> QED
    BY <1>4, <1>5, <2>1 DEF Ready
<1>6. CASE newPtr < 0 /\ m >= 0
  <2>1. m + k < WordBits /\ s.ptr < nbytes
    <3> HIDE DEF k, m, nbytes
    <3> QED
      BY <1>1, <1>2, <1>6, WordIs
  <2> HIDE DEF nbytes
  <2>2. Sound(LoadRest(s, buf, nbytes), buf) /\ LoadRest(s, buf, nbytes).ptr <= 0
    BY <1>2, <1>6, <2>1, LoadRestKeeps
  <2> QED
    BY <1>3, <1>6, <2>2 DEF Ready
<1>7. CASE ~ (newPtr < 0)
  <2> DEFINE x == LoadWord(buf, newPtr, loaded)
  <2>1. nbytes < WordBytes /\ m >= 0
    <3>1. m >= 0
      <4> SUFFICES ASSUME m < 0 PROVE FALSE
        BY <1>1
      <4>1. nbytes = 0
        <5> HIDE DEF nbytes
        <5> QED
          BY <1>1, <1>2, <1>4, <1>7
      <4>2. k = 0
        BY <1>2, <4>1, WordIs
      <4>3. WordBits - 1 - m < ByteBits
        BY <1>2, <4>2, WordIs
      <4> HIDE DEF k, m
      <4> QED
        BY <1>1, <4>3, WordIs
    <3>2. nbytes < WordBytes
      <4> SUFFICES ASSUME WordBytes <= nbytes PROVE FALSE
        BY <1>2, WordIs
      <4>1. WordBytes * ByteBits <= nbytes * ByteBits
        <5> HIDE DEF nbytes
        <5> QED
          BY <1>2, WordIs, Times
      <4>2. WordBytes * ByteBits = WordBits
        BY WordIs
      <4>3. WordBits <= k /\ k <= WordBits - 1 - m
        BY <1>2, <4>1, <4>2
      <4> HIDE DEF nbytes, k, m
      <4> QED
        BY <1>1, <1>2, <3>1, <4>3, WordIs
    <3> QED
      BY <3>1, <3>2
  <2>2. loaded = nbytes
    BY <2>1
  <2> HIDE DEF nbytes
  <2>3. newPtr \in Nat /\ newPtr + nbytes <= Len(buf) /\ newPtr + nbytes = s.ptr /\ newPtr <= Len(buf)
    BY <1>1, <1>2, <1>7
  <2>4. x \in 0 .. 2^k - 1
    <3>1. nbytes \in 0 .. WordBytes
      BY <1>2, <2>1, WordIs
    <3> HIDE DEF newPtr
    <3> QED
      BY <2>2, <2>3, <3>1, LoadWordIs
  <2>5. m + k < WordBits /\ k < WordBits /\ m \in Nat /\ m + k \in Nat
    <3> HIDE DEF k, m
    <3> QED
      BY <1>1, <1>2, <2>1, WordIs
  <2> DEFINE v == ShiftIn(a, k) + x
             u == m + k
             t == InFlush(s, buf)
  <2>6. v \in 0 .. 2^u - 1
    <3>1. a < 2^m
      BY <1>1, <2>1
    <3> HIDE DEF k, m, a, x
    <3> QED
      BY <1>1, <1>2, <2>4, <2>5, <3>1, ShiftInIs, WordIs
  <2>7. 2^u \in Nat \ {0}
    <3>1. u \in Nat /\ u <= WordBits
      BY <2>5, WordIs
    <3> HIDE DEF u
    <3> QED
      BY <3>1, WordPower
  <2>8. t = StreamAt(s, v, u, newPtr)
    BY <1>3, <1>7 DEF StreamAt
  <2>9. v \in Nat /\ u \in Int /\ newPtr \in Int
    BY <2>3, <2>5, <2>6, <2>7
  <2>10. WordBits - ByteBits <= u
    <3> HIDE DEF k, m
    <3> QED
      BY <1>1, <1>2, <2>5, WordIs
  <2> HIDE DEF v, newPtr, x, k, m, a, t
  <2>11. t \in Streams /\ t.accum = v /\ t.accumNBits = u /\ t.ptr = newPtr
    <3> HIDE DEF u
    <3> QED
      BY <1>1, <2>8, <2>9 DEF Streams, StreamAt
  <2>12. t.accum < 2^t.accumNBits
    <3> HIDE DEF u
    <3> QED
      BY <2>6, <2>7, <2>9, <2>11
  <2>13. t.accumNBits < WordBits /\ t.ptr <= Len(buf)
    BY <2>3, <2>5, <2>11
  <2>14. Ready(t, WordBits - ByteBits)
    BY <2>10, <2>11 DEF Ready
  <2> QED
    BY <2>11, <2>12, <2>13, <2>14 DEF Sound, t
<1> QED
  BY <1>1, <1>5, <1>6, <1>7

LEMMA InInitIs ==
    ASSUME NEW buf \in Seq(Byte), NEW n \in Int, InInit(buf, n).ok
    PROVE  Sound(InInit(buf, n), buf) /\ Ready(InInit(buf, n), 0)
<1> DEFINE load == IF n # 0 THEN WordBytes ELSE WordBytes - 1
           accumNBits == n + ByteBits * load
           accum == LoadWord(buf, Len(buf) - load, load)
           stream(a) == [ok |-> TRUE, accum |-> a, accumNBits |-> accumNBits, ptr |-> Len(buf) - load]
           s == InInit(buf, n)
<1>1. load \in Nat /\ load <= WordBytes /\ load \in 0 .. WordBytes /\ Len(buf) \in Nat
  BY WordIs
<1>2. ByteBits * load \in Nat /\ accumNBits \in Int
      /\ (n = 0 => accumNBits = WordBits - ByteBits)
  <2>1. ByteBits * load \in Nat
    <3> HIDE DEF load
    <3> QED
      BY <1>1, WordIs
  <2>2. n = 0 => accumNBits = ByteBits * (WordBytes - 1)
    BY WordIs
  <2>3. ByteBits * (WordBytes - 1) = ByteBits * WordBytes - ByteBits
    BY WordIs
  <2> QED
    BY <2>1, <2>2, <2>3, WordIs
<1>3. s = IF Len(buf) = 0 /\ n = 0 THEN stream(0)
          ELSE IF Len(buf) < load \/ accumNBits < WordBits - ByteBits \/ accumNBits >= WordBits
          THEN [ok |-> FALSE]
          ELSE IF accum >= 2^accumNBits THEN [ok |-> FALSE] ELSE stream(accum)
  BY DEF InInit
<1> HIDE DEF load, accumNBits, accum
<1>4. CASE Len(buf) = 0 /\ n = 0
  <2>1. s = stream(0)
    BY <1>3, <1>4
  <2>2. accumNBits \in Nat /\ accumNBits < WordBits
    BY <1>2, <1>4, WordIs
  <2>3. 0 < 2^accumNBits
    <3>1. 2^accumNBits \in Nat \ {0}
      BY <2>2, WordPower, WordIs
    <3> QED
      BY <3>1
  <2> HIDE DEF s
  <2>4. s \in Streams /\ s.accum = 0 /\ s.accumNBits = accumNBits /\ s.ptr = Len(buf) - load
    BY <1>1, <1>2, <2>1 DEF Streams
  <2> QED
    BY <1>1, <2>2, <2>3, <2>4 DEF Sound, Ready, s
<1>5. CASE ~ (Len(buf) = 0 /\ n = 0)
  <2>1. /\ ~ (Len(buf) < load \/ accumNBits < WordBits - ByteBits \/ accumNBits >= WordBits)
        /\ ~ (accum >= 2^accumNBits) /\ s = stream(accum)
    BY <1>3, <1>5
  <2>2. accumNBits \in Nat /\ accumNBits < WordBits /\ load <= Len(buf)
    BY <1>1, <1>2, <2>1, WordIs
  <2>3. accum \in Nat
    <3>1. Len(buf) - load \in Nat /\ (Len(buf) - load) + load <= Len(buf)
      BY <1>1, <2>2
    <3>2. accum \in 0 .. 2^(ByteBits * load) - 1
      BY <1>1, <3>1, LoadWordIs DEF accum
    <3> HIDE DEF accum
    <3> QED
      BY <3>2
  <2>4. accum < 2^accumNBits
    <3>1. 2^accumNBits \in Nat \ {0}
      BY <2>2, WordPower, WordIs
    <3> QED
      BY <2>1, <2>3, <3>1
  <2> HIDE DEF s
  <2>5. s \in Streams /\ s.accum = accum /\ s.accumNBits = accumNBits /\ s.ptr = Len(buf) - load
    BY <1>1, <1>2, <2>1, <2>3 DEF Streams
  <2> QED
    BY <1>1, <2>2, <2>4, <2>5 DEF Sound, Ready, s
<1> QED
  BY <1>4, <1>5

\* The next value of a coder (fseValueDecode): its table is only ever indexed inside.
LEMMA TakeKeeps ==
    ASSUME NEW c \in Range(Coders), NEW table, TableOK(table, c),
           NEW state \in 0 .. NStates[c] - 1, NEW buf, NEW s, Sound(s, buf),
           NEW k \in Nat, Ready(s, MaxBits(c) + k)
    PROVE  /\ Sound(Take(s, table, state).stream, buf) /\ Ready(Take(s, table, state).stream, k)
           /\ Take(s, table, state).state \in 0 .. NStates[c] - 1
           /\ Take(s, table, state).value \in Nat
<1> DEFINE e == table[state]
           pulled == InPull(s, e.totalBits)
           n == e.totalBits
           w == MaxBits(c)
<1>1. EntryOK(e, NStates[c], w)
  BY DEF TableOK
<1>2. w \in Nat /\ w <= WordBits
  BY MaxBitsFit, WordIs
<1> HIDE DEF e
<1>3. /\ n \in Nat /\ n <= w /\ n <= WordBits /\ e.vbase \in Nat /\ 2^e.valueBits \in Nat \ {0}
      /\ \A b \in 0 .. 2^n - 1 : e.delta + b \div 2^e.valueBits \in 0 .. NStates[c] - 1
  BY <1>1, <1>2, WordIs DEF EntryOK
<1>4. s.accumNBits \in Int
  BY SoundFields
<1>5. Ready(s, n + k)
  <2> HIDE DEF n, w
  <2>1. s.accumNBits >= w + k \/ s.ptr <= 0
    BY DEF Ready, w
  <2> QED
    BY <1>2, <1>3, <1>4, <2>1 DEF Ready
<1>6. Sound(pulled.stream, buf) /\ Ready(pulled.stream, k) /\ pulled.b \in 0 .. 2^n - 1
  BY <1>3, <1>5, PullKeeps
<1>7. 2^n \in Nat \ {0}
  BY <1>3, WordPower
<1> HIDE DEF pulled
<1>8. /\ Take(s, table, state).stream = pulled.stream
      /\ Take(s, table, state).state = e.delta + pulled.b \div 2^e.valueBits
      /\ Take(s, table, state).value = e.vbase + (pulled.b % 2^e.valueBits)
  BY DEF Take, Decode, e, pulled
<1>9. e.vbase + (pulled.b % 2^e.valueBits) \in Nat
  <2> DEFINE p == 2^e.valueBits
  <2>1. pulled.b \in Nat
    BY <1>6, <1>7
  <2>2. pulled.b % p \in Nat
    <3> HIDE DEF p
    <3> QED
      BY <1>3, <2>1, RemainderAtMost DEF p
  <2> QED
    BY <1>3, <2>2
<1> QED
  BY <1>3, <1>6, <1>8, <1>9

\* A group of literals, one of each lane after one flush.
\* One of the values of a group, taken from x, which has enough bits for it.
TakenOne(t, x, table, state, buf) ==
    t = Take(x, table, state) /\ Sound(x, buf) /\ \E more \in Nat : Ready(x, MaxBits("lit") + more)

LEMMA GroupTaken ==
    ASSUME NEW table, TableOK(table, "lit"), NEW st, \A j \in 1 .. Lanes : st[j] \in 0 .. NStates["lit"] - 1,
           NEW buf, NEW s, Sound(s, buf), Ready(s, Lanes * MaxBits("lit"))
    PROVE  LET taken[j \in 1 .. Lanes] ==
                 Take(IF j = 1 THEN s ELSE taken[j - 1].stream, table, st[j])
           IN \A j \in 1 .. Lanes :
                /\ Sound(taken[j].stream, buf) /\ Ready(taken[j].stream, 0)
                /\ taken[j].state \in 0 .. NStates["lit"] - 1 /\ taken[j].value \in Nat
                /\ TakenOne(taken[j], IF j = 1 THEN s ELSE taken[j - 1].stream, table, st[j], buf)
<1> DEFINE w == MaxBits("lit")
           n == NStates["lit"]
           Loads(g) == [j \in 1 .. Lanes |-> Take(IF j = 1 THEN s ELSE g[j - 1].stream, table, st[j])]
           taken == CHOOSE g : g = Loads(g)
           TakenOK(t, k) == Sound(t.stream, buf) /\ Ready(t.stream, k * w)
           Out(t) == t.state \in 0 .. n - 1 /\ t.value \in Nat
           All == {Take(x, table, st[j]) : x \in {y \in Streams : Sound(y, buf)}, j \in 1 .. Lanes}
                    \cup {[stream |-> s]}
           S == [j \in 0 .. Lanes |-> {t \in All : TakenOK(t, Lanes - j) /\ (j # 0 => Out(t))}]
           G == [j \in 1 .. Lanes |-> [t \in All |-> Take(t.stream, table, st[j])]]
           base == [stream |-> s]
<1>1. w \in Nat /\ Lanes \in Nat \ {0} /\ "lit" \in Range(Coders)
  <2>1. "lit" \in Range(Coders)
    BY TheCoders
  <2>2. w \in Nat
    BY <2>1, MaxBitsFit
  <2>3. Lanes \in Nat \ {0}
    BY EntropyAssumption
  <2> QED
    BY <2>1, <2>2, <2>3
<1>2. base \in S[0]
  <2>1. base \in All /\ base.stream = s
    OBVIOUS
  <2>2. TakenOK(base, Lanes - 0)
    BY <1>1, <2>1
  <2> HIDE DEF All, TakenOK
  <2> QED
    BY <1>1, <2>1, <2>2
<1>3. ASSUME NEW j \in 1 .. Lanes, NEW t \in S[j - 1]
      PROVE  G[j][t] = Take(t.stream, table, st[j]) /\ G[j][t] \in S[j]
  <2> DEFINE v == Take(t.stream, table, st[j])
  <2>1. t \in All /\ TakenOK(t, Lanes - (j - 1))
    <3>1. j - 1 \in 0 .. Lanes
      BY <1>1
    <3> HIDE DEF All, TakenOK, Out
    <3> QED
      BY <3>1
  <2>2. Sound(t.stream, buf) /\ Ready(t.stream, (Lanes - (j - 1)) * w)
    BY <2>1
  <2>3. (Lanes - (j - 1)) * w = w + (Lanes - j) * w /\ (Lanes - j) * w \in Nat
    <3>1. Lanes - j \in Nat /\ Lanes - (j - 1) = (Lanes - j) + 1
      BY <1>1, SMTT(30)
    <3> HIDE DEF w
    <3>2. \A a, b \in Nat : (a + 1) * b = b + a * b /\ a * b \in Nat
      OBVIOUS
    <3> QED
      BY <1>1, <3>1, <3>2
  <2>4. st[j] \in 0 .. n - 1
    OBVIOUS
  <2> DEFINE k == (Lanes - j) * w
             x == t.stream
  <2>5. Sound(x, buf) /\ Ready(x, w + k) /\ k \in Nat
    BY <2>2, <2>3
  <2>6. Sound(v.stream, buf) /\ Ready(v.stream, k) /\ v.state \in 0 .. n - 1 /\ v.value \in Nat
    <3> HIDE DEF k, x
    <3> QED
      BY <1>1, <2>4, <2>5, TakeKeeps, SMTT(30) DEF x
  <2>7. TakenOK(v, Lanes - j) /\ Out(v)
    BY <2>6
  <2>8. v \in All
    <3>1. t.stream \in Streams
      BY <2>2, SoundFields
    <3> QED
      BY <2>2, <3>1
  <2>9. G[j][t] = v
    <3> HIDE DEF All
    <3> QED
      BY <2>1
  <2>10. j \in 0 .. Lanes
    BY <1>1
  <2> HIDE DEF v, All, TakenOK, Out, G
  <2>11. v \in S[j]
    BY <2>7, <2>8, <2>10
  <2> QED
    BY <2>9, <2>11 DEF v
<1>4. GoesOn(G, Lanes, S)
  <2> HIDE DEF G, S
  <2> QED
    BY <1>3 DEF GoesOn
<1>5. PICK h : Follows(h, Lanes, S) /\ Chains(h, base, Lanes, G)
  <2> HIDE DEF G, S, base
  <2> QED
    BY <1>1, <1>2, <1>4, ChainFollows
<1> DEFINE g == [j \in 1 .. Lanes |-> h[j]]
<1>6. ASSUME NEW j \in 1 .. Lanes
      PROVE  h[j] = Take(IF j = 1 THEN s ELSE g[j - 1].stream, table, st[j])
  <2>1. j - 1 \in 0 .. Lanes /\ h[j - 1] \in S[j - 1] /\ h[j] = G[j][h[j - 1]] /\ h[0] = base
    <3>1. j - 1 \in 0 .. Lanes
      BY <1>1
    <3> HIDE DEF S, G, base
    <3>2. \A i \in 0 .. Lanes : h[i] \in S[i]
      BY <1>5, Zenon DEF Follows
    <3>3. h[0] = base /\ \A i \in 1 .. Lanes : h[i] = G[i][h[i - 1]]
      BY <1>5, Zenon DEF Chains
    <3> QED
      BY <3>1, <3>2, <3>3
  <2>2. h[j] = Take(h[j - 1].stream, table, st[j])
    <3> HIDE DEF S, G
    <3> QED
      BY <1>3, <2>1
  <2>3. h[j - 1].stream = IF j = 1 THEN s ELSE g[j - 1].stream
    <3>1. CASE j = 1
      BY <2>1, <3>1
    <3>2. CASE j # 1
      <4>1. j - 1 \in 1 .. Lanes
        BY <1>1, <3>2
      <4> QED
        BY <3>2, <4>1
    <3> QED
      BY <3>1, <3>2
  <2> QED
    BY <2>2, <2>3
<1>7. g = Loads(g)
  <2>1. \A j \in 1 .. Lanes : g[j] = Take(IF j = 1 THEN s ELSE g[j - 1].stream, table, st[j])
    BY <1>6
  <2> QED
    BY <2>1
<1>8. taken = Loads(taken)
  <2> HIDE DEF Loads, g
  <2> QED
    BY <1>7
<1>9. \A j \in 1 .. Lanes : taken[j] = Take(IF j = 1 THEN s ELSE taken[j - 1].stream, table, st[j])
  <2> HIDE DEF taken
  <2> QED
    BY <1>8
<1> HIDE DEF taken
<1> DEFINE T == {i \in Nat : i + 1 <= Lanes => taken[i + 1] \in S[i + 1]}
<1>10. ASSUME NEW j \in 1 .. Lanes, NEW t \in S[j - 1], taken[j] = Take(t.stream, table, st[j])
       PROVE  taken[j] \in S[j]
  <2> HIDE DEF S, G
  <2> QED
    BY <1>3, <1>10
<1>11. 0 \in T
  <2>1. 1 \in 1 .. Lanes /\ base.stream = s /\ 1 - 1 = 0
    BY <1>1
  <2>2. taken[1] = Take(base.stream, table, st[1])
    BY <1>9, <2>1
  <2>3. taken[1] \in S[1]
    <3> HIDE DEF S, base
    <3> QED
      BY <1>2, <1>10, <2>1, <2>2
  <2> HIDE DEF S
  <2> QED
    BY <2>3
<1>12. ASSUME NEW i \in Nat, i \in T PROVE i + 1 \in T
  <2> SUFFICES ASSUME (i + 1) + 1 <= Lanes PROVE taken[(i + 1) + 1] \in S[(i + 1) + 1]
    OBVIOUS
  <2>1. /\ (i + 1) + 1 \in 1 .. Lanes /\ ((i + 1) + 1) - 1 = i + 1 /\ (i + 1) + 1 # 1
        /\ i + 1 <= Lanes
    BY <1>1
  <2>2. taken[i + 1] \in S[i + 1]
    <3> HIDE DEF S
    <3> QED
      BY <1>12, <2>1
  <2>3. taken[(i + 1) + 1] = Take(taken[i + 1].stream, table, st[(i + 1) + 1])
    BY <1>9, <2>1
  <2> HIDE DEF S
  <2> QED
    BY <1>10, <2>1, <2>2, <2>3
<1>13. ASSUME NEW j \in 1 .. Lanes PROVE taken[j] \in S[j]
  <2>1. j - 1 \in Nat /\ (j - 1) + 1 = j /\ j <= Lanes
    BY <1>1
  <2>2. j - 1 \in T
    <3> HIDE DEF T
    <3> QED
      BY <1>11, <1>12, <2>1, Induction
  <2> HIDE DEF S
  <2> QED
    BY <2>1, <2>2
<1>14. ASSUME NEW j \in 1 .. Lanes
       PROVE  /\ Sound(taken[j].stream, buf) /\ Ready(taken[j].stream, 0)
              /\ taken[j].state \in 0 .. n - 1 /\ taken[j].value \in Nat
  <2>1. TakenOK(taken[j], Lanes - j) /\ Out(taken[j])
    <3> HIDE DEF TakenOK, Out, All
    <3>1. j \in 0 .. Lanes /\ j # 0
      BY <1>1
    <3> QED
      BY <1>13, <3>1
  <2> DEFINE k == (Lanes - j) * w
             x == taken[j].stream
  <2>2. k \in Nat
    <3>1. Lanes - j \in Nat
      BY <1>1
    <3> HIDE DEF w
    <3>2. \A a, b \in Nat : a * b \in Nat
      OBVIOUS
    <3> QED
      BY <1>1, <3>1, <3>2
  <2>3. Sound(x, buf) /\ Ready(x, k)
    BY <2>1
  <2>4. Ready(x, 0)
    <3>1. x.accumNBits \in Int
      BY <2>3, SoundFields
    <3> HIDE DEF k, x
    <3> QED
      BY <2>2, <2>3, <3>1 DEF Ready
  <2> QED
    BY <2>1, <2>3, <2>4
<1>15. ASSUME NEW j \in 1 .. Lanes
       PROVE  TakenOne(taken[j], IF j = 1 THEN s ELSE taken[j - 1].stream, table, st[j], buf)
  <2> DEFINE x == IF j = 1 THEN s ELSE taken[j - 1].stream
             k == (Lanes - j) * w
  <2>1. \E t \in S[j - 1] : t.stream = x
    <3>1. CASE j = 1
      <4>1. base.stream = x /\ j - 1 = 0
        BY <3>1
      <4> HIDE DEF S, base, x
      <4>2. base \in S[j - 1]
        BY <1>2, <4>1
      <4> QED
        BY <4>1, <4>2
    <3>2. CASE j # 1
      <4>1. j - 1 \in 1 .. Lanes /\ taken[j - 1].stream = x
        BY <1>1, <3>2
      <4> HIDE DEF S, x
      <4> QED
        BY <1>13, <4>1
    <3> HIDE DEF S, x
    <3> QED
      BY <3>1, <3>2
  <2>2. PICK t \in S[j - 1] : t.stream = x
    <3> HIDE DEF S, x
    <3> QED
      BY <2>1
  <2>3. TakenOK(t, Lanes - (j - 1))
    <3>1. j - 1 \in 0 .. Lanes
      BY <1>1
    <3> HIDE DEF All, TakenOK, Out, x
    <3> QED
      BY <2>2, <3>1
  <2>4. Sound(x, buf) /\ Ready(x, (Lanes - (j - 1)) * w)
    BY <2>2, <2>3
  <2>5. (Lanes - (j - 1)) * w = w + k /\ k \in Nat
    <3> HIDE DEF S
    <3>1. Lanes - j \in Nat /\ Lanes - (j - 1) = (Lanes - j) + 1
      BY <1>1
    <3>2. \A a, b \in Nat : (a + 1) * b = b + a * b /\ a * b \in Nat
      OBVIOUS
    <3> DEFINE l == Lanes - j
    <3>3. l \in Nat /\ Lanes - (j - 1) = l + 1 /\ w \in Nat
      BY <1>1, <3>1
    <3> HIDE DEF w, l
    <3>4. (l + 1) * w = w + l * w /\ l * w \in Nat
      BY <3>2, <3>3
    <3> QED
      BY <3>3, <3>4 DEF l
  <2>6. Ready(x, w + k) /\ k \in Nat
    BY <2>4, <2>5
  <2> HIDE DEF k, S
  <2>7. \E more \in Nat : Ready(x, MaxBits("lit") + more)
    BY <2>6
  <2>8. taken[j] = Take(x, table, st[j])
    BY <1>9
  <2> HIDE DEF x
  <2>9. TakenOne(taken[j], x, table, st[j], buf)
    BY <2>4, <2>7, <2>8 DEF TakenOne
  <2> QED
    BY <2>9 DEF x
<1> QED
  BY <1>14, <1>15 DEF taken

-----------------------------------------------------------------------------
(***************************************************************************)
(* The bit streams of the encoder: what is pushed are bits, and a finished *)
(* stream is bytes.                                                        *)
(***************************************************************************)
\* The laws of powers of two that a number of n bits needs.
PowersUpTo(n) ==
    /\ 2^0 = 1 /\ \A i \in 0 .. n : 2^i \in Nat \ {0}
    /\ \A i \in 0 .. n - 1 : 2^(i + 1) = 2^i * 2

LEMMA NarrowPowers ==
    ASSUME NEW n \in Nat, n <= PrecisionBits \/ n <= WordBits
    PROVE  PowersUpTo(n)
<1>1. ASSUME NEW i \in 0 .. n PROVE 2^i \in Nat \ {0}
  <2>1. i \in 0 .. PrecisionBits \/ (i \in Nat /\ i <= WordBits)
    BY PowersOfTwo, WordIs
  <2> QED
    BY <2>1, PowersOfTwo, WordPower
<1>2. ASSUME NEW i \in 0 .. n - 1 PROVE 2^(i + 1) = 2^i * 2
  <2>1. i \in Nat /\ 1 \in Nat /\ i + 1 <= n
    OBVIOUS
  <2>2. CASE n <= PrecisionBits
    <3>1. i \in 0 .. PrecisionBits /\ 1 \in 0 .. PrecisionBits /\ i + 1 <= PrecisionBits
      BY <2>1, <2>2, PowersOfTwo
    <3> QED
      BY <3>1, PowersOfTwo
  <2>3. CASE n <= WordBits
    <3>1. i + 1 <= WordBits
      BY <2>1, <2>3, WordIs
    <3>2. 2^(i + 1) = 2^i * 2^1
      BY <2>1, <3>1, WordPowers
    <3> QED
      BY <3>2, PowersOfTwo
  <2> QED
    BY <2>2, <2>3
<1> QED
  BY <1>1, <1>2, PowersOfTwo DEF PowersUpTo

LEMMA ParityIs ==
    ASSUME NEW v \in Int, NEW p \in Nat \ {0}
    PROVE  (v \div p) % 2 \in Bit
<1>1. v \div p \in Int
  OBVIOUS
<1> DEFINE q == v \div p
<1> HIDE DEF q
<1>2. q \in Int => q % 2 \in 0 .. 1
  OBVIOUS
<1> QED
  BY <1>1, <1>2 DEF Bit, q

LEMMA LowBitsAre ==
    ASSUME NEW n \in Nat, NEW v \in Int, PowersUpTo(n)
    PROVE  LowBits(n, v) \in Seq(Bit) /\ Len(LowBits(n, v)) = n
<1>1. ASSUME NEW i \in 1 .. n PROVE (v \div 2^(i - 1)) % 2 \in Bit
  <2>1. i - 1 \in 0 .. n
    OBVIOUS
  <2>2. 2^(i - 1) \in Nat \ {0}
    BY <2>1 DEF PowersUpTo
  <2> QED
    BY <2>2, ParityIs
<1>2. LowBits(n, v) \in [1 .. n -> Bit]
  BY <1>1 DEF LowBits
<1> QED
  BY <1>2, AsSequence

\* The sums that lead to the number of n bits, one bit more at a time.
LEMMA ValueSum ==
    ASSUME NEW bits \in Seq(Bit), NEW from \in Nat, NEW n \in Nat, PowersUpTo(n)
    PROVE  \E sum :
             /\ sum[0] = 0 /\ \A i \in 0 .. n : sum[i] \in 0 .. 2^i - 1
             /\ \A i \in 1 .. n :
                  sum[i] = sum[i - 1] + (IF from + i <= Len(bits) THEN bits[from + i] * 2^(i - 1) ELSE 0)
             /\ Value(bits, from, n) = sum[n]
<1> DEFINE One(r, i) == r + (IF from + i <= Len(bits) THEN bits[from + i] * 2^(i - 1) ELSE 0)
           G == [i \in 1 .. n |-> [r \in Nat |-> One(r, i)]]
           Loads(g) == [i \in 0 .. n |-> IF i = 0 THEN 0
                          ELSE g[i - 1] + (IF from + i <= Len(bits) THEN bits[from + i] * 2^(i - 1) ELSE 0)]
           sum == CHOOSE g : g = Loads(g)
           S == [i \in 0 .. n |-> 0 .. 2^i - 1]
<1>1. ASSUME NEW i \in 1 .. n, NEW r \in S[i - 1] PROVE G[i][r] = One(r, i) /\ G[i][r] \in S[i]
  <2> DEFINE p == 2^(i - 1)
             x == IF from + i <= Len(bits) THEN bits[from + i] ELSE 0
  <2>1. i - 1 \in 0 .. n /\ i \in 0 .. n /\ i - 1 \in 0 .. n - 1 /\ (i - 1) + 1 = i
    OBVIOUS
  <2>2. p \in Nat \ {0} /\ 2^i = p * 2
    BY <2>1 DEF PowersUpTo
  <2>3. r \in 0 .. p - 1
    BY <2>1
  <2>4. x \in 0 .. 1
    <3>1. CASE from + i <= Len(bits)
      <4>1. from + i \in 1 .. Len(bits)
        BY <3>1
      <4>2. bits[from + i] \in Bit
        BY <4>1
      <4> QED
        BY <3>1, <4>2 DEF Bit
    <3> QED
      BY <3>1
  <2>5. One(r, i) = r + x * p
    <3>1. CASE from + i <= Len(bits)
      BY <3>1
    <3>2. CASE ~ (from + i <= Len(bits))
      BY <2>2, <2>3, <3>2
    <3> QED
      BY <3>1, <3>2
  <2>6. r + x * p \in 0 .. p * 2 - 1
    <3> HIDE DEF p, x
    <3>1. CASE x = 0
      <4>1. x * p = 0
        BY <2>2, <3>1
      <4> QED
        BY <2>2, <2>3, <4>1
    <3>2. CASE x = 1
      <4>1. x * p = p
        BY <2>2, <3>2
      <4> QED
        BY <2>2, <2>3, <4>1
    <3> QED
      BY <2>4, <3>1, <3>2
  <2>7. G[i][r] = One(r, i)
    <3>1. r \in Nat
      BY <2>2, <2>3
    <3> HIDE DEF One
    <3> QED
      BY <3>1
  <2> HIDE DEF G, One, x
  <2>8. One(r, i) \in 0 .. 2^i - 1
    BY <2>2, <2>5, <2>6
  <2> QED
    BY <2>1, <2>7, <2>8
<1>2. 0 \in S[0]
  BY DEF PowersUpTo
<1>3. GoesOn(G, n, S)
  <2> HIDE DEF G, S
  <2> QED
    BY <1>1 DEF GoesOn
<1>4. PICK g : Follows(g, n, S) /\ Chains(g, 0, n, G)
  <2> HIDE DEF G, S
  <2> QED
    BY <1>2, <1>3, ChainFollows
<1>5. g[0] = 0 /\ \A i \in 1 .. n : g[i] = One(g[i - 1], i)
  <2>1. /\ \A i \in 0 .. n : g[i] \in S[i]
        /\ g[0] = 0 /\ \A i \in 1 .. n : g[i] = G[i][g[i - 1]]
    BY <1>4, Zenon DEF Follows, Chains
  <2>2. ASSUME NEW i \in 1 .. n PROVE g[i] = One(g[i - 1], i)
    <3>1. i - 1 \in 0 .. n
      OBVIOUS
    <3> HIDE DEF S, G, One
    <3> QED
      BY <1>1, <2>1, <3>1
  <2> QED
    BY <2>1, <2>2
<1>6. g = Loads(g)
  <2>1. g = [i \in 0 .. n |-> g[i]]
    BY <1>4, Zenon DEF Follows
  <2>2. ASSUME NEW i \in 0 .. n
        PROVE  g[i] = IF i = 0 THEN 0
                      ELSE g[i - 1] + (IF from + i <= Len(bits) THEN bits[from + i] * 2^(i - 1) ELSE 0)
    <3>1. CASE i = 0
      BY <1>5, <3>1
    <3>2. CASE i # 0
      <4>1. i \in 1 .. n
        BY <3>2
      <4> QED
        BY <1>5, <3>2, <4>1
    <3> QED
      BY <3>1, <3>2
  <2> QED
    BY <2>1, <2>2
<1>7. sum = Loads(sum)
  <2> HIDE DEF Loads
  <2> QED
    BY <1>6
<1>8. sum[0] = 0 /\ \A i \in 1 .. n : sum[i] = One(sum[i - 1], i)
  <2>1. \A i \in 0 .. n : sum[i] = IF i = 0 THEN 0
                          ELSE sum[i - 1] + (IF from + i <= Len(bits) THEN bits[from + i] * 2^(i - 1) ELSE 0)
    <3> HIDE DEF sum
    <3> QED
      BY <1>7
  <2> HIDE DEF sum
  <2> QED
    BY <2>1
<1>9. Value(bits, from, n) = sum[n]
  BY DEF Value
<1> HIDE DEF sum
<1> DEFINE T == {i \in Nat : i <= n => sum[i] \in S[i]}
<1>11. 0 \in T
  <2> HIDE DEF S
  <2> QED
    BY <1>2, <1>8
<1>12. ASSUME NEW i \in Nat, i \in T PROVE i + 1 \in T
  <2> SUFFICES ASSUME i + 1 <= n PROVE sum[i + 1] \in S[i + 1]
    OBVIOUS
  <2>1. i + 1 \in 1 .. n /\ (i + 1) - 1 = i /\ i <= n
    OBVIOUS
  <2>2. sum[i] \in S[i]
    BY <1>12, <2>1
  <2> HIDE DEF S, G, One
  <2> QED
    BY <1>1, <1>8, <2>1, <2>2
<1>13. \A i \in 0 .. n : sum[i] \in 0 .. 2^i - 1
  <2>1. Nat \subseteq T
    <3> HIDE DEF T
    <3> QED
      BY <1>11, <1>12, Induction
  <2>2. ASSUME NEW i \in 0 .. n PROVE sum[i] \in S[i] /\ S[i] = 0 .. 2^i - 1
    <3>1. i \in Nat /\ i <= n
      OBVIOUS
    <3>2. i \in T
      <4> HIDE DEF T
      <4> QED
        BY <2>1, <3>1
    <3>3. sum[i] \in S[i]
      BY <3>1, <3>2
    <3> QED
      BY <3>3
  <2> QED
    BY <2>2
<1> QED
  BY <1>8, <1>9, <1>13

\* A number of n bits, whatever of the sequence it takes.
LEMMA ValueIs ==
    ASSUME NEW bits \in Seq(Bit), NEW from \in Nat, NEW n \in Nat, PowersUpTo(n)
    PROVE  Value(bits, from, n) \in 0 .. 2^n - 1
<1>1. PICK sum :
         /\ sum[0] = 0 /\ \A i \in 0 .. n : sum[i] \in 0 .. 2^i - 1
         /\ \A i \in 1 .. n :
              sum[i] = sum[i - 1] + (IF from + i <= Len(bits) THEN bits[from + i] * 2^(i - 1) ELSE 0)
         /\ Value(bits, from, n) = sum[n]
  BY ValueSum
<1>2. n \in 0 .. n
  OBVIOUS
<1> QED
  BY <1>1, <1>2

LEMMA SameValue ==
    ASSUME NEW bits, NEW from, NEW n
    PROVE  V2!Bits!Value(bits, from, n) = Value(bits, from, n)
BY DEF V2!Bits!Value, Value

LEMMA SameLowBits ==
    ASSUME NEW n, NEW v
    PROVE  V2!Bits!LowBits(n, v) = LowBits(n, v)
BY DEF V2!Bits!LowBits, LowBits

LEMMA FinishIs ==
    ASSUME NEW bits \in Seq(Bit)
    PROVE  Finish(bits, ByteBits).buf \in Seq(Byte) /\ Finish(bits, ByteBits).n \in Int
<1> DEFINE width == ByteBits
           last == Len(bits) % width
           nbytes == (Len(bits) + width - 1) \div width
           buf == [i \in 1 .. nbytes |-> Value(bits, (i - 1) * width, width)]
<1>1. width \in Nat \ {0} /\ Len(bits) \in Nat /\ PowersUpTo(width)
  BY WordIs, NarrowPowers
<1>2. nbytes \in Nat /\ last \in Nat
  <2> HIDE DEF width
  <2> DEFINE k == Len(bits)
             m == k + width - 1
  <2>1. m \in Nat /\ k \in Nat
    BY <1>1
  <2> HIDE DEF k, m
  <2>2. m \div width \in Nat /\ k % width \in Nat
    BY <1>1, <2>1, Division, RemainderAtMost
  <2> QED
    BY <2>2 DEF k, m
<1>3. Finish(bits, ByteBits).buf = buf /\ Finish(bits, ByteBits).n = IF last > 0 THEN last - width ELSE 0
  BY DEF Finish
<1>4. ASSUME NEW i \in 1 .. nbytes PROVE Value(bits, (i - 1) * width, width) \in Byte
  <2>1. (i - 1) * width \in Nat
    <3>1. i - 1 \in Nat
      BY <1>2
    <3> HIDE DEF width
    <3> QED
      BY <1>1, <3>1
  <2> DEFINE from == (i - 1) * width
  <2>2. Value(bits, from, width) \in 0 .. 2^width - 1
    <3> HIDE DEF from, width
    <3> QED
      BY <1>1, <2>1, ValueIs DEF from
  <2> QED
    BY <2>2 DEF Byte
<1>5. buf \in Seq(Byte)
  <2>1. buf \in [1 .. nbytes -> Byte]
    BY <1>4
  <2> HIDE DEF buf, nbytes
  <2> QED
    BY <1>2, <2>1, AsSequence
<1> HIDE DEF buf, last
<1> QED
  BY <1>1, <1>2, <1>3, <1>5

-----------------------------------------------------------------------------
(***************************************************************************)
(* The headers: whatever bytes and bits they are, the fields read are      *)
(* numbers, and the frequency code gives a number for each symbol.         *)
(***************************************************************************)
\* What a header that is read has for its fields.
FieldsRead(h) ==
    /\ h.nLiterals \in Nat /\ h.nMatches \in Nat
    /\ h.nLitPayload \in Nat /\ h.nLMDPayload \in Nat
    /\ h.litBits \in Int /\ h.lmdBits \in Int
    /\ \A j \in 1 .. Lanes : h.litStates[j] \in Nat
    /\ \A c \in LMD : h.lmdStates[c] \in Nat

LEMMA V1ReadIs ==
    ASSUME NEW nsym \in Nat, NEW b \in Seq(Nat), Len(b) = 52 + 2 * nsym
    PROVE  /\ FieldsRead(V1!Read(b, Lanes, nsym))
           /\ V1!Read(b, Lanes, nsym).freqs \in [1 .. nsym -> Nat]
<1> DEFINE size == Len(b)
<1>1. size \in Nat /\ size = 52 + 2 * nsym
  OBVIOUS
<1>0. V1!ByteSize \in Nat /\ V1!Half \in Nat
  <2>1. V1!ByteSize \in Nat
    BY DEF V1!ByteSize
  <2> QED
    BY <2>1 DEF V1!Half
<1>2. ASSUME NEW at \in Nat, at + 2 <= size PROVE V1!Uint16(b, at) \in Nat
  <2>1. at + 1 \in 1 .. Len(b) /\ at + 2 \in 1 .. Len(b)
    BY <1>1, <1>2
  <2>2. b[at + 1] \in Nat /\ b[at + 2] \in Nat
    BY <2>1
  <2> QED
    BY <1>0, <2>2, SMTT(30) DEF V1!Uint16
<1> HIDE DEF size
<1>3. ASSUME NEW at \in Nat, at + 4 <= size
      PROVE  V1!Uint32(b, at) \in Nat /\ V1!Int32(b, at) \in Int
  <2> DEFINE lo == V1!Uint16(b, at)
             hi == V1!Uint16(b, at + 2)
  <2>1. lo \in Nat /\ hi \in Nat
    <3>1. at + 2 <= size /\ at + 2 \in Nat /\ (at + 2) + 2 <= size
      BY <1>1, <1>3
    <3> QED
      BY <1>2, <3>1
  <2>2. V1!Uint32(b, at) = lo + V1!Half * hi
        /\ V1!Int32(b, at) = lo + V1!Half * (IF hi < V1!Half \div 2 THEN hi ELSE hi - V1!Half)
    BY DEF V1!Uint32, V1!Int32
  <2> HIDE DEF lo, hi
  <2> DEFINE half == V1!Half
             k == half \div 2
  <2>3. half \in Nat /\ k \in Int
    BY <1>0
  <2>4. V1!Uint32(b, at) = lo + half * hi
        /\ V1!Int32(b, at) = lo + half * (IF hi < k THEN hi ELSE hi - half)
    BY <2>2
  <2> HIDE DEF half, k
  <2> QED
    BY <2>1, <2>3, <2>4
<1> DEFINE h == V1!Read(b, Lanes, nsym)
<1>4. /\ h.nLiterals = V1!Uint32(b, 12) /\ h.nMatches = V1!Uint32(b, 16)
      /\ h.nLitPayload = V1!Uint32(b, 20) /\ h.nLMDPayload = V1!Uint32(b, 24)
      /\ h.litBits = V1!Int32(b, 28) /\ h.lmdBits = V1!Int32(b, 40)
      /\ h.litStates = [j \in 1 .. Lanes |-> V1!Uint16(b, 32 + 2 * (j - 1))]
      /\ h.lmdStates = [l |-> V1!Uint16(b, 44), m |-> V1!Uint16(b, 46), d |-> V1!Uint16(b, 48)]
      /\ h.freqs = [i \in 1 .. nsym |-> V1!Uint16(b, 52 + 2 * (i - 1))]
  BY DEF V1!Read, V1!FreqsAt
<1> HIDE DEF h
<1>5. /\ h.nLiterals \in Nat /\ h.nMatches \in Nat
      /\ h.nLitPayload \in Nat /\ h.nLMDPayload \in Nat
      /\ h.litBits \in Int /\ h.lmdBits \in Int
  <2>1. /\ 12 + 4 <= size /\ 16 + 4 <= size /\ 20 + 4 <= size /\ 24 + 4 <= size
        /\ 28 + 4 <= size /\ 40 + 4 <= size
    BY <1>1
  <2>2. /\ V1!Uint32(b, 12) \in Nat /\ V1!Uint32(b, 16) \in Nat /\ V1!Uint32(b, 20) \in Nat
        /\ V1!Uint32(b, 24) \in Nat /\ V1!Int32(b, 28) \in Int /\ V1!Int32(b, 40) \in Int
    BY <1>3, <2>1
  <2> QED
    BY <1>4, <2>2
<1>6. ASSUME NEW j \in 1 .. Lanes PROVE h.litStates[j] \in Nat
  <2>1. 32 + 2 * (j - 1) \in Nat /\ (32 + 2 * (j - 1)) + 2 <= size
    BY <1>1, EntropyAssumption
  <2> QED
    BY <1>2, <1>4, <2>1
<1>7. ASSUME NEW c \in LMD PROVE h.lmdStates[c] \in Nat
  <2>1. V1!Uint16(b, 44) \in Nat /\ V1!Uint16(b, 46) \in Nat /\ V1!Uint16(b, 48) \in Nat
    <3>1. 44 + 2 <= size /\ 46 + 2 <= size /\ 48 + 2 <= size
      BY <1>1
    <3> QED
      BY <1>2, <3>1
  <2>2. c = "l" \/ c = "m" \/ c = "d"
    BY DEF LMD
  <2>3. h.lmdStates = [l |-> V1!Uint16(b, 44), m |-> V1!Uint16(b, 46), d |-> V1!Uint16(b, 48)]
    BY <1>4
  <2> DEFINE x == V1!Uint16(b, 44)
             y == V1!Uint16(b, 46)
             z == V1!Uint16(b, 48)
             st == h.lmdStates
  <2>4. st = [l |-> x, m |-> y, d |-> z] /\ x \in Nat /\ y \in Nat /\ z \in Nat
    BY <2>1, <2>3
  <2> HIDE DEF x, y, z, st
  <2>5. st["l"] \in Nat /\ st["m"] \in Nat /\ st["d"] \in Nat
    BY <2>4
  <2> QED
    BY <2>2, <2>5 DEF st
<1>8. ASSUME NEW i \in 1 .. nsym PROVE V1!Uint16(b, 52 + 2 * (i - 1)) \in Nat
  <2>1. 52 + 2 * (i - 1) \in Nat /\ (52 + 2 * (i - 1)) + 2 <= size
    BY <1>1
  <2> QED
    BY <1>2, <2>1
<1>9. h.freqs \in [1 .. nsym -> Nat]
  BY <1>4, <1>8
<1> QED
  BY <1>5, <1>6, <1>7, <1>9 DEF FieldsRead, h

LEMMA NumberOf ==
    ASSUME NEW bits \in Seq(Bit), NEW from \in Nat, NEW n \in 0 .. 20
    PROVE  V2!Bits!Value(bits, from, n) \in Nat /\ V2!Bits!Value(bits, from, n) < 2^n
<1>1. n \in Nat /\ PowersUpTo(n)
  <2>1. n <= PrecisionBits
    BY EntropyAssumption, PowersOfTwo
  <2> QED
    BY <2>1, NarrowPowers
<1>2. Value(bits, from, n) \in 0 .. 2^n - 1 /\ 2^n \in Nat
  <2>1. 2^n \in Nat
    BY <1>1 DEF PowersUpTo
  <2> QED
    BY <1>1, <2>1, ValueIs
<1>3. V2!Bits!Value(bits, from, n) = Value(bits, from, n)
  BY SameValue
<1> QED
  BY <1>2, <1>3

LEMMA V2UnpackIs ==
    ASSUME NEW words \in [1 .. 3 -> [1 .. V2!HeaderWord -> Bit]], NEW freqs
    PROVE  /\ FieldsRead(V2!Unpack(words, Lanes, freqs)) /\ V2!HeaderSize(words) \in Nat
           /\ V2!Unpack(words, Lanes, freqs).freqs = freqs
<1>1. ASSUME NEW i \in 1 .. 3, NEW shift \in Nat, NEW width \in 0 .. 20
      PROVE  V2!Field(words[i], shift, width) \in Nat
  <2>1. words[i] \in Seq(Bit)
    <3>1. V2!HeaderWord \in Nat
      BY DEF V2!HeaderWord
    <3> QED
      BY <3>1, AsSequence
  <2> QED
    BY <2>1, NumberOf DEF V2!Field
<1> DEFINE h == V2!Unpack(words, Lanes, freqs)
<1>2. /\ h.nLiterals = V2!Field(words[1], 0, 20) /\ h.nLitPayload = V2!Field(words[1], 20, 20)
      /\ h.nMatches = V2!Field(words[1], 40, 20) /\ h.litBits = V2!Field(words[1], 60, 3) - 7
      /\ h.litStates = [j \in 1 .. Lanes |-> V2!Field(words[2], 10 * (j - 1), 10)]
      /\ h.nLMDPayload = V2!Field(words[2], 40, 20) /\ h.lmdBits = V2!Field(words[2], 60, 3) - 7
      /\ h.freqs = freqs
      /\ h.lmdStates = [l |-> V2!Field(words[3], 32, 10), m |-> V2!Field(words[3], 42, 10),
                        d |-> V2!Field(words[3], 52, 10)]
  BY DEF V2!Unpack
<1> HIDE DEF h
<1>3. 1 \in 1 .. 3 /\ 2 \in 1 .. 3 /\ 3 \in 1 .. 3 /\ 20 \in 0 .. 20 /\ 10 \in 0 .. 20 /\ 3 \in 0 .. 20
  OBVIOUS
<1>4. /\ h.nLiterals \in Nat /\ h.nMatches \in Nat /\ h.nLitPayload \in Nat /\ h.nLMDPayload \in Nat
      /\ h.litBits \in Int /\ h.lmdBits \in Int
  <2>1. /\ V2!Field(words[1], 0, 20) \in Nat /\ V2!Field(words[1], 20, 20) \in Nat
        /\ V2!Field(words[1], 40, 20) \in Nat /\ V2!Field(words[1], 60, 3) \in Nat
        /\ V2!Field(words[2], 40, 20) \in Nat /\ V2!Field(words[2], 60, 3) \in Nat
    BY <1>1, <1>3
  <2> QED
    BY <1>2, <2>1, SMTT(30)
<1>5. ASSUME NEW j \in 1 .. Lanes PROVE h.litStates[j] \in Nat
  <2>1. 10 * (j - 1) \in Nat
    BY EntropyAssumption
  <2> QED
    BY <1>1, <1>2, <1>3, <2>1
<1>6. ASSUME NEW c \in LMD PROVE h.lmdStates[c] \in Nat
  <2>1. c = "l" \/ c = "m" \/ c = "d"
    BY DEF LMD
  <2>2. V2!Field(words[3], 32, 10) \in Nat /\ V2!Field(words[3], 42, 10) \in Nat
        /\ V2!Field(words[3], 52, 10) \in Nat
    BY <1>1, <1>3
  <2> QED
    BY <1>2, <2>1, <2>2
<1>7. V2!HeaderSize(words) \in Nat
  BY <1>1, <1>3 DEF V2!HeaderSize
<1> QED
  BY <1>2, <1>4, <1>5, <1>6, <1>7 DEF FieldsRead, h

LEMMA CodeIs ==
    ASSUME NEW v \in Nat
    PROVE  V2!FreqCode(v)[1] \in 0 .. 20 /\ V2!FreqCode(v)[2] \in Int
<1>1. CASE v \in 0 .. 3
  <2>1. V2!FreqCode(v) = <<<<2, 0>>, <<2, 2>>, <<3, 1>>, <<3, 5>>>>[v + 1]
    BY <1>1 DEF V2!FreqCode
  <2>2. v = 0 \/ v = 1 \/ v = 2 \/ v = 3
    BY <1>1
  <2>3. V2!FreqCode(v) \in {<<2, 0>>, <<2, 2>>, <<3, 1>>, <<3, 5>>}
    <3>1. ASSUME v = 0 PROVE V2!FreqCode(v) = <<2, 0>>
      BY <2>1, <3>1
    <3>2. ASSUME v = 1 PROVE V2!FreqCode(v) = <<2, 2>>
      BY <2>1, <3>2
    <3>3. ASSUME v = 2 PROVE V2!FreqCode(v) = <<3, 1>>
      BY <2>1, <3>3
    <3>4. ASSUME v = 3 PROVE V2!FreqCode(v) = <<3, 5>>
      BY <2>1, <3>4
    <3> QED
      BY <2>2, <3>1, <3>2, <3>3, <3>4
  <2> QED
    BY <2>3
<1>2. CASE v > 3 /\ v <= 7
  BY <1>2 DEF V2!FreqCode
<1>3. CASE v > 7 /\ v <= 23
  BY <1>3 DEF V2!FreqCode
<1>4. CASE v > 23
  BY <1>4 DEF V2!FreqCode
<1> QED
  BY <1>1, <1>2, <1>3, <1>4

LEMMA SameFlattenSeq ==
    ASSUME NEW ss
    PROVE  V2!FlattenSeq(ss) = FlattenSeq(ss)
BY DEF V2!FlattenSeq, FlattenSeq

LEMMA WriteFreqsIs ==
    ASSUME NEW freqs \in Seq(Nat)
    PROVE  V2!WriteFreqs(freqs) \in Seq(Bit)
<1> DEFINE code(i) == V2!Bits!LowBits(V2!FreqCode(freqs[i])[1], V2!FreqCode(freqs[i])[2])
           codes == [i \in 1 .. Len(freqs) |-> code(i)]
           bits == V2!FlattenSeq(codes)
           k == (-Len(bits)) % V2!HeaderByte
           pad == [i \in 1 .. k |-> 0]
<1>1. ASSUME NEW i \in 1 .. Len(freqs) PROVE code(i) \in Seq(Bit)
  <2> DEFINE n == V2!FreqCode(freqs[i])[1]
             v == V2!FreqCode(freqs[i])[2]
  <2>1. n \in 0 .. 20 /\ v \in Int
    <3>1. freqs[i] \in Nat
      OBVIOUS
    <3> QED
      BY <3>1, CodeIs
  <2> HIDE DEF n, v
  <2>2. n \in Nat /\ PowersUpTo(n)
    <3>1. n \in Nat /\ n <= PrecisionBits
      BY <2>1, EntropyAssumption, PowersOfTwo
    <3> QED
      BY <3>1, NarrowPowers
  <2>3. LowBits(n, v) \in Seq(Bit)
    BY <2>1, <2>2, LowBitsAre
  <2>4. code(i) = LowBits(n, v)
    BY SameLowBits DEF n, v
  <2> QED
    BY <2>3, <2>4
<1>4. V2!WriteFreqs(freqs) = bits \o pad
  BY DEF V2!WriteFreqs
<1> HIDE DEF code
<1>2. codes \in Seq(Seq(Bit))
  <2>1. codes \in [1 .. Len(freqs) -> Seq(Bit)] /\ Len(freqs) \in Nat
    BY <1>1
  <2> HIDE DEF codes
  <2> QED
    BY <2>1, AsSequence
<1>3. bits \in Seq(Bit)
  <2> HIDE DEF codes
  <2>1. PICK f \in [0 .. Len(codes) -> Seq(Bit)] : FlattenSeq(codes) = f[Len(codes)]
    BY <1>2, FlattenUnfold
  <2>2. Len(codes) \in 0 .. Len(codes)
    BY <1>2
  <2>3. bits = FlattenSeq(codes)
    BY SameFlattenSeq
  <2> HIDE DEF bits
  <2> QED
    BY <2>1, <2>2, <2>3
<1> HIDE DEF bits
<1>5. k \in Nat
  <2>1. -Len(bits) \in Int
    BY <1>3
  <2>2. \A x \in Int : x % 8 \in Nat
    OBVIOUS
  <2> QED
    BY <2>1, <2>2 DEF V2!HeaderByte
<1>6. pad \in Seq(Bit)
  <2> HIDE DEF k
  <2>1. pad \in [1 .. k -> Bit]
    BY DEF Bit
  <2> HIDE DEF pad
  <2> QED
    BY <1>5, <2>1, AsSequence
<1> HIDE DEF pad
<1> QED
  BY <1>3, <1>4, <1>6

LEMMA CodeTables ==
    ASSUME NEW i \in 1 .. 32
    PROVE  /\ V2!FreqNBits[i] \in {2, 3, 5, 8, 14}
           /\ V2!FreqNBits[i] \notin {8, 14} => V2!FreqValue[i] \in Nat
<1>1. \/ i = 1 \/ i = 2 \/ i = 3 \/ i = 4 \/ i = 5 \/ i = 6 \/ i = 7 \/ i = 8
      \/ i = 9 \/ i = 10 \/ i = 11 \/ i = 12 \/ i = 13 \/ i = 14 \/ i = 15 \/ i = 16
      \/ i = 17 \/ i = 18 \/ i = 19 \/ i = 20 \/ i = 21 \/ i = 22 \/ i = 23 \/ i = 24
      \/ i = 25 \/ i = 26 \/ i = 27 \/ i = 28 \/ i = 29 \/ i = 30 \/ i = 31 \/ i = 32
  OBVIOUS
<1> QED
  BY <1>1 DEF V2!FreqNBits, V2!FreqValue

\* What the reader of the frequencies holds after i of them.
Readers(bits, i) ==
    {r \in [ok : BOOLEAN, taken : Nat, loaded : Nat, freqs : Seq(Nat)] :
       r.taken <= r.loaded /\ r.loaded <= Len(bits) /\ (r.ok => Len(r.freqs) = i)}

LEMMA RefillIs ==
    ASSUME NEW bits \in Seq(Bit), NEW i \in Nat, NEW r \in Readers(bits, i), r.loaded - r.taken < 14
    PROVE  V2!Refill(r, bits) \in Readers(bits, i)
<1> DEFINE held == r.loaded - r.taken
           room == 8 * ((64 - held) \div 8)
           loaded == IF r.loaded + room < Len(bits) THEN r.loaded + room ELSE Len(bits)
<1>1. /\ r \in [ok : BOOLEAN, taken : Nat, loaded : Nat, freqs : Seq(Nat)]
      /\ r.taken <= r.loaded /\ r.loaded <= Len(bits) /\ (r.ok => Len(r.freqs) = i)
  BY DEF Readers
<1>2. r.loaded \in Nat /\ r.taken \in Nat /\ Len(bits) \in Nat
  BY <1>1
<1>3. room \in Nat
  <2>1. 64 - held \in Nat
    BY <1>2
  <2> HIDE DEF held
  <2> QED
    BY <2>1
<1>4. V2!Refill(r, bits) = [r EXCEPT !.loaded = loaded]
  BY DEF V2!Refill, V2!Held, V2!HeaderByte, V2!HeaderWord
<1> HIDE DEF room
<1>5. loaded \in Nat /\ r.taken <= loaded /\ loaded <= Len(bits)
  BY <1>1, <1>2, <1>3
<1> HIDE DEF loaded
<1> QED
  BY <1>1, <1>4, <1>5 DEF Readers

LEMMA ReadOneIs ==
    ASSUME NEW bits \in Seq(Bit), NEW i \in Nat, NEW r0 \in Readers(bits, i), r0.ok
    PROVE  V2!ReadOne(r0, bits) \in Readers(bits, i + 1)
<1> DEFINE r == IF V2!Held(r0) < 14 THEN V2!Refill(r0, bits) ELSE r0
           accum(n) == V2!Bits!Value(SubSeq(bits, 1, r.loaded), r.taken, n)
           lo5 == accum(5)
           n == V2!FreqNBits[lo5 + 1]
           v == IF n = 8 THEN 8 + (accum(8) \div 16)
                ELSE IF n = 14 THEN 24 + (accum(14) \div 16)
                ELSE V2!FreqValue[lo5 + 1]
<1>1. r \in Readers(bits, i)
  BY RefillIs DEF V2!Held
<1>2. V2!ReadOne(r0, bits) = IF n > V2!Held(r) THEN [r EXCEPT !.ok = FALSE]
                             ELSE [r EXCEPT !.taken = @ + n, !.freqs = Append(@, v)]
  BY DEF V2!ReadOne
<1>3. r.ok
  <2>1. r0 \in [ok : BOOLEAN, taken : Nat, loaded : Nat, freqs : Seq(Nat)]
    BY DEF Readers
  <2> QED
    BY <2>1 DEF V2!Refill
<1> HIDE DEF r
<1>4. /\ r \in [ok : BOOLEAN, taken : Nat, loaded : Nat, freqs : Seq(Nat)]
      /\ r.taken <= r.loaded /\ r.loaded <= Len(bits) /\ Len(r.freqs) = i
      /\ r.loaded \in Nat /\ r.taken \in Nat /\ r.freqs \in Seq(Nat)
  BY <1>1, <1>3 DEF Readers
<1>5. SubSeq(bits, 1, r.loaded) \in Seq(Bit)
  BY <1>4
<1>6. /\ accum(5) \in Nat /\ accum(5) < 2^5 /\ accum(8) \in Nat /\ accum(14) \in Nat
  <2>1. 5 \in 0 .. 20 /\ 8 \in 0 .. 20 /\ 14 \in 0 .. 20
    OBVIOUS
  <2> DEFINE loaded == SubSeq(bits, 1, r.loaded)
  <2>2. loaded \in Seq(Bit)
    BY <1>5
  <2> HIDE DEF loaded
  <2>3. \A k \in 0 .. 20 : V2!Bits!Value(loaded, r.taken, k) \in Nat /\ V2!Bits!Value(loaded, r.taken, k) < 2^k
    BY <1>4, <2>2, NumberOf
  <2> QED
    BY <2>1, <2>3 DEF loaded
<1>7. 2^5 = 32
  <2>1. \A k \in {1, 2, 3, 4, 5} : k \in Nat /\ k <= PrecisionBits
    BY EntropyAssumption, PowersOfTwo
  <2>2. PowersUpTo(5)
    BY <2>1, NarrowPowers
  <2>3. 2^1 = 2^0 * 2 /\ 2^2 = 2^1 * 2 /\ 2^3 = 2^2 * 2 /\ 2^4 = 2^3 * 2 /\ 2^5 = 2^4 * 2 /\ 2^0 = 1
    <3>1. /\ 0 \in 0 .. 5 - 1 /\ 1 \in 0 .. 5 - 1 /\ 2 \in 0 .. 5 - 1 /\ 3 \in 0 .. 5 - 1 /\ 4 \in 0 .. 5 - 1
          /\ 0 + 1 = 1 /\ 1 + 1 = 2 /\ 2 + 1 = 3 /\ 3 + 1 = 4 /\ 4 + 1 = 5
      OBVIOUS
    <3>2. \A k \in 0 .. 5 - 1 : 2^(k + 1) = 2^k * 2
      BY <2>2 DEF PowersUpTo
    <3>3. 2^(0 + 1) = 2^0 * 2 /\ 2^(1 + 1) = 2^1 * 2 /\ 2^(2 + 1) = 2^2 * 2
          /\ 2^(3 + 1) = 2^3 * 2 /\ 2^(4 + 1) = 2^4 * 2
      BY <3>1, <3>2
    <3> QED
      BY <2>2, <3>1, <3>3 DEF PowersUpTo
  <2>4. 2^1 = 2
    BY <2>3
  <2>5. 2^2 = 4
    BY <2>3, <2>4
  <2>6. 2^3 = 8
    BY <2>3, <2>5
  <2>7. 2^4 = 16
    BY <2>3, <2>6
  <2> QED
    BY <2>3, <2>7
<1>8. lo5 + 1 \in 1 .. 32
  <2>1. lo5 \in Nat /\ lo5 < 2^5
    BY <1>6
  <2> HIDE DEF lo5
  <2> QED
    BY <1>7, <2>1
<1> DEFINE x == accum(8)
           y == accum(14)
           w == V2!FreqValue[lo5 + 1]
<1>9. n \in {2, 3, 5, 8, 14} /\ (n \notin {8, 14} => w \in Nat)
  <2> HIDE DEF lo5
  <2> QED
    BY <1>8, CodeTables
<1>10. v \in Nat
  <2>1. x \in Nat /\ y \in Nat /\ v = IF n = 8 THEN 8 + (x \div 16) ELSE IF n = 14 THEN 24 + (y \div 16) ELSE w
    BY <1>6
  <2> HIDE DEF x, y, w, n, v
  <2> QED
    BY <1>9, <2>1
<1> HIDE DEF n, v
<1>11. CASE n > V2!Held(r)
  <2>1. V2!ReadOne(r0, bits) = [r EXCEPT !.ok = FALSE]
    BY <1>2, <1>11
  <2> QED
    BY <1>4, <2>1 DEF Readers
<1>12. CASE ~ (n > V2!Held(r))
  <2>1. V2!ReadOne(r0, bits) = [r EXCEPT !.taken = @ + n, !.freqs = Append(@, v)]
    BY <1>2, <1>12
  <2>2. r.taken + n \in Nat /\ r.taken + n <= r.loaded
    BY <1>4, <1>9, <1>12 DEF V2!Held
  <2>3. Append(r.freqs, v) \in Seq(Nat) /\ Len(Append(r.freqs, v)) = i + 1
    BY <1>4, <1>10
  <2> QED
    BY <1>4, <2>1, <2>2, <2>3 DEF Readers
<1> QED
  BY <1>11, <1>12

\* The steps of the reader of nsym frequencies.
ReadBy(bits, nsym, read) ==
    /\ read[0] = V2!Refill([ok |-> TRUE, taken |-> 0, loaded |-> 0, freqs |-> << >>], bits)
    /\ \A i \in 1 .. nsym : read[i] = IF read[i - 1].ok THEN V2!ReadOne(read[i - 1], bits) ELSE read[i - 1]
    /\ \A i \in 0 .. nsym : read[i] \in Readers(bits, i)
    /\ V2!ReadFreqs(bits, nsym)
         = [ok |-> read[nsym].ok /\ V2!Held(read[nsym]) < V2!HeaderByte /\ read[nsym].loaded = Len(bits),
            freqs |-> read[nsym].freqs]

LEMMA ReadSteps ==
    ASSUME NEW bits \in Seq(Bit), NEW nsym \in Nat
    PROVE  \E read : ReadBy(bits, nsym, read)
<1> DEFINE base == [ok |-> TRUE, taken |-> 0, loaded |-> 0, freqs |-> << >>]
           start == V2!Refill(base, bits)
           One(r) == IF r.ok THEN V2!ReadOne(r, bits) ELSE r
           Loads(g) == [i \in 0 .. nsym |-> IF i = 0 THEN start
                          ELSE LET r == g[i - 1] IN IF r.ok THEN V2!ReadOne(r, bits) ELSE r]
           read == CHOOSE g : g = Loads(g)
           S == [i \in 0 .. nsym |-> Readers(bits, i)]
           G == [i \in 1 .. nsym |-> [r \in Readers(bits, i - 1) |-> One(r)]]
<1>1. start \in Readers(bits, 0)
  <2>1. base \in Readers(bits, 0) /\ base.loaded - base.taken < 14
    BY DEF Readers
  <2> HIDE DEF base
  <2> QED
    BY <2>1, RefillIs
<1>2. ASSUME NEW i \in 1 .. nsym, NEW r \in S[i - 1] PROVE G[i][r] = One(r) /\ One(r) \in S[i]
  <2>1. i - 1 \in 0 .. nsym /\ i \in 0 .. nsym /\ i - 1 \in Nat /\ (i - 1) + 1 = i
    OBVIOUS
  <2>2. r \in Readers(bits, i - 1)
    BY <2>1
  <2>3. One(r) \in Readers(bits, i)
    <3>1. CASE r.ok
      <4>1. V2!ReadOne(r, bits) \in Readers(bits, (i - 1) + 1)
        BY <2>1, <2>2, <3>1, ReadOneIs
      <4> QED
        BY <2>1, <3>1, <4>1
    <3>2. CASE ~ r.ok
      BY <2>2, <3>2 DEF Readers
    <3> QED
      BY <3>1, <3>2
  <2> HIDE DEF One
  <2> QED
    BY <2>1, <2>2, <2>3
<1> HIDE DEF start
<1>3. PICK g : Follows(g, nsym, S) /\ Chains(g, start, nsym, G)
  <2>1. start \in S[0]
    BY <1>1
  <2> HIDE DEF G, S
  <2>2. GoesOn(G, nsym, S)
    BY <1>2 DEF GoesOn
  <2> QED
    BY <2>1, <2>2, ChainFollows
<1>4. /\ g = [i \in 0 .. nsym |-> g[i]] /\ g[0] = start
      /\ \A i \in 1 .. nsym : g[i] = One(g[i - 1])
  <2>1. /\ g = [i \in 0 .. nsym |-> g[i]] /\ \A i \in 0 .. nsym : g[i] \in S[i]
        /\ g[0] = start /\ \A i \in 1 .. nsym : g[i] = G[i][g[i - 1]]
    <3> HIDE DEF S, G
    <3> QED
      BY <1>3, Zenon DEF Follows, Chains
  <2>2. ASSUME NEW i \in 1 .. nsym PROVE g[i] = One(g[i - 1])
    <3>1. i - 1 \in 0 .. nsym
      OBVIOUS
    <3> HIDE DEF S, G, One
    <3>2. g[i - 1] \in S[i - 1] /\ g[i] = G[i][g[i - 1]]
      BY <2>1, <3>1
    <3> QED
      BY <1>2, <3>2
  <2> QED
    BY <2>1, <2>2
<1>5. g = Loads(g)
  <2>1. ASSUME NEW i \in 0 .. nsym
        PROVE  g[i] = IF i = 0 THEN start
                      ELSE LET r == g[i - 1] IN IF r.ok THEN V2!ReadOne(r, bits) ELSE r
    <3>1. CASE i = 0
      BY <1>4, <3>1
    <3>2. CASE i # 0
      <4>1. i \in 1 .. nsym
        BY <3>2
      <4> QED
        BY <1>4, <3>2, <4>1
    <3> QED
      BY <3>1, <3>2
  <2> QED
    BY <1>4, <2>1
<1>6. read = Loads(read)
  <2> HIDE DEF Loads
  <2> QED
    BY <1>5
<1>7. read[0] = start /\ \A i \in 1 .. nsym : read[i] = One(read[i - 1])
  <2>1. \A i \in 0 .. nsym : read[i] = IF i = 0 THEN start
                      ELSE LET r == read[i - 1] IN IF r.ok THEN V2!ReadOne(r, bits) ELSE r
    <3> HIDE DEF read
    <3> QED
      BY <1>6
  <2> HIDE DEF read
  <2> QED
    BY <2>1
<1>8. V2!ReadFreqs(bits, nsym)
        = [ok |-> read[nsym].ok /\ V2!Held(read[nsym]) < V2!HeaderByte /\ read[nsym].loaded = Len(bits),
           freqs |-> read[nsym].freqs]
  BY DEF V2!ReadFreqs, start
<1> HIDE DEF read
<1> DEFINE T == {i \in Nat : i <= nsym => read[i] \in S[i]}
<1>9. 0 \in T
  <2> HIDE DEF T
  <2>1. read[0] \in S[0]
    BY <1>1, <1>7
  <2> QED
    BY <2>1 DEF T
<1>10. ASSUME NEW i \in Nat, i \in T PROVE i + 1 \in T
  <2> SUFFICES ASSUME i + 1 <= nsym PROVE read[i + 1] \in S[i + 1]
    OBVIOUS
  <2>1. i + 1 \in 1 .. nsym /\ (i + 1) - 1 = i /\ i <= nsym
    OBVIOUS
  <2> HIDE DEF S, G, One
  <2>2. read[i] \in S[i]
    BY <1>10, <2>1
  <2>3. read[i + 1] = One(read[i])
    BY <1>7, <2>1
  <2> QED
    BY <1>2, <2>1, <2>2, <2>3
<1>11. \A i \in 0 .. nsym : read[i] \in Readers(bits, i)
  <2>1. Nat \subseteq T
    <3> HIDE DEF T
    <3> QED
      BY <1>9, <1>10, Induction
  <2> HIDE DEF S
  <2>2. ASSUME NEW i \in 0 .. nsym PROVE read[i] \in S[i]
    <3>1. i \in T /\ i <= nsym
      <4> HIDE DEF T
      <4> QED
        BY <2>1
    <3> QED
      BY <3>1
  <2> QED
    BY <2>2 DEF S
<1>12. read[0] = V2!Refill([ok |-> TRUE, taken |-> 0, loaded |-> 0, freqs |-> << >>], bits)
  BY <1>7 DEF start
<1> HIDE DEF S, G, T
<1>13. ReadBy(bits, nsym, read)
  BY <1>7, <1>8, <1>11, <1>12 DEF ReadBy
<1> QED
  BY <1>13

LEMMA ReadEnd ==
    ASSUME NEW bits, NEW nsym, NEW read, ReadBy(bits, nsym, read)
    PROVE  /\ V2!ReadFreqs(bits, nsym).freqs = read[nsym].freqs
           /\ V2!ReadFreqs(bits, nsym).ok <=>
                (read[nsym].ok /\ V2!Held(read[nsym]) < V2!HeaderByte /\ read[nsym].loaded = Len(bits))
<1> DEFINE P == read[nsym].ok /\ V2!Held(read[nsym]) < V2!HeaderByte /\ read[nsym].loaded = Len(bits)
           all == V2!ReadFreqs(bits, nsym)
<1>1. all = [ok |-> P, freqs |-> read[nsym].freqs]
  BY DEF ReadBy
<1> HIDE DEF P, all
<1>2. all.ok = P /\ all.freqs = read[nsym].freqs
  BY <1>1, Zenon
<1>3. all.ok <=> P
  BY <1>2, Zenon
<1> QED
  BY <1>2, <1>3 DEF P, all

LEMMA ReadFreqsIs ==
    ASSUME NEW bits \in Seq(Bit), NEW nsym \in Nat, V2!ReadFreqs(bits, nsym).ok
    PROVE  V2!ReadFreqs(bits, nsym).freqs \in [1 .. nsym -> Nat]
<1>1. PICK read : ReadBy(bits, nsym, read)
  BY ReadSteps
<1> DEFINE end == read[nsym]
<1>2. V2!ReadFreqs(bits, nsym).freqs = end.freqs /\ end.ok
  BY <1>1, ReadEnd
<1>3. end \in Readers(bits, nsym)
  <2>1. nsym \in 0 .. nsym
    OBVIOUS
  <2> QED
    BY <1>1, <2>1 DEF ReadBy
<1> HIDE DEF end
<1> QED
  BY <1>2, <1>3 DEF Readers

-----------------------------------------------------------------------------
(***************************************************************************)
(* The header the encoder writes: joined and split frequency tables, and   *)
(* the bytes of a V1 header.                                               *)
(***************************************************************************)
\* The tables of a block, each on the symbols of its coder.
Tables(freqs) == \A c \in Range(Coders) : freqs[c] \in [Before(NSym(c)) -> Nat]

LEMMA SymbolCounts ==
    /\ NSym("l") \in Nat \ {0} /\ NSym("m") \in Nat \ {0} /\ NSym("d") \in Nat \ {0}
    /\ NSym("lit") \in Nat \ {0} /\ AllSymbols \in Nat
    /\ AllSymbols = NSym("l") + NSym("m") + NSym("d") + NSym("lit")
<1>1. ASSUME NEW c \in Range(Coders) PROVE NSym(c) \in Nat \ {0}
  <2>1. PICK r \in 0 .. PrecisionBits - 1 : CoderIs(c, r)
    BY CoderFacts
  <2> QED
    BY <2>1 DEF CoderIs
<1>2. NSym("l") \in Nat \ {0} /\ NSym("m") \in Nat \ {0} /\ NSym("d") \in Nat \ {0} /\ NSym("lit") \in Nat \ {0}
  BY <1>1, TheCoders
<1> QED
  BY <1>2 DEF AllSymbols

\* A sequence of n numbers.
Numbers(s, n) == s \in Seq(Nat) /\ Len(s) = n

LEMMA Joined ==
    ASSUME NEW a, NEW m \in Nat, Numbers(a, m), NEW b, NEW n \in Nat, Numbers(b, n), NEW k, k = m + n
    PROVE  Numbers(a \o b, k)
BY SMTT(30) DEF Numbers

LEMMA AllFreqsAre ==
    ASSUME NEW freqs, Tables(freqs)
    PROVE  AllFreqs(freqs) \in Seq(Nat) /\ Len(AllFreqs(freqs)) = AllSymbols
<1> DEFINE list(c) == [i \in 1 .. NSym(c) |-> freqs[c][i - 1]]
<1>1. ASSUME NEW c \in Range(Coders), NSym(c) \in Nat
      PROVE  list(c) \in Seq(Nat) /\ Len(list(c)) = NSym(c)
  <2>1. ASSUME NEW i \in 1 .. NSym(c) PROVE freqs[c][i - 1] \in Nat
    <3>1. i - 1 \in Before(NSym(c))
      BY <1>1 DEF Before
    <3> QED
      BY <3>1 DEF Tables
  <2>2. list(c) \in [1 .. NSym(c) -> Nat]
    BY <2>1
  <2> HIDE DEF list
  <2> QED
    BY <1>1, <2>2, AsSequence
<1>2. AllFreqs(freqs) = list("l") \o list("m") \o list("d") \o list("lit")
  BY DEF AllFreqs
<1> HIDE DEF list
<1>3. /\ Numbers(list("l"), NSym("l")) /\ Numbers(list("m"), NSym("m"))
      /\ Numbers(list("d"), NSym("d")) /\ Numbers(list("lit"), NSym("lit"))
  BY <1>1, TheCoders, SymbolCounts DEF Numbers
<1> DEFINE a == list("l") \o list("m")
           b == a \o list("d")
           x == NSym("l") + NSym("m")
           y == x + NSym("d")
<1>n. NSym("l") \in Nat /\ NSym("m") \in Nat /\ NSym("d") \in Nat /\ NSym("lit") \in Nat
  BY SymbolCounts
<1>x. x \in Nat /\ x = NSym("l") + NSym("m") /\ y = x + NSym("d")
  BY <1>n
<1> HIDE DEF x, y
<1>y. y \in Nat
  BY <1>x, <1>n
<1>4. Numbers(a, x)
  BY <1>3, <1>n, <1>x, Joined
<1> HIDE DEF a
<1>5. Numbers(b, y)
  BY <1>3, <1>4, <1>n, <1>x, Joined
<1>6. AllFreqs(freqs) = b \o list("lit")
  BY <1>2 DEF a
<1>7. AllSymbols = y + NSym("lit")
  BY SymbolCounts, <1>x
<1> HIDE DEF b
<1>8. Numbers(AllFreqs(freqs), AllSymbols)
  BY <1>3, <1>5, <1>6, <1>7, <1>n, <1>y, Joined
<1> QED
  BY <1>8 DEF Numbers

LEMMA SplitFreqsAre ==
    ASSUME NEW all \in [1 .. AllSymbols -> Nat]
    PROVE  Tables(SplitFreqs(all))
<1> SUFFICES ASSUME NEW c \in Range(Coders)
             PROVE  SplitFreqs(all)[c] \in [Before(NSym(c)) -> Nat]
  BY DEF Tables
<1>1. FirstOf[c] \in Nat /\ NSym(c) \in Nat /\ FirstOf[c] + NSym(c) <= AllSymbols
  <2>1. /\ FirstOf["l"] = 0 /\ FirstOf["m"] = NSym("l") /\ FirstOf["d"] = NSym("l") + NSym("m")
        /\ FirstOf["lit"] = NSym("l") + NSym("m") + NSym("d")
    BY DEF FirstOf
  <2>2. c = "l" \/ c = "m" \/ c = "d" \/ c = "lit"
    BY TheCoders
  <2>3. CASE c = "l"
    BY <2>1, <2>3, SymbolCounts
  <2>4. CASE c = "m"
    BY <2>1, <2>4, SymbolCounts
  <2>5. CASE c = "d"
    BY <2>1, <2>5, SymbolCounts
  <2>6. CASE c = "lit"
    BY <2>1, <2>6, SymbolCounts
  <2> QED
    BY <2>2, <2>3, <2>4, <2>5, <2>6
<1>2. DOMAIN Base[c] = Before(NSym(c))
  BY CoderFacts DEF CoderIs
<1>3. SplitFreqs(all)[c] = [s \in Before(NSym(c)) |-> all[FirstOf[c] + s + 1]]
  BY <1>2 DEF SplitFreqs
<1>4. ASSUME NEW s \in Before(NSym(c)) PROVE all[FirstOf[c] + s + 1] \in Nat
  <2>1. FirstOf[c] + s + 1 \in 1 .. AllSymbols
    BY <1>1, SymbolCounts, SMTT(30) DEF Before
  <2> QED
    BY <2>1
<1> QED
  BY <1>3, <1>4

LEMMA V1BytesAre ==
    ASSUME NEW v \in Int
    PROVE  /\ V1!Bytes2(v) \in Seq(Nat) /\ Len(V1!Bytes2(v)) = 2
           /\ V1!Bytes2(v)[1] \in Nat /\ V1!Bytes2(v)[2] \in Nat
           /\ V1!Bytes4(v) \in Seq(Nat) /\ Len(V1!Bytes4(v)) = 4
<1> DEFINE size == V1!ByteSize
           half == V1!Half
<1>1. size \in Nat \ {0} /\ half \in Nat \ {0}
  <2>1. size \in Nat \ {0} /\ half = size * size
    BY DEF V1!ByteSize, V1!Half
  <2> HIDE DEF size, half
  <2>2. \A a, b \in Nat \ {0} : a * b \in Nat \ {0}
    OBVIOUS
  <2> QED
    BY <2>1, <2>2
<1>2. ASSUME NEW w \in Int
      PROVE  /\ V1!Bytes2(w) \in Seq(Nat) /\ Len(V1!Bytes2(w)) = 2
             /\ V1!Bytes2(w)[1] \in Nat /\ V1!Bytes2(w)[2] \in Nat
  <2>1. V1!Bytes2(w) = <<w % size, (w \div size) % size>>
    BY DEF V1!Bytes2
  <2> DEFINE x == w % size
             q == w \div size
             y == q % size
  <2> HIDE DEF size
  <2>2. x \in Nat /\ q \in Int
    BY <1>1
  <2> HIDE DEF q
  <2>3. y \in Nat
    BY <1>1, <2>2
  <2>4. V1!Bytes2(w) = <<x, y>>
    BY <2>1 DEF q
  <2> HIDE DEF x, y
  <2> QED
    BY <2>2, <2>3, <2>4
<1>3. v \div half \in Int
  <2> HIDE DEF half
  <2> QED
    BY <1>1
<1> DEFINE hi == v \div half
<1>4. V1!Bytes4(v) = V1!Bytes2(v) \o V1!Bytes2(hi)
  BY DEF V1!Bytes4
<1> HIDE DEF hi
<1>5. hi \in Int
  BY <1>3 DEF hi
<1>6. V1!Bytes2(hi) \in Seq(Nat) /\ Len(V1!Bytes2(hi)) = 2 /\ V1!Bytes2(v) \in Seq(Nat) /\ Len(V1!Bytes2(v)) = 2
  BY <1>2, <1>5
<1>7. V1!Bytes4(v) \in Seq(Nat) /\ Len(V1!Bytes4(v)) = 4
  <2>1. Numbers(V1!Bytes2(v), 2) /\ Numbers(V1!Bytes2(hi), 2)
    BY <1>6 DEF Numbers
  <2>2. Numbers(V1!Bytes4(v), 4)
    BY <1>4, <2>1, Joined
  <2> QED
    BY <2>2 DEF Numbers
<1>8. /\ V1!Bytes2(v) \in Seq(Nat) /\ Len(V1!Bytes2(v)) = 2
      /\ V1!Bytes2(v)[1] \in Nat /\ V1!Bytes2(v)[2] \in Nat
  BY <1>2
<1> QED
  BY <1>7, <1>8

LEMMA Uint16sAre ==
    ASSUME NEW values \in Seq(Nat)
    PROVE  V1!Uint16s(values) \in Seq(Nat) /\ Len(V1!Uint16s(values)) = 2 * Len(values)
<1>1. ASSUME NEW i \in 1 .. 2 * Len(values)
      PROVE  V1!Bytes2(values[(i + 1) \div 2])[2 - (i % 2)] \in Nat
  <2>1. (i + 1) \div 2 \in 1 .. Len(values) /\ i % 2 \in 0 .. 1
    OBVIOUS
  <2> DEFINE w == values[(i + 1) \div 2]
             k == i % 2
  <2>2. w \in Int
    BY <2>1
  <2> HIDE DEF w, k
  <2>3. V1!Bytes2(w)[1] \in Nat /\ V1!Bytes2(w)[2] \in Nat
    BY <2>2, V1BytesAre
  <2>4. k = 0 \/ k = 1
    BY <2>1 DEF k
  <2>5. 2 - k = 1 \/ 2 - k = 2
    BY <2>4
  <2> QED
    BY <2>3, <2>5 DEF w, k
<1>2. 2 * Len(values) \in Nat
  OBVIOUS
<1>3. V1!Uint16s(values) \in [1 .. 2 * Len(values) -> Nat]
  BY <1>1 DEF V1!Uint16s
<1> DEFINE n == 2 * Len(values)
<1> HIDE DEF n
<1>4. n \in Nat /\ V1!Uint16s(values) \in [1 .. n -> Nat]
  BY <1>2, <1>3 DEF n
<1>5. V1!Uint16s(values) \in Seq(Nat) /\ Len(V1!Uint16s(values)) = n
  BY <1>4, AsSequence
<1> QED
  BY <1>5 DEF n

LEMMA BlanksAre ==
    ASSUME NEW n \in Nat
    PROVE  V1!Blank(n) \in Seq(Nat) /\ Len(V1!Blank(n)) = n
<1>1. V1!Blank(n) \in [1 .. n -> Nat]
  BY DEF V1!Blank
<1> QED
  BY <1>1, AsSequence

LEMMA V1WriteIs ==
    ASSUME NEW h, NEW freqs \in Seq(Nat),
           h.nLiterals \in Nat, h.nMatches \in Nat, h.nLitPayload \in Nat, h.nLMDPayload \in Nat,
           h.litBits \in Int, h.lmdBits \in Int, h.litStates \in Seq(Nat), Len(h.litStates) = Lanes,
           h.lmdStates.l \in Nat, h.lmdStates.m \in Nat, h.lmdStates.d \in Nat
    PROVE  V1!Write(h, freqs) \in Seq(Nat) /\ Len(V1!Write(h, freqs)) = 52 + 2 * Len(freqs)
<1> DEFINE p1 == V1!Blank(8)
           p2 == V1!Bytes4(h.nLitPayload + h.nLMDPayload)
           p3 == V1!Bytes4(h.nLiterals)
           p4 == V1!Bytes4(h.nMatches)
           p5 == V1!Bytes4(h.nLitPayload)
           p6 == V1!Bytes4(h.nLMDPayload)
           p7 == V1!Bytes4(h.litBits)
           p8 == V1!Uint16s(h.litStates)
           p9 == V1!Blank(8 - 2 * Len(h.litStates))
           p10 == V1!Bytes4(h.lmdBits)
           p11 == V1!Uint16s(<<h.lmdStates.l, h.lmdStates.m, h.lmdStates.d>>)
           p12 == V1!Blank(2)
           p13 == V1!Uint16s(freqs)
           w == V1!Write(h, freqs)
<1>1. w = p1 \o p2 \o p3 \o p4 \o p5 \o p6 \o p7 \o p8 \o p9 \o p10 \o p11 \o p12 \o p13
  BY DEF V1!Write
<1>2. p1 \in Seq(Nat) /\ Len(p1) = 8 /\ p12 \in Seq(Nat) /\ Len(p12) = 2
  BY BlanksAre
<1>3. /\ p3 \in Seq(Nat) /\ Len(p3) = 4 /\ p4 \in Seq(Nat) /\ Len(p4) = 4
      /\ p5 \in Seq(Nat) /\ Len(p5) = 4 /\ p6 \in Seq(Nat) /\ Len(p6) = 4
      /\ p7 \in Seq(Nat) /\ Len(p7) = 4 /\ p10 \in Seq(Nat) /\ Len(p10) = 4
  <2>1. \A v \in Int : V1!Bytes4(v) \in Seq(Nat) /\ Len(V1!Bytes4(v)) = 4
    BY V1BytesAre
  <2>2. h.nLiterals \in Int /\ h.nMatches \in Int /\ h.nLitPayload \in Int /\ h.nLMDPayload \in Int
    OBVIOUS
  <2> QED
    BY <2>1, <2>2
<1>4. p2 \in Seq(Nat) /\ Len(p2) = 4
  <2>1. h.nLitPayload + h.nLMDPayload \in Int
    OBVIOUS
  <2> QED
    BY <2>1, V1BytesAre
<1>5. p8 \in Seq(Nat) /\ Len(p8) = 2 * Lanes /\ p13 \in Seq(Nat) /\ Len(p13) = 2 * Len(freqs)
  BY Uint16sAre
<1>6. p9 \in Seq(Nat) /\ Len(p9) = 8 - 2 * Lanes
  <2>1. 8 - 2 * Lanes \in Nat
    BY EntropyAssumption
  <2>2. p9 = V1!Blank(8 - 2 * Lanes)
    OBVIOUS
  <2> QED
    BY <2>1, <2>2, BlanksAre
<1>7. p11 \in Seq(Nat) /\ Len(p11) = 6
  <2> DEFINE st == <<h.lmdStates.l, h.lmdStates.m, h.lmdStates.d>>
  <2>1. st \in Seq(Nat) /\ Len(st) = 3
    OBVIOUS
  <2> HIDE DEF st
  <2>2. V1!Uint16s(st) \in Seq(Nat) /\ Len(V1!Uint16s(st)) = 2 * Len(st)
    BY <2>1, Uint16sAre
  <2> QED
    BY <2>1, <2>2 DEF st
<1> DEFINE n == Len(freqs)
           q2 == p1 \o p2
           q3 == q2 \o p3
           q4 == q3 \o p4
           q5 == q4 \o p5
           q6 == q5 \o p6
           q7 == q6 \o p7
           q8 == q7 \o p8
           q9 == q8 \o p9
           q10 == q9 \o p10
           q11 == q10 \o p11
           q12 == q11 \o p12
<1>8. n \in Nat /\ Lanes \in Nat /\ 8 - 2 * Lanes \in Nat /\ Len(p13) = 2 * n
  BY <1>5, EntropyAssumption
<1> HIDE DEF p1, p2, p3, p4, p5, p6, p7, p8, p9, p10, p11, p12, p13, w, n
<1>9. /\ Numbers(p1, 8) /\ Numbers(p2, 4) /\ Numbers(p3, 4) /\ Numbers(p4, 4) /\ Numbers(p5, 4)
      /\ Numbers(p6, 4) /\ Numbers(p7, 4) /\ Numbers(p8, 2 * Lanes) /\ Numbers(p9, 8 - 2 * Lanes)
      /\ Numbers(p10, 4) /\ Numbers(p11, 6) /\ Numbers(p12, 2) /\ Numbers(p13, 2 * n)
  BY <1>2, <1>3, <1>4, <1>5, <1>6, <1>7, <1>8 DEF Numbers
<1>q2. Numbers(q2, 12)
  BY <1>9, Joined
<1> HIDE DEF q2
<1>q3. Numbers(q3, 16)
  BY <1>9, <1>q2, Joined
<1> HIDE DEF q3
<1>q4. Numbers(q4, 20)
  BY <1>9, <1>q3, Joined
<1> HIDE DEF q4
<1>q5. Numbers(q5, 24)
  BY <1>9, <1>q4, Joined
<1> HIDE DEF q5
<1>q6. Numbers(q6, 28)
  BY <1>9, <1>q5, Joined
<1> HIDE DEF q6
<1>q7. Numbers(q7, 32)
  BY <1>9, <1>q6, Joined
<1> HIDE DEF q7
<1>q8. Numbers(q8, 32 + 2 * Lanes)
  BY <1>8, <1>9, <1>q7, Joined
<1> HIDE DEF q8
<1>q9. Numbers(q9, 40)
  BY <1>8, <1>9, <1>q8, Joined
<1> HIDE DEF q9
<1>q10. Numbers(q10, 44)
  BY <1>9, <1>q9, Joined
<1> HIDE DEF q10
<1>q11. Numbers(q11, 50)
  BY <1>9, <1>q10, Joined
<1> HIDE DEF q11
<1>q12. Numbers(q12, 52)
  BY <1>9, <1>q11, Joined
<1> HIDE DEF q12
<1>10. w = q12 \o p13
  BY <1>1 DEF q2, q3, q4, q5, q6, q7, q8, q9, q10, q11, q12
<1>11. Numbers(w, 52 + 2 * n)
  BY <1>8, <1>9, <1>10, <1>q12, Joined
<1> QED
  BY <1>11 DEF w, n, Numbers

-----------------------------------------------------------------------------
(***************************************************************************)
(* One value written: the state stays in its table, and what is pushed     *)
(* are bits.                                                               *)
(***************************************************************************)
\* A state is left with no more bits than the table has powers.
LEMMA StepBits ==
    ASSUME NEW r \in 0 .. PrecisionBits - 1, NEW f \in 1 .. 2^r, NEW j \in 0 .. f - 1
    PROVE  Step(f, j, 2^r).bits \in 0 .. r
<1> DEFINE step == Step(f, j, 2^r)
           k == Shift(f, 2^r)
<1>1. step.bits \in {k, k - 1}
  BY DEF Step
<1>2. k \in 0 .. r
  BY ShiftFacts
<1>3. r \in 0 .. PrecisionBits /\ f \in Nat \ {0} /\ f \in 1 .. 2^r
  BY PowersOfTwo
<1>4. k \in Nat /\ 2^k \in Nat \ {0} /\ (k # 0 => 2^(k - 1) \in Nat \ {0})
  BY <1>3, Cut
<1>5. CASE step.bits = k
  BY <1>2, <1>5
<1>6. CASE step.bits # k
  <2>1. step.bits = k - 1
    BY <1>1, <1>6
  <2>2. k # 0
    <3>1. SUFFICES ASSUME k = 0 PROVE FALSE
      OBVIOUS
    <3>2. k = 0 => f = 2^(r - k) /\ 2^r = 2^(r - k)
      BY Cut
    <3>3. (2 * 2^r) \div 2^k = 2 * 2^(r - k)
      BY Cut
    <3>4. j < (2 * 2^r) \div 2^k - f
      BY <1>3, <3>1, <3>2, <3>3
    <3>5. step.bits = k
      BY <3>4 DEF Step
    <3> QED
      BY <1>6, <3>5
  <2> QED
    BY <1>2, <2>1, <2>2
<1> QED
  BY <1>5, <1>6

\* A symbol that the table has states for goes out as bits of the old state,
\* and the new one is in the table.
LEMMA EncodedIs ==
    ASSUME NEW c \in Range(Coders), NEW f \in [Before(NSym(c)) -> Nat], Total(f) = NStates[c],
           NEW sym \in Before(NSym(c)), f[sym] > 0, NEW s \in 0 .. NStates[c] - 1
    PROVE  LET step == Encode(EncoderTable(f, NStates[c])[sym], s)
           IN /\ step.nbits \in 0 .. PrecisionBits /\ step.b \in Nat
              /\ step.state \in 0 .. NStates[c] - 1
<1>1. PICK r \in 0 .. PrecisionBits - 1 : CoderIs(c, r)
  BY CoderFacts
<1> DEFINE n == NStates[c]
           w == Encode(EncoderEntry(f, sym, 2^r), s)
           o == Offset(f, sym)
           k == Shift(f[sym], 2^r)
           j == w.state - o
<1>2. n = 2^r /\ n \in Nat \ {0} /\ NSym(c) \in Nat
  BY <1>1 DEF CoderIs
<1>3. o \in Nat /\ f[sym] \in Nat /\ o + f[sym] <= n
  BY <1>2, RunWithin
<1>4. f[sym] \in 1 .. 2^r
  BY <1>2, <1>3
<1>5. Encode(EncoderTable(f, n)[sym], s) = w
  <2>1. sym \in DOMAIN f /\ f[sym] # 0
    BY <1>3
  <2>2. EncoderTable(f, n)[sym] = EncoderEntry(f, sym, n)
    BY <2>1 DEF EncoderTable
  <2> QED
    BY <1>2, <2>2
<1>6. /\ j \in 0 .. f[sym] - 1 /\ Step(f[sym], j, 2^r).bits = w.nbits
      /\ w.b \in 0 .. 2^w.nbits - 1
  <2>1. s \in 0 .. 2^r - 1
    BY <1>2
  <2> QED
    BY <1>3, <1>4, <2>1, StepInverts
<1>7. w.nbits \in 0 .. r
  <2> HIDE DEF j, w
  <2> QED
    BY <1>4, <1>6, StepBits
<1>8. w.nbits \in 0 .. PrecisionBits /\ 2^w.nbits \in Nat \ {0}
  <2> HIDE DEF w
  <2>1. w.nbits \in 0 .. PrecisionBits
    BY <1>7, PowersOfTwo
  <2> QED
    BY <2>1, PowersOfTwo
<1>9. w.state \in Int
  <2> DEFINE e == EncoderEntry(f, sym, 2^r)
             p == 2^k
             h == 2^(k - 1)
  <2>1. k \in Nat /\ p \in Nat \ {0} /\ (k # 0 => h \in Nat \ {0})
    BY <1>4, Cut
  <2>2. /\ e.delta0 = o - f[sym] + 2^r \div p
        /\ e.delta1 = IF k = 0 THEN o - f[sym] ELSE o - f[sym] + 2^r \div h
    BY DEF EncoderEntry
  <2> HIDE DEF p, h, k, o
  <2>3. e.delta0 \in Int /\ e.delta1 \in Int
    BY <1>2, <1>3, <2>1, <2>2
  <2>4. w.state = (IF s >= e.s0 THEN e.delta0 ELSE e.delta1) + s \div 2^w.nbits
    BY DEF Encode
  <2> HIDE DEF e, w
  <2>5. s \div 2^w.nbits \in Int
    <3> DEFINE q == 2^w.nbits
    <3>1. q \in Nat \ {0} /\ s \in Nat
      BY <1>8
    <3> HIDE DEF q
    <3> QED
      BY <3>1, Division DEF q
  <2> QED
    BY <2>3, <2>4, <2>5
<1>10. w.state \in 0 .. n - 1
  <2> HIDE DEF w, o, n
  <2> QED
    BY <1>2, <1>3, <1>6, <1>9
<1>11. w.b \in Nat
  <2> HIDE DEF w
  <2> QED
    BY <1>6, <1>8
<1> QED
  BY <1>5, <1>8, <1>10, <1>11

LEMMA SymbolOfIs ==
    ASSUME NEW c \in Range(Coders), NEW v
    PROVE  SymbolOf(v, Base[c]) \in Before(NSym(c))
<1> DEFINE k == NSym(c) - 1
           T == {0} \cup {s \in DOMAIN Base[c] : Base[c][s] <= v}
<1>1. k \in Nat /\ DOMAIN Base[c] = 0 .. k
  BY CoderFacts DEF CoderIs, Before
<1>2. T \subseteq 0 .. k /\ T # {}
  BY <1>1
<1>3. Max(T) \in T
  <2> HIDE DEF T, k
  <2> QED
    BY <1>1, <1>2, MaxIs
<1>4. SymbolOf(v, Base[c]) = Max(T)
  BY DEF SymbolOf
<1>5. Max(T) \in 0 .. k
  <2> HIDE DEF T, k
  <2> QED
    BY <1>2, <1>3
<1> QED
  BY <1>4, <1>5 DEF Before

\* The symbols of coder c in a block, as encodeBlock counts them.
Symbols(c, src) ==
    IF c = "lit" THEN src.literals
    ELSE [i \in 1 .. Len(src.records) |-> SymbolOf(src.records[i][c], Base[c])]

LEMMA SymbolsAre ==
    ASSUME NEW c \in Range(Coders), NEW src, IsSource(src)
    PROVE  Symbols(c, src) \in Seq(Before(NSym(c)))
<1>1. CASE c = "lit"
  <2>1. DOMAIN Base[c] = Before(NSym(c))
    BY CoderFacts DEF CoderIs
  <2>2. src.literals \in Seq(DOMAIN Base["lit"])
    BY DEF IsSource
  <2> QED
    BY <1>1, <2>1, <2>2 DEF Symbols
<1>2. CASE c # "lit"
  <2>1. Len(src.records) \in Nat
    BY DEF IsSource
  <2>2. Symbols(c, src) \in [1 .. Len(src.records) -> Before(NSym(c))]
    BY <1>2, SymbolOfIs DEF Symbols
  <2> QED
    BY <2>1, <2>2, AsSequence
<1> QED
  BY <1>1, <1>2

\* Every symbol that occurs is counted, and one is if there is none.
Counted(counts, symbols) ==
    /\ \A i \in DOMAIN symbols : counts[symbols[i]] > 0
    /\ \E some \in DOMAIN counts : counts[some] > 0

LEMMA CountsAre ==
    ASSUME NEW c \in Range(Coders), NEW src, IsSource(src)
    PROVE  Counts(c, src) \in [Before(NSym(c)) -> Nat] /\ Counted(Counts(c, src), Symbols(c, src))
<1> DEFINE symbols == Symbols(c, src)
           K == Before(NSym(c))
           at(s) == {i \in DOMAIN symbols : symbols[i] = s}
           counts == Counts(c, src)
<1>1. symbols \in Seq(K)
  BY SymbolsAre
<1>2. DOMAIN Base[c] = K /\ 0 \in K
  BY CoderFacts DEF CoderIs, Before
<1>3. counts = [s \in K |-> IF symbols = << >> /\ s = 0 THEN 1 ELSE Cardinality(at(s))]
  <2> HIDE DEF K
  <2> QED
    BY <1>2 DEF Counts, Symbols
<1> HIDE DEF symbols, K
<1>4. ASSUME NEW s PROVE IsFiniteSet(at(s)) /\ Cardinality(at(s)) \in Nat
  <2>1. DOMAIN symbols = 1 .. Len(symbols) /\ Len(symbols) \in Nat
    BY <1>1
  <2>2. IsFiniteSet(1 .. Len(symbols))
    BY <2>1, FS_Interval
  <2>3. at(s) \subseteq 1 .. Len(symbols)
    BY <2>1
  <2>4. IsFiniteSet(at(s))
    BY <2>2, <2>3, FS_Subset
  <2> QED
    BY <2>4, FS_CardinalityType
<1> HIDE DEF counts
<1>5. counts \in [K -> Nat]
  <2> HIDE DEF at
  <2> QED
    BY <1>3, <1>4
<1>6. ASSUME NEW i \in DOMAIN symbols PROVE counts[symbols[i]] > 0
  <2>1. symbols # << >> /\ symbols[i] \in K /\ at(symbols[i]) # {}
    BY <1>1
  <2>2. counts[symbols[i]] = Cardinality(at(symbols[i]))
    <3> HIDE DEF at
    <3> QED
      BY <1>3, <2>1
  <2>3. Cardinality(at(symbols[i])) # 0
    <3> HIDE DEF at
    <3> QED
      BY <1>4, <2>1, FS_EmptySet
  <2> HIDE DEF at
  <2> QED
    BY <1>4, <2>2, <2>3
<1>7. \E some \in DOMAIN counts : counts[some] > 0
  <2>1. CASE symbols = << >>
    <3>1. counts[0] = 1
      BY <1>2, <1>3, <2>1
    <3> QED
      BY <1>2, <1>5, <3>1
  <2>2. CASE symbols # << >>
    <3>1. 1 \in DOMAIN symbols /\ symbols[1] \in K
      BY <1>1, <2>2
    <3> QED
      BY <1>5, <1>6, <3>1
  <2> QED
    BY <2>1, <2>2
<1> QED
  BY <1>5, <1>6, <1>7 DEF counts, symbols, K, Counted

\* The frequencies of the four coders, normalised from the counts of a block.
Normalized(freqs, src) == \A c \in Range(Coders) : Normal(freqs[c], Counts(c, src), NStates[c])

LEMMA NormalizedAre ==
    ASSUME NEW src, IsSource(src)
    PROVE  Normalized([c \in Range(Coders) |-> NormalizeFreq(Counts(c, src), NStates[c])], src)
<1> SUFFICES ASSUME NEW c \in Range(Coders)
             PROVE  Normal(NormalizeFreq(Counts(c, src), NStates[c]), Counts(c, src), NStates[c])
  BY DEF Normalized
<1>1. PICK r \in 0 .. PrecisionBits - 1 : CoderIs(c, r)
  BY CoderFacts
<1>2. 3 <= PrecisionBits
  BY EntropyAssumption, PowersOfTwo
<1>3. NStates[c] = 2^r /\ NSym(c) \in 1 .. 2^r
  BY <1>1 DEF CoderIs
<1> DEFINE counts == Counts(c, src)
<1>4. counts \in [Before(NSym(c)) -> Nat] /\ Counted(counts, Symbols(c, src))
  BY CountsAre
<1> HIDE DEF counts
<1>5. PICK some \in Before(NSym(c)) : counts[some] > 0
  BY <1>4 DEF Counted
<1> QED
  BY <1>2, <1>3, <1>4, <1>5, NormalizeFreqIs DEF counts

LEMMA NormalizedFor ==
    ASSUME NEW src, IsSource(src), NEW freqs, Normalized(freqs, src), NEW c \in Range(Coders)
    PROVE  /\ freqs[c] \in [Before(NSym(c)) -> Nat] /\ Total(freqs[c]) = NStates[c]
           /\ \A i \in DOMAIN Symbols(c, src) : freqs[c][Symbols(c, src)[i]] > 0
<1> DEFINE counts == Counts(c, src)
           symbols == Symbols(c, src)
<1>1. counts \in [Before(NSym(c)) -> Nat] /\ Counted(counts, symbols)
  BY CountsAre
<1>2. symbols \in Seq(Before(NSym(c)))
  BY SymbolsAre
<1>3. Normal(freqs[c], counts, NStates[c])
  BY DEF Normalized
<1> HIDE DEF counts, symbols
<1>4. ASSUME NEW i \in DOMAIN symbols PROVE freqs[c][symbols[i]] > 0
  BY <1>1, <1>2, <1>3 DEF Normal, Counted
<1> QED
  BY <1>1, <1>3, <1>4 DEF Normal, symbols

-----------------------------------------------------------------------------
(***************************************************************************)
(* The encoder and the blocks it makes: every stage leaves what the next   *)
(* one needs.                                                              *)
(***************************************************************************)
\* The states of the L,M,D coders, of the lanes, and an encoder that has them.
LMDStates == {st \in [LMD -> Nat] : \A c \in LMD : st[c] \in 0 .. NStates[c] - 1}
LitStates == [1 .. Lanes -> 0 .. NStates["lit"] - 1]
Encoders(St) == [left : Nat, bits : Seq(Bit), states : St]

LEMMA PushIs ==
    ASSUME NEW bits \in Seq(Bit), NEW n \in 0 .. PrecisionBits, NEW v \in Int
    PROVE  Push(bits, n, v) \in Seq(Bit)
<1>1. n \in Nat /\ n <= PrecisionBits
  BY PowersOfTwo
<1>2. PowersUpTo(n)
  BY <1>1, NarrowPowers
<1>3. LowBits(n, v) \in Seq(Bit)
  BY <1>1, <1>2, LowBitsAre
<1> QED
  BY <1>3 DEF Push

LEMMA PutValueIs ==
    ASSUME NEW c \in LMD, NEW e \in Encoders(LMDStates), NEW v \in Nat,
           block.freqs[c] \in [Before(NSym(c)) -> Nat], Total(block.freqs[c]) = NStates[c],
           block.freqs[c][SymbolOf(v, Base[c])] > 0
    PROVE  PutValue(e, c, v) \in Encoders(LMDStates) /\ PutValue(e, c, v).left = e.left
<1> DEFINE sym == SymbolOf(v, Base[c])
           step == Encode(EncoderTable(block.freqs[c], NStates[c])[sym], e.states[c])
           extra == Push(e.bits, Extra[c][sym], v - Base[c][sym])
           out == Push(extra, step.nbits, step.b)
           e2 == PutValue(e, c, v)
<1>1. c \in Range(Coders) /\ sym \in Before(NSym(c))
  BY TheCoders, SymbolOfIs DEF LMD
<1>2. PICK r \in 0 .. PrecisionBits - 1 : CoderIs(c, r)
  BY <1>1, CoderFacts
<1>3. e.left \in Nat /\ e.bits \in Seq(Bit) /\ e.states \in [LMD -> Nat]
      /\ \A d \in LMD : e.states[d] \in 0 .. NStates[d] - 1
  BY DEF Encoders, LMDStates
<1>4. /\ step.nbits \in 0 .. PrecisionBits /\ step.b \in Nat
      /\ step.state \in 0 .. NStates[c] - 1
  <2> HIDE DEF sym
  <2>1. block.freqs[c][sym] > 0
    BY DEF sym
  <2>2. e.states[c] \in 0 .. NStates[c] - 1
    BY <1>3
  <2> QED
    BY <1>1, <2>1, <2>2, EncodedIs
<1>5. Extra[c][sym] \in 0 .. PrecisionBits /\ v - Base[c][sym] \in Int
  <2> HIDE DEF sym
  <2>1. Base[c][sym] \in Nat
    BY <1>1, <1>2 DEF CoderIs
  <2> QED
    BY <1>1, <1>2, <2>1 DEF CoderIs
<1>6. e2 = [e EXCEPT !.bits = out, !.states[c] = step.state]
  BY DEF PutValue, Push
<1> HIDE DEF step, sym
<1>7. extra \in Seq(Bit)
  BY <1>3, <1>5, PushIs
<1> HIDE DEF extra
<1>8. out \in Seq(Bit)
  <2>1. step.b \in Int
    BY <1>4
  <2> QED
    BY <1>4, <1>7, <2>1, PushIs
<1> HIDE DEF out, e2
<1> DEFINE st == [e.states EXCEPT ![c] = step.state]
<1>9. st \in LMDStates
  <2>1. step.state \in Nat
    <3>1. NStates[c] \in Nat
      BY <1>2 DEF CoderIs
    <3> QED
      BY <1>4, <3>1
  <2>2. st \in [LMD -> Nat]
    BY <1>3, <2>1
  <2>3. \A d \in LMD : st[d] \in 0 .. NStates[d] - 1
    BY <1>3, <1>4
  <2> HIDE DEF st
  <2> QED
    BY <2>2, <2>3 DEF LMDStates
<1>10. e2 = [e EXCEPT !.bits = out, !.states = st]
  BY <1>6 DEF Encoders
<1> HIDE DEF st
<1> QED
  BY <1>3, <1>8, <1>9, <1>10 DEF Encoders, e2

LEMMA PutLiteralIs ==
    ASSUME NEW lane \in 1 .. Lanes, NEW e \in Encoders(LitStates), NEW v \in Before(NSym("lit")),
           block.freqs["lit"] \in [Before(NSym("lit")) -> Nat],
           Total(block.freqs["lit"]) = NStates["lit"], block.freqs["lit"][v] > 0
    PROVE  PutLiteral(e, lane, v) \in Encoders(LitStates) /\ PutLiteral(e, lane, v).left = e.left
<1> DEFINE step == Encode(EncoderTable(block.freqs["lit"], NStates["lit"])[v], e.states[lane])
           out == Push(e.bits, step.nbits, step.b)
           e2 == PutLiteral(e, lane, v)
           st == [e.states EXCEPT ![lane] = step.state]
<1>1. "lit" \in Range(Coders)
  BY TheCoders
<1>2. e.left \in Nat /\ e.bits \in Seq(Bit) /\ e.states \in LitStates
  BY DEF Encoders
<1>3. /\ step.nbits \in 0 .. PrecisionBits /\ step.b \in Nat
      /\ step.state \in 0 .. NStates["lit"] - 1
  <2>1. e.states[lane] \in 0 .. NStates["lit"] - 1
    BY <1>2 DEF LitStates
  <2> QED
    BY <1>1, <2>1, EncodedIs
<1>4. e2 = [e EXCEPT !.bits = out, !.states[lane] = step.state]
  BY DEF PutLiteral, Push
<1> HIDE DEF step
<1>5. out \in Seq(Bit)
  <2>1. step.b \in Int
    BY <1>3
  <2> QED
    BY <1>2, <1>3, <2>1, PushIs
<1>6. st \in LitStates
  BY <1>2, <1>3 DEF LitStates
<1>7. e2 = [e EXCEPT !.bits = out, !.states = st]
  BY <1>4 DEF Encoders
<1> HIDE DEF st, out, e2
<1> QED
  BY <1>2, <1>5, <1>6, <1>7 DEF Encoders, e2

\* A group of literals, one of each lane.
PutOne(put, j) ==
    /\ put[j - 1] \in Encoders(LitStates)
    /\ put[j] = PutLiteral(put[j - 1], Lanes - j + 1, block.source.literals[enc.left - j + 1])

LEMMA GroupPut ==
    ASSUME enc \in Encoders(LitStates), IsSource(block.source), Normalized(block.freqs, block.source),
           Lanes <= enc.left, enc.left <= Len(block.source.literals)
    PROVE  LET put[j \in 0 .. Lanes] ==
                 IF j = 0 THEN enc
                 ELSE PutLiteral(put[j - 1], Lanes - j + 1, block.source.literals[enc.left - j + 1])
           IN /\ put[Lanes] \in Encoders(LitStates) /\ put[Lanes].left = enc.left
              /\ put[0] = enc /\ \A j \in 1 .. Lanes : PutOne(put, j)
<1> DEFINE lits == block.source.literals
           f == block.freqs["lit"]
           Loads(g) == [j \in 0 .. Lanes |-> IF j = 0 THEN enc
                          ELSE PutLiteral(g[j - 1], Lanes - j + 1, block.source.literals[enc.left - j + 1])]
           put == CHOOSE g : g = Loads(g)
           R == {e \in Encoders(LitStates) : e.left = enc.left}
           G == [j \in 1 .. Lanes |->
                   [e \in R |-> PutLiteral(e, Lanes - j + 1, block.source.literals[enc.left - j + 1])]]
<1>1. Lanes \in Nat \ {0} /\ enc.left \in Nat /\ "lit" \in Range(Coders)
  <2>1. Lanes \in Nat \ {0}
    BY EntropyAssumption
  <2>2. enc.left \in Nat
    BY DEF Encoders
  <2> QED
    BY <2>1, <2>2, TheCoders
<1>2. /\ f \in [Before(NSym("lit")) -> Nat] /\ Total(f) = NStates["lit"]
      /\ lits \in Seq(Before(NSym("lit")))
      /\ \A i \in DOMAIN lits : f[lits[i]] > 0
  <2>1. Symbols("lit", block.source) = lits
    BY DEF Symbols
  <2> HIDE DEF lits, f
  <2>2. lits \in Seq(Before(NSym("lit")))
    BY <1>1, <2>1, SymbolsAre
  <2> QED
    BY <1>1, <2>1, <2>2, NormalizedFor DEF f
<1>3. ASSUME NEW j \in 1 .. Lanes, NEW e \in R
      PROVE  PutLiteral(e, Lanes - j + 1, lits[enc.left - j + 1]) \in R
  <2> DEFINE lane == Lanes - j + 1
             at == enc.left - j + 1
             v == lits[at]
  <2>1. lane \in 1 .. Lanes
    BY <1>1
  <2>2. at \in 1 .. Len(lits)
    BY <1>1, <1>2, SMTT(30)
  <2> HIDE DEF lane, at, lits, f
  <2>3. v \in Before(NSym("lit")) /\ f[v] > 0
    BY <1>2, <2>2
  <2>4. e \in Encoders(LitStates) /\ e.left = enc.left
    OBVIOUS
  <2> HIDE DEF v
  <2>5. PutLiteral(e, lane, v) \in Encoders(LitStates) /\ PutLiteral(e, lane, v).left = e.left
    BY <1>2, <2>1, <2>3, <2>4, PutLiteralIs DEF f
  <2> QED
    BY <2>4, <2>5 DEF lane, at, v
<1> HIDE DEF f
<1>4. Extends(G, Lanes, R)
  <2> SUFFICES ASSUME NEW j \in 1 .. Lanes, NEW e \in R PROVE G[j][e] \in R
    BY DEF Extends
  <2>1. G[j][e] = PutLiteral(e, Lanes - j + 1, lits[enc.left - j + 1])
    <3> HIDE DEF R
    <3> QED
      OBVIOUS
  <2> HIDE DEF G, R, lits
  <2> QED
    BY <1>3, <2>1
<1>5. enc \in R
  OBVIOUS
<1>6. PICK g \in [0 .. Lanes -> R] : Chains(g, enc, Lanes, G)
  <2> HIDE DEF G, R
  <2> QED
    BY <1>1, <1>4, <1>5, ChainExists
<1>7. g = Loads(g)
  <2>1. ASSUME NEW j \in 0 .. Lanes
        PROVE  g[j] = IF j = 0 THEN enc
                      ELSE PutLiteral(g[j - 1], Lanes - j + 1, block.source.literals[enc.left - j + 1])
    <3>1. CASE j = 0
      BY <1>6, <3>1 DEF Chains
    <3>2. CASE j # 0
      <4>1. j \in 1 .. Lanes /\ j - 1 \in 0 .. Lanes
        BY <1>1, <3>2
      <4>2. g[j] = G[j][g[j - 1]] /\ g[j - 1] \in R
        <5> HIDE DEF G, R
        <5> QED
          BY <1>6, <4>1 DEF Chains
      <4> HIDE DEF R
      <4> QED
        BY <3>2, <4>1, <4>2
    <3> QED
      BY <3>1, <3>2
  <2> HIDE DEF R
  <2> QED
    BY <1>6, <2>1
<1>8. put = Loads(put)
  <2> HIDE DEF Loads
  <2> QED
    BY <1>7
<1>9. /\ put[0] = enc
      /\ \A j \in 1 .. Lanes :
           put[j] = PutLiteral(put[j - 1], Lanes - j + 1, lits[enc.left - j + 1])
  <2> HIDE DEF put
  <2>1. 0 \in 0 .. Lanes /\ \A j \in 1 .. Lanes : j \in 0 .. Lanes /\ j # 0
    BY <1>1
  <2> QED
    BY <1>8, <2>1
<1> HIDE DEF put, R, lits
<1> DEFINE T == {i \in Nat : i <= Lanes => put[i] \in R}
<1>10. 0 \in T
  BY <1>5, <1>9
<1>11. ASSUME NEW i \in Nat, i \in T PROVE i + 1 \in T
  <2> SUFFICES ASSUME i + 1 <= Lanes PROVE put[i + 1] \in R
    OBVIOUS
  <2>1. i + 1 \in 1 .. Lanes /\ (i + 1) - 1 = i /\ i <= Lanes
    BY <1>1
  <2>2. put[i] \in R
    BY <1>11, <2>1
  <2>3. put[i + 1] = PutLiteral(put[i], Lanes - (i + 1) + 1, lits[enc.left - (i + 1) + 1])
    BY <1>9, <2>1
  <2> QED
    BY <1>3, <2>1, <2>2, <2>3
<1>12. \A j \in 0 .. Lanes : put[j] \in R
  <2>1. Nat \subseteq T
    <3> HIDE DEF T
    <3> QED
      BY <1>10, <1>11, Induction
  <2> QED
    BY <1>1, <2>1
<1>13. put[Lanes] \in Encoders(LitStates) /\ put[Lanes].left = enc.left
  BY <1>1, <1>12 DEF R
<1>14. ASSUME NEW j \in 1 .. Lanes PROVE PutOne(put, j)
  <2>1. j - 1 \in 0 .. Lanes
    BY <1>1
  <2>2. put[j - 1] \in Encoders(LitStates)
    BY <1>12, <2>1 DEF R
  <2> QED
    BY <1>9, <2>2 DEF PutOne, lits
<1> QED
  BY <1>9, <1>13, <1>14 DEF put

LEMMA PartOf ==
    ASSUME NEW S, NEW s \in Seq(S), NEW m \in Nat \ {0}, NEW n \in Nat, n <= Len(s)
    PROVE  SubSeq(s, m, n) \in Seq(S)
<1>1. \A i \in m .. n : s[i] \in S
  BY Len(s) \in Nat, \A i \in 1 .. Len(s) : s[i] \in S
<1> QED
  BY <1>1, SubSeqProperties

LEMMA PackIs ==
    ASSUME NEW h, NEW size
    PROVE  V2!Pack(h, size) \in [1 .. 3 -> [1 .. V2!HeaderWord -> Bit]]
<1>1. ASSUME NEW fields PROVE V2!Or(fields) \in [1 .. V2!HeaderWord -> Bit]
  BY DEF V2!Or, Bit
<1>2. \E a, b, c : V2!Pack(h, size) = <<V2!Or(a), V2!Or(b), V2!Or(c)>>
  BY DEF V2!Pack
<1>3. PICK a, b, c : V2!Pack(h, size) = <<V2!Or(a), V2!Or(b), V2!Or(c)>>
  BY <1>2
<1> DEFINE W == [1 .. V2!HeaderWord -> Bit]
           x == V2!Or(a)
           y == V2!Or(b)
           z == V2!Or(c)
<1>4. x \in W /\ y \in W /\ z \in W
  BY <1>1
<1>5. V2!Pack(h, size) = <<x, y, z>>
  BY <1>3
<1> HIDE DEF W, x, y, z
<1>6. <<x, y, z>> \in [1 .. 3 -> W]
  BY <1>4
<1> QED
  BY <1>5, <1>6 DEF W

\* A block from its header on, as a stream holds it.
HeaderBlock(b) ==
    /\ b.payload \in Seq(Byte)
    /\ \/ b.version = 1 /\ Numbers(b.bytes, 52 + 2 * AllSymbols)
       \/ b.version = 2 /\ b.words \in [1 .. 3 -> [1 .. V2!HeaderWord -> Bit]] /\ b.freqData \in Seq(Bit)

LEMMA ForeignIs ==
    ASSUME NEW b, IsForeign(b)
    PROVE  HeaderBlock(b)
<1>1. b.payload \in Seq(Byte)
  BY DEF IsForeign
<1>2. CASE b.version = 1 /\ b.bytes \in [1 .. V1!Size(AllSymbols) -> V1!Byte]
  <2> DEFINE n == 52 + 2 * AllSymbols
  <2>1. n \in Nat /\ V1!Size(AllSymbols) = n
    BY SymbolCounts DEF V1!Size, V1!FreqsAt
  <2> HIDE DEF n
  <2>2. V1!Byte \subseteq Nat
    BY DEF V1!Byte, V1!ByteSize
  <2>3. b.bytes \in [1 .. n -> Nat]
    BY <1>2, <2>1, <2>2
  <2>4. b.bytes \in Seq(Nat) /\ Len(b.bytes) = n
    BY <2>1, <2>3, AsSequence
  <2> QED
    BY <1>1, <1>2, <2>4 DEF HeaderBlock, Numbers, n
<1>3. CASE b.version = 2 /\ b.words \in [1 .. 3 -> [1 .. V2!HeaderWord -> Bit]] /\ b.freqData \in Seq(Bit)
  BY <1>1, <1>3 DEF HeaderBlock
<1> QED
  BY <1>2, <1>3 DEF IsForeign

LEMMA WithFreqs ==
    ASSUME NEW h, FieldsRead(h), NEW freqs,
           {"nLiterals", "nMatches", "nLitPayload", "nLMDPayload", "litBits", "lmdBits",
            "litStates", "lmdStates", "freqs"} \subseteq DOMAIN h
    PROVE  FieldsRead([h EXCEPT !.freqs = freqs]) /\ [h EXCEPT !.freqs = freqs].freqs = freqs
<1> DEFINE g == [h EXCEPT !.freqs = freqs]
<1>1. /\ g.nLiterals = h.nLiterals /\ g.nMatches = h.nMatches
      /\ g.nLitPayload = h.nLitPayload /\ g.nLMDPayload = h.nLMDPayload
      /\ g.litBits = h.litBits /\ g.lmdBits = h.lmdBits
      /\ g.litStates = h.litStates /\ g.lmdStates = h.lmdStates /\ g.freqs = freqs
  OBVIOUS
<1> HIDE DEF g
<1>2. FieldsRead(g)
  BY <1>1 DEF FieldsRead
<1> QED
  BY <1>1, <1>2 DEF g

LEMMA FreqsReadAre ==
    ASSUME HeaderBlock(block), block.version = 2, FreqsRead.ok
    PROVE  FreqsRead.freqs \in [1 .. AllSymbols -> Nat]
<1> DEFINE size == V2!HeaderByte * (V2!HeaderSize(block.words) - V2!FixedBytes)
           part == SubSeq(block.freqData, 1, size)
<1>1. /\ block.words \in [1 .. 3 -> [1 .. V2!HeaderWord -> Bit]]
      /\ block.freqData \in Seq(Bit) /\ AllSymbols \in Nat
  BY SymbolCounts DEF HeaderBlock
<1>2. size \in Int
  <2>1. V2!HeaderSize(block.words) \in Nat
    BY <1>1, V2UnpackIs
  <2> QED
    BY <2>1 DEF V2!HeaderByte, V2!FixedBytes
<1> HIDE DEF size
<1>3. CASE 0 <= size /\ size <= Len(block.freqData)
  <2>1. FreqsRead = V2!ReadFreqs(part, AllSymbols)
    BY <1>3 DEF FreqsRead, size
  <2>2. part \in Seq(Bit)
    <3>1. size \in Nat /\ 1 \in Nat \ {0}
      BY <1>2, <1>3
    <3> QED
      BY <1>1, <1>3, <3>1, PartOf
  <2> HIDE DEF part
  <2>3. V2!ReadFreqs(part, AllSymbols).ok
    BY <2>1
  <2> QED
    BY <1>1, <2>1, <2>2, <2>3, ReadFreqsIs
<1>4. CASE ~ (0 <= size /\ size <= Len(block.freqData))
  <2>1. FreqsRead = [ok |-> FALSE, freqs |-> << >>]
    BY <1>4 DEF FreqsRead, size
  <2> QED
    BY <2>1
<1> QED
  BY <1>3, <1>4

LEMMA HeaderReadIs ==
    ASSUME HeaderBlock(block), block.version = 2 => FreqsRead.ok
    PROVE  FieldsRead(HeaderRead) /\ Tables(HeaderRead.freqs)
<1> DEFINE names == {"nLiterals", "nMatches", "nLitPayload", "nLMDPayload", "litBits", "lmdBits",
                     "litStates", "lmdStates", "freqs"}
<1>1. ASSUME NEW h, FieldsRead(h), h.freqs \in [1 .. AllSymbols -> Nat], names \subseteq DOMAIN h,
             HeaderRead = [h EXCEPT !.freqs = SplitFreqs(@)]
      PROVE  FieldsRead(HeaderRead) /\ Tables(HeaderRead.freqs)
  <2>1. HeaderRead = [h EXCEPT !.freqs = SplitFreqs(h.freqs)]
    BY <1>1
  <2>2. FieldsRead(HeaderRead) /\ HeaderRead.freqs = SplitFreqs(h.freqs)
    BY <1>1, <2>1, WithFreqs, ZenonT(30)
  <2> QED
    BY <1>1, <2>2, SplitFreqsAre
<1>2. CASE block.version = 1
  <2> DEFINE h == V1!Read(block.bytes, Lanes, AllSymbols)
  <2>1. HeaderRead = [h EXCEPT !.freqs = SplitFreqs(@)]
    BY <1>2 DEF HeaderRead
  <2>2. names \subseteq DOMAIN h
    BY DEF V1!Read
  <2>3. FieldsRead(h) /\ h.freqs \in [1 .. AllSymbols -> Nat]
    <3>1. block.bytes \in Seq(Nat) /\ Len(block.bytes) = 52 + 2 * AllSymbols
      BY <1>2 DEF HeaderBlock, Numbers
    <3> QED
      BY <3>1, SymbolCounts, V1ReadIs
  <2> HIDE DEF h, names
  <2> QED
    BY <1>1, <2>1, <2>2, <2>3
<1>3. CASE block.version = 2
  <2> DEFINE h == V2!Unpack(block.words, Lanes, FreqsRead.freqs)
  <2>1. HeaderRead = [h EXCEPT !.freqs = SplitFreqs(@)]
    BY <1>3 DEF HeaderRead
  <2>2. names \subseteq DOMAIN h
    BY DEF V2!Unpack
  <2>3. FieldsRead(h) /\ h.freqs = FreqsRead.freqs
    <3>1. block.words \in [1 .. 3 -> [1 .. V2!HeaderWord -> Bit]]
      BY <1>3 DEF HeaderBlock
    <3> QED
      BY <3>1, V2UnpackIs
  <2>4. FreqsRead.freqs \in [1 .. AllSymbols -> Nat]
    BY <1>3, FreqsReadAre
  <2> HIDE DEF h, names
  <2> QED
    BY <1>1, <2>1, <2>2, <2>3, <2>4
<1> QED
  BY <1>2, <1>3 DEF HeaderBlock

LEMMA StreamsAre ==
    ASSUME block.payload \in Seq(Byte), header.nLitPayload \in Nat, header.nLMDPayload \in Nat,
           header.nLitPayload + header.nLMDPayload <= Len(block.payload)
    PROVE  LitStream \in Seq(Byte) /\ LMDStream \in Seq(Byte)
<1>1. HeaderTail \in Seq(Byte)
  BY EntropyAssumption
<1> DEFINE n == header.nLitPayload
           m == header.nLMDPayload
           p == block.payload
<1>2. /\ n \in Nat /\ n + 1 \in Nat \ {0} /\ n + m \in Nat /\ 1 \in Nat \ {0}
      /\ n <= Len(p) /\ n + m <= Len(p) /\ p \in Seq(Byte)
  BY Len(block.payload) \in Nat
<1> HIDE DEF n, m, p
<1>3. SubSeq(p, 1, n) \in Seq(Byte)
  BY <1>2, PartOf
<1>4. SubSeq(p, n + 1, n + m) \in Seq(Byte)
  BY <1>2, PartOf
<1>5. HeaderTail \o SubSeq(p, 1, n) \in Seq(Byte)
  BY <1>1, <1>3
<1> QED
  BY <1>4, <1>5 DEF LitStream, LMDStream, n, m, p

\* What encodeBlock has when the L, M, D payload is written.
LMDDone == block.lmdStates \in LMDStates /\ block.lmd.buf \in Seq(Byte) /\ block.lmd.n \in Int

LEMMA WrittenIs ==
    ASSUME enc \in Encoders(LitStates), IsSource(block.source), Normalized(block.freqs, block.source), LMDDone
    PROVE  LET lit == Finish(enc.bits, ByteBits)
               lmdPayload == LMDPadding \o block.lmd.buf
               v1 == V1!Read(V1!Write([nLiterals |-> Len(block.source.literals), nMatches |-> Len(block.source.records),
                          nLitPayload |-> Len(lit.buf), nLMDPayload |-> Len(lmdPayload),
                          litBits |-> lit.n, lmdBits |-> block.lmd.n,
                          litStates |-> enc.states, lmdStates |-> block.lmdStates],
                         AllFreqs(block.freqs)), Lanes, AllSymbols)
           IN lit.buf \o lmdPayload \in Seq(Byte) /\ V2!WriteFreqs(v1.freqs) \in Seq(Bit)
<1> DEFINE lit == Finish(enc.bits, ByteBits)
           lmdPayload == LMDPadding \o block.lmd.buf
           h == [nLiterals |-> Len(block.source.literals), nMatches |-> Len(block.source.records),
                 nLitPayload |-> Len(lit.buf), nLMDPayload |-> Len(lmdPayload),
                 litBits |-> lit.n, lmdBits |-> block.lmd.n,
                 litStates |-> enc.states, lmdStates |-> block.lmdStates]
           all == AllFreqs(block.freqs)
           written == V1!Write(h, all)
           v1 == V1!Read(written, Lanes, AllSymbols)
<1>1. lit.buf \in Seq(Byte) /\ lit.n \in Int
  <2>1. enc.bits \in Seq(Bit)
    BY DEF Encoders
  <2> QED
    BY <2>1, FinishIs
<1>2. lmdPayload \in Seq(Byte)
  <2>1. LMDPadding \in [1 .. WordBytes -> Byte]
    <3>1. 0 \in Byte
      <4>1. 2^ByteBits \in Nat \ {0}
        BY WordIs, WordPower
      <4> QED
        BY <4>1 DEF Byte
    <3> QED
      BY <3>1 DEF LMDPadding
  <2>2. LMDPadding \in Seq(Byte)
    BY <2>1, WordIs, AsSequence
  <2>3. block.lmd.buf \in Seq(Byte)
    BY DEF LMDDone
  <2> QED
    BY <2>2, <2>3
<1> HIDE DEF lit, lmdPayload
<1>3. all \in Seq(Nat) /\ Len(all) = AllSymbols
  <2>1. Tables(block.freqs)
    BY NormalizedFor DEF Tables
  <2> QED
    BY <2>1, AllFreqsAre
<1>4. enc.states \in Seq(Nat) /\ Len(enc.states) = Lanes
  <2>1. enc.states \in [1 .. Lanes -> 0 .. NStates["lit"] - 1]
    BY DEF Encoders, LitStates
  <2>2. NStates["lit"] \in Nat /\ Lanes \in Nat
    <3>1. Lanes \in Nat
      BY EntropyAssumption
    <3>2. "lit" \in Range(Coders)
      BY TheCoders
    <3> QED
      BY <3>1, <3>2, CoderFacts DEF CoderIs
  <2>3. enc.states \in [1 .. Lanes -> Nat]
    BY <2>1, <2>2
  <2> QED
    BY <2>2, <2>3, AsSequence
<1>5. block.lmdStates.l \in Nat /\ block.lmdStates.m \in Nat /\ block.lmdStates.d \in Nat
      /\ block.lmd.n \in Int
  BY DEF LMDDone, LMDStates, LMD
<1>6. /\ Len(block.source.literals) \in Nat /\ Len(block.source.records) \in Nat
      /\ Len(lit.buf) \in Nat /\ Len(lmdPayload) \in Nat
  <2>1. block.source.literals \in Seq(DOMAIN Base["lit"]) /\ block.source.records \in Seq([LMD -> Nat])
    BY DEF IsSource
  <2> QED
    BY <1>1, <1>2, <2>1
<1>7. /\ h.nLiterals \in Nat /\ h.nMatches \in Nat /\ h.nLitPayload \in Nat /\ h.nLMDPayload \in Nat
      /\ h.litBits \in Int /\ h.lmdBits \in Int /\ h.litStates \in Seq(Nat) /\ Len(h.litStates) = Lanes
      /\ h.lmdStates.l \in Nat /\ h.lmdStates.m \in Nat /\ h.lmdStates.d \in Nat
  BY <1>1, <1>4, <1>5, <1>6
<1> HIDE DEF h, all
<1>8. written \in Seq(Nat) /\ Len(written) = 52 + 2 * AllSymbols
  <2>1. written \in Seq(Nat) /\ Len(written) = 52 + 2 * Len(all)
    BY <1>3, <1>7, V1WriteIs
  <2> QED
    BY <1>3, <2>1
<1> HIDE DEF written
<1>9. v1.freqs \in [1 .. AllSymbols -> Nat]
  BY <1>8, SymbolCounts, V1ReadIs
<1> HIDE DEF v1
<1>10. v1.freqs \in Seq(Nat)
  BY <1>9, SymbolCounts, AsSequence
<1>11. V2!WriteFreqs(v1.freqs) \in Seq(Bit)
  BY <1>10, WriteFreqsIs
<1>12. lit.buf \o lmdPayload \in Seq(Byte)
  BY <1>1, <1>2
<1> QED
  BY <1>11, <1>12 DEF lit, lmdPayload, h, all, written, v1

-----------------------------------------------------------------------------
(***************************************************************************)
(* Numbers and bits: windows of a sequence of bits, cut and joined.        *)
(***************************************************************************)
\* The laws of powers of two that numbers of n bits need.
Powers(n) ==
    /\ 2^0 = 1 /\ 2^1 = 2 /\ \A i \in 0 .. n : 2^i \in Nat \ {0}
    /\ \A i, j \in 0 .. n : i + j <= n => 2^(i + j) = 2^i * 2^j

LEMMA WidePowers ==
    ASSUME NEW n \in Nat, n <= PrecisionBits \/ n <= WordBits
    PROVE  Powers(n) /\ PowersUpTo(n)
<1>1. ASSUME NEW i \in 0 .. n PROVE 2^i \in Nat \ {0}
  <2>1. i \in 0 .. PrecisionBits \/ (i \in Nat /\ i <= WordBits)
    BY PowersOfTwo, WordIs
  <2> QED
    BY <2>1, PowersOfTwo, WordPower
<1>2. ASSUME NEW i \in 0 .. n, NEW j \in 0 .. n, i + j <= n PROVE 2^(i + j) = 2^i * 2^j
  <2>2. CASE n <= PrecisionBits
    <3>1. i \in 0 .. PrecisionBits /\ j \in 0 .. PrecisionBits /\ i + j <= PrecisionBits
      BY <1>2, <2>2, PowersOfTwo
    <3> QED
      BY <3>1, PowersOfTwo
  <2>3. CASE n <= WordBits
    <3>1. i + j <= WordBits /\ i \in Nat /\ j \in Nat
      BY <1>2, <2>3, WordIs
    <3> QED
      BY <3>1, WordPowers
  <2> QED
    BY <2>2, <2>3
<1> QED
  BY <1>1, <1>2, NarrowPowers, PowersOfTwo DEF Powers

LEMMA FewerPowers ==
    ASSUME NEW n \in Nat, Powers(n), NEW m \in 0 .. n
    PROVE  Powers(m) /\ PowersUpTo(m)
<1>1. ASSUME NEW i \in 0 .. m - 1 PROVE 2^(i + 1) = 2^i * 2
  <2>1. i \in 0 .. n /\ 1 \in 0 .. n /\ i + 1 <= n
    OBVIOUS
  <2> QED
    BY <2>1, ZenonT(60) DEF Powers
<1>2. \A i \in 0 .. m : i \in 0 .. n
  OBVIOUS
<1>3. ASSUME NEW i \in 0 .. m, NEW j \in 0 .. m, i + j <= m PROVE 2^(i + j) = 2^i * 2^j
  <2>1. i \in 0 .. n /\ j \in 0 .. n /\ i + j <= n
    BY <1>3
  <2> QED
    BY <2>1 DEF Powers
<1> QED
  BY <1>1, <1>2, <1>3 DEF Powers, PowersUpTo

\* Bit i of a sequence, zero past its end.
BitOf(bits, i) == IF i <= Len(bits) THEN bits[i] ELSE 0

LEMMA BitOfIs ==
    ASSUME NEW bits \in Seq(Bit), NEW i \in Nat \ {0}
    PROVE  BitOf(bits, i) \in 0 .. 1
<1>1. CASE i <= Len(bits)
  <2>1. i \in 1 .. Len(bits)
    BY <1>1
  <2> QED
    BY <1>1, <2>1 DEF BitOf, Bit
<1>2. CASE ~ (i <= Len(bits))
  BY <1>2 DEF BitOf
<1> QED
  BY <1>1, <1>2

\* One bit more.
LEMMA ValueNext ==
    ASSUME NEW bits \in Seq(Bit), NEW from \in Nat, NEW n \in Nat, Powers(n)
    PROVE  /\ Value(bits, from, 0) = 0
           /\ \A i \in 0 .. n : Value(bits, from, i) \in 0 .. 2^i - 1
           /\ \A i \in 0 .. n - 1 :
                Value(bits, from, i + 1) = Value(bits, from, i) + BitOf(bits, from + i + 1) * 2^i
<1> DEFINE IsSum(sum, k) ==
             /\ sum[0] = 0 /\ \A i \in 0 .. k : sum[i] \in 0 .. 2^i - 1
             /\ \A i \in 1 .. k :
                  sum[i] = sum[i - 1] + (IF from + i <= Len(bits) THEN bits[from + i] * 2^(i - 1) ELSE 0)
             /\ Value(bits, from, k) = sum[k]
<1>1. ASSUME NEW k \in 0 .. n PROVE PowersUpTo(k) /\ k \in Nat
  BY <1>1, FewerPowers
<1>2. ASSUME NEW k \in 0 .. n PROVE \E sum : IsSum(sum, k)
  BY <1>1, ValueSum
<1>3. PICK top : IsSum(top, n)
  <2>1. n \in 0 .. n
    OBVIOUS
  <2> HIDE DEF IsSum
  <2> QED
    BY <1>2, <2>1
<1>4. ASSUME NEW k \in 0 .. n PROVE Value(bits, from, k) = top[k]
  <2>1. PICK sum : IsSum(sum, k)
    <3> HIDE DEF IsSum
    <3> QED
      BY <1>2
  <2> DEFINE T == {i \in Nat : i <= k => sum[i] = top[i]}
  <2>2. 0 \in T
    BY <1>3, <2>1
  <2>3. ASSUME NEW i \in Nat, i \in T PROVE i + 1 \in T
    <3> SUFFICES ASSUME i + 1 <= k PROVE sum[i + 1] = top[i + 1]
      OBVIOUS
    <3>1. i + 1 \in 1 .. k /\ i + 1 \in 1 .. n /\ (i + 1) - 1 = i /\ sum[i] = top[i]
      BY <2>3
    <3> DEFINE x == IF from + (i + 1) <= Len(bits) THEN bits[from + (i + 1)] * 2^((i + 1) - 1) ELSE 0
    <3>2. sum[i + 1] = sum[(i + 1) - 1] + x /\ top[i + 1] = top[(i + 1) - 1] + x
      BY <1>3, <2>1, <3>1
    <3> HIDE DEF x
    <3> QED
      BY <3>1, <3>2
  <2>4. k \in T
    <3>1. k \in Nat
      OBVIOUS
    <3> HIDE DEF T
    <3> QED
      BY <2>2, <2>3, <3>1, Induction
  <2> QED
    BY <2>1, <2>4
<1>5. ASSUME NEW i \in 0 .. n - 1
      PROVE Value(bits, from, i + 1) = Value(bits, from, i) + BitOf(bits, from + i + 1) * 2^i
  <2>1. i \in 0 .. n /\ i + 1 \in 0 .. n /\ i + 1 \in 1 .. n /\ (i + 1) - 1 = i /\ from + (i + 1) = from + i + 1
    OBVIOUS
  <2> DEFINE p == 2^i
  <2>2. p \in Nat
    BY <2>1 DEF Powers
  <2>3. top[i + 1] = top[i] + (IF from + i + 1 <= Len(bits) THEN bits[from + i + 1] * p ELSE 0)
    BY <1>3, <2>1
  <2> HIDE DEF p
  <2>4. (IF from + i + 1 <= Len(bits) THEN bits[from + i + 1] * p ELSE 0) = BitOf(bits, from + i + 1) * p
    BY <2>2 DEF BitOf
  <2> QED
    BY <1>4, <2>1, <2>3, <2>4 DEF p
<1>6. Value(bits, from, 0) = 0
  BY <1>3, <1>4
<1>7. ASSUME NEW i \in 0 .. n PROVE Value(bits, from, i) \in 0 .. 2^i - 1
  BY <1>1, ValueIs
<1> QED
  BY <1>5, <1>6, <1>7

\* The n bits from a place on of one sequence are those from a place of another.
SameBits(bits, from, cits, to, n) == \A i \in 1 .. n : BitOf(bits, from + i) = BitOf(cits, to + i)

\* Equal bits make equal numbers.
LEMMA ValueAgrees ==
    ASSUME NEW bits \in Seq(Bit), NEW cits \in Seq(Bit), NEW from \in Nat, NEW to \in Nat,
           NEW n \in Nat, Powers(n), SameBits(bits, from, cits, to, n)
    PROVE  Value(bits, from, n) = Value(cits, to, n)
<1> DEFINE T == {k \in Nat : k <= n => Value(bits, from, k) = Value(cits, to, k)}
<1>1. 0 \in T
  BY ValueNext
<1>2. ASSUME NEW k \in Nat, k \in T PROVE k + 1 \in T
  <2> SUFFICES ASSUME k + 1 <= n PROVE Value(bits, from, k + 1) = Value(cits, to, k + 1)
    OBVIOUS
  <2>1. k \in 0 .. n - 1 /\ k + 1 \in 1 .. n /\ from + (k + 1) = from + k + 1 /\ to + (k + 1) = to + k + 1
    OBVIOUS
  <2>2. BitOf(bits, from + k + 1) = BitOf(cits, to + k + 1)
    <3>1. BitOf(bits, from + (k + 1)) = BitOf(cits, to + (k + 1))
      BY <2>1 DEF SameBits
    <3> QED
      BY <2>1, <3>1
  <2>3. Value(bits, from, k) = Value(cits, to, k)
    BY <1>2, <2>1
  <2>4. Value(bits, from, k + 1) = Value(bits, from, k) + BitOf(bits, from + k + 1) * 2^k
    BY <2>1, ValueNext
  <2>5. Value(cits, to, k + 1) = Value(cits, to, k) + BitOf(cits, to + k + 1) * 2^k
    BY <2>1, ValueNext
  <2> QED
    BY <2>2, <2>3, <2>4, <2>5
<1>3. n \in T
  <2> HIDE DEF T
  <2> QED
    BY <1>1, <1>2, Induction
<1> QED
  BY <1>3

\* A number of k = m + n bits is that of its m low bits and that of the n others.
Splits(bits, from, m, n, k, at) ==
    /\ Value(bits, from, k) = Value(bits, from, m) + 2^m * Value(bits, at, n)
    /\ Value(bits, from, m) \in 0 .. 2^m - 1 /\ Value(bits, at, n) \in 0 .. 2^n - 1
    /\ 2^m \in Nat \ {0} /\ 2^n \in Nat \ {0} /\ 2^k = 2^m * 2^n

LEMMA ValueSplit ==
    ASSUME NEW bits \in Seq(Bit), NEW from \in Nat, NEW m \in Nat, NEW n \in Nat, Powers(m + n)
    PROVE  Splits(bits, from, m, n, m + n, from + m)
<1> DEFINE p == 2^m
           v == Value(bits, from, m)
           T == {k \in Nat : k <= n => Value(bits, from, m + k) = v + p * Value(bits, from + m, k)}
<1>1. m + n \in Nat /\ from + m \in Nat /\ Powers(n) /\ m \in 0 .. m + n /\ n \in 0 .. m + n /\ m + n \in 0 .. m + n
  <2>1. m + n \in Nat /\ from + m \in Nat /\ m \in 0 .. m + n /\ n \in 0 .. m + n /\ m + n \in 0 .. m + n
    OBVIOUS
  <2> QED
    BY <2>1, FewerPowers
<1>2. p \in Nat \ {0} /\ 2^n \in Nat \ {0} /\ 2^(m + n) = 2^m * 2^n
  BY <1>1 DEF Powers
<1>3. v \in Nat
  <2>1. v \in 0 .. p - 1
    BY <1>1, ValueNext
  <2> QED
    BY <2>1
<1>4. 0 \in T
  <2>1. Value(bits, from + m, 0) = 0
    BY <1>1, ValueNext
  <2>2. m + 0 = m
    OBVIOUS
  <2> HIDE DEF p
  <2>3. p * 0 = 0 /\ v + 0 = v
    BY <1>2, <1>3
  <2> QED
    BY <2>1, <2>2, <2>3
<1>5. ASSUME NEW k \in Nat, k \in T PROVE k + 1 \in T
  <2> SUFFICES ASSUME k + 1 <= n PROVE Value(bits, from, m + (k + 1)) = v + p * Value(bits, from + m, k + 1)
    OBVIOUS
  <2>1. /\ k \in 0 .. n - 1 /\ k \in 0 .. n /\ m + k \in 0 .. (m + n) - 1 /\ k \in 0 .. m + n
        /\ m + (k + 1) = (m + k) + 1 /\ from + (m + k) + 1 = (from + m) + k + 1
    OBVIOUS
  <2> DEFINE w == Value(bits, from + m, k)
             q == 2^k
             b == BitOf(bits, (from + m) + k + 1)
  <2>2. Value(bits, from, m + k) = v + p * w
    BY <1>5, <2>1
  <2>3. w \in 0 .. q - 1 /\ Value(bits, from + m, k + 1) = w + b * q
    BY <1>1, <2>1, ValueNext
  <2>4. Value(bits, from, (m + k) + 1) = Value(bits, from, m + k) + b * 2^(m + k)
    BY <1>1, <2>1, ValueNext
  <2>5. 2^(m + k) = p * q /\ q \in Nat \ {0}
    BY <1>1, <2>1 DEF Powers
  <2>6. b \in 0 .. 1
    BY BitOfIs
  <2>7. w \in Nat
    BY <2>3, <2>5
  <2> HIDE DEF p, w, q, b, v, T
  <2>8. v + p * w + b * (p * q) = v + p * (w + b * q)
    <3>1. CASE b = 0
      <4>1. b * (p * q) = 0 /\ b * q = 0
        BY <1>2, <2>5, <3>1
      <4>2. w + b * q = w /\ p * w \in Nat
        BY <1>2, <2>7, <4>1
      <4> QED
        BY <1>3, <4>1, <4>2
    <3>2. CASE b = 1
      <4>1. b * (p * q) = p * q /\ b * q = q /\ p * q \in Nat /\ p * w \in Nat
        BY <1>2, <2>5, <2>7, <3>2
      <4>2. p * (w + q) = p * w + p * q
        BY <1>2, <2>5, <2>7
      <4> QED
        BY <1>3, <4>1, <4>2
    <3> QED
      BY <2>6, <3>1, <3>2
  <2> QED
    BY <2>1, <2>2, <2>3, <2>4, <2>5, <2>8
<1>6. n \in T
  <2> HIDE DEF T
  <2> QED
    BY <1>4, <1>5, Induction
<1>7. Value(bits, from, m + n) = v + p * Value(bits, from + m, n)
  BY <1>6
<1>8. Value(bits, from, m) \in 0 .. 2^m - 1 /\ Value(bits, from + m, n) \in 0 .. 2^n - 1
  <2>1. n \in 0 .. n
    OBVIOUS
  <2> QED
    BY <1>1, <2>1, ValueNext
<1>9. /\ Value(bits, from, m + n) = Value(bits, from, m) + 2^m * Value(bits, from + m, n)
      /\ 2^m \in Nat \ {0} /\ 2^n \in Nat \ {0} /\ 2^(m + n) = 2^m * 2^n
  BY <1>2, <1>7
<1> HIDE DEF p, v
<1> QED
  BY <1>8, <1>9, Zenon DEF Splits

LEMMA Windows ==
    ASSUME NEW bits \in Seq(Bit), NEW from \in Nat, NEW m \in Nat, NEW n \in Nat,
           NEW k, k = m + n, NEW at, at = from + m, Powers(k)
    PROVE  Splits(bits, from, m, n, k, at)
<1>1. Powers(m + n)
  OBVIOUS
<1>2. Splits(bits, from, m, n, m + n, from + m)
  BY <1>1, ValueSplit
<1> QED
  BY <1>2

LEMMA OneBitMore ==
    ASSUME NEW v \in Nat, NEW q \in Nat \ {0}
    PROVE  v % (2 * q) = (v % q) + ((v \div q) % 2) * q
<1> DEFINE u == v \div q
           r == v % q
           h == u \div 2
           b == u % 2
           s == r + b * q
<1>1. u \in Nat /\ r \in 0 .. q - 1 /\ v = u * q + r
  BY Division
<1>2. h \in Nat /\ b \in 0 .. 1 /\ u = h * 2 + b
  <2> HIDE DEF u
  <2> QED
    BY <1>1
<1> HIDE DEF u, r, h, b
<1>3. v = h * (2 * q) + s /\ s \in 0 .. 2 * q - 1 /\ 2 * q \in Nat \ {0}
  <2>1. CASE b = 0
    <3>1. b * q = 0 /\ u * q = h * (2 * q)
      BY <1>1, <1>2, <2>1
    <3> QED
      BY <1>1, <3>1
  <2>2. CASE b = 1
    <3>1. b * q = q /\ u * q = (h * 2) * q + q
      BY <1>1, <1>2, <2>2
    <3>2. (h * 2) * q = h * (2 * q) /\ h * (2 * q) \in Nat
      BY <1>2
    <3> QED
      BY <1>1, <3>1, <3>2
  <2> QED
    BY <1>2, <2>1, <2>2
<1>4. v % (2 * q) = s
  <2> DEFINE p == 2 * q
  <2>1. p \in Nat \ {0} /\ s \in 0 .. p - 1 /\ v = h * p + s
    BY <1>3
  <2> HIDE DEF p, s
  <2>2. v % p = s
    BY <1>2, <2>1, Quotient
  <2> QED
    BY <2>2 DEF p
<1> QED
  BY <1>4 DEF s, b, r, u

\* The low bits of a number are those of what is left of it modulo a power.
LEMMA LowBitsValue ==
    ASSUME NEW n \in Nat, Powers(n), NEW v \in Nat
    PROVE  /\ LowBits(n, v) \in Seq(Bit) /\ Len(LowBits(n, v)) = n
           /\ \A k \in 0 .. n : Value(LowBits(n, v), 0, k) = v % 2^k
<1> DEFINE bits == LowBits(n, v)
           T == {k \in Nat : k <= n => Value(bits, 0, k) = v % 2^k}
<1>1. bits \in Seq(Bit) /\ Len(bits) = n
  <2>1. n \in 0 .. n
    OBVIOUS
  <2> QED
    BY <2>1, FewerPowers, LowBitsAre
<1>2. 0 \in T
  <2>1. Value(bits, 0, 0) = 0
    BY <1>1, ValueNext
  <2>2. 2^0 = 1 /\ v % 1 = 0
    BY DEF Powers
  <2> QED
    BY <2>1, <2>2
<1>3. ASSUME NEW k \in Nat, k \in T PROVE k + 1 \in T
  <2> SUFFICES ASSUME k + 1 <= n PROVE Value(bits, 0, k + 1) = v % 2^(k + 1)
    OBVIOUS
  <2> DEFINE q == 2^k
  <2>1. k \in 0 .. n - 1 /\ k \in 0 .. n /\ 1 \in 0 .. n /\ k + 1 <= n /\ k + 1 \in 1 .. n
        /\ (k + 1) - 1 = k /\ 0 + k + 1 = k + 1
    OBVIOUS
  <2>2. q \in Nat \ {0} /\ 2^(k + 1) = q * 2
    BY <2>1 DEF Powers
  <2>3. BitOf(bits, k + 1) = (v \div q) % 2
    <3>1. BitOf(bits, k + 1) = bits[k + 1]
      BY <1>1, <2>1 DEF BitOf
    <3>2. bits[k + 1] = (v \div 2^((k + 1) - 1)) % 2
      BY <2>1 DEF LowBits
    <3> QED
      BY <2>1, <3>1, <3>2
  <2>4. Value(bits, 0, k + 1) = Value(bits, 0, k) + BitOf(bits, k + 1) * q
    <3>1. Value(bits, 0, k + 1) = Value(bits, 0, k) + BitOf(bits, 0 + k + 1) * 2^k
      <4> HIDE DEF bits
      <4> QED
        BY <1>1, <2>1, ValueNext
    <3> QED
      BY <2>1, <3>1
  <2>5. Value(bits, 0, k) = v % q
    BY <1>3, <2>1
  <2> HIDE DEF q, bits, T
  <2>6. v % (2 * q) = (v % q) + ((v \div q) % 2) * q
    BY <2>2, OneBitMore
  <2>7. q * 2 = 2 * q
    BY <2>2
  <2> QED
    BY <2>2, <2>3, <2>4, <2>5, <2>6, <2>7
<1>4. ASSUME NEW k \in 0 .. n PROVE Value(bits, 0, k) = v % 2^k
  <2>1. k \in Nat /\ k <= n
    OBVIOUS
  <2>2. k \in T
    <3> HIDE DEF T
    <3> QED
      BY <1>2, <1>3, <2>1, Induction
  <2> QED
    BY <2>1, <2>2
<1> QED
  BY <1>1, <1>4

LEMMA LowBitsBack ==
    ASSUME NEW n \in Nat, Powers(n), NEW v \in 0 .. 2^n - 1
    PROVE  v \in Nat /\ Value(LowBits(n, v), 0, n) = v
<1> DEFINE p == 2^n
<1>1. n \in 0 .. n /\ p \in Nat \ {0}
  BY DEF Powers
<1>2. v \in Nat /\ v \in 0 .. p - 1
  BY <1>1
<1>3. Value(LowBits(n, v), 0, n) = v % p
  BY <1>1, <1>2, LowBitsValue
<1> HIDE DEF p
<1>4. v % p = v
  BY <1>1, <1>2
<1> QED
  BY <1>2, <1>3, <1>4

\* Where a sequence of bits is found in another.
Holds(all, pre, bits) == \A i \in 1 .. Len(bits) : BitOf(all, pre + i) = bits[i]

LEMMA HeldValue ==
    ASSUME NEW all \in Seq(Bit), NEW pre \in Nat, NEW bits \in Seq(Bit), Holds(all, pre, bits),
           NEW from \in Nat, NEW n \in Nat, Powers(n), from + n <= Len(bits)
    PROVE  Value(all, pre + from, n) = Value(bits, from, n)
<1>1. ASSUME NEW i \in 1 .. n PROVE BitOf(all, (pre + from) + i) = BitOf(bits, from + i)
  <2>1. from + i \in 1 .. Len(bits) /\ from + i <= Len(bits) /\ pre + (from + i) = (pre + from) + i
    OBVIOUS
  <2>2. BitOf(all, pre + (from + i)) = bits[from + i]
    BY <2>1 DEF Holds
  <2> QED
    BY <2>1, <2>2 DEF BitOf
<1> DEFINE at == pre + from
<1>2. at \in Nat /\ SameBits(all, at, bits, from, n)
  BY <1>1 DEF SameBits
<1> HIDE DEF at
<1>3. Value(all, at, n) = Value(bits, from, n)
  BY <1>2, ValueAgrees
<1> QED
  BY <1>3 DEF at

LEMMA JoinIs ==
    ASSUME NEW S, NEW s \in Seq(S), NEW t \in Seq(S), NEW u, u = s \o t
    PROVE  /\ u \in Seq(S) /\ Len(u) = Len(s) + Len(t) /\ Len(s) \in Nat /\ Len(t) \in Nat
           /\ \A i \in 1 .. Len(s) : u[i] = s[i]
           /\ \A i \in 1 .. Len(t) : u[Len(s) + i] = t[i]
<1> DEFINE m == Len(s)
           n == Len(t)
<1>1. /\ u \in Seq(S) /\ Len(u) = m + n /\ m \in Nat /\ n \in Nat
      /\ \A i \in 1 .. m + n : u[i] = IF i <= m THEN s[i] ELSE t[i - m]
  BY ConcatProperties
<1> HIDE DEF m, n
<1>2. ASSUME NEW i \in 1 .. m PROVE u[i] = s[i]
  BY <1>1
<1>3. ASSUME NEW i \in 1 .. n PROVE u[m + i] = t[i]
  <2>1. m + i \in 1 .. m + n /\ ~ (m + i <= m) /\ (m + i) - m = i
    BY <1>1
  <2> QED
    BY <1>1, <2>1
<1> QED
  BY <1>1, <1>2, <1>3 DEF m, n

\* What is pushed last is found in front of what was there.
LEMMA PushedIs ==
    ASSUME NEW bits \in Seq(Bit), NEW n \in Nat, Powers(n), NEW v \in 0 .. 2^n - 1,
           NEW new, new = Push(bits, n, v)
    PROVE  /\ new \in Seq(Bit) /\ Len(new) = Len(bits) + n /\ Value(new, Len(bits), n) = v
           /\ \A i \in 1 .. Len(bits) : new[i] = bits[i]
<1> DEFINE low == LowBits(n, v)
<1>1. v \in Nat /\ low \in Seq(Bit) /\ Len(low) = n /\ Value(low, 0, n) = v
  BY LowBitsBack, LowBitsValue
<1>2. new = bits \o low
  BY DEF Push
<1> HIDE DEF low
<1>3. /\ new \in Seq(Bit) /\ Len(new) = Len(bits) + n
      /\ \A i \in 1 .. Len(bits) : new[i] = bits[i]
      /\ \A i \in 1 .. n : new[Len(bits) + i] = low[i]
  <2>1. low \in Seq(Bit)
    BY <1>1
  <2>2. /\ new \in Seq(Bit) /\ Len(new) = Len(bits) + Len(low)
        /\ \A i \in 1 .. Len(bits) : new[i] = bits[i]
        /\ \A i \in 1 .. Len(low) : new[Len(bits) + i] = low[i]
    BY <1>2, <2>1, JoinIs
  <2> QED
    BY <1>1, <2>2
<1>4. Holds(new, Len(bits), low)
  <2> SUFFICES ASSUME NEW i \in 1 .. Len(low) PROVE BitOf(new, Len(bits) + i) = low[i]
    BY DEF Holds
  <2>1. Len(bits) + i <= Len(new)
    BY <1>1, <1>3
  <2> QED
    BY <1>1, <1>3, <2>1 DEF BitOf
<1>5. Value(new, Len(bits), n) = v
  <2>1. Len(bits) \in Nat /\ 0 + n <= Len(low) /\ Len(bits) + 0 = Len(bits)
    BY <1>1
  <2>2. Value(new, Len(bits) + 0, n) = Value(low, 0, n)
    BY <1>1, <1>3, <1>4, <2>1, HeldValue
  <2> QED
    BY <1>1, <2>1, <2>2
<1> QED
  BY <1>3, <1>5

-----------------------------------------------------------------------------
(***************************************************************************)
(* The bits behind a buffer: a word loaded is a window of them, and the    *)
(* reader's accumulator always is the window up to what is unread.         *)
(***************************************************************************)
Backs(all, buf) ==
    /\ all \in Seq(Bit) /\ Len(all) = ByteBits * Len(buf)
    /\ \A k \in 1 .. Len(buf) : buf[k] = Value(all, ByteBits * (k - 1), ByteBits)

LEMMA ByteTimes ==
    ASSUME NEW i \in Nat, NEW j \in Nat
    PROVE  /\ ByteBits * i \in Nat /\ ByteBits * 0 = 0 /\ ByteBits * (i + j) = ByteBits * i + ByteBits * j
           /\ ByteBits * (i + 1) = ByteBits * i + ByteBits /\ (i <= j => ByteBits * i <= ByteBits * j)
<1>1. ByteBits \in Nat
  BY WordIs
<1>2. /\ ByteBits * i \in Nat /\ ByteBits * 0 = 0 /\ ByteBits * (i + j) = ByteBits * i + ByteBits * j
      /\ ByteBits * (i + 1) = ByteBits * i + ByteBits
  BY <1>1
<1>3. ASSUME i <= j PROVE ByteBits * i <= ByteBits * j
  <2>1. i * ByteBits <= j * ByteBits
    BY <1>1, <1>3, Times
  <2>2. i * ByteBits = ByteBits * i /\ j * ByteBits = ByteBits * j
    BY <1>1
  <2> QED
    BY <2>1, <2>2
<1> QED
  BY <1>2, <1>3

LEMMA LoadWordValue ==
    ASSUME NEW buf \in Seq(Byte), NEW all, Backs(all, buf), NEW from \in Nat,
           NEW n \in 0 .. WordBytes, from + n <= Len(buf)
    PROVE  LoadWord(buf, from, n) = Value(all, ByteBits * from, ByteBits * n)
<1>1. PICK sum :
         /\ sum[0] = 0 /\ \A i \in 0 .. n : sum[i] \in 0 .. 2^(ByteBits * i) - 1
         /\ \A i \in 1 .. n : sum[i] = sum[i - 1] + buf[from + i] * 2^(ByteBits * (i - 1))
         /\ LoadWord(buf, from, n) = sum[n]
  BY LoadWordSum
<1>2. n \in Nat /\ n <= WordBytes /\ Len(buf) \in Nat /\ ByteBits \in Nat /\ WordBytes \in Nat
  BY WordIs
<1>3. all \in Seq(Bit) /\ \A k \in 1 .. Len(buf) : buf[k] = Value(all, ByteBits * (k - 1), ByteBits)
  BY DEF Backs
<1> DEFINE at == ByteBits * from
           T == {i \in Nat : i <= n => sum[i] = Value(all, at, ByteBits * i)}
<1>4. at \in Nat
  BY ByteTimes
<1>5. 0 \in T
  <2>1. ByteBits * 0 = 0 /\ Powers(0)
    BY ByteTimes, WidePowers, WordIs
  <2>2. Value(all, at, 0) = 0
    <3> HIDE DEF at
    <3> QED
      BY <1>3, <1>4, <2>1, ValueNext
  <2> QED
    BY <1>1, <2>1, <2>2
<1>6. ASSUME NEW i \in Nat, i \in T PROVE i + 1 \in T
  <2> SUFFICES ASSUME i + 1 <= n PROVE sum[i + 1] = Value(all, at, ByteBits * (i + 1))
    OBVIOUS
  <2> DEFINE m == ByteBits * i
             x == Value(all, at + m, ByteBits)
  <2>1. /\ i + 1 \in 1 .. n /\ (i + 1) - 1 = i /\ i <= n /\ from + (i + 1) \in 1 .. Len(buf)
        /\ (from + (i + 1)) - 1 = from + i /\ i + 1 <= WordBytes
    BY <1>2
  <2>2. m \in Nat /\ ByteBits * (i + 1) = m + ByteBits /\ ByteBits * (from + i) = at + m
    BY ByteTimes
  <2>3. m + ByteBits \in Nat /\ m + ByteBits <= WordBits
    <3>1. ByteBits * (i + 1) <= ByteBits * WordBytes /\ ByteBits * (i + 1) \in Nat
      BY <1>2, <2>1, ByteTimes
    <3> QED
      BY <2>2, <3>1, WordIs
  <2>4. Powers(m + ByteBits)
    <3> HIDE DEF m
    <3> QED
      BY <2>3, WidePowers
  <2>5. sum[i + 1] = sum[i] + buf[from + (i + 1)] * 2^m
    BY <1>1, <2>1
  <2>6. buf[from + (i + 1)] = x
    BY <1>3, <2>1, <2>2
  <2>7. sum[i] = Value(all, at, m)
    BY <1>6, <2>1
  <2> DEFINE k == m + ByteBits
             to == at + m
  <2> HIDE DEF m, at
  <2>8. /\ Value(all, at, m + ByteBits) = Value(all, at, m) + 2^m * x
        /\ x \in 0 .. 2^ByteBits - 1 /\ 2^m \in Nat \ {0} /\ 2^ByteBits \in Nat \ {0}
    <3>1. k = m + ByteBits /\ to = at + m /\ Powers(k) /\ m \in Nat
      BY <2>2, <2>4
    <3> HIDE DEF k, to
    <3>2. Splits(all, at, m, ByteBits, k, to)
      BY <1>2, <1>3, <1>4, <3>1, Windows
    <3>3. /\ Value(all, at, k) = Value(all, at, m) + 2^m * Value(all, to, ByteBits)
          /\ Value(all, to, ByteBits) \in 0 .. 2^ByteBits - 1
          /\ 2^m \in Nat \ {0} /\ 2^ByteBits \in Nat \ {0}
      BY <3>2, Zenon DEF Splits
    <3> QED
      BY <3>3, Zenon DEF k, to
  <2> HIDE DEF x
  <2>9. 2^m * x = x * 2^m
    <3> DEFINE p == 2^m
               b == 2^ByteBits
    <3>1. p \in Nat /\ b \in Nat /\ x \in 0 .. b - 1
      BY <2>8
    <3> HIDE DEF p, b
    <3>2. p * x = x * p
      BY <3>1
    <3> QED
      BY <3>2 DEF p
  <2> QED
    BY <2>2, <2>5, <2>6, <2>7, <2>8, <2>9
<1>7. n \in T
  <2> HIDE DEF T
  <2> QED
    BY <1>2, <1>5, <1>6, Induction
<1> QED
  BY <1>1, <1>7

\* A shift that loses nothing.
LEMMA ShiftExact ==
    ASSUME NEW a \in Nat, NEW n \in Nat, n < WordBits, NEW m \in Nat, a < 2^m, m + n <= WordBits
    PROVE  ShiftIn(a, n) = a * 2^n
<1> DEFINE k == WordBits - n
           r == k - m
           h == 2^k
           p == 2^m
           q == 2^r
<1>1. k \in Nat /\ r \in Nat /\ m + r = k /\ k <= WordBits /\ WordBits \in Nat
  BY WordIs
<1>2. p \in Nat \ {0} /\ q \in Nat \ {0} /\ h = p * q /\ a < p
  <2> HIDE DEF k, r
  <2>1. m + r <= WordBits
    BY <1>1
  <2>2. p \in Nat \ {0} /\ q \in Nat \ {0} /\ 2^(m + r) = p * q
    BY <1>1, <2>1, WordPowers
  <2> QED
    BY <1>1, <2>2
<1>3. ShiftIn(a, n) = (a % h) * 2^n
  BY WordIs DEF ShiftIn
<1> HIDE DEF h, p, q
<1>4. 1 * p <= q * p /\ q * p \in Nat /\ q * p = p * q
  BY <1>2, Times
<1>5. h \in Nat \ {0} /\ a < h
  BY <1>2, <1>4
<1>6. a % h = a
  BY <1>5
<1> QED
  BY <1>3, <1>6

\* The accumulator is the window that ends where the unread bits do.
Faithful(s, all) ==
    s.accumNBits >= 0 /\ s.ptr >= 0 /\ s.accum = Value(all, ByteBits * s.ptr, s.accumNBits)

UnreadOf(s) == s.accumNBits + ByteBits * s.ptr

\* What is loaded in front of it joins the window.
LEMMA LoadJoins ==
    ASSUME NEW all \in Seq(Bit), NEW p \in Nat, NEW j \in Nat, NEW m \in Nat,
           NEW k, k = ByteBits * j, m + k < WordBits,
           NEW a, a = Value(all, ByteBits * (p + j), m), NEW x, x = Value(all, ByteBits * p, k)
    PROVE  ShiftIn(a, k) + x = Value(all, ByteBits * p, m + k)
<1> DEFINE at == ByteBits * p
           to == ByteBits * (p + j)
           n == m + k
<1>1. at \in Nat /\ to = at + k /\ k \in Nat /\ n \in Nat /\ n = k + m /\ WordBits \in Nat
  BY ByteTimes, WordIs
<1>2. n < WordBits /\ k < WordBits /\ m + k <= WordBits
  BY <1>1
<1> HIDE DEF at, to, n
<1>3. Powers(n) /\ Powers(m)
  <2>1. n <= WordBits /\ m <= WordBits
    BY <1>1, <1>2
  <2> QED
    BY <1>1, <2>1, WidePowers
<1>4. Splits(all, at, k, m, n, to)
  BY <1>1, <1>3, Windows
<1>5. /\ Value(all, at, n) = Value(all, at, k) + 2^k * Value(all, to, m)
      /\ Value(all, at, k) \in 0 .. 2^k - 1 /\ Value(all, to, m) \in 0 .. 2^m - 1
      /\ 2^k \in Nat \ {0} /\ 2^m \in Nat \ {0}
  BY <1>4, Zenon DEF Splits
<1>6. a = Value(all, to, m) /\ x = Value(all, at, k)
  BY DEF at, to
<1> DEFINE q == 2^k
           b == 2^m
<1>7. /\ Value(all, at, n) = x + q * a /\ x \in 0 .. q - 1 /\ a \in 0 .. b - 1
      /\ q \in Nat \ {0} /\ b \in Nat \ {0}
  BY <1>5, <1>6
<1> HIDE DEF q, b
<1>8. a \in Nat /\ a < b /\ x \in Nat
  BY <1>7
<1>9. ShiftIn(a, k) = a * q
  BY <1>1, <1>2, <1>8, ShiftExact DEF q, b
<1>10. a * q + x = x + q * a
  BY <1>7, <1>8
<1>11. ShiftIn(a, k) + x = Value(all, at, n)
  BY <1>7, <1>9, <1>10
<1> QED
  BY <1>11 DEF at, n

PulledFrom(s, all, n, t) ==
    /\ Faithful(t.stream, all) /\ UnreadOf(t.stream) = UnreadOf(s) - n
    /\ UnreadOf(s) - n \in Nat /\ t.b = Value(all, UnreadOf(s) - n, n)

LEMMA PullValue ==
    ASSUME NEW buf, NEW all \in Seq(Bit), NEW s, Sound(s, buf), Faithful(s, all),
           NEW n \in Nat, n <= s.accumNBits, NEW t, t = InPull(s, n)
    PROVE  PulledFrom(s, all, n, t)
<1> DEFINE left == s.accumNBits - n
           at == ByteBits * s.ptr
           to == at + left
<1>1. /\ s \in Streams /\ s.accumNBits \in Nat /\ s.accum \in Nat /\ s.ptr \in Nat /\ s.accumNBits < WordBits
      /\ s.accum = Value(all, at, s.accumNBits)
  BY SoundFields DEF Faithful
<1>2. left \in Nat /\ at \in Nat /\ to \in Nat /\ UnreadOf(s) \in Nat /\ UnreadOf(s) - n = to /\ left + n = s.accumNBits
  <2>1. at \in Nat
    BY <1>1, ByteTimes
  <2> HIDE DEF at
  <2> QED
    BY <1>1, <2>1 DEF UnreadOf, at
<1>3. Powers(s.accumNBits) /\ Powers(n)
  BY <1>1, WidePowers, WordIs
<1>4. CASE n = 0
  <2>1. t.stream = s /\ t.b = 0
    BY <1>4 DEF InPull
  <2>2. Value(all, to, 0) = 0
    <3> HIDE DEF to
    <3> QED
      BY <1>2, <1>3, <1>4, ValueNext
  <2>3. UnreadOf(s) = UnreadOf(s) - n
    BY <1>2, <1>4
  <2> QED
    BY <1>2, <1>4, <2>1, <2>2, <2>3 DEF PulledFrom
<1>5. CASE n # 0
  <2> DEFINE a == s.accum
             k == s.accumNBits
             p == 2^left
             q == 2^n
             v == Value(all, at, left)
             w == Value(all, to, n)
             u == a % p
  <2>1. t.stream = [s EXCEPT !.accumNBits = left, !.accum = u] /\ t.b = a \div p
    <3>1. ~ (left < 0) /\ ~ (n <= 0)
      BY <1>2, <1>5
    <3> QED
      BY <3>1 DEF InPull
  <2>2. Splits(all, at, left, n, k, to)
    <3>1. k = left + n /\ to = at + left /\ Powers(k)
      BY <1>2, <1>3
    <3> HIDE DEF at, to, left, k
    <3> QED
      BY <1>2, <3>1, Windows
  <2>3. Value(all, at, k) = v + p * w /\ v \in 0 .. p - 1 /\ w \in 0 .. q - 1 /\ p \in Nat \ {0} /\ q \in Nat \ {0}
    BY <2>2, Zenon DEF Splits
  <2>4. a = v + p * w
    BY <1>1, <2>3
  <2> HIDE DEF p, q, v, w, a, k
  <2>5. w \in Nat /\ v \in Nat /\ p * w = w * p /\ v + p * w = w * p + v
    BY <2>3
  <2>6. a \div p = w /\ u = v
    <3>1. (w * p + v) \div p = w /\ (w * p + v) % p = v
      BY <2>3, <2>5, Quotient
    <3> QED
      BY <2>4, <2>5, <3>1
  <2> DEFINE r == t.stream
  <2>7. r.accumNBits = left /\ r.ptr = s.ptr /\ r.accum = u
    BY <1>1, <2>1 DEF Streams
  <2>8. Faithful(r, all)
    <3>1. r.accumNBits >= 0 /\ r.ptr >= 0
      BY <1>1, <1>2, <2>7
    <3>2. r.accum = Value(all, ByteBits * r.ptr, r.accumNBits)
      BY <2>6, <2>7 DEF v
    <3> QED
      BY <3>1, <3>2 DEF Faithful
  <2>9. UnreadOf(r) = to
    <3>1. UnreadOf(r) = left + at
      BY <2>7 DEF UnreadOf
    <3> HIDE DEF left, at
    <3> QED
      BY <1>2, <3>1
  <2>10. t.b = Value(all, to, n)
    BY <2>1, <2>6 DEF w
  <2> QED
    BY <1>2, <2>8, <2>9, <2>10 DEF PulledFrom
<1> QED
  BY <1>4, <1>5

\* A flush changes neither what is unread nor what the accumulator stands for.
LEMMA FlushFaithful ==
    ASSUME NEW buf \in Seq(Byte), NEW all, Backs(all, buf), NEW s, Sound(s, buf), Faithful(s, all),
           NEW t, t = InFlush(s, buf)
    PROVE  Faithful(t, all) /\ UnreadOf(t) = UnreadOf(s)
<1> DEFINE nbytes == (WordBits - 1 - s.accumNBits) \div ByteBits
           newPtr == s.ptr - nbytes
           loaded == IF nbytes < WordBytes THEN nbytes ELSE WordBytes
           a == s.accum
           m == s.accumNBits
           k == ByteBits * nbytes
<1>1. /\ s \in Streams /\ m \in Nat /\ a \in Nat /\ s.ptr \in Nat /\ Len(buf) \in Nat
      /\ m < WordBits /\ s.ptr <= Len(buf) /\ a = Value(all, ByteBits * s.ptr, m)
  BY SoundFields DEF Faithful
<1>2. /\ nbytes \in Nat /\ k \in Nat /\ k <= WordBits - 1 - m /\ k = nbytes * ByteBits
  <2> HIDE DEF m
  <2> QED
    BY <1>1, FlushBytes DEF m
<1>3. t = IF newPtr < 0 THEN LoadRest(s, buf, nbytes)
          ELSE [s EXCEPT !.accum = ShiftIn(@, k) + LoadWord(buf, newPtr, loaded),
                         !.accumNBits = @ + k, !.ptr = newPtr]
  BY DEF InFlush
<1>4. all \in Seq(Bit) /\ \A i \in 1 .. Len(buf) : buf[i] = Value(all, ByteBits * (i - 1), ByteBits)
  BY DEF Backs
<1>5. m + k < WordBits
  <2> HIDE DEF m, k
  <2> QED
    BY <1>1, <1>2, WordIs
<1>6. CASE newPtr < 0
  <2>1. s.ptr < nbytes /\ t = LoadRest(s, buf, nbytes) /\ s.accumNBits >= 0
    BY <1>1, <1>2, <1>3, <1>6
  <2> HIDE DEF nbytes
  <2>2. PICK n \in Nat : \E rest :
          /\ n <= nbytes /\ s.ptr - n <= 0 /\ (n > 0 => n = s.ptr)
          /\ RestSteps(rest, n, s, buf) /\ LoadRest(s, buf, nbytes) = rest[n]
    BY <1>2, <1>5, <2>1, LoadRestSteps
  <2>3. PICK rest : RestSteps(rest, n, s, buf) /\ LoadRest(s, buf, nbytes) = rest[n]
    BY <2>2
  <2>4. n = s.ptr
    BY <1>1, <2>2
  <2> DEFINE T == {i \in Nat : i <= n => rest[i].accum = Value(all, ByteBits * rest[i].ptr, rest[i].accumNBits)}
  <2>5. 0 \in T
    BY <1>1, <2>3 DEF RestSteps
  <2>6. ASSUME NEW i \in Nat, i \in T PROVE i + 1 \in T
    <3> SUFFICES ASSUME i + 1 <= n
                 PROVE  rest[i + 1].accum = Value(all, ByteBits * rest[i + 1].ptr, rest[i + 1].accumNBits)
      OBVIOUS
    <3> DEFINE r == rest[i]
               u == rest[i + 1]
               p == s.ptr - (i + 1)
               x == buf[p + 1]
               c == r.accumNBits
    <3>1. /\ i \in 0 .. n /\ i + 1 \in 0 .. n /\ i + 1 \in 1 .. n /\ (i + 1) - 1 = i /\ p \in Nat
          /\ p + 1 \in 1 .. Len(buf) /\ s.ptr - (i + 1) + 1 = p + 1 /\ s.ptr - i = p + 1 /\ (p + 1) - 1 = p
      BY <1>1, <2>4
    <3>2. /\ Sound(r, buf) /\ c = m + ByteBits * i /\ r.ptr = p + 1
          /\ Sound(u, buf) /\ u.accumNBits = m + ByteBits * (i + 1) /\ u.ptr = p
      BY <2>3, <3>1 DEF RestSteps
    <3>3. u = [r EXCEPT !.accum = ShiftIn(@, ByteBits) + x, !.accumNBits = @ + ByteBits, !.ptr = @ - 1]
      BY <2>3, <3>1 DEF RestSteps
    <3>4. u.accum = ShiftIn(r.accum, ByteBits) + x
      <4>1. r \in Streams
        BY <3>2 DEF Sound
      <4> HIDE DEF x, r, u
      <4> QED
        BY <3>3, <4>1 DEF Streams
    <3>5. r.accum = Value(all, ByteBits * (p + 1), c)
      BY <2>6, <3>1, <3>2
    <3>6. x = Value(all, ByteBits * p, ByteBits)
      BY <1>4, <3>1
    <3>7. c \in Nat /\ u.accumNBits = c + ByteBits /\ c + ByteBits < WordBits
      <4>1. ByteBits * (i + 1) = ByteBits * i + ByteBits /\ ByteBits * i \in Nat /\ ByteBits \in Nat
        BY ByteTimes, WordIs
      <4>2. u.accumNBits < WordBits
        BY <3>2 DEF Sound
      <4> DEFINE z == ByteBits * i
      <4>3. z \in Nat /\ c = m + z /\ u.accumNBits = m + (z + ByteBits)
        BY <3>2, <4>1
      <4>4. c \in Nat /\ u.accumNBits = c + ByteBits
        <5> HIDE DEF z, c, u, m
        <5> QED
          BY <1>1, <4>1, <4>3
      <4> QED
        BY <4>2, <4>4
    <3> HIDE DEF p, x, c, r, u
    <3>8. ShiftIn(r.accum, ByteBits) + x = Value(all, ByteBits * p, c + ByteBits)
      <4>1. ByteBits = ByteBits * 1 /\ 1 \in Nat
        BY WordIs
      <4> QED
        BY <1>4, <3>1, <3>5, <3>6, <3>7, <4>1, LoadJoins
    <3> QED
      BY <3>2, <3>4, <3>7, <3>8 DEF u
  <2>7. n \in T
    <3> HIDE DEF T
    <3> QED
      BY <2>5, <2>6, Induction
  <2>8. t = rest[n] /\ t.ptr = 0 /\ t.accumNBits = m + ByteBits * s.ptr
    <3>1. n \in 0 .. n /\ s.ptr - n = 0
      BY <1>1, <2>4
    <3>2. t = rest[n] /\ rest[n].accumNBits = m + ByteBits * n /\ rest[n].ptr = s.ptr - n
      BY <2>1, <2>3, <3>1 DEF RestSteps
    <3> QED
      BY <2>4, <3>1, <3>2
  <2>9. t.accum = Value(all, ByteBits * t.ptr, t.accumNBits)
    BY <2>7, <2>8
  <2>10. ByteBits * s.ptr \in Nat /\ ByteBits * 0 = 0
    BY <1>1, ByteTimes
  <2> DEFINE z == ByteBits * s.ptr
  <2>11. t.accumNBits = m + z /\ z \in Nat /\ t.ptr = 0 /\ ByteBits * t.ptr = 0
    BY <2>8, <2>10
  <2>12. UnreadOf(t) = m + z /\ UnreadOf(s) = m + z
    <3>1. UnreadOf(t) = (m + z) + 0
      BY <2>11 DEF UnreadOf
    <3>2. UnreadOf(s) = m + z
      BY DEF UnreadOf
    <3> HIDE DEF m, z
    <3> QED
      BY <1>1, <2>11, <3>1, <3>2
  <2>13. t.accumNBits >= 0 /\ t.ptr >= 0
    <3> HIDE DEF m, z
    <3> QED
      BY <1>1, <2>11
  <2> QED
    BY <2>9, <2>12, <2>13 DEF Faithful
<1>7. CASE ~ (newPtr < 0)
  <2> DEFINE x == LoadWord(buf, newPtr, loaded)
             v == ShiftIn(a, k) + x
  <2>1. nbytes < WordBytes
    <3> SUFFICES ASSUME WordBytes <= nbytes PROVE FALSE
      BY <1>2, WordIs
    <3>1. WordBytes * ByteBits <= nbytes * ByteBits /\ WordBytes * ByteBits = WordBits
      <4> HIDE DEF nbytes
      <4> QED
        BY <1>2, WordIs, Times
    <3>2. WordBits <= k
      BY <1>2, <3>1
    <3> HIDE DEF nbytes, k, m
    <3> QED
      BY <1>1, <1>2, <3>2, WordIs
  <2>2. loaded = nbytes
    BY <2>1
  <2> HIDE DEF nbytes
  <2>3. newPtr \in Nat /\ newPtr + nbytes = s.ptr /\ newPtr + nbytes <= Len(buf)
    BY <1>1, <1>2, <1>7
  <2>4. t = [s EXCEPT !.accum = v, !.accumNBits = m + k, !.ptr = newPtr]
    BY <1>3, <1>7
  <2>5. t.accum = v /\ t.accumNBits = m + k /\ t.ptr = newPtr
    <3> HIDE DEF v, m, k, newPtr
    <3> QED
      BY <1>1, <2>4 DEF Streams
  <2>6. x = Value(all, ByteBits * newPtr, k)
    <3>1. nbytes \in 0 .. WordBytes
      BY <1>2, <2>1, WordIs
    <3> HIDE DEF newPtr
    <3> QED
      BY <2>2, <2>3, <3>1, LoadWordValue
  <2>7. a = Value(all, ByteBits * (newPtr + nbytes), m)
    BY <1>1, <2>3
  <2>8. v = Value(all, ByteBits * newPtr, m + k)
    <3>1. k = ByteBits * nbytes
      OBVIOUS
    <3> HIDE DEF x, a, m, k, newPtr
    <3> QED
      BY <1>1, <1>2, <1>4, <1>5, <2>3, <2>6, <2>7, <3>1, LoadJoins
  <2>9. UnreadOf(t) = UnreadOf(s)
    <3> DEFINE y == ByteBits * newPtr
    <3>1. ByteBits * s.ptr = y + k /\ y \in Nat
      <4> HIDE DEF newPtr
      <4> QED
        BY <1>2, <2>3, ByteTimes, ZenonT(60)
    <3>2. UnreadOf(t) = (m + k) + y /\ UnreadOf(s) = m + (y + k)
      BY <2>5, <3>1 DEF UnreadOf
    <3> HIDE DEF m, k, y
    <3> QED
      BY <1>1, <1>2, <3>1, <3>2
  <2>10. t.accumNBits >= 0 /\ t.ptr >= 0
    <3> HIDE DEF m, k, newPtr
    <3> QED
      BY <1>1, <1>2, <2>3, <2>5
  <2> QED
    BY <2>5, <2>8, <2>9, <2>10 DEF Faithful
<1> QED
  BY <1>6, <1>7

LEMMA ZeroValue ==
    ASSUME NEW bits \in Seq(Bit), NEW from \in Nat, NEW n \in Nat, Powers(n),
           \A i \in 1 .. n : BitOf(bits, from + i) = 0
    PROVE  Value(bits, from, n) = 0
<1> DEFINE T == {k \in Nat : k <= n => Value(bits, from, k) = 0}
<1>1. 0 \in T
  BY ValueNext
<1>2. ASSUME NEW k \in Nat, k \in T PROVE k + 1 \in T
  <2> SUFFICES ASSUME k + 1 <= n PROVE Value(bits, from, k + 1) = 0
    OBVIOUS
  <2>1. k \in 0 .. n - 1 /\ k \in 0 .. n /\ k + 1 \in 1 .. n /\ from + (k + 1) = from + k + 1
    OBVIOUS
  <2>2. Value(bits, from, k + 1) = Value(bits, from, k) + BitOf(bits, from + k + 1) * 2^k
    BY <2>1, ValueNext
  <2>3. BitOf(bits, from + k + 1) = 0 /\ Value(bits, from, k) = 0
    BY <1>2, <2>1
  <2>4. 2^k \in Nat
    BY <2>1 DEF Powers
  <2> QED
    BY <2>2, <2>3, <2>4
<1>3. n \in T
  <2> HIDE DEF T
  <2> QED
    BY <1>1, <1>2, Induction
<1> QED
  BY <1>3

\* A stream whose padding is zero is accepted, with all but the padding unread.
Padded(all, e, n) == \A i \in 1 .. n : BitOf(all, e + i) = 0

\* A buffer whose bits end at e, before the padding.
Opening(buf, all, n, e) ==
    /\ buf \in Seq(Byte) /\ Backs(all, buf) /\ WordBytes <= Len(buf) /\ n \in 0 .. ByteBits - 1
    /\ e = ByteBits * Len(buf) - n /\ Padded(all, e, n)

LEMMA InitFaithful ==
    ASSUME NEW buf, NEW all, NEW n, NEW e, Opening(buf, all, n, e), NEW s, s = InInit(buf, -n)
    PROVE  s.ok /\ Faithful(s, all) /\ UnreadOf(s) = e
<1> USE DEF Opening
<1> DEFINE load == IF n # 0 THEN WordBytes ELSE WordBytes - 1
           k == ByteBits * load
           m == k - n
           ptr == Len(buf) - load
           at == ByteBits * ptr
           accum == LoadWord(buf, ptr, load)
           stream == [ok |-> TRUE, accum |-> accum, accumNBits |-> m, ptr |-> ptr]
<1>1. /\ load \in Nat /\ load \in 0 .. WordBytes /\ Len(buf) \in Nat /\ ptr \in Nat /\ ptr + load = Len(buf)
      /\ n \in Nat /\ n < ByteBits /\ ByteBits \in Nat /\ WordBits \in Nat /\ load <= Len(buf)
  BY WordIs
<1>2. /\ k \in Nat /\ at \in Nat /\ ByteBits * Len(buf) = at + k
      /\ (n = 0 => k = WordBits - ByteBits) /\ (n # 0 => k = WordBits)
  <2>1. ByteBits * WordBytes = WordBits
    BY WordIs
  <2>2. ByteBits * (WordBytes - 1) = WordBits - ByteBits
    BY <2>1, WordIs
  <2>3. n = 0 => load = WordBytes - 1
    OBVIOUS
  <2>4. n # 0 => load = WordBytes
    OBVIOUS
  <2> HIDE DEF load
  <2>5. k \in Nat
    BY <1>1, ByteTimes
  <2>6. at \in Nat
    <3> HIDE DEF ptr
    <3> QED
      BY <1>1, ByteTimes
  <2>7. ByteBits * (ptr + load) = at + k
    <3> HIDE DEF ptr
    <3> QED
      BY <1>1, ByteTimes
  <2> QED
    BY <1>1, <2>1, <2>2, <2>3, <2>4, <2>5, <2>6, <2>7
<1>3. s = IF Len(buf) = 0 /\ -n = 0 THEN [stream EXCEPT !.accum = 0]
          ELSE IF Len(buf) < load \/ m < WordBits - ByteBits \/ m >= WordBits
          THEN [ok |-> FALSE]
          ELSE IF accum >= 2^m THEN [ok |-> FALSE] ELSE stream
  <2>1. -n + ByteBits * load = m /\ (-n # 0 <=> n # 0)
    <3> HIDE DEF load
    <3> QED
      BY <1>1, <1>2
  <2> QED
    BY <2>1 DEF InInit
<1>4. accum = Value(all, at, k)
  <2> HIDE DEF load, ptr
  <2>1. ptr + load <= Len(buf)
    BY <1>1
  <2> QED
    BY <1>1, <2>1, LoadWordValue
<1>5. all \in Seq(Bit)
  BY DEF Backs
<1> HIDE DEF load, k, ptr, at, accum
<1>6. m \in Nat /\ k = m + n /\ WordBits - ByteBits <= m /\ m < WordBits /\ k <= WordBits
      /\ e = at + m /\ e \in Nat
  BY <1>1, <1>2, WordIs
<1> DEFINE p == 2^m
           v == Value(all, at, m)
<1>7. accum = v /\ v \in 0 .. p - 1 /\ p \in Nat \ {0}
  <2>1. Powers(k) /\ Powers(n)
    <3>1. n <= WordBits
      BY <1>1, WordIs
    <3> QED
      BY <1>1, <1>2, <1>6, <3>1, WidePowers
  <2>2. Splits(all, at, m, n, k, e)
    <3> HIDE DEF m
    <3> QED
      BY <1>1, <1>2, <1>5, <1>6, <2>1, Windows
  <2>3. Value(all, e, n) = 0
    BY <1>1, <1>5, <1>6, <2>1, ZeroValue DEF Padded
  <2>4. Value(all, at, k) = v + p * Value(all, e, n) /\ v \in 0 .. p - 1 /\ p \in Nat \ {0}
    BY <2>2, Zenon DEF Splits
  <2> HIDE DEF p, v
  <2>5. v + p * 0 = v
    BY <2>4
  <2> QED
    BY <1>4, <2>3, <2>4, <2>5
<1> HIDE DEF p, v, m
<1>8. s = stream
  <2>1. ~ (Len(buf) = 0 /\ -n = 0)
    BY <1>1, WordIs
  <2>2. ~ (Len(buf) < load \/ m < WordBits - ByteBits \/ m >= WordBits)
    BY <1>1, <1>6, WordIs
  <2>3. ~ (accum >= p)
    BY <1>7
  <2> QED
    BY <1>3, <2>1, <2>2, <2>3 DEF p
<1>9. s.ok /\ s.accum = accum /\ s.accumNBits = m /\ s.ptr = ptr
  BY <1>8
<1>10. Faithful(s, all)
  <2>1. s.accum = Value(all, ByteBits * s.ptr, s.accumNBits)
    BY <1>7, <1>9 DEF v, at
  <2>2. s.accumNBits >= 0 /\ s.ptr >= 0
    BY <1>1, <1>6, <1>9
  <2> QED
    BY <2>1, <2>2 DEF Faithful
<1>11. UnreadOf(s) = e
  <2>1. UnreadOf(s) = m + at
    BY <1>9 DEF UnreadOf, at
  <2> QED
    BY <1>2, <1>6, <2>1
<1> QED
  BY <1>9, <1>10, <1>11

-----------------------------------------------------------------------------
(***************************************************************************)
(* A buffer that ends in a finished stream: its bits are those of what is  *)
(* before the stream, those of the stream, and padding zeros.              *)
(***************************************************************************)
LEMMA PrefixBits ==
    ASSUME NEW buf \in Seq(Byte)
    PROVE  \E all : Backs(all, buf)
<1> DEFINE w == ByteBits
           low(k) == LowBits(w, buf[k])
           all == [i \in 1 .. w * Len(buf) |-> low((i - 1) \div w + 1)[((i - 1) % w) + 1]]
<1>1. w \in Nat \ {0} /\ Len(buf) \in Nat /\ w * Len(buf) \in Nat /\ Powers(w)
  <2>1. Len(buf) \in Nat
    OBVIOUS
  <2>2. w * Len(buf) \in Nat
    BY <2>1, ByteTimes
  <2>3. w \in Nat \ {0} /\ w <= WordBits
    BY WordIs
  <2> QED
    BY <2>1, <2>2, <2>3, WidePowers
<1>2. ASSUME NEW k \in 1 .. Len(buf)
      PROVE  buf[k] \in 0 .. 2^w - 1 /\ low(k) \in Seq(Bit) /\ Len(low(k)) = w /\ Value(low(k), 0, w) = buf[k]
  <2>1. buf[k] \in 0 .. 2^w - 1
    BY BytesOf
  <2>2. buf[k] \in Nat /\ Value(LowBits(w, buf[k]), 0, w) = buf[k]
    <3> HIDE DEF w
    <3> QED
      BY <1>1, <2>1, LowBitsBack
  <2>3. LowBits(w, buf[k]) \in Seq(Bit) /\ Len(LowBits(w, buf[k])) = w
    <3> HIDE DEF w
    <3> QED
      BY <1>1, <2>2, LowBitsValue
  <2> QED
    BY <2>1, <2>2, <2>3
<1> HIDE DEF low, w
<1>3. ASSUME NEW i \in 1 .. w * Len(buf)
      PROVE  (i - 1) \div w + 1 \in 1 .. Len(buf) /\ ((i - 1) % w) + 1 \in 1 .. w
  <2> DEFINE u == i - 1
             n == Len(buf)
  <2>1. u \in Nat /\ u < n * w
    <3>1. w * n = n * w
      BY <1>1
    <3> QED
      BY <1>1, <3>1
  <2> HIDE DEF u, n
  <2>2. u \div w \in Nat /\ u % w \in 0 .. w - 1 /\ u \div w < n
    <3>1. n \in Nat
      BY <1>1 DEF n
    <3> QED
      BY <1>1, <2>1, <3>1, Division, QuotientBelow
  <2>3. u \div w + 1 \in 1 .. n /\ (u % w) + 1 \in 1 .. w
    BY <1>1, <2>2 DEF n
  <2> QED
    BY <2>3 DEF u, n
<1>4. all \in Seq(Bit) /\ Len(all) = w * Len(buf)
  <2>1. \A i \in 1 .. w * Len(buf) : all[i] \in Bit
    <3> SUFFICES ASSUME NEW i \in 1 .. w * Len(buf) PROVE all[i] \in Bit
      OBVIOUS
    <3> DEFINE k == (i - 1) \div w + 1
               j == ((i - 1) % w) + 1
    <3>1. all[i] = low(k)[j]
      OBVIOUS
    <3>2. k \in 1 .. Len(buf) /\ j \in 1 .. w
      BY <1>3
    <3> HIDE DEF k, j, all
    <3> QED
      BY <1>2, <3>1, <3>2
  <2>2. all \in [1 .. w * Len(buf) -> Bit]
    BY <2>1
  <2> HIDE DEF all
  <2> QED
    BY <1>1, <2>2, AsSequence
<1>5. ASSUME NEW k \in 1 .. Len(buf) PROVE buf[k] = Value(all, w * (k - 1), w)
  <2> DEFINE from == w * (k - 1)
  <2>1. from \in Nat /\ from + w <= w * Len(buf)
    <3>1. k - 1 \in Nat /\ k \in Nat /\ (k - 1) + 1 = k /\ k <= Len(buf)
      BY <1>1
    <3>2. w * (k - 1) \in Nat /\ w * ((k - 1) + 1) = w * (k - 1) + w
      BY <3>1, ByteTimes DEF w
    <3>3. w * k <= w * Len(buf)
      BY <1>1, <3>1, ByteTimes DEF w
    <3> QED
      BY <3>1, <3>2, <3>3
  <2>2. ASSUME NEW j \in 1 .. w PROVE BitOf(low(k), 0 + j) = BitOf(all, from + j)
    <3> DEFINE i == from + j
    <3>1. i \in 1 .. w * Len(buf) /\ j \in Nat
      <4> HIDE DEF from
      <4> QED
        BY <1>1, <2>1
    <3>2. i - 1 = (k - 1) * w + (j - 1) /\ k - 1 \in Nat /\ j - 1 \in 0 .. w - 1
      <4>1. w * (k - 1) = (k - 1) * w
        BY <1>1
      <4> QED
        BY <1>1, <4>1
    <3> HIDE DEF i, from
    <3> DEFINE d == k - 1
               c == j - 1
    <3>3. (i - 1) \div w = d /\ (i - 1) % w = c
      <4>1. i - 1 = d * w + c /\ d \in Nat /\ c \in 0 .. w - 1
        BY <3>2
      <4> HIDE DEF d, c
      <4> QED
        BY <1>1, <4>1, Quotient
    <3>4. (i - 1) \div w + 1 = k /\ ((i - 1) % w) + 1 = j
      BY <1>1, <3>3
    <3>5. all[i] = low((i - 1) \div w + 1)[((i - 1) % w) + 1]
      BY <3>1
    <3>6. all[i] = low(k)[j]
      BY <3>4, <3>5
    <3>7. BitOf(all, i) = all[i]
      <4> HIDE DEF all
      <4>1. i <= Len(all)
        BY <1>1, <1>4, <3>1
      <4> QED
        BY <4>1 DEF BitOf
    <3>8. BitOf(low(k), 0 + j) = low(k)[j]
      <4>1. 0 + j <= Len(low(k)) /\ 0 + j = j
        BY <1>2, <3>1
      <4> QED
        BY <4>1 DEF BitOf
    <3> QED
      BY <3>6, <3>7, <3>8 DEF i
  <2> HIDE DEF from, all
  <2>3. SameBits(low(k), 0, all, from, w)
    BY <2>2 DEF SameBits
  <2>4. Value(low(k), 0, w) = Value(all, from, w)
    BY <1>1, <1>2, <1>4, <2>1, <2>3, ValueAgrees
  <2> QED
    BY <1>2, <2>4 DEF from
<1> HIDE DEF all
<1>6. Backs(all, buf)
  BY <1>4, <1>5 DEF Backs, w
<1> QED
  BY <1>6

\* fseOutFinish pads to whole bytes and says by how much.
LEMMA FinishFills ==
    ASSUME NEW bits \in Seq(Bit), NEW f, f = Finish(bits, ByteBits)
    PROVE  /\ -f.n \in 0 .. ByteBits - 1 /\ f.n \in Int /\ f.buf \in Seq(Byte)
           /\ ByteBits * Len(f.buf) = Len(bits) + (-f.n)
           /\ \A k \in 1 .. Len(f.buf) : f.buf[k] = Value(bits, (k - 1) * ByteBits, ByteBits)
<1> DEFINE w == ByteBits
           n == Len(bits)
           q == n \div w
           last == n % w
           nbytes == (n + w - 1) \div w
           buf == [i \in 1 .. nbytes |-> Value(bits, (i - 1) * w, w)]
<1>1. w \in Nat \ {0} /\ n \in Nat
  BY WordIs
<1>2. f.buf = buf /\ f.n = IF last > 0 THEN last - w ELSE 0
  BY DEF Finish
<1>3. f.buf \in Seq(Byte) /\ f.n \in Int
  BY FinishIs
<1>4. q \in Nat /\ last \in 0 .. w - 1 /\ n = q * w + last
  <2> HIDE DEF w, n
  <2> QED
    BY <1>1, Division
<1> HIDE DEF w, n, q, last
<1>5. nbytes \in Nat /\ (last = 0 => nbytes = q) /\ (last > 0 => nbytes = q + 1)
  <2>1. CASE last = 0
    <3>1. n + w - 1 = q * w + (w - 1) /\ w - 1 \in 0 .. w - 1
      <4>1. q * w \in Nat
        BY <1>1, <1>4
      <4> QED
        BY <1>1, <1>4, <2>1, <4>1
    <3> DEFINE d == w - 1
    <3> HIDE DEF d
    <3>2. (q * w + d) \div w = q
      <4>1. d \in 0 .. w - 1
        BY <3>1 DEF d
      <4> QED
        BY <1>1, <1>4, <4>1, Quotient
    <3> QED
      BY <1>4, <2>1, <3>1, <3>2 DEF d
  <2>2. CASE last > 0
    <3> DEFINE d == last - 1
               r == q + 1
    <3>1. n + w - 1 = r * w + d /\ d \in 0 .. w - 1 /\ r \in Nat
      <4>1. (q + 1) * w = q * w + w /\ q * w \in Nat
        BY <1>1, <1>4
      <4> QED
        BY <1>1, <1>4, <2>2, <4>1
    <3> HIDE DEF d, r
    <3>2. (r * w + d) \div w = r
      BY <1>1, <3>1, Quotient
    <3> QED
      BY <1>4, <2>2, <3>1, <3>2 DEF r
  <2> QED
    BY <1>4, <2>1, <2>2
<1> HIDE DEF nbytes
<1>6. Len(f.buf) = nbytes /\ \A k \in 1 .. nbytes : f.buf[k] = Value(bits, (k - 1) * w, w)
  <2>1. Len(f.buf) \in Nat /\ DOMAIN f.buf = 1 .. Len(f.buf)
    BY <1>3
  <2>2. DOMAIN f.buf = 1 .. nbytes
    BY <1>2
  <2>3. Len(f.buf) = nbytes
    BY <1>5, <2>1, <2>2
  <2> QED
    BY <1>2, <2>3
<1>7. -f.n \in 0 .. w - 1 /\ w * nbytes = n + (-f.n)
  <2>1. CASE last = 0
    <3>1. f.n = 0 /\ w * nbytes = q * w
      BY <1>1, <1>2, <1>4, <1>5, <2>1
    <3>2. q * w \in Nat /\ n = q * w
      BY <1>1, <1>4, <2>1
    <3> QED
      BY <1>1, <3>1, <3>2
  <2>2. CASE last > 0
    <3>1. f.n = last - w /\ w * nbytes = q * w + w
      BY <1>1, <1>2, <1>4, <1>5, <2>2
    <3>2. q * w \in Nat
      BY <1>1, <1>4
    <3> QED
      BY <1>1, <1>4, <2>2, <3>1, <3>2
  <2> QED
    BY <1>4, <2>1, <2>2
<1> QED
  BY <1>3, <1>6, <1>7 DEF w, n

\* All the bits of a buffer that ends in a stream.
FillsOut(buf, all, pre, bits, e, n) ==
    Backs(all, buf) /\ Holds(all, pre, bits) /\ Padded(all, e, n)

EndsIn(buf, before, pre, bits, f, e, pad) ==
    /\ before \in Seq(Byte) /\ bits \in Seq(Bit) /\ f = Finish(bits, ByteBits)
    /\ buf = before \o f.buf /\ pre = ByteBits * Len(before) /\ e = pre + Len(bits) /\ pad = -f.n

FinishedAs(buf, pre, bits, e, pad) ==
    /\ buf \in Seq(Byte) /\ e = ByteBits * Len(buf) - pad /\ pre \in Nat
    /\ \E all : FillsOut(buf, all, pre, bits, e, pad)

LEMMA FinishedBits ==
    ASSUME NEW buf, NEW before, NEW pre, NEW bits, NEW f, NEW e, NEW pad,
           EndsIn(buf, before, pre, bits, f, e, pad)
    PROVE  FinishedAs(buf, pre, bits, e, pad)
<1> USE DEF EndsIn
<1> DEFINE w == ByteBits
           n == -f.n
           zeros == [i \in 1 .. n |-> 0]
           mid == bits \o zeros
<1>1. /\ n \in 0 .. w - 1 /\ f.buf \in Seq(Byte) /\ w * Len(f.buf) = Len(bits) + n
      /\ \A k \in 1 .. Len(f.buf) : f.buf[k] = Value(bits, (k - 1) * w, w)
  BY FinishFills
<1>2. w \in Nat \ {0} /\ w <= WordBits /\ Powers(w)
  <2>1. w \in Nat \ {0} /\ w <= WordBits
    BY WordIs
  <2> QED
    BY <2>1, WidePowers
<1>3. /\ buf \in Seq(Byte) /\ Len(buf) = Len(before) + Len(f.buf) /\ Len(before) \in Nat /\ Len(f.buf) \in Nat
      /\ \A k \in 1 .. Len(before) : buf[k] = before[k]
      /\ \A k \in 1 .. Len(f.buf) : buf[Len(before) + k] = f.buf[k]
  BY <1>1, JoinIs
<1>4. PICK first : Backs(first, before)
  BY PrefixBits
<1>5. first \in Seq(Bit) /\ Len(first) = pre /\ pre \in Nat
  <2>1. first \in Seq(Bit) /\ Len(first) = pre
    BY <1>4 DEF Backs
  <2> QED
    BY <2>1
<1> HIDE DEF w, n
<1>6. zeros \in Seq(Bit) /\ Len(zeros) = n /\ \A i \in 1 .. n : zeros[i] = 0
  <2>1. zeros \in [1 .. n -> Bit] /\ n \in Nat
    BY <1>1, <1>2 DEF Bit
  <2> QED
    BY <2>1, AsSequence
<1> HIDE DEF zeros
<1>7. /\ mid \in Seq(Bit) /\ Len(mid) = Len(bits) + n /\ Len(bits) \in Nat
      /\ \A i \in 1 .. Len(bits) : mid[i] = bits[i]
      /\ \A i \in 1 .. n : mid[Len(bits) + i] = 0
  <2>1. /\ mid \in Seq(Bit) /\ Len(mid) = Len(bits) + Len(zeros) /\ Len(bits) \in Nat
        /\ \A i \in 1 .. Len(bits) : mid[i] = bits[i]
        /\ \A i \in 1 .. Len(zeros) : mid[Len(bits) + i] = zeros[i]
    <3>1. mid = bits \o zeros
      OBVIOUS
    <3>2. zeros \in Seq(Bit)
      BY <1>6
    <3> HIDE DEF mid
    <3> QED
      BY <3>1, <3>2, JoinIs
  <2> HIDE DEF mid
  <2> QED
    BY <1>6, <2>1
<1> DEFINE all == first \o mid
<1> HIDE DEF mid
<1>8. /\ all \in Seq(Bit) /\ Len(all) = pre + Len(mid)
      /\ \A i \in 1 .. pre : all[i] = first[i]
      /\ \A i \in 1 .. Len(mid) : all[pre + i] = mid[i]
  <2>1. /\ all \in Seq(Bit) /\ Len(all) = Len(first) + Len(mid)
        /\ \A i \in 1 .. Len(first) : all[i] = first[i]
        /\ \A i \in 1 .. Len(mid) : all[Len(first) + i] = mid[i]
    <3>1. all = first \o mid
      OBVIOUS
    <3>2. first \in Seq(Bit) /\ mid \in Seq(Bit)
      BY <1>5, <1>7
    <3> HIDE DEF all
    <3> QED
      BY <3>1, <3>2, JoinIs
  <2> HIDE DEF all
  <2> QED
    BY <1>5, <2>1
<1> HIDE DEF all
<1>9. ASSUME NEW x \in 1 .. Len(mid)
      PROVE  /\ BitOf(all, pre + x) = mid[x] /\ BitOf(bits, x) = mid[x]
  <2>1. pre + x <= Len(all) /\ all[pre + x] = mid[x]
    BY <1>1, <1>5, <1>7, <1>8
  <2>2. BitOf(all, pre + x) = mid[x]
    BY <2>1 DEF BitOf
  <2>3. CASE x <= Len(bits)
    <3>1. x \in 1 .. Len(bits)
      BY <1>7, <2>3
    <3> QED
      BY <1>7, <2>2, <2>3, <3>1 DEF BitOf
  <2>4. CASE ~ x <= Len(bits)
    <3>1. x - Len(bits) \in 1 .. n /\ Len(bits) + (x - Len(bits)) = x
      BY <1>1, <1>2, <1>7, <2>4
    <3>2. mid[x] = 0
      BY <1>7, <3>1
    <3> QED
      BY <2>2, <2>4, <3>2 DEF BitOf
  <2> QED
    BY <2>3, <2>4
<1>10. /\ w * Len(buf) = pre + Len(mid) /\ w * Len(f.buf) = Len(mid) /\ e = pre + Len(bits)
       /\ e = w * Len(buf) - n /\ Len(mid) \in Nat
  <2>1. w * (Len(before) + Len(f.buf)) = w * Len(before) + w * Len(f.buf)
    BY <1>3, ByteTimes DEF w
  <2>2. w * Len(before) = pre
    BY DEF w
  <2>3. w * Len(buf) = pre + w * Len(f.buf)
    BY <1>3, <2>1, <2>2
  <2>4. w * Len(f.buf) = Len(bits) + n /\ n \in Nat
    BY <1>1, <1>2
  <2> DEFINE x == w * Len(buf)
             y == w * Len(f.buf)
             z == Len(mid)
  <2>5. x = pre + y /\ y = Len(bits) + n /\ z = Len(bits) + n
    BY <1>7, <2>3, <2>4
  <2> HIDE DEF x, y, z
  <2>6. x = pre + z /\ y = z /\ e = pre + Len(bits) /\ e = x - n /\ z \in Nat
    BY <1>5, <1>7, <2>4, <2>5
  <2> QED
    BY <2>6 DEF x, y, z
<1>11. ASSUME NEW k \in 1 .. Len(buf)
       PROVE  buf[k] = Value(all, w * (k - 1), w)
  <2>1. CASE k <= Len(before)
    <3> DEFINE from == w * (k - 1)
    <3>1. k \in 1 .. Len(before) /\ k - 1 \in Nat /\ (k - 1) + 1 = k /\ k \in Nat
      BY <1>3, <2>1
    <3>2. from \in Nat /\ from + w <= pre
      <4>1. w * ((k - 1) + 1) = w * (k - 1) + w /\ w * (k - 1) \in Nat
        BY <3>1, ByteTimes DEF w
      <4>2. w * k <= w * Len(before)
        BY <1>3, <3>1, ByteTimes DEF w
      <4> QED
        BY <3>1, <4>1, <4>2 DEF w
    <3>3. buf[k] = Value(first, from, w)
      <4>1. before[k] = Value(first, ByteBits * (k - 1), ByteBits)
        BY <1>4, <3>1 DEF Backs
      <4> QED
        BY <1>3, <3>1, <4>1 DEF w
    <3> HIDE DEF from
    <3>4. SameBits(first, from, all, from, w)
      <4> SUFFICES ASSUME NEW i \in 1 .. w PROVE BitOf(first, from + i) = BitOf(all, from + i)
        BY DEF SameBits
      <4>1. from + i \in 1 .. pre /\ from + i <= Len(first) /\ from + i <= Len(all)
        <5> DEFINE x == Len(all)
                   y == Len(first)
                   z == Len(mid)
        <5>1. x = pre + z /\ z \in Nat /\ y = pre /\ pre \in Nat /\ w \in Nat
          BY <1>2, <1>5, <1>8, <1>10
        <5> HIDE DEF x, y, z
        <5>2. from + i \in 1 .. pre /\ from + i <= y /\ from + i <= x
          BY <3>2, <5>1
        <5> QED
          BY <5>2 DEF x, y
      <4> QED
        BY <1>8, <4>1 DEF BitOf
    <3>5. Value(first, from, w) = Value(all, from, w)
      BY <1>2, <1>5, <1>8, <3>2, <3>4, ValueAgrees
    <3> QED
      BY <3>3, <3>5 DEF from
  <2>2. CASE ~ k <= Len(before)
    <3> DEFINE j == k - Len(before)
               from == (j - 1) * w
               to == w * (k - 1)
    <3>1. /\ j \in 1 .. Len(f.buf) /\ Len(before) + j = k /\ j - 1 \in Nat /\ (j - 1) + 1 = j
          /\ k - 1 = Len(before) + (j - 1) /\ j \in Nat
      BY <1>3, <2>2
    <3> HIDE DEF j
    <3>2. buf[k] = Value(bits, from, w)
      BY <1>1, <1>3, <3>1
    <3>3. from \in Nat /\ to = pre + from /\ from + w <= Len(mid)
      <4>1. w * ((j - 1) + 1) = w * (j - 1) + w /\ w * (j - 1) \in Nat
        BY <3>1, ByteTimes DEF w
      <4>2. w * j <= w * Len(f.buf)
        <5>1. j <= Len(f.buf)
          BY <1>3, <3>1
        <5> QED
          BY <1>3, <3>1, <5>1, ByteTimes DEF w
      <4>3. w * (Len(before) + (j - 1)) = w * Len(before) + w * (j - 1)
        BY <1>3, <3>1, ByteTimes DEF w
      <4>4. (j - 1) * w = w * (j - 1)
        BY <1>2, <3>1
      <4>5. pre = w * Len(before)
        BY DEF w
      <4> QED
        BY <1>10, <3>1, <4>1, <4>2, <4>3, <4>4, <4>5
    <3> HIDE DEF from, to
    <3>4. SameBits(bits, from, all, to, w)
      <4> SUFFICES ASSUME NEW i \in 1 .. w PROVE BitOf(bits, from + i) = BitOf(all, to + i)
        BY DEF SameBits
      <4> DEFINE x == from + i
      <4>1. x \in 1 .. Len(mid) /\ to + i = pre + x
        <5> DEFINE z == Len(mid)
        <5>1. z \in Nat /\ pre \in Nat /\ w \in Nat /\ from \in Nat /\ to = pre + from /\ from + w <= z
          BY <1>2, <1>5, <1>10, <3>3
        <5> HIDE DEF z
        <5>2. x \in 1 .. z /\ to + i = pre + x
          BY <5>1
        <5> QED
          BY <5>2 DEF z
      <4> HIDE DEF x
      <4> QED
        BY <1>9, <4>1 DEF x
    <3>5. to \in Nat
      BY <1>5, <3>3
    <3>6. Value(bits, from, w) = Value(all, to, w)
      BY <1>2, <1>8, <3>3, <3>4, <3>5, ValueAgrees
    <3> QED
      BY <3>2, <3>6 DEF to
  <2> QED
    BY <2>1, <2>2
<1>12. Backs(all, buf)
  BY <1>8, <1>10, <1>11 DEF Backs, w
<1>13. Holds(all, pre, bits)
  <2> SUFFICES ASSUME NEW i \in 1 .. Len(bits) PROVE BitOf(all, pre + i) = bits[i]
    BY DEF Holds
  <2>1. i \in 1 .. Len(mid)
    BY <1>1, <1>2, <1>7
  <2> QED
    BY <1>7, <1>9, <2>1
<1>14. ASSUME NEW i \in 1 .. n PROVE BitOf(all, e + i) = 0
  <2> DEFINE x == Len(bits) + i
  <2>1. mid[x] = 0
    BY <1>7
  <2>2. x \in 1 .. Len(mid) /\ e + i = pre + x
    <3>1. i \in Nat /\ i <= n /\ n \in Nat /\ i >= 1
      BY <1>1, <1>2
    <3> QED
      BY <1>5, <1>7, <1>10, <3>1
  <2> HIDE DEF x
  <2> QED
    BY <1>9, <2>1, <2>2
<1> QED
  BY <1>3, <1>5, <1>10, <1>12, <1>13, <1>14 DEF w, n, FillsOut, Padded, FinishedAs

-----------------------------------------------------------------------------
(***************************************************************************)
(* One value there and back: what PutValue pushes, Take pulls.             *)
(***************************************************************************)
\* The runs of the symbols do not overlap.
LEMMA OffsetsOrdered ==
    ASSUME NEW k \in Nat, NEW f \in [Before(k) -> Nat], NEW a \in 0 .. k, NEW b \in 0 .. k, a <= b
    PROVE  Offset(f, a) \in Nat /\ Offset(f, b) \in Nat /\ Offset(f, a) <= Offset(f, b)
<1> DEFINE T == {j \in Nat : a + j <= k => Offset(f, a) <= Offset(f, a + j)}
<1>1. \A s \in 0 .. k : Offset(f, s) \in Nat
  BY OffsetsGrow
<1>2. 0 \in T
  <2>1. a + 0 = a /\ Offset(f, a) \in Nat
    BY <1>1
  <2> QED
    BY <2>1
<1>3. ASSUME NEW j \in Nat, j \in T PROVE j + 1 \in T
  <2> SUFFICES ASSUME a + (j + 1) <= k PROVE Offset(f, a) <= Offset(f, a + (j + 1))
    OBVIOUS
  <2>1. a + j \in 0 .. k /\ a + j \in Before(k) /\ (a + j) + 1 = a + (j + 1) /\ a + (j + 1) \in 0 .. k
    BY DEF Before
  <2>2. Offset(f, (a + j) + 1) = Offset(f, a + j) + f[a + j] /\ f[a + j] \in Nat
    BY <2>1, Offsets
  <2>3. Offset(f, a) <= Offset(f, a + j)
    BY <1>3, <2>1
  <2>4. Offset(f, a) \in Nat /\ Offset(f, a + j) \in Nat
    BY <1>1, <2>1
  <2> QED
    BY <2>1, <2>2, <2>3, <2>4
<1>4. b - a \in T
  <2>1. b - a \in Nat
    OBVIOUS
  <2> HIDE DEF T
  <2> QED
    BY <1>2, <1>3, <2>1, Induction
<1> QED
  BY <1>1, <1>4

LEMMA OneOwner ==
    ASSUME NEW k \in Nat, NEW f \in [Before(k) -> Nat], NEW s \in Before(k), NEW t \in Before(k), NEW i \in Nat,
           Offset(f, s) <= i, i < Offset(f, s) + f[s], Offset(f, t) <= i, i < Offset(f, t) + f[t]
    PROVE  s = t
<1>1. ASSUME NEW a \in Before(k), NEW b \in Before(k), a < b
      PROVE  Offset(f, a) + f[a] <= Offset(f, b)
  <2>1. a + 1 \in 0 .. k /\ b \in 0 .. k /\ a + 1 <= b
    BY <1>1 DEF Before
  <2>2. Offset(f, a + 1) <= Offset(f, b)
    BY <2>1, OffsetsOrdered
  <2> QED
    BY <2>2, Offsets
<1>2. /\ s \in Nat /\ t \in Nat /\ f[s] \in Nat /\ f[t] \in Nat
      /\ Offset(f, s) \in Nat /\ Offset(f, t) \in Nat
  <2>1. s \in Nat /\ t \in Nat
    BY DEF Before
  <2> QED
    BY <2>1, RunWithin
<1>3. CASE s < t
  BY <1>1, <1>2, <1>3
<1>4. CASE t < s
  BY <1>1, <1>2, <1>4
<1> QED
  BY <1>2, <1>3, <1>4

\* The entry of a state is the one of the symbol that owns it.
LEMMA EntryOf ==
    ASSUME NEW k \in Nat, NEW f \in [Before(k) -> Nat], NEW n \in Nat, Total(f) <= n,
           NEW sym \in Before(k), NEW i \in Nat, Offset(f, sym) <= i, i < Offset(f, sym) + f[sym],
           NEW extra, NEW base, NEW old
    PROVE  DecoderTable(f, n, extra, base, old)[i] = Entry(f, sym, i - Offset(f, sym), n, extra, base)
<1> DEFINE t == DecoderTable(f, n, extra, base, old)
           own == CHOOSE s \in DOMAIN f : Offset(f, s) <= i /\ i < Offset(f, s) + f[s]
<1>1. Offset(f, sym) + f[sym] <= Total(f) /\ Offset(f, sym) \in Nat /\ f[sym] \in Nat /\ Total(f) \in Int
  BY RunWithin, Offsets
<1>2. i \in 0 .. n - 1 /\ ~ (i >= Total(f))
  BY <1>1
<1>3. own = sym
  <2>1. DOMAIN f = Before(k)
    OBVIOUS
  <2>2. own \in DOMAIN f /\ Offset(f, own) <= i /\ i < Offset(f, own) + f[own]
    BY <2>1
  <2> HIDE DEF own
  <2> QED
    BY <2>1, <2>2, OneOwner
<1>4. t[i] = Entry(f, own, i - Offset(f, own), n, extra, base)
  BY <1>2 DEF DecoderTable
<1> QED
  BY <1>3, <1>4

\* A coder's table, and a value it has a symbol for.
Coded(c, f) == c \in Range(Coders) /\ f \in [Before(NSym(c)) -> Nat] /\ Total(f) = NStates[c]
Symbol(c, v) == SymbolOf(v, Base[c])
Sendable(c, f, v) ==
    /\ v \in Nat /\ f[Symbol(c, v)] > 0
    /\ v - Base[c][Symbol(c, v)] \in 0 .. 2^Extra[c][Symbol(c, v)] - 1

\* How value v goes out from a state: the symbol's entry, inside the table.
SentAs(c, f, v, s, sym, w) ==
    /\ sym \in Before(NSym(c)) /\ w.state \in 0 .. NStates[c] - 1
    /\ Offset(f, sym) <= w.state /\ w.state < Offset(f, sym) + f[sym]
    /\ w.nbits \in 0 .. PrecisionBits /\ w.b \in 0 .. 2^w.nbits - 1
    /\ Extra[c][sym] \in 0 .. PrecisionBits /\ v - Base[c][sym] \in 0 .. 2^Extra[c][sym] - 1
    /\ LET e == Entry(f, sym, w.state - Offset(f, sym), NStates[c], Extra[c], Base[c])
       IN  /\ e.totalBits = w.nbits + Extra[c][sym]
           /\ Decode(e, w.b * 2^Extra[c][sym] + (v - Base[c][sym])) = [state |-> s, value |-> v]

LEMMA SentIs ==
    ASSUME NEW c, NEW f, Coded(c, f), NEW v, Sendable(c, f, v), NEW s \in 0 .. NStates[c] - 1,
           NEW sym, sym = Symbol(c, v), NEW w, w = Encode(EncoderTable(f, NStates[c])[sym], s)
    PROVE  SentAs(c, f, v, s, sym, w)
<1>1. /\ c \in Range(Coders) /\ f \in [Before(NSym(c)) -> Nat] /\ Total(f) = NStates[c]
      /\ v \in Nat /\ f[sym] > 0 /\ v - Base[c][sym] \in 0 .. 2^Extra[c][sym] - 1
  BY DEF Coded, Sendable
<1>2. sym \in Before(NSym(c))
  BY <1>1, SymbolOfIs DEF Symbol
<1>3. PICK r \in 0 .. PrecisionBits - 1 : CoderIs(c, r)
  BY <1>1, CoderFacts
<1>4. /\ NStates[c] = 2^r /\ NStates[c] \in Nat \ {0} /\ NSym(c) \in Nat
      /\ Extra[c][sym] \in 0 .. PrecisionBits /\ Base[c][sym] \in Nat
  BY <1>2, <1>3 DEF CoderIs
<1>5. Offset(f, sym) \in Nat /\ f[sym] \in Nat /\ Offset(f, sym) + f[sym] <= NStates[c]
  BY <1>1, <1>2, <1>4, RunWithin
<1>6. f[sym] \in 1 .. 2^r /\ s \in 0 .. 2^r - 1
  BY <1>1, <1>4, <1>5
<1>7. w = Encode(EncoderEntry(f, sym, 2^r), s)
  <2>1. sym \in DOMAIN f /\ f[sym] # 0
    BY <1>1, <1>2, <1>5
  <2>2. EncoderTable(f, NStates[c])[sym] = EncoderEntry(f, sym, NStates[c])
    BY <2>1 DEF EncoderTable
  <2> QED
    BY <1>4, <2>2
<1> DEFINE j == w.state - Offset(f, sym)
<1>8. j \in 0 .. f[sym] - 1 /\ w.b \in 0 .. 2^w.nbits - 1
  BY <1>5, <1>6, <1>7, StepInverts
<1>9. w.nbits \in 0 .. PrecisionBits /\ w.state \in 0 .. NStates[c] - 1
  BY <1>1, <1>2, EncodedIs
<1>10. LET e == Entry(f, sym, j, 2^r, Extra[c], Base[c])
       IN  /\ e.totalBits = w.nbits + Extra[c][sym]
           /\ Decode(e, w.b * 2^Extra[c][sym] + (v - Base[c][sym])) = [state |-> s, value |-> Base[c][sym] + (v - Base[c][sym])]
  BY <1>1, <1>4, <1>5, <1>6, <1>7, DecodeInvertsEncode
<1>11. Base[c][sym] + (v - Base[c][sym]) = v
  BY <1>1, <1>4
<1>12. Offset(f, sym) <= w.state /\ w.state < Offset(f, sym) + f[sym]
  <2> QED
    BY <1>5, <1>8, <1>9
<1> QED
  BY <1>1, <1>2, <1>4, <1>8, <1>9, <1>10, <1>11, <1>12 DEF SentAs

\* Two numbers pushed one after the other are one number to the reader.
PushedAs(new, bits, n, v) ==
    /\ new \in Seq(Bit) /\ Len(new) = Len(bits) + n /\ Value(new, Len(bits), n) = v
    /\ \A i \in 1 .. Len(bits) : new[i] = bits[i]

LEMMA PushedTwice ==
    ASSUME NEW bits \in Seq(Bit), NEW x \in Nat, NEW y \in Nat, NEW n, n = x + y, Powers(n),
           NEW u \in 0 .. 2^x - 1, NEW b \in 0 .. 2^y - 1, NEW new, new = Push(Push(bits, x, u), y, b),
           NEW v, v = b * 2^x + u
    PROVE  PushedAs(new, bits, n, v)
<1> DEFINE mid == Push(bits, x, u)
           from == Len(bits)
           at == Len(mid)
<1>1. Powers(x) /\ Powers(y) /\ n \in Nat
  <2>1. x \in 0 .. n /\ y \in 0 .. n /\ n \in Nat
    OBVIOUS
  <2> QED
    BY <2>1, FewerPowers
<1>2. /\ mid \in Seq(Bit) /\ at = from + x /\ Value(mid, from, x) = u
      /\ \A i \in 1 .. from : mid[i] = bits[i]
  <2>1. mid = Push(bits, x, u)
    OBVIOUS
  <2>2. Powers(x)
    BY <1>1
  <2> HIDE DEF mid
  <2> QED
    BY <2>1, <2>2, PushedIs
<1>3. new = Push(mid, y, b)
  OBVIOUS
<1> HIDE DEF mid
<1>4. /\ new \in Seq(Bit) /\ Len(new) = Len(mid) + y /\ Value(new, Len(mid), y) = b
      /\ \A i \in 1 .. Len(mid) : new[i] = mid[i]
  <2>1. mid \in Seq(Bit)
    BY <1>2
  <2> QED
    BY <1>1, <1>3, <2>1, PushedIs
<1>5. from \in Nat /\ at \in Nat /\ Len(new) = at + y
  BY <1>2, <1>4
<1>6. Len(new) = from + n /\ at = from + x
  BY <1>2, <1>5
<1>7. Value(new, from, x) = u
  <2>1. SameBits(new, from, mid, from, x)
    <3> SUFFICES ASSUME NEW i \in 1 .. x PROVE BitOf(new, from + i) = BitOf(mid, from + i)
      BY DEF SameBits
    <3>1. from + i \in 1 .. at /\ from + i <= Len(new)
      BY <1>5, <1>6
    <3> QED
      BY <1>4, <3>1 DEF BitOf
  <2>2. mid \in Seq(Bit)
    BY <1>2
  <2>3. Value(new, from, x) = Value(mid, from, x)
    BY <1>1, <1>4, <1>5, <2>1, <2>2, ValueAgrees
  <2> QED
    BY <1>2, <2>3
<1>8. Splits(new, from, x, y, n, at)
  BY <1>1, <1>4, <1>5, <1>6, Windows
<1>9. Value(new, from, n) = Value(new, from, x) + 2^x * Value(new, at, y)
  BY <1>8, Zenon DEF Splits
<1>10. Value(new, from, n) = u + 2^x * b
  BY <1>4, <1>7, <1>9
<1>11. u + 2^x * b = b * 2^x + u
  <2> DEFINE px == 2^x
             py == 2^y
  <2>1. px \in Nat \ {0} /\ py \in Nat \ {0}
    BY <1>8, Zenon DEF Splits
  <2>2. u \in Nat /\ b \in Nat
    <3> HIDE DEF px, py
    <3>1. u \in 0 .. px - 1 /\ b \in 0 .. py - 1
      BY DEF px, py
    <3> QED
      BY <2>1, <3>1
  <2> HIDE DEF px
  <2> QED
    BY <2>1, <2>2 DEF px
<1>12. \A i \in 1 .. from : new[i] = bits[i]
  <2> SUFFICES ASSUME NEW i \in 1 .. from PROVE new[i] = bits[i]
    OBVIOUS
  <2>1. i \in 1 .. Len(mid)
    BY <1>5, <1>6
  <2> QED
    BY <1>2, <1>4, <2>1
<1> QED
  BY <1>4, <1>6, <1>10, <1>11, <1>12 DEF PushedAs

\* The encoder from point p to point q: value v of coder c with the state of k.
Wrote(f, c, k, v, p, q) ==
    LET sym == Symbol(c, v)
        w == Encode(EncoderTable(f, NStates[c])[sym], p.states[k])
    IN  /\ q.bits = Push(Push(p.bits, Extra[c][sym], v - Base[c][sym]), w.nbits, w.b)
        /\ q.states = [p.states EXCEPT ![k] = w.state]

\* A point of the encoder as coder c sees it.
Stands(p, c, k) ==
    p.bits \in Seq(Bit) /\ k \in DOMAIN p.states /\ p.states[k] \in 0 .. NStates[c] - 1

\* What is so after that, e the entry the state then stands for: e takes the
\* bits that were added, to the value and to the state before.
WroteSo(c, k, v, p, q, e) ==
    /\ q.bits \in Seq(Bit) /\ q.states[k] \in 0 .. NStates[c] - 1
    /\ DOMAIN q.states = DOMAIN p.states
    /\ \A x \in DOMAIN p.states : x # k => q.states[x] = p.states[x]
    /\ e.totalBits \in Nat /\ e.totalBits <= MaxBits(c) /\ Powers(e.totalBits)
    /\ Len(q.bits) = Len(p.bits) + e.totalBits
    /\ \A i \in 1 .. Len(p.bits) : q.bits[i] = p.bits[i]
    /\ Decode(e, Value(q.bits, Len(p.bits), e.totalBits)) = [state |-> p.states[k], value |-> v]

LEMMA WroteIs ==
    ASSUME NEW c, NEW f, Coded(c, f), NEW v, Sendable(c, f, v), NEW k, NEW p, Stands(p, c, k),
           NEW q, Wrote(f, c, k, v, p, q),
           NEW e, NEW old, e = DecoderTable(f, NStates[c], Extra[c], Base[c], old)[q.states[k]]
    PROVE  WroteSo(c, k, v, p, q, e)
<1> DEFINE sym == Symbol(c, v)
           s == p.states[k]
           w == Encode(EncoderTable(f, NStates[c])[sym], s)
           x == Extra[c][sym]
           u == v - Base[c][sym]
           n == w.nbits + x
<1>1. p.bits \in Seq(Bit) /\ k \in DOMAIN p.states /\ s \in 0 .. NStates[c] - 1
  BY DEF Stands
<1>2. /\ sym \in Before(NSym(c)) /\ w.state \in 0 .. NStates[c] - 1
      /\ Offset(f, sym) <= w.state /\ w.state < Offset(f, sym) + f[sym]
      /\ w.nbits \in 0 .. PrecisionBits /\ w.b \in 0 .. 2^w.nbits - 1
      /\ x \in 0 .. PrecisionBits /\ u \in 0 .. 2^x - 1
      /\ LET g == Entry(f, sym, w.state - Offset(f, sym), NStates[c], Extra[c], Base[c])
         IN  g.totalBits = n /\ Decode(g, w.b * 2^x + u) = [state |-> s, value |-> v]
  <2>1. sym = Symbol(c, v) /\ w = Encode(EncoderTable(f, NStates[c])[sym], s)
    OBVIOUS
  <2>2. x = Extra[c][sym] /\ u = v - Base[c][sym]
    OBVIOUS
  <2>3. s \in 0 .. NStates[c] - 1
    BY <1>1
  <2> HIDE DEF sym, w, x, u, s
  <2>4. SentAs(c, f, v, s, sym, w)
    BY <2>1, <2>3, SentIs
  <2> QED
    BY <2>2, <2>4, Zenon DEF SentAs
<1>3. /\ q.bits = Push(Push(p.bits, x, u), w.nbits, w.b)
      /\ q.states = [p.states EXCEPT ![k] = w.state]
  BY DEF Wrote
<1>4. /\ c \in Range(Coders) /\ f \in [Before(NSym(c)) -> Nat] /\ Total(f) = NStates[c]
      /\ NSym(c) \in Nat /\ NStates[c] \in Nat \ {0}
  <2>1. c \in Range(Coders) /\ f \in [Before(NSym(c)) -> Nat] /\ Total(f) = NStates[c]
    BY DEF Coded
  <2>2. NSym(c) \in Nat /\ NStates[c] \in Nat \ {0}
    BY <2>1, CoderFacts DEF CoderIs
  <2> QED
    BY <2>1, <2>2
<1> HIDE DEF sym, s, w, x, u
<1>5. /\ q.states[k] = w.state /\ DOMAIN q.states = DOMAIN p.states
      /\ \A y \in DOMAIN p.states : y # k => q.states[y] = p.states[y]
  BY <1>1, <1>3
<1>6. e = Entry(f, sym, w.state - Offset(f, sym), NStates[c], Extra[c], Base[c])
  <2>1. Total(f) <= NStates[c] /\ w.state \in Nat /\ NStates[c] \in Nat
    BY <1>2, <1>4
  <2> QED
    BY <1>2, <1>4, <1>5, <2>1, EntryOf
<1>7. e.totalBits = n /\ Decode(e, w.b * 2^x + u) = [state |-> s, value |-> v]
  BY <1>2, <1>6
<1>8. e.totalBits \in Nat /\ e.totalBits <= MaxBits(c)
  <2> DEFINE t == DecoderTable(f, NStates[c], Extra[c], Base[c], ZeroTable(NStates[c]))
  <2>1. TableOK(t, c)
    <3>1. FitsTable(f, NStates[c])
      BY <1>4 DEF FitsTable
    <3>2. TableOK(ZeroTable(NStates[c]), c)
      BY <1>4, ZeroTableOK
    <3> QED
      BY <1>4, <3>1, <3>2, DecoderTableOK
  <2>2. t[w.state] = e
    <3>1. Total(f) <= NStates[c] /\ w.state \in Nat /\ NStates[c] \in Nat
      BY <1>2, <1>4
    <3> QED
      BY <1>2, <1>4, <1>6, <3>1, EntryOf
  <2> HIDE DEF t
  <2>3. EntryOK(e, NStates[c], MaxBits(c))
    BY <1>2, <2>1, <2>2 DEF TableOK
  <2> QED
    BY <2>3 DEF EntryOK
<1>9. Powers(n)
  <2>1. MaxBits(c) \in Nat /\ MaxBits(c) <= WordBits - ByteBits
    BY <1>4, MaxBitsFit
  <2>2. n \in Nat /\ n <= WordBits
    BY <1>7, <1>8, <2>1, WordIs
  <2> QED
    BY <2>2, WidePowers
<1>10. x \in Nat /\ w.nbits \in Nat /\ n = x + w.nbits
  BY <1>2
<1> HIDE DEF n
<1>11. /\ q.bits \in Seq(Bit) /\ Len(q.bits) = Len(p.bits) + n
       /\ Value(q.bits, Len(p.bits), n) = w.b * 2^x + u
       /\ \A i \in 1 .. Len(p.bits) : q.bits[i] = p.bits[i]
  <2> DEFINE y == w.nbits
             b == w.b
             bits == p.bits
  <2>1. x \in Nat /\ y \in Nat /\ n = x + y /\ bits \in Seq(Bit)
    BY <1>1, <1>10
  <2>2. u \in 0 .. 2^x - 1 /\ b \in 0 .. 2^y - 1
    BY <1>2
  <2>3. q.bits = Push(Push(bits, x, u), y, b)
    BY <1>3
  <2> HIDE DEF y, b, bits
  <2> DEFINE num == b * 2^x + u
  <2>4. num = b * 2^x + u
    OBVIOUS
  <2> HIDE DEF num
  <2>5. PushedAs(q.bits, bits, n, num)
    BY <1>9, <2>1, <2>2, <2>3, <2>4, PushedTwice
  <2> QED
    BY <2>4, <2>5 DEF b, bits, PushedAs
<1>12. q.states[k] \in 0 .. NStates[c] - 1
  BY <1>2, <1>5
<1>13. Decode(e, Value(q.bits, Len(p.bits), n)) = [state |-> p.states[k], value |-> v]
  BY <1>7, <1>11 DEF s
<1> QED
  BY <1>5, <1>7, <1>8, <1>9, <1>11, <1>12, <1>13 DEF WroteSo

\* The reader at the end of what q has written is, one value later, at the end
\* of what p had.
At(s, all, pre, p) ==
    Faithful(s, all) /\ UnreadOf(s) = pre + Len(p.bits) /\ Holds(all, pre, p.bits)

\* Value v was written as the step from p to q, and a stream s at q is read
\* with the coder's table: t is taken from it.
Takes(c, f, v, k, p, q, table, old, buf, all, pre, s, more, t) ==
    /\ Coded(c, f) /\ Sendable(c, f, v) /\ Stands(p, c, k) /\ Wrote(f, c, k, v, p, q)
    /\ table = DecoderTable(f, NStates[c], Extra[c], Base[c], old)
    /\ all \in Seq(Bit) /\ pre \in Nat /\ more \in Nat
    /\ Sound(s, buf) /\ At(s, all, pre, q) /\ Ready(s, MaxBits(c) + more)
    /\ t = Take(s, table, q.states[k])

LEMMA OneBack ==
    ASSUME NEW c, NEW f, NEW v, NEW k, NEW p, NEW q, NEW table, NEW old, NEW buf, NEW all, NEW pre,
           NEW s, NEW more, NEW t, Takes(c, f, v, k, p, q, table, old, buf, all, pre, s, more, t)
    PROVE  t.value = v /\ t.state = p.states[k] /\ At(t.stream, all, pre, p)
<1>0. /\ Coded(c, f) /\ Sendable(c, f, v) /\ Stands(p, c, k) /\ Wrote(f, c, k, v, p, q)
      /\ table = DecoderTable(f, NStates[c], Extra[c], Base[c], old)
      /\ all \in Seq(Bit) /\ pre \in Nat /\ more \in Nat
      /\ Sound(s, buf) /\ At(s, all, pre, q) /\ Ready(s, MaxBits(c) + more)
      /\ t = Take(s, table, q.states[k])
  BY DEF Takes
<1> DEFINE e == table[q.states[k]]
           n == e.totalBits
           pulled == InPull(s, n)
           start == pre + Len(p.bits)
<1>1. /\ q.bits \in Seq(Bit) /\ n \in Nat /\ n <= MaxBits(c) /\ Powers(n)
      /\ Len(q.bits) = Len(p.bits) + n
      /\ \A i \in 1 .. Len(p.bits) : q.bits[i] = p.bits[i]
      /\ Decode(e, Value(q.bits, Len(p.bits), n)) = [state |-> p.states[k], value |-> v]
  <2>1. e = DecoderTable(f, NStates[c], Extra[c], Base[c], old)[q.states[k]]
    BY <1>0
  <2>3. Coded(c, f) /\ Sendable(c, f, v) /\ Stands(p, c, k) /\ Wrote(f, c, k, v, p, q)
    BY <1>0
  <2> HIDE DEF e
  <2>2. WroteSo(c, k, v, p, q, e)
    BY <2>1, <2>3, WroteIs
  <2> QED
    BY <2>2 DEF WroteSo
<1> HIDE DEF e
<1>2. p.bits \in Seq(Bit) /\ Len(p.bits) \in Nat /\ all \in Seq(Bit) /\ pre \in Nat /\ more \in Nat
  BY <1>0 DEF Stands
<1>3. Faithful(s, all) /\ UnreadOf(s) = pre + Len(q.bits) /\ Holds(all, pre, q.bits)
  BY <1>0 DEF At
<1>4. MaxBits(c) \in Nat
  BY <1>0, MaxBitsFit DEF Coded
<1>5. n <= s.accumNBits /\ UnreadOf(s) - n = start
  <2>0. Sound(s, buf) /\ Ready(s, MaxBits(c) + more)
    BY <1>0
  <2>1. s.accumNBits \in Int /\ s.ptr \in Int /\ s.ptr >= 0
    BY <1>3, <2>0, SoundFields DEF Faithful
  <2>2. UnreadOf(s) - n = start
    <3> HIDE DEF n
    <3> QED
      BY <1>1, <1>2, <1>3
  <2>3. CASE s.accumNBits >= MaxBits(c) + more
    <3> HIDE DEF n
    <3> QED
      BY <1>1, <1>2, <1>4, <2>1, <2>2, <2>3
  <2>4. CASE s.ptr <= 0
    <3>1. s.ptr = 0
      BY <2>1, <2>4
    <3>2. ByteBits * 0 = 0
      BY ByteTimes
    <3>3. UnreadOf(s) = s.accumNBits
      BY <2>1, <3>1, <3>2 DEF UnreadOf
    <3> HIDE DEF n
    <3> QED
      BY <1>1, <1>2, <1>3, <2>1, <2>2, <3>3
  <2> QED
    BY <2>0, <2>2, <2>3, <2>4 DEF Ready
<1>6. /\ Faithful(pulled.stream, all) /\ UnreadOf(pulled.stream) = start
      /\ pulled.b = Value(all, start, n)
  <2> HIDE DEF start, n
  <2>1. n \in Nat /\ n <= s.accumNBits /\ pulled = InPull(s, n)
    BY <1>1, <1>5
  <2> HIDE DEF pulled
  <2>3. Faithful(s, all) /\ Sound(s, buf) /\ all \in Seq(Bit)
    BY <1>0, <1>3
  <2>2. PulledFrom(s, all, n, pulled)
    BY <2>1, <2>3, PullValue
  <2> QED
    BY <1>5, <2>2 DEF PulledFrom
<1>7. Value(all, start, n) = Value(q.bits, Len(p.bits), n)
  <2>1. Len(p.bits) + n <= Len(q.bits)
    <3> HIDE DEF n
    <3> QED
      BY <1>1, <1>2
  <2> DEFINE bits == q.bits
             from == Len(p.bits)
  <2>2. bits \in Seq(Bit) /\ Holds(all, pre, bits) /\ from \in Nat /\ from + n <= Len(bits)
    BY <1>1, <1>2, <1>3, <2>1
  <2> HIDE DEF bits, from, n
  <2>3. Value(all, pre + from, n) = Value(bits, from, n)
    BY <1>1, <1>2, <2>2, HeldValue
  <2> QED
    BY <2>3 DEF bits, from
<1>8. t.stream = pulled.stream /\ t.state = Decode(e, pulled.b).state /\ t.value = Decode(e, pulled.b).value
  BY <1>0, Zenon DEF Take, e
<1>9. Holds(all, pre, p.bits)
  <2> SUFFICES ASSUME NEW i \in 1 .. Len(p.bits) PROVE BitOf(all, pre + i) = p.bits[i]
    BY DEF Holds
  <2>1. i \in 1 .. Len(q.bits)
    <3> HIDE DEF n
    <3> QED
      BY <1>1, <1>2
  <2> QED
    BY <1>1, <1>3, <2>1 DEF Holds
<1> QED
  BY <1>1, <1>6, <1>7, <1>8, <1>9 DEF At

-----------------------------------------------------------------------------
(***************************************************************************)
(* The values of a source have symbols that their coders can send.         *)
(***************************************************************************)
LEMMA LastSymbol ==
    ASSUME NEW c \in Range(Coders), NEW v \in Nat, Base[c][0] = 0, NEW last, last = NSym(c) - 1,
           v < Base[c][last] + 2^Extra[c][last]
    PROVE  v - Base[c][Symbol(c, v)] \in 0 .. 2^Extra[c][Symbol(c, v)] - 1
<1> DEFINE sym == Symbol(c, v)
           T == {0} \cup {s \in DOMAIN Base[c] : Base[c][s] <= v}
<1>1. /\ NSym(c) \in Nat \ {0} /\ DOMAIN Base[c] = 0 .. last /\ last \in Nat
      /\ \A s \in 0 .. last : Base[c][s] \in Nat /\ Extra[c][s] \in 0 .. PrecisionBits
  <2>1. PICK r \in 0 .. PrecisionBits - 1 : CoderIs(c, r)
    BY CoderFacts
  <2>2. /\ NSym(c) \in 1 .. NStates[c] /\ NStates[c] \in Nat \ {0} /\ DOMAIN Base[c] = Before(NSym(c))
        /\ Base[c] \in [Before(NSym(c)) -> Nat]
        /\ \A s \in Before(NSym(c)) : Extra[c][s] \in 0 .. PrecisionBits
    BY <2>1 DEF CoderIs
  <2>3. Before(NSym(c)) = 0 .. last
    BY DEF Before
  <2> QED
    BY <2>2, <2>3
<1>2. T \subseteq 0 .. last /\ T # {}
  BY <1>1
<1>3. sym = Max(T)
  BY DEF Symbol, SymbolOf
<1>4. Max(T) \in T /\ \A y \in T : Max(T) >= y
  <2> HIDE DEF T
  <2> QED
    BY <1>1, <1>2, MaxIs
<1> HIDE DEF sym
<1>5. sym \in 0 .. last /\ Base[c][sym] <= v
  <2>1. sym \in T
    BY <1>3, <1>4
  <2> QED
    BY <1>1, <2>1
<1>6. v < Base[c][sym] + 2^Extra[c][sym]
  <2>1. CASE sym = last
    BY <2>1
  <2>2. CASE sym # last
    <3>1. sym + 1 \in 0 .. last /\ sym \in DOMAIN Base[c] /\ sym + 1 \in DOMAIN Base[c]
      BY <1>1, <1>5, <2>2
    <3>2. ~ (Base[c][sym + 1] <= v)
      <4>1. sym + 1 \notin T
        <5> HIDE DEF T
        <5>1. sym + 1 \in T => sym >= sym + 1
          BY <1>3, <1>4
        <5> QED
          BY <1>1, <1>5, <5>1
      <4> QED
        BY <3>1, <4>1
    <3>3. Base[c][sym + 1] = Base[c][sym] + 2^Extra[c][sym]
      BY <3>1, EntropyAssumption
    <3> QED
      BY <1>1, <3>1, <3>2, <3>3
  <2> QED
    BY <2>1, <2>2
<1>7. 2^Extra[c][sym] \in Nat \ {0} /\ Base[c][sym] \in Nat
  BY <1>1, <1>5, PowersOfTwo
<1> DEFINE b == Base[c][sym]
           x == 2^Extra[c][sym]
<1>8. b \in Nat /\ x \in Nat /\ b <= v /\ v < b + x
  BY <1>5, <1>6, <1>7
<1> HIDE DEF b, x
<1>9. v - b \in 0 .. x - 1
  BY <1>8
<1> QED
  BY <1>9 DEF b, x, sym

LEMMA LiteralSymbol ==
    ASSUME NEW v \in DOMAIN Base["lit"]
    PROVE  Symbol("lit", v) = v /\ Base["lit"][v] = v /\ Extra["lit"][v] = 0 /\ v \in Nat
<1> DEFINE k == NSym("lit") - 1
           T == {0} \cup {s \in DOMAIN Base["lit"] : Base["lit"][s] <= v}
<1>1. "lit" \in Range(Coders)
  BY TheCoders
<1>2. k \in Nat /\ DOMAIN Base["lit"] = 0 .. k
  BY <1>1, CoderFacts DEF CoderIs, Before
<1>3. \A s \in DOMAIN Base["lit"] : Base["lit"][s] = s /\ Extra["lit"][s] = 0
  BY FieldsAssumption
<1>4. v \in 0 .. k
  BY <1>2
<1>5. T = 0 .. v
  <2>1. \A s \in 0 .. k : s \in T <=> s <= v
    BY <1>2, <1>3, <1>4
  <2> QED
    BY <1>2, <1>4, <2>1
<1>6. Max(T) \in T /\ \A y \in T : Max(T) >= y
  <2> HIDE DEF T, k
  <2>1. T \subseteq 0 .. k /\ T # {}
    BY <1>2, <1>4, <1>5
  <2> QED
    BY <1>2, <2>1, MaxIs
<1>7. Max(T) = v
  <2> DEFINE m == Max(T)
  <2>1. m \in 0 .. v /\ m >= v
    BY <1>4, <1>5, <1>6
  <2> HIDE DEF m
  <2> QED
    BY <1>4, <2>1 DEF m
<1> QED
  BY <1>3, <1>4, <1>7 DEF Symbol, SymbolOf

\* Every value of a source can be sent with tables normalised for it.
LEMMA LiteralSendable ==
    ASSUME NEW src, IsSource(src), NEW freqs, Normalized(freqs, src), NEW i \in 1 .. Len(src.literals)
    PROVE  /\ Coded("lit", freqs["lit"]) /\ Sendable("lit", freqs["lit"], src.literals[i])
           /\ src.literals[i] \in DOMAIN Base["lit"]
<1> DEFINE f == freqs["lit"]
           v == src.literals[i]
<1>1. "lit" \in Range(Coders)
  BY TheCoders
<1>2. Symbols("lit", src) = src.literals
  BY DEF Symbols
<1>3. src.literals \in Seq(DOMAIN Base["lit"])
  BY DEF IsSource
<1>4. v \in DOMAIN Base["lit"] /\ i \in DOMAIN src.literals
  BY <1>3
<1>5. /\ f \in [Before(NSym("lit")) -> Nat] /\ Total(f) = NStates["lit"]
      /\ \A j \in DOMAIN Symbols("lit", src) : f[Symbols("lit", src)[j]] > 0
  BY <1>1, NormalizedFor
<1>6. f[v] > 0
  BY <1>2, <1>4, <1>5
<1> HIDE DEF f, v
<1>7. Symbol("lit", v) = v /\ Base["lit"][v] = v /\ Extra["lit"][v] = 0 /\ v \in Nat
  BY <1>4, LiteralSymbol
<1>8. v - v \in 0 .. 2^0 - 1
  BY <1>7, PowersOfTwo
<1>9. Sendable("lit", f, v)
  BY <1>6, <1>7, <1>8 DEF Sendable
<1> QED
  BY <1>1, <1>4, <1>5, <1>9 DEF Coded, f, v

LEMMA ValueSendable ==
    ASSUME NEW src, IsSource(src), WithinLimits(src), NEW freqs, Normalized(freqs, src),
           NEW c \in LMD, NEW i \in 1 .. Len(src.records)
    PROVE  Coded(c, freqs[c]) /\ Sendable(c, freqs[c], src.records[i][c])
<1> DEFINE f == freqs[c]
           v == src.records[i][c]
           last == NSym(c) - 1
<1>1. c \in Range(Coders) /\ c # "lit"
  BY TheCoders DEF LMD
<1>2. Symbols(c, src) = [j \in 1 .. Len(src.records) |-> SymbolOf(src.records[j][c], Base[c])]
  BY <1>1 DEF Symbols
<1>3. i \in DOMAIN Symbols(c, src) /\ Symbols(c, src)[i] = Symbol(c, v)
  BY <1>2 DEF Symbol
<1>4. /\ f \in [Before(NSym(c)) -> Nat] /\ Total(f) = NStates[c]
      /\ \A j \in DOMAIN Symbols(c, src) : f[Symbols(c, src)[j]] > 0
  BY <1>1, NormalizedFor
<1>5. src.records \in Seq([LMD -> Nat])
  BY DEF IsSource
<1>6. v \in Nat /\ i \in DOMAIN src.records
  BY <1>5
<1>7. v < Base[c][last] + 2^Extra[c][last]
  BY <1>6 DEF WithinLimits
<1>8. Base[c][0] = 0
  BY FieldsAssumption
<1> HIDE DEF v, last
<1>9. v - Base[c][Symbol(c, v)] \in 0 .. 2^Extra[c][Symbol(c, v)] - 1
  BY <1>1, <1>6, <1>7, <1>8, LastSymbol DEF last
<1>10. f[Symbol(c, v)] > 0
  BY <1>3, <1>4
<1>11. Sendable(c, f, v)
  BY <1>6, <1>9, <1>10 DEF Sendable
<1> QED
  BY <1>1, <1>4, <1>11 DEF Coded, v

-----------------------------------------------------------------------------
(***************************************************************************)
(* What the encoder writes, value by value: trace[i] is its bits and its   *)
(* states when the values after i are written.                             *)
(***************************************************************************)
FreqsOf(src) == [c \in Range(Coders) |-> NormalizeFreq(Counts(c, src), NStates[c])]

LaneOf(i) == ((i - 1) % Lanes) + 1

LitTraced(src, trace, left) ==
    LET n == Len(src.literals)
    IN  /\ trace[n].bits = << >> /\ trace[n].states = Zeros
        /\ \A i \in left .. n : trace[i].bits \in Seq(Bit) /\ trace[i].states \in LitStates
        /\ \A i \in left + 1 .. n :
             Wrote(FreqsOf(src)["lit"], "lit", LaneOf(i), src.literals[i], trace[i], trace[i - 1])

\* A record is written from its D to its L.
RecWrote(freqs, r, p, q) ==
    \E a, b : /\ Wrote(freqs["d"], "d", "d", r.d, p, a) /\ Wrote(freqs["m"], "m", "m", r.m, a, b)
              /\ Wrote(freqs["l"], "l", "l", r.l, b, q)


RecTraced(src, trace, left) ==
    LET n == Len(src.records)
    IN  /\ trace[n].bits = << >> /\ trace[n].states = [c \in LMD |-> 0]
        /\ \A i \in left .. n : trace[i].bits \in Seq(Bit) /\ trace[i].states \in LMDStates
        /\ \A i \in left + 1 .. n : RecWrote(FreqsOf(src), src.records[i], trace[i], trace[i - 1])

LEMMA FreqsOfAre ==
    ASSUME NEW src, IsSource(src)
    PROVE  Normalized(FreqsOf(src), src)
BY NormalizedAre DEF FreqsOf

\* Nothing is pushed for no bits.
LEMMA PushNone ==
    ASSUME NEW bits \in Seq(Bit), NEW v
    PROVE  Push(bits, 0, v) = bits
<1>1. LowBits(0, v) = << >>
  <2>1. 1 .. 0 = {}
    OBVIOUS
  <2> QED
    BY <2>1 DEF LowBits
<1> QED
  BY <1>1 DEF Push

LEMMA LiteralPut ==
    ASSUME NEW src, IsSource(src), block.freqs = FreqsOf(src), NEW i \in 1 .. Len(src.literals),
           NEW e \in Encoders(LitStates), NEW k \in 1 .. Lanes,
           NEW t, t = PutLiteral(e, k, src.literals[i])
    PROVE  Wrote(FreqsOf(src)["lit"], "lit", k, src.literals[i], e, t)
<1> DEFINE v == src.literals[i]
           f == FreqsOf(src)["lit"]
           w == Encode(EncoderTable(f, NStates["lit"])[v], e.states[k])
<1>1. v \in DOMAIN Base["lit"]
  <2>1. Normalized(FreqsOf(src), src)
    BY FreqsOfAre
  <2> QED
    BY <2>1, LiteralSendable
<1> HIDE DEF v
<1>2. Symbol("lit", v) = v /\ Base["lit"][v] = v /\ Extra["lit"][v] = 0 /\ v \in Nat
  BY <1>1, LiteralSymbol
<1>3. t = [e EXCEPT !.bits = Push(@, w.nbits, w.b), !.states[k] = w.state]
  BY DEF PutLiteral, v
<1> HIDE DEF w
<1>4. e.bits \in Seq(Bit) /\ t.bits = Push(e.bits, w.nbits, w.b) /\ t.states = [e.states EXCEPT ![k] = w.state]
  BY <1>3 DEF Encoders
<1>5. Push(e.bits, Extra["lit"][v], v - Base["lit"][v]) = e.bits
  BY <1>2, <1>4, PushNone
<1>6. Wrote(f, "lit", k, v, e, t)
  <2> HIDE DEF f
  <2> QED
    BY <1>2, <1>4, <1>5 DEF Wrote, w
<1> QED
  BY <1>6 DEF v

LEMMA ValuePut ==
    ASSUME NEW freqs, block.freqs = freqs, NEW c \in LMD, NEW e \in Encoders(LMDStates), NEW v,
           NEW t, t = PutValue(e, c, v)
    PROVE  Wrote(freqs[c], c, c, v, e, t)
<1> DEFINE sym == SymbolOf(v, Base[c])
           w == Encode(EncoderTable(freqs[c], NStates[c])[sym], e.states[c])
           u == v - Base[c][sym]
           x == Extra[c][sym]
<1>1. t = [e EXCEPT !.bits = Push(Push(@, x, u), w.nbits, w.b), !.states[c] = w.state]
  BY DEF PutValue
<1> HIDE DEF w, u, x
<1>2. t.bits = Push(Push(e.bits, x, u), w.nbits, w.b) /\ t.states = [e.states EXCEPT ![c] = w.state]
  BY <1>1 DEF Encoders
<1> QED
  BY <1>2 DEF Wrote, Symbol, w, u, x

LEMMA LaneIs ==
    ASSUME NEW left \in Nat, left % Lanes = 0, NEW j \in 1 .. Lanes, Lanes <= left
    PROVE  LaneOf(left - j + 1) = Lanes - j + 1
<1>1. Lanes \in Nat \ {0}
  BY EntropyAssumption
<1> DEFINE q == left \div Lanes
           p == q - 1
<1>2. q \in Nat /\ left = q * Lanes + (left % Lanes)
  BY <1>1, Division
<1> HIDE DEF q
<1>3. q # 0 /\ left = q * Lanes
  BY <1>1, <1>2
<1>4. p \in Nat /\ q = p + 1
  BY <1>2, <1>3
<1> HIDE DEF p
<1>5. left = p * Lanes + Lanes /\ p * Lanes \in Nat
  BY <1>1, <1>3, <1>4
<1> DEFINE x == p * Lanes
           r == Lanes - j
<1>6. r \in 0 .. Lanes - 1 /\ x \in Nat /\ left = x + Lanes
  BY <1>1, <1>5
<1>7. (x + r) % Lanes = r
  <2> HIDE DEF r
  <2> QED
    BY <1>1, <1>4, <1>6, Quotient
<1>8. (left - j + 1) - 1 = x + r /\ r + 1 = Lanes - j + 1
  <2> HIDE DEF x
  <2> QED
    BY <1>1, <1>6
<1> HIDE DEF x, r
<1> QED
  BY <1>7, <1>8 DEF LaneOf

\* A group of literals put adds a lane's worth of steps to the trace.
LEMMA GroupTraced ==
    ASSUME NEW src, IsSource(src), block.source = src, block.freqs = FreqsOf(src),
           enc \in Encoders(LitStates), enc.left % Lanes = 0, Lanes <= enc.left,
           enc.left <= Len(src.literals), NEW trace, LitTraced(src, trace, enc.left),
           enc.bits = trace[enc.left].bits, enc.states = trace[enc.left].states,
           NEW put, put[0] = enc, \A j \in 1 .. Lanes : PutOne(put, j),
           put[Lanes] \in Encoders(LitStates)
    PROVE  \E more : /\ LitTraced(src, more, enc.left - Lanes)
                     /\ put[Lanes].bits = more[enc.left - Lanes].bits
                     /\ put[Lanes].states = more[enc.left - Lanes].states
<1> DEFINE left == enc.left
           n == Len(src.literals)
           f == FreqsOf(src)["lit"]
           more == [i \in left - Lanes .. n |-> IF i < left THEN put[left - i] ELSE trace[i]]
<1>1. /\ left \in Nat /\ n \in Nat /\ Lanes \in Nat \ {0} /\ left - Lanes \in Nat /\ left <= n
      /\ left - Lanes <= n
  <2>1. left \in Nat
    BY DEF Encoders
  <2>2. n \in Nat
    BY DEF IsSource
  <2>3. Lanes \in Nat \ {0}
    BY EntropyAssumption
  <2> HIDE DEF n
  <2> QED
    BY <2>1, <2>2, <2>3 DEF n
<1>2. /\ \A i \in left .. n : more[i] = trace[i]
      /\ \A i \in left - Lanes .. left - 1 : more[i] = put[left - i]
  <2> HIDE DEF left, n
  <2> QED
    BY <1>1
<1>3. /\ trace[n].bits = << >> /\ trace[n].states = Zeros
      /\ \A i \in left .. n : trace[i].bits \in Seq(Bit) /\ trace[i].states \in LitStates
      /\ \A i \in left + 1 .. n :
           Wrote(f, "lit", LaneOf(i), src.literals[i], trace[i], trace[i - 1])
  BY DEF LitTraced
<1>4. \A j \in 0 .. Lanes : put[j].bits \in Seq(Bit) /\ put[j].states \in LitStates
  <2> SUFFICES ASSUME NEW j \in 0 .. Lanes PROVE put[j] \in Encoders(LitStates)
    BY DEF Encoders
  <2>1. CASE j = Lanes
    BY <2>1
  <2>2. CASE j # Lanes
    <3>1. j + 1 \in 1 .. Lanes /\ (j + 1) - 1 = j
      BY <1>1, <2>2
    <3> QED
      BY <3>1 DEF PutOne
  <2> QED
    BY <2>1, <2>2
<1>5. put[0].bits = trace[left].bits /\ put[0].states = trace[left].states
  OBVIOUS
<1>6. ASSUME NEW j \in 1 .. Lanes
      PROVE  Wrote(f, "lit", LaneOf(left - j + 1), src.literals[left - j + 1], put[j - 1], put[j])
  <2> DEFINE i == left - j + 1
             k == Lanes - j + 1
  <2>1. i \in 1 .. n /\ k \in 1 .. Lanes
    <3> HIDE DEF left, n
    <3> QED
      BY <1>1
  <2>2. put[j - 1] \in Encoders(LitStates) /\ put[j] = PutLiteral(put[j - 1], k, src.literals[i])
    BY DEF PutOne
  <2>3. LaneOf(i) = k
    BY <1>1, LaneIs
  <2> HIDE DEF i, k, f
  <2>4. Wrote(f, "lit", k, src.literals[i], put[j - 1], put[j])
    BY <2>1, <2>2, LiteralPut DEF f, n
  <2> QED
    BY <2>3, <2>4 DEF i
<1> HIDE DEF more, left, n, f
<1>7. more[n].bits = << >> /\ more[n].states = Zeros
  BY <1>1, <1>2, <1>3
<1>8. ASSUME NEW i \in left - Lanes .. n
      PROVE  more[i].bits \in Seq(Bit) /\ more[i].states \in LitStates
  <2>1. CASE i >= left
    BY <1>1, <1>2, <1>3, <2>1
  <2>2. CASE i < left
    <3>1. i \in left - Lanes .. left - 1 /\ left - i \in 0 .. Lanes
      BY <1>1, <2>2
    <3> QED
      BY <1>2, <1>4, <3>1
  <2> QED
    BY <1>1, <2>1, <2>2
<1>9. ASSUME NEW i \in (left - Lanes) + 1 .. n
      PROVE  Wrote(f, "lit", LaneOf(i), src.literals[i], more[i], more[i - 1])
  <2>1. CASE i > left
    <3>1. i \in left + 1 .. n /\ i \in left .. n /\ i - 1 \in left .. n
      BY <1>1, <2>1
    <3> QED
      BY <1>2, <1>3, <3>1
  <2>2. CASE i <= left
    <3> DEFINE j == left - i + 1
    <3>1. j \in 1 .. Lanes /\ left - j + 1 = i /\ i - 1 \in left - Lanes .. left - 1 /\ left - (i - 1) = j
      BY <1>1, <2>2
    <3>2. more[i - 1] = put[j]
      BY <1>2, <3>1
    <3>3. more[i].bits = put[j - 1].bits /\ more[i].states = put[j - 1].states
      <4>1. CASE i = left
        <5>1. j - 1 = 0 /\ i \in left .. n
          BY <1>1, <4>1
        <5> QED
          BY <1>2, <1>5, <4>1, <5>1
      <4>2. CASE i # left
        <5>1. i \in left - Lanes .. left - 1 /\ left - i = j - 1
          BY <1>1, <2>2, <4>2
        <5> QED
          BY <1>2, <5>1
      <4> QED
        BY <4>1, <4>2
    <3> HIDE DEF j
    <3>4. Wrote(f, "lit", LaneOf(i), src.literals[i], put[j - 1], put[j])
      BY <1>6, <3>1
    <3> QED
      BY <3>2, <3>3, <3>4 DEF Wrote
  <2> QED
    BY <1>1, <2>1, <2>2
<1>10. LitTraced(src, more, left - Lanes)
  BY <1>7, <1>8, <1>9 DEF LitTraced, n, f
<1>11. put[Lanes] = more[left - Lanes]
  <2>1. left - Lanes \in left - Lanes .. left - 1 /\ left - (left - Lanes) = Lanes
    BY <1>1
  <2> QED
    BY <1>2, <2>1
<1> QED
  BY <1>10, <1>11 DEF left

\* A record written adds a step to the trace.
LEMMA RecordPut ==
    ASSUME NEW src, IsSource(src), WithinLimits(src), block.freqs = FreqsOf(src),
           NEW i \in 1 .. Len(src.records), NEW e \in Encoders(LMDStates), NEW r, r = src.records[i],
           NEW t, t = PutValue(PutValue(PutValue(e, "d", r.d), "m", r.m), "l", r.l)
    PROVE  t \in Encoders(LMDStates) /\ t.left = e.left /\ RecWrote(FreqsOf(src), r, e, t)
<1> DEFINE a == PutValue(e, "d", r.d)
           b == PutValue(a, "m", r.m)
           freqs == FreqsOf(src)
<1>1. Normalized(freqs, src)
  BY FreqsOfAre
<1> HIDE DEF freqs
<1>2. ASSUME NEW c \in LMD, NEW x \in Encoders(LMDStates)
      PROVE  /\ PutValue(x, c, r[c]) \in Encoders(LMDStates) /\ PutValue(x, c, r[c]).left = x.left
             /\ Wrote(freqs[c], c, c, r[c], x, PutValue(x, c, r[c]))
  <2>1. Coded(c, freqs[c]) /\ Sendable(c, freqs[c], r[c])
    BY <1>1, ValueSendable
  <2>2. freqs[c] \in [Before(NSym(c)) -> Nat] /\ Total(freqs[c]) = NStates[c]
    BY <2>1 DEF Coded
  <2>3. r[c] \in Nat /\ freqs[c][SymbolOf(r[c], Base[c])] > 0
    BY <2>1 DEF Sendable, Symbol
  <2>4. block.freqs = freqs
    BY DEF freqs
  <2> DEFINE v == r[c]
             y == PutValue(x, c, v)
  <2>5. v \in Nat /\ freqs[c][SymbolOf(v, Base[c])] > 0
    BY <2>3
  <2>6. y = PutValue(x, c, v)
    OBVIOUS
  <2> HIDE DEF v, y
  <2>7. y \in Encoders(LMDStates) /\ y.left = x.left
    BY <2>2, <2>4, <2>5, <2>6, PutValueIs
  <2>8. Wrote(freqs[c], c, c, v, x, y)
    BY <2>4, <2>6, ValuePut
  <2> QED
    BY <2>7, <2>8 DEF v, y
<1>3. "l" \in LMD /\ "m" \in LMD /\ "d" \in LMD
  BY DEF LMD
<1>4. r["l"] = r.l /\ r["m"] = r.m /\ r["d"] = r.d /\ freqs["l"] = freqs.l
  OBVIOUS
<1>5. a \in Encoders(LMDStates) /\ a.left = e.left /\ Wrote(freqs["d"], "d", "d", r.d, e, a)
  BY <1>2, <1>3
<1>6. a \in Encoders(LMDStates)
  BY <1>5
<1> HIDE DEF a
<1>7. b \in Encoders(LMDStates) /\ b.left = a.left /\ Wrote(freqs["m"], "m", "m", r.m, a, b)
  BY <1>2, <1>3, <1>6
<1>8. b \in Encoders(LMDStates) /\ t = PutValue(b, "l", r.l)
  BY <1>7 DEF a
<1> HIDE DEF b
<1>9. t \in Encoders(LMDStates) /\ t.left = b.left /\ Wrote(freqs["l"], "l", "l", r.l, b, t)
  BY <1>2, <1>3, <1>8, ZenonT(60)
<1>10. RecWrote(freqs, r, e, t)
  BY <1>5, <1>7, <1>9 DEF RecWrote
<1> QED
  BY <1>5, <1>7, <1>9, <1>10 DEF freqs

LEMMA RecordTraced ==
    ASSUME NEW src, IsSource(src), NEW left \in 1 .. Len(src.records), NEW trace, RecTraced(src, trace, left),
           NEW e, e.bits = trace[left].bits, e.states = trace[left].states,
           NEW t \in Encoders(LMDStates), RecWrote(FreqsOf(src), src.records[left], e, t)
    PROVE  \E more : /\ RecTraced(src, more, left - 1)
                     /\ t.bits = more[left - 1].bits /\ t.states = more[left - 1].states
<1> DEFINE n == Len(src.records)
           freqs == FreqsOf(src)
           more == [i \in left - 1 .. n |-> IF i < left THEN t ELSE trace[i]]
<1>1. n \in Nat /\ left \in 1 .. n
  BY DEF IsSource
<1>2. more[left - 1] = t /\ \A i \in left .. n : more[i] = trace[i]
  <2> HIDE DEF n
  <2> QED
    BY <1>1
<1>3. /\ trace[n].bits = << >> /\ trace[n].states = [c \in LMD |-> 0]
      /\ \A i \in left .. n : trace[i].bits \in Seq(Bit) /\ trace[i].states \in LMDStates
      /\ \A i \in left + 1 .. n : RecWrote(freqs, src.records[i], trace[i], trace[i - 1])
  BY DEF RecTraced
<1>4. t.bits \in Seq(Bit) /\ t.states \in LMDStates
  BY DEF Encoders
<1> HIDE DEF more, n, freqs
<1>5. more[n].bits = << >> /\ more[n].states = [c \in LMD |-> 0]
  BY <1>1, <1>2, <1>3
<1>6. ASSUME NEW i \in left - 1 .. n
      PROVE  more[i].bits \in Seq(Bit) /\ more[i].states \in LMDStates
  <2>1. CASE i = left - 1
    BY <1>2, <1>4, <2>1
  <2>2. CASE i # left - 1
    <3>1. i \in left .. n
      BY <1>1, <2>2
    <3> QED
      BY <1>2, <1>3, <3>1
  <2> QED
    BY <2>1, <2>2
<1>7. ASSUME NEW i \in (left - 1) + 1 .. n
      PROVE  RecWrote(freqs, src.records[i], more[i], more[i - 1])
  <2>1. CASE i = left
    <3>1. more[i].bits = e.bits /\ more[i].states = e.states /\ more[i - 1] = t
      BY <1>1, <1>2, <2>1
    <3>2. RecWrote(freqs, src.records[i], e, t)
      BY <2>1 DEF freqs
    <3> DEFINE r == src.records[i]
    <3>3. PICK a, b : /\ Wrote(freqs["d"], "d", "d", r.d, e, a) /\ Wrote(freqs["m"], "m", "m", r.m, a, b)
                      /\ Wrote(freqs["l"], "l", "l", r.l, b, t)
      BY <3>2 DEF RecWrote
    <3> HIDE DEF r
    <3>4. Wrote(freqs["d"], "d", "d", r.d, more[i], a)
      BY <3>1, <3>3 DEF Wrote
    <3>5. RecWrote(freqs, r, more[i], t)
      BY <3>3, <3>4 DEF RecWrote
    <3> QED
      BY <3>1, <3>5 DEF r
  <2>2. CASE i # left
    <3>1. i \in left + 1 .. n /\ i \in left .. n /\ i - 1 \in left .. n
      BY <1>1, <2>2
    <3> QED
      BY <1>2, <1>3, <3>1
  <2> QED
    BY <2>1, <2>2
<1>8. RecTraced(src, more, left - 1)
  BY <1>5, <1>6, <1>7 DEF RecTraced, n, freqs
<1> QED
  BY <1>2, <1>8

\* What one step of a trace leaves alone, and how many bits it adds at most.
StepsTo(p, q, c, k) ==
    /\ Stands(p, c, k) /\ Stands(q, c, k) /\ DOMAIN q.states = DOMAIN p.states
    /\ Len(q.bits) <= Len(p.bits) + MaxBits(c)
    /\ \A x \in DOMAIN p.states : x # k => q.states[x] = p.states[x]

LEMMA WroteSteps ==
    ASSUME NEW c, NEW f, Coded(c, f), NEW v, Sendable(c, f, v), NEW k, NEW p, Stands(p, c, k),
           NEW q, Wrote(f, c, k, v, p, q)
    PROVE  StepsTo(p, q, c, k)
<1> DEFINE old == ZeroTable(NStates[c])
           e == DecoderTable(f, NStates[c], Extra[c], Base[c], old)[q.states[k]]
<1>1. e = DecoderTable(f, NStates[c], Extra[c], Base[c], old)[q.states[k]]
  OBVIOUS
<1> HIDE DEF e, old
<1>2. WroteSo(c, k, v, p, q, e)
  BY <1>1, WroteIs
<1>3. p.bits \in Seq(Bit) /\ k \in DOMAIN p.states
  BY DEF Stands
<1>4. MaxBits(c) \in Nat
  BY MaxBitsFit DEF Coded
<1>5. Stands(q, c, k) /\ DOMAIN q.states = DOMAIN p.states
  BY <1>2, <1>3 DEF WroteSo, Stands
<1>6. Len(q.bits) <= Len(p.bits) + MaxBits(c)
  <2>1. Len(q.bits) = Len(p.bits) + e.totalBits /\ e.totalBits \in Nat /\ e.totalBits <= MaxBits(c)
    BY <1>2 DEF WroteSo
  <2>2. Len(p.bits) \in Nat
    BY <1>3
  <2> QED
    BY <1>4, <2>1, <2>2
<1>7. \A x \in DOMAIN p.states : x # k => q.states[x] = p.states[x]
  BY <1>2 DEF WroteSo
<1> QED
  BY <1>5, <1>6, <1>7 DEF StepsTo

RecordBits == MaxBits("l") + MaxBits("m") + MaxBits("d")

\* The three steps of a record.
RecChain(freqs, r, p, a, b, q) ==
    /\ Wrote(freqs["d"], "d", "d", r.d, p, a) /\ StepsTo(p, a, "d", "d")
    /\ Wrote(freqs["m"], "m", "m", r.m, a, b) /\ StepsTo(a, b, "m", "m")
    /\ Wrote(freqs["l"], "l", "l", r.l, b, q) /\ StepsTo(b, q, "l", "l")
    /\ DOMAIN p.states = LMD

LEMMA RecChained ==
    ASSUME NEW src, IsSource(src), WithinLimits(src), NEW i \in 1 .. Len(src.records),
           NEW r, r = src.records[i], NEW p, p.bits \in Seq(Bit), p.states \in LMDStates,
           NEW q, RecWrote(FreqsOf(src), r, p, q)
    PROVE  \E a, b : RecChain(FreqsOf(src), r, p, a, b, q)
<1> DEFINE freqs == FreqsOf(src)
<1>1. Normalized(freqs, src)
  BY FreqsOfAre
<1>2. PICK a, b : /\ Wrote(freqs["d"], "d", "d", r.d, p, a) /\ Wrote(freqs["m"], "m", "m", r.m, a, b)
                  /\ Wrote(freqs["l"], "l", "l", r.l, b, q)
  BY DEF RecWrote
<1> HIDE DEF freqs
<1>3. \A c \in LMD : Coded(c, freqs[c]) /\ Sendable(c, freqs[c], r[c])
  BY <1>1, ValueSendable
<1>4. "l" \in LMD /\ "m" \in LMD /\ "d" \in LMD
  BY DEF LMD
<1>5. DOMAIN p.states = LMD /\ \A c \in LMD : Stands(p, c, c)
  BY DEF Stands, LMDStates
<1>6. StepsTo(p, a, "d", "d")
  BY <1>2, <1>3, <1>4, <1>5, WroteSteps
<1>7. StepsTo(a, b, "m", "m")
  <2>1. Stands(a, "m", "m")
    BY <1>4, <1>5, <1>6 DEF StepsTo, Stands
  <2> QED
    BY <1>2, <1>3, <1>4, <2>1, WroteSteps
<1>8. StepsTo(b, q, "l", "l")
  <2>1. Stands(b, "l", "l")
    BY <1>4, <1>5, <1>6, <1>7 DEF StepsTo, Stands
  <2> QED
    BY <1>2, <1>3, <1>4, <2>1, WroteSteps
<1>9. RecChain(freqs, r, p, a, b, q)
  BY <1>2, <1>5, <1>6, <1>7, <1>8 DEF RecChain
<1> QED
  BY <1>9 DEF freqs

LEMMA LaneOfIs ==
    ASSUME NEW i \in Nat \ {0}
    PROVE  LaneOf(i) \in 1 .. Lanes
<1>1. i - 1 \in Nat /\ Lanes \in Nat \ {0}
  BY EntropyAssumption
<1>2. (i - 1) % Lanes \in 0 .. Lanes - 1
  BY <1>1, Division
<1> QED
  BY <1>1, <1>2 DEF LaneOf

LEMMA LitStep ==
    ASSUME NEW src, IsSource(src), NEW trace, LitTraced(src, trace, 0), NEW i \in 1 .. Len(src.literals)
    PROVE  StepsTo(trace[i], trace[i - 1], "lit", LaneOf(i))
<1> DEFINE n == Len(src.literals)
           f == FreqsOf(src)["lit"]
<1>1. n \in Nat
  BY DEF IsSource
<1>2. /\ \A j \in 0 .. n : trace[j].bits \in Seq(Bit) /\ trace[j].states \in LitStates
      /\ \A j \in 0 + 1 .. n :
           Wrote(f, "lit", LaneOf(j), src.literals[j], trace[j], trace[j - 1])
  BY DEF LitTraced
<1>3. Normalized(FreqsOf(src), src)
  BY FreqsOfAre
<1> HIDE DEF f
<1>4. Coded("lit", f) /\ Sendable("lit", f, src.literals[i])
  BY <1>3, LiteralSendable DEF f
<1>5. i \in 0 .. n /\ i \in 0 + 1 .. n
  BY <1>1
<1>6. LaneOf(i) \in 1 .. Lanes
  BY <1>1, LaneOfIs
<1>7. Stands(trace[i], "lit", LaneOf(i))
  BY <1>2, <1>5, <1>6 DEF Stands, LitStates
<1> QED
  BY <1>2, <1>4, <1>5, <1>7, WroteSteps

\* So many bits are written at most.
LEMMA LitTraceBits ==
    ASSUME NEW src, IsSource(src), NEW trace, LitTraced(src, trace, 0)
    PROVE  trace[0].bits \in Seq(Bit) /\ Len(trace[0].bits) <= Len(src.literals) * MaxBits("lit")
<1> DEFINE n == Len(src.literals)
           w == MaxBits("lit")
           T == {k \in Nat : k <= n => Len(trace[n - k].bits) <= k * w}
<1>1. n \in Nat /\ w \in Nat
  <2>1. n \in Nat
    BY DEF IsSource
  <2>2. w \in Nat
    BY TheCoders, MaxBitsFit
  <2> QED
    BY <2>1, <2>2
<1>2. /\ trace[n].bits = << >>
      /\ \A i \in 0 .. n : trace[i].bits \in Seq(Bit) /\ trace[i].states \in LitStates
  BY DEF LitTraced
<1>3. \A i \in 1 .. n : StepsTo(trace[i], trace[i - 1], "lit", LaneOf(i))
  BY LitStep
<1> HIDE DEF n, w
<1>4. 0 \in T
  <2>1. Len(trace[n - 0].bits) = 0 /\ 0 * w = 0
    BY <1>1, <1>2
  <2> QED
    BY <2>1
<1>5. ASSUME NEW k \in Nat, k \in T PROVE k + 1 \in T
  <2> SUFFICES ASSUME k + 1 <= n PROVE Len(trace[n - (k + 1)].bits) <= (k + 1) * w
    OBVIOUS
  <2> DEFINE i == n - k
  <2>1. i \in 1 .. n /\ n - (k + 1) = i - 1 /\ k <= n
    BY <1>1
  <2>2. Len(trace[i].bits) <= k * w
    BY <1>5, <2>1
  <2> HIDE DEF i
  <2>3. Len(trace[i - 1].bits) <= Len(trace[i].bits) + w
    BY <1>3, <2>1 DEF StepsTo, w
  <2>4. Len(trace[i].bits) \in Nat /\ Len(trace[i - 1].bits) \in Nat
    <3>1. i \in 0 .. n /\ i - 1 \in 0 .. n
      BY <1>1, <2>1
    <3>2. trace[i].bits \in Seq(Bit) /\ trace[i - 1].bits \in Seq(Bit)
      BY <1>2, <3>1
    <3> QED
      BY <3>2
  <2>5. (k + 1) * w = k * w + w /\ k * w \in Nat
    BY <1>1
  <2> DEFINE x == k * w
  <2> HIDE DEF x
  <2>6. Len(trace[i].bits) <= x /\ (k + 1) * w = x + w /\ x \in Nat
    BY <2>2, <2>5 DEF x
  <2>7. Len(trace[i - 1].bits) <= x + w
    BY <1>1, <2>3, <2>4, <2>6
  <2> QED
    BY <2>1, <2>6, <2>7
<1>6. n \in T
  <2> HIDE DEF T
  <2>1. Nat \subseteq T
    BY <1>4, <1>5, Induction
  <2> QED
    BY <1>1, <2>1
<1>7. n - n = 0 /\ n <= n /\ 0 \in 0 .. n
  BY <1>1
<1> QED
  BY <1>2, <1>6, <1>7 DEF n, w

LEMMA RecTraceBits ==
    ASSUME NEW src, IsSource(src), WithinLimits(src), NEW trace, RecTraced(src, trace, 0)
    PROVE  trace[0].bits \in Seq(Bit) /\ Len(trace[0].bits) <= Len(src.records) * RecordBits
<1> DEFINE n == Len(src.records)
           w == RecordBits
           freqs == FreqsOf(src)
           T == {k \in Nat : k <= n => Len(trace[n - k].bits) <= k * w}
<1>0. MaxBits("l") \in Nat /\ MaxBits("m") \in Nat /\ MaxBits("d") \in Nat
  BY TheCoders, MaxBitsFit
<1>1. n \in Nat /\ w \in Nat
  <2>1. n \in Nat
    BY DEF IsSource
  <2> QED
    BY <1>0, <2>1 DEF RecordBits
<1>2. /\ trace[n].bits = << >>
      /\ \A i \in 0 .. n : trace[i].bits \in Seq(Bit) /\ trace[i].states \in LMDStates
      /\ \A i \in 0 + 1 .. n : RecWrote(freqs, src.records[i], trace[i], trace[i - 1])
  BY DEF RecTraced
<1>3. ASSUME NEW i \in 1 .. n
      PROVE  Len(trace[i - 1].bits) <= Len(trace[i].bits) + w
  <2>1. i \in 0 .. n /\ i \in 0 + 1 .. n
    BY <1>1
  <2> DEFINE r == src.records[i]
             p == trace[i]
             q == trace[i - 1]
  <2>2. p.bits \in Seq(Bit) /\ p.states \in LMDStates /\ RecWrote(freqs, r, p, q)
    BY <1>2, <2>1
  <2>3. r = src.records[i]
    OBVIOUS
  <2> HIDE DEF p, q, r
  <2>4. PICK a, b : RecChain(FreqsOf(src), r, p, a, b, q)
    BY <2>2, <2>3, RecChained
  <2>5. /\ Len(a.bits) <= Len(p.bits) + MaxBits("d") /\ Len(b.bits) <= Len(a.bits) + MaxBits("m")
        /\ Len(q.bits) <= Len(b.bits) + MaxBits("l")
        /\ a.bits \in Seq(Bit) /\ b.bits \in Seq(Bit) /\ q.bits \in Seq(Bit)
    BY <2>4 DEF RecChain, StepsTo, Stands
  <2>6. Len(a.bits) \in Nat /\ Len(b.bits) \in Nat /\ Len(q.bits) \in Nat /\ Len(p.bits) \in Nat
    BY <2>2, <2>5
  <2> DEFINE x1 == MaxBits("l")
             x2 == MaxBits("m")
             x3 == MaxBits("d")
             lq == Len(q.bits)
             lb == Len(b.bits)
             la == Len(a.bits)
             lp == Len(p.bits)
  <2>7. /\ x1 \in Nat /\ x2 \in Nat /\ x3 \in Nat /\ lq \in Nat /\ lb \in Nat /\ la \in Nat /\ lp \in Nat
        /\ la <= lp + x3 /\ lb <= la + x2 /\ lq <= lb + x1
    BY <1>0, <2>5, <2>6
  <2> HIDE DEF x1, x2, x3, lq, lb, la, lp, w
  <2>8. lq <= lp + (x1 + x2 + x3)
    BY <2>7
  <2> QED
    BY <2>8 DEF p, q, w, x1, x2, x3, lq, lp, RecordBits
<1> HIDE DEF n, w, freqs
<1>4. 0 \in T
  <2>1. Len(trace[n - 0].bits) = 0 /\ 0 * w = 0
    BY <1>1, <1>2
  <2> QED
    BY <2>1
<1>5. ASSUME NEW k \in Nat, k \in T PROVE k + 1 \in T
  <2> SUFFICES ASSUME k + 1 <= n PROVE Len(trace[n - (k + 1)].bits) <= (k + 1) * w
    OBVIOUS
  <2> DEFINE i == n - k
  <2>1. i \in 1 .. n /\ n - (k + 1) = i - 1 /\ k <= n
    BY <1>1
  <2>2. Len(trace[i].bits) <= k * w
    BY <1>5, <2>1
  <2> HIDE DEF i
  <2>3. Len(trace[i - 1].bits) <= Len(trace[i].bits) + w
    BY <1>3, <2>1
  <2>4. Len(trace[i].bits) \in Nat /\ Len(trace[i - 1].bits) \in Nat
    <3>1. i \in 0 .. n /\ i - 1 \in 0 .. n
      BY <1>1, <2>1
    <3>2. trace[i].bits \in Seq(Bit) /\ trace[i - 1].bits \in Seq(Bit)
      BY <1>2, <3>1
    <3> QED
      BY <3>2
  <2>5. (k + 1) * w = k * w + w /\ k * w \in Nat
    BY <1>1
  <2> DEFINE x == k * w
  <2> HIDE DEF x
  <2>6. Len(trace[i].bits) <= x /\ (k + 1) * w = x + w /\ x \in Nat
    BY <2>2, <2>5 DEF x
  <2>7. Len(trace[i - 1].bits) <= x + w
    BY <1>1, <2>3, <2>4, <2>6
  <2> QED
    BY <2>1, <2>6, <2>7
<1>6. n \in T
  <2> HIDE DEF T
  <2>1. Nat \subseteq T
    BY <1>4, <1>5, Induction
  <2> QED
    BY <1>1, <2>1
<1>7. n - n = 0 /\ n <= n /\ 0 \in 0 .. n
  BY <1>1
<1> QED
  BY <1>2, <1>6, <1>7 DEF n, w

\* A stream just flushed has room for what is taken before the next flush.
LEMMA FlushedIs ==
    ASSUME NEW buf \in Seq(Byte), NEW s, Sound(s, buf), Ready(s, 0),
           NEW n \in Nat, n <= WordBits - ByteBits
    PROVE  Sound(InFlush(s, buf), buf) /\ Ready(InFlush(s, buf), n)
<1> DEFINE t == InFlush(s, buf)
           y == WordBits - ByteBits
<1>1. Sound(t, buf) /\ Ready(t, y)
  BY FlushKeeps
<1>2. t.accumNBits \in Int /\ y \in Nat /\ n <= y
  BY <1>1, SoundFields, WordIs
<1> HIDE DEF t, y
<1>3. Ready(t, n)
  BY <1>1, <1>2 DEF Ready
<1> QED
  BY <1>1, <1>3 DEF t

-----------------------------------------------------------------------------
(***************************************************************************)
(* What the decoder takes back, a group of literals or a record at a time. *)
(***************************************************************************)
LEMMA LaneAfter ==
    ASSUME NEW i \in Nat, i % Lanes = 0, NEW j \in 1 .. Lanes
    PROVE  LaneOf(i + j) = j
<1>1. Lanes \in Nat \ {0}
  BY EntropyAssumption
<1> DEFINE q == i \div Lanes
           r == j - 1
<1>2. q \in Nat /\ i = q * Lanes + (i % Lanes)
  BY <1>1, Division
<1> HIDE DEF q
<1> DEFINE x == q * Lanes
<1>3. i = x /\ x \in Nat /\ r \in 0 .. Lanes - 1
  BY <1>1, <1>2
<1>4. (x + r) % Lanes = r
  <2> HIDE DEF r
  <2> QED
    BY <1>1, <1>2, <1>3, Quotient
<1>5. (i + j) - 1 = x + r /\ r + 1 = j
  <2> HIDE DEF x
  <2> QED
    BY <1>1, <1>3
<1> HIDE DEF x, r
<1> QED
  BY <1>4, <1>5 DEF LaneOf

\* How far a group is when j of its literals are taken.
GroupAt(src, trace, all, pre, taken, i, j) ==
    /\ j > 0 => At(taken[j].stream, all, pre, trace[i + j])
    /\ \A k \in 1 .. j : taken[k].value = src.literals[i + k] /\ taken[k].state = trace[i + j].states[k]
    /\ \A k \in j + 1 .. Lanes : trace[i + j].states[k] = trace[i].states[k]

LEMMA GroupOneBack ==
    ASSUME NEW src, IsSource(src), NEW trace, LitTraced(src, trace, 0),
           NEW i \in Nat, i % Lanes = 0, i + Lanes <= Len(src.literals),
           NEW table, NEW old,
           table = DecoderTable(FreqsOf(src)["lit"], NStates["lit"], Extra["lit"], Base["lit"], old),
           NEW buf, NEW all \in Seq(Bit), NEW pre \in Nat, NEW s, At(s, all, pre, trace[i]),
           NEW taken, NEW j \in 1 .. Lanes,
           TakenOne(taken[j], IF j = 1 THEN s ELSE taken[j - 1].stream, table, trace[i].states[j], buf),
           GroupAt(src, trace, all, pre, taken, i, j - 1)
    PROVE  GroupAt(src, trace, all, pre, taken, i, j)
<1> DEFINE x == IF j = 1 THEN s ELSE taken[j - 1].stream
           n == Len(src.literals)
           at == i + j
           p == trace[at]
           q == trace[at - 1]
           v == src.literals[at]
           f == FreqsOf(src)["lit"]
           t == taken[j]
<1>1. Lanes \in Nat \ {0} /\ n \in Nat
  <2>1. Lanes \in Nat \ {0}
    BY EntropyAssumption
  <2> QED
    BY <2>1 DEF IsSource
<1>2. at \in 1 .. n /\ at - 1 = i + (j - 1) /\ at \in 0 + 1 .. n /\ at \in Nat
  <2> HIDE DEF n
  <2>1. i + Lanes <= n
    BY DEF n
  <2> QED
    BY <1>1, <2>1
<1>3. LaneOf(at) = j
  BY LaneAfter
<1>4. Wrote(f, "lit", j, v, p, q)
  <2> HIDE DEF at, f, v
  <2> QED
    BY <1>2, <1>3 DEF LitTraced, f, v
<1>5. StepsTo(p, q, "lit", j)
  <2> HIDE DEF at
  <2> QED
    BY <1>2, <1>3, LitStep
<1>6. Coded("lit", f) /\ Sendable("lit", f, v)
  <2>1. Normalized(FreqsOf(src), src)
    BY FreqsOfAre
  <2> HIDE DEF at, f
  <2> QED
    BY <1>2, <2>1, LiteralSendable DEF f
<1>7. q.states[j] = trace[i].states[j]
  <2>1. j \in (j - 1) + 1 .. Lanes
    BY <1>1
  <2> QED
    BY <1>2, <2>1 DEF GroupAt
<1>8. At(x, all, pre, q)
  <2>1. CASE j = 1
    <3>1. i + (j - 1) = i
      BY <2>1
    <3> QED
      BY <1>2, <2>1, <3>1
  <2>2. CASE j # 1
    <3>1. j - 1 > 0
      BY <1>1, <2>2
    <3> QED
      BY <1>2, <2>2, <3>1 DEF GroupAt
  <2> QED
    BY <2>1, <2>2
<1>9. PICK more \in Nat : Ready(x, MaxBits("lit") + more)
  BY DEF TakenOne
<1>10. t = Take(x, table, q.states[j]) /\ Sound(x, buf)
  BY <1>7 DEF TakenOne
<1>11. Stands(p, "lit", j)
  BY <1>5 DEF StepsTo
<1>12. table = DecoderTable(f, NStates["lit"], Extra["lit"], Base["lit"], old)
  OBVIOUS
<1> HIDE DEF x, at, p, q, v, f, t
<1>13. t.value = v /\ t.state = p.states[j] /\ At(t.stream, all, pre, p)
  <2>1. Coded("lit", f)
    BY <1>6
  <2>2. Sendable("lit", f, v)
    BY <1>6
  <2>3. t = Take(x, table, q.states[j])
    BY <1>10
  <2>4. Sound(x, buf)
    BY <1>10
  <2>5. Ready(x, MaxBits("lit") + more)
    BY <1>9
  <2>6. Takes("lit", f, v, j, p, q, table, old, buf, all, pre, x, more, t)
    BY <1>4, <1>8, <1>11, <1>12, <2>1, <2>2, <2>3, <2>4, <2>5 DEF Takes
  <2> QED
    BY <2>6, OneBack
<1>14. ASSUME NEW k \in 1 .. Lanes, k # j PROVE q.states[k] = p.states[k]
  <2>1. LitStates = [1 .. Lanes -> 0 .. NStates["lit"] - 1] /\ p.states \in LitStates
    <3>1. at \in 0 .. n
      BY <1>1, <1>2
    <3> QED
      BY <3>1 DEF LitTraced, LitStates, p, n
  <2> QED
    BY <1>5, <1>14, <2>1 DEF StepsTo
<1>15. ASSUME NEW k \in 1 .. j
       PROVE  taken[k].value = src.literals[i + k] /\ taken[k].state = p.states[k]
  <2>1. CASE k = j
    BY <1>13, <2>1 DEF t, v, at
  <2>2. CASE k # j
    <3>1. k \in 1 .. j - 1 /\ k \in 1 .. Lanes
      BY <1>1, <2>2
    <3>2. taken[k].value = src.literals[i + k] /\ taken[k].state = trace[i + (j - 1)].states[k]
      BY <3>1 DEF GroupAt
    <3>3. trace[i + (j - 1)] = q
      BY <1>2 DEF q
    <3> QED
      BY <1>14, <2>2, <3>1, <3>2, <3>3
  <2> QED
    BY <2>1, <2>2
<1>16. ASSUME NEW k \in j + 1 .. Lanes PROVE p.states[k] = trace[i].states[k]
  <2>1. k \in (j - 1) + 1 .. Lanes /\ k \in 1 .. Lanes /\ k # j
    BY <1>1
  <2>2. trace[i + (j - 1)].states[k] = trace[i].states[k] /\ trace[i + (j - 1)] = q
    BY <1>2, <2>1 DEF GroupAt, q
  <2> QED
    BY <1>14, <2>1, <2>2
<1> QED
  BY <1>13, <1>15, <1>16 DEF GroupAt, p, at, t

LitTable(src, table) ==
    \E old : table = DecoderTable(FreqsOf(src)["lit"], NStates["lit"], Extra["lit"], Base["lit"], old)

AllTaken(taken, s, table, st, buf) ==
    \A j \in 1 .. Lanes : TakenOne(taken[j], IF j = 1 THEN s ELSE taken[j - 1].stream, table, st[j], buf)

\* A group's values are the literals after the first i; its states, as the decoder keeps them.
GroupOf(src, i, taken) == \A k \in 1 .. Lanes : taken[k].value = src.literals[i + k]
LanesOf(taken) == [k \in 1 .. Lanes |-> taken[k].state]

GroupDue(src, i) == i \in Nat /\ i % Lanes = 0 /\ i + Lanes <= Len(src.literals)

GroupGot(src, trace, i, all, pre, taken) ==
    /\ At(taken[Lanes].stream, all, pre, trace[i + Lanes])
    /\ GroupOf(src, i, taken) /\ LanesOf(taken) = trace[i + Lanes].states

LEMMA GroupBack ==
    ASSUME NEW src, IsSource(src), NEW trace, LitTraced(src, trace, 0),
           NEW i, GroupDue(src, i), NEW table, LitTable(src, table),
           NEW buf, NEW all \in Seq(Bit), NEW pre \in Nat, NEW s, At(s, all, pre, trace[i]),
           NEW taken, AllTaken(taken, s, table, trace[i].states, buf)
    PROVE  GroupGot(src, trace, i, all, pre, taken)
<1>a. i \in Nat /\ i % Lanes = 0 /\ i + Lanes <= Len(src.literals)
  BY DEF GroupDue
<1>0. PICK old : table = DecoderTable(FreqsOf(src)["lit"], NStates["lit"], Extra["lit"], Base["lit"], old)
  BY DEF LitTable
<1> DEFINE T == {j \in Nat : j <= Lanes => GroupAt(src, trace, all, pre, taken, i, j)}
<1>1. Lanes \in Nat \ {0}
  BY EntropyAssumption
<1>2. 0 \in T
  <2>1. i + 0 = i /\ ~ (0 > 0) /\ 1 .. 0 = {}
    BY <1>a
  <2>2. GroupAt(src, trace, all, pre, taken, i, 0)
    BY <2>1 DEF GroupAt
  <2> QED
    BY <2>2
<1>3. ASSUME NEW k \in Nat, k \in T PROVE k + 1 \in T
  <2> SUFFICES ASSUME k + 1 <= Lanes PROVE GroupAt(src, trace, all, pre, taken, i, k + 1)
    OBVIOUS
  <2> DEFINE j == k + 1
  <2>1. j \in 1 .. Lanes /\ j - 1 = k /\ k <= Lanes
    BY <1>1
  <2>2. GroupAt(src, trace, all, pre, taken, i, j - 1)
    BY <1>3, <2>1
  <2> HIDE DEF j
  <2>3. TakenOne(taken[j], IF j = 1 THEN s ELSE taken[j - 1].stream, table, trace[i].states[j], buf)
    BY <2>1 DEF AllTaken
  <2>4. GroupAt(src, trace, all, pre, taken, i, j)
    BY <1>a, <1>0, <2>1, <2>2, <2>3, GroupOneBack
  <2> QED
    BY <2>4 DEF j
<1>4. GroupAt(src, trace, all, pre, taken, i, Lanes)
  <2>1. Nat \subseteq T
    <3> HIDE DEF T
    <3> QED
      BY <1>2, <1>3, Induction
  <2> QED
    BY <1>1, <2>1
<1>5. trace[i + Lanes].states \in [1 .. Lanes -> 0 .. NStates["lit"] - 1]
  <2>1. Len(src.literals) \in Nat
    BY DEF IsSource
  <2>2. i + Lanes \in 0 .. Len(src.literals)
    BY <1>a, <1>1, <2>1
  <2> QED
    BY <2>2 DEF LitTraced, LitStates
<1>6. \A k \in 1 .. Lanes : taken[k].value = src.literals[i + k] /\ taken[k].state = trace[i + Lanes].states[k]
  BY <1>4 DEF GroupAt
<1>7. At(taken[Lanes].stream, all, pre, trace[i + Lanes])
  BY <1>1, <1>4 DEF GroupAt
<1>8. LanesOf(taken) = trace[i + Lanes].states
  BY <1>5, <1>6 DEF LanesOf
<1> QED
  BY <1>6, <1>7, <1>8 DEF GroupOf, GroupGot

LEMMA FlushAt ==
    ASSUME NEW buf \in Seq(Byte), NEW all, Backs(all, buf), NEW s, Sound(s, buf), NEW pre, NEW p,
           At(s, all, pre, p), NEW t, t = InFlush(s, buf)
    PROVE  At(t, all, pre, p)
<1>1. Faithful(s, all)
  BY DEF At
<1>2. Faithful(t, all) /\ UnreadOf(t) = UnreadOf(s)
  BY <1>1, FlushFaithful
<1> QED
  BY <1>2 DEF At

\* Tables built for the frequencies of a source, over whatever was there.
BuiltFor(src, tabs) ==
    \E olds : \A c \in Range(Coders) :
      tabs[c] = DecoderTable(FreqsOf(src)[c], NStates[c], Extra[c], Base[c], olds[c])

\* The three values of a record, from the stream s at trace entry q, in states st.
RecTaken(tabs, buf, s, st, l, m, d) ==
    /\ l = Take(InFlush(s, buf), tabs["l"], st["l"])
    /\ m = Take(l.stream, tabs["m"], st["m"])
    /\ d = Take(InFlush(m.stream, buf), tabs["d"], st["d"])

LEMMA RecordSound ==
    ASSUME NEW tabs, \A c \in LMD : TableOK(tabs[c], c), NEW buf \in Seq(Byte),
           NEW s, Sound(s, buf), Ready(s, 0), NEW st, \A c \in LMD : st[c] \in 0 .. NStates[c] - 1,
           NEW l, NEW m, NEW d, RecTaken(tabs, buf, s, st, l, m, d)
    PROVE  /\ Sound(InFlush(s, buf), buf) /\ \E more \in Nat : Ready(InFlush(s, buf), MaxBits("l") + more)
           /\ Sound(l.stream, buf) /\ \E more \in Nat : Ready(l.stream, MaxBits("m") + more)
           /\ Sound(m.stream, buf)
           /\ Sound(InFlush(m.stream, buf), buf)
           /\ \E more \in Nat : Ready(InFlush(m.stream, buf), MaxBits("d") + more)
<1>0. /\ l = Take(InFlush(s, buf), tabs["l"], st["l"])
      /\ m = Take(l.stream, tabs["m"], st["m"])
  BY DEF RecTaken
<1>1. ASSUME NEW c \in LMD PROVE c \in Range(Coders) /\ MaxBits(c) \in Nat
  <2>1. c \in Range(Coders)
    BY TheCoders DEF LMD
  <2> QED
    BY <2>1, MaxBitsFit
<1>2. "l" \in LMD /\ "m" \in LMD /\ "d" \in LMD
  BY DEF LMD
<1> DEFINE wl == MaxBits("l")
           wm == MaxBits("m")
           wd == MaxBits("d")
           x == InFlush(s, buf)
           y == InFlush(m.stream, buf)
<1>3. wl \in Nat /\ wm \in Nat /\ wd \in Nat
  BY <1>1, <1>2
<1>4. wl + wm <= WordBits - ByteBits /\ wd <= WordBits - ByteBits
  BY EntropyAssumption
<1> HIDE DEF wl, wm, wd
<1>5. Sound(x, buf) /\ Ready(x, wl + wm)
  <2>1. wl + wm \in Nat
    BY <1>3
  <2> QED
    BY <1>4, <2>1, FlushedIs
<1> HIDE DEF x
<1>6. Sound(l.stream, buf) /\ Ready(l.stream, wm)
  <2>1. l = Take(x, tabs["l"], st["l"])
    BY <1>0 DEF x
  <2>2. Ready(x, MaxBits("l") + wm)
    BY <1>5 DEF wl
  <2> QED
    BY <1>1, <1>2, <1>3, <1>5, <2>1, <2>2, TakeKeeps
<1>7. Sound(m.stream, buf) /\ Ready(m.stream, 0)
  <2>1. Ready(l.stream, MaxBits("m") + 0)
    <3>1. wm + 0 = wm
      BY <1>3
    <3> QED
      BY <1>6, <3>1 DEF wm
  <2> QED
    BY <1>0, <1>1, <1>2, <1>6, <2>1, TakeKeeps
<1>8. Sound(y, buf) /\ Ready(y, wd)
  BY <1>3, <1>4, <1>7, FlushedIs
<1> HIDE DEF y
<1>9. \E more \in Nat : Ready(x, MaxBits("l") + more)
  BY <1>3, <1>5 DEF wl
<1>10. \E more \in Nat : Ready(l.stream, MaxBits("m") + more)
  <2>1. Ready(l.stream, MaxBits("m") + 0)
    <3>1. wm + 0 = wm
      BY <1>3
    <3> QED
      BY <1>6, <3>1 DEF wm
  <2> QED
    BY <2>1
<1>11. \E more \in Nat : Ready(y, MaxBits("d") + more)
  <2>1. Ready(y, MaxBits("d") + 0)
    <3>1. wd + 0 = wd
      BY <1>3
    <3> QED
      BY <1>8, <3>1 DEF wd
  <2> QED
    BY <2>1
<1> QED
  BY <1>5, <1>6, <1>7, <1>8, <1>9, <1>10, <1>11 DEF x, y

\* Where the decoder is before a record of the source, and what it takes.
RecordDue(src, trace, i, tabs, buf, all, pre, s, l, m, d) ==
    /\ IsSource(src) /\ WithinLimits(src) /\ RecTraced(src, trace, 0)
    /\ i \in Nat /\ i < Len(src.records)
    /\ (\A c \in LMD : TableOK(tabs[c], c)) /\ BuiltFor(src, tabs)
    /\ buf \in Seq(Byte) /\ Backs(all, buf) /\ pre \in Nat
    /\ Sound(s, buf) /\ Ready(s, 0) /\ At(s, all, pre, trace[i])
    /\ RecTaken(tabs, buf, s, trace[i].states, l, m, d)

RecordGot(src, trace, i, all, pre, l, m, d) ==
    /\ At(d.stream, all, pre, trace[i + 1])
    /\ l.value = src.records[i + 1]["l"] /\ m.value = src.records[i + 1]["m"]
    /\ d.value = src.records[i + 1]["d"]
    /\ [l |-> l.state, m |-> m.state, d |-> d.state] = trace[i + 1].states

LEMMA RecordBack ==
    ASSUME NEW src, NEW trace, NEW i, NEW tabs, NEW buf, NEW all, NEW pre, NEW s, NEW l, NEW m, NEW d,
           RecordDue(src, trace, i, tabs, buf, all, pre, s, l, m, d)
    PROVE  RecordGot(src, trace, i, all, pre, l, m, d)
<1> DEFINE n == Len(src.records)
           r == src.records[i + 1]
           p == trace[i + 1]
           q == trace[i]
           freqs == FreqsOf(src)
           x == InFlush(s, buf)
           y == InFlush(m.stream, buf)
<1>0. IsSource(src) /\ WithinLimits(src) /\ RecTraced(src, trace, 0)
  BY DEF RecordDue
<1>1. n \in Nat /\ i \in Nat /\ i + 1 \in 1 .. n /\ i + 1 \in 0 + 1 .. n /\ (i + 1) - 1 = i
      /\ i \in 0 .. n /\ i + 1 \in 0 .. n
  <2>1. n \in Nat
    BY <1>0 DEF IsSource
  <2>2. i \in Nat /\ i < n
    BY DEF RecordDue
  <2> HIDE DEF n
  <2> QED
    BY <2>1, <2>2
<1>2. /\ buf \in Seq(Byte) /\ Backs(all, buf) /\ all \in Seq(Bit) /\ pre \in Nat
      /\ Sound(s, buf) /\ Ready(s, 0) /\ At(s, all, pre, q)
      /\ RecTaken(tabs, buf, s, q.states, l, m, d) /\ \A c \in LMD : TableOK(tabs[c], c)
  BY DEF RecordDue, Backs
<1>3. PICK olds : \A c \in Range(Coders) :
        tabs[c] = DecoderTable(freqs[c], NStates[c], Extra[c], Base[c], olds[c])
  BY DEF RecordDue, BuiltFor
<1>4. /\ p.bits \in Seq(Bit) /\ p.states \in LMDStates /\ q.states \in LMDStates
      /\ RecWrote(freqs, r, p, q)
  <2>1. \A k \in 0 .. n : trace[k].bits \in Seq(Bit) /\ trace[k].states \in LMDStates
    BY <1>0 DEF RecTraced
  <2>2. \A k \in 0 + 1 .. n : RecWrote(freqs, src.records[k], trace[k], trace[k - 1])
    BY <1>0 DEF RecTraced
  <2> HIDE DEF n, freqs
  <2> QED
    BY <1>1, <2>1, <2>2
<1>5. Normalized(freqs, src)
  BY <1>0, FreqsOfAre
<1>6. r = src.records[i + 1]
  OBVIOUS
<1> HIDE DEF p, q, r
<1>7. PICK a, b : RecChain(freqs, r, p, a, b, q)
  BY <1>0, <1>1, <1>4, <1>6, RecChained
<1> HIDE DEF freqs
<1>8. ASSUME NEW c \in LMD
      PROVE  /\ c \in Range(Coders) /\ Coded(c, freqs[c]) /\ Sendable(c, freqs[c], r[c])
             /\ tabs[c] = DecoderTable(freqs[c], NStates[c], Extra[c], Base[c], olds[c])
  <2>1. c \in Range(Coders)
    BY TheCoders DEF LMD
  <2> QED
    BY <1>0, <1>1, <1>3, <1>5, <1>6, <2>1, ValueSendable
<1>9. "l" \in LMD /\ "m" \in LMD /\ "d" \in LMD
  BY DEF LMD
<1>10. /\ Sound(x, buf) /\ \E more \in Nat : Ready(x, MaxBits("l") + more)
       /\ Sound(l.stream, buf) /\ \E more \in Nat : Ready(l.stream, MaxBits("m") + more)
       /\ Sound(m.stream, buf)
       /\ Sound(y, buf)
       /\ \E more \in Nat : Ready(y, MaxBits("d") + more)
  <2>1. \A c \in LMD : q.states[c] \in 0 .. NStates[c] - 1
    BY <1>4 DEF LMDStates
  <2> QED
    BY <1>2, <2>1, RecordSound
<1>11. /\ l = Take(x, tabs["l"], q.states["l"]) /\ m = Take(l.stream, tabs["m"], q.states["m"])
       /\ d = Take(y, tabs["d"], q.states["d"])
  BY <1>2 DEF RecTaken
<1>12. At(x, all, pre, q)
  BY <1>2, FlushAt
<1> HIDE DEF x
<1>13. /\ Wrote(freqs["d"], "d", "d", r["d"], p, a) /\ StepsTo(p, a, "d", "d")
       /\ Wrote(freqs["m"], "m", "m", r["m"], a, b) /\ StepsTo(a, b, "m", "m")
       /\ Wrote(freqs["l"], "l", "l", r["l"], b, q) /\ StepsTo(b, q, "l", "l")
       /\ DOMAIN p.states = LMD
  BY <1>7 DEF RecChain
<1>14. /\ Stands(p, "d", "d") /\ Stands(a, "m", "m") /\ Stands(b, "l", "l")
       /\ q.states["m"] = b.states["m"] /\ q.states["d"] = b.states["d"]
       /\ b.states["d"] = a.states["d"] /\ b.states["l"] = a.states["l"]
       /\ a.states["m"] = p.states["m"] /\ a.states["l"] = p.states["l"]
  BY <1>9, <1>13 DEF StepsTo
<1>15. l.value = r["l"] /\ l.state = b.states["l"] /\ At(l.stream, all, pre, b)
  <2>1. PICK more \in Nat : Ready(x, MaxBits("l") + more)
    BY <1>10
  <2>2. Takes("l", freqs["l"], r["l"], "l", b, q, tabs["l"], olds["l"], buf, all, pre, x, more, l)
    BY <1>2, <1>8, <1>9, <1>10, <1>11, <1>12, <1>13, <1>14, <2>1 DEF Takes
  <2> QED
    BY <2>2, OneBack
<1>16. m.value = r["m"] /\ m.state = a.states["m"] /\ At(m.stream, all, pre, a)
  <2>1. PICK more \in Nat : Ready(l.stream, MaxBits("m") + more)
    BY <1>10
  <2>2. Takes("m", freqs["m"], r["m"], "m", a, b, tabs["m"], olds["m"], buf, all, pre, l.stream, more, m)
    BY <1>2, <1>8, <1>9, <1>10, <1>11, <1>13, <1>14, <1>15, <2>1 DEF Takes
  <2> QED
    BY <2>2, OneBack
<1>17. At(y, all, pre, a)
  BY <1>2, <1>10, <1>16, FlushAt
<1> HIDE DEF y
<1>18. d.value = r["d"] /\ d.state = p.states["d"] /\ At(d.stream, all, pre, p)
  <2>1. PICK more \in Nat : Ready(y, MaxBits("d") + more)
    BY <1>10
  <2>2. Takes("d", freqs["d"], r["d"], "d", p, a, tabs["d"], olds["d"], buf, all, pre, y, more, d)
    BY <1>2, <1>8, <1>9, <1>10, <1>11, <1>13, <1>14, <1>17, <2>1 DEF Takes
  <2> QED
    BY <2>2, OneBack
<1>19. [l |-> l.state, m |-> m.state, d |-> d.state] = p.states
  <2> DEFINE st == p.states
  <2>1. st \in [LMD -> Nat]
    BY <1>4 DEF LMDStates
  <2>2. l.state = st["l"] /\ m.state = st["m"] /\ d.state = st["d"]
    BY <1>14, <1>15, <1>16, <1>18
  <2> HIDE DEF st
  <2> DEFINE g == [l |-> l.state, m |-> m.state, d |-> d.state]
  <2>3. g \in [LMD -> {l.state, m.state, d.state}]
    BY DEF LMD
  <2>4. g["l"] = l.state /\ g["m"] = m.state /\ g["d"] = d.state
    OBVIOUS
  <2> HIDE DEF g
  <2>5. \A c \in LMD : g[c] = st[c]
    BY <2>2, <2>4 DEF LMD
  <2>6. g = st
    BY <2>1, <2>3, <2>5
  <2> QED
    BY <2>6 DEF g, st
<1> QED
  BY <1>15, <1>16, <1>18, <1>19 DEF RecordGot, p, r

-----------------------------------------------------------------------------
(***************************************************************************)
(* A V1 header reads back as it was written.                               *)
(***************************************************************************)
Wide == 65536
Placed(w, at, s) == \A i \in 1 .. Len(s) : w[at + i] = s[i]
Begins(w, s) == \A i \in 1 .. Len(s) : w[i] = s[i]

LEMMA Peel ==
    ASSUME NEW w, NEW a, NEW m \in Nat, Numbers(a, m), NEW b, NEW n \in Nat, Numbers(b, n),
           NEW q, q = a \o b, Begins(w, q)
    PROVE  Begins(w, a) /\ Placed(w, m, b)
<1>1. a \in Seq(Nat) /\ b \in Seq(Nat) /\ Len(a) = m /\ Len(b) = n
  BY DEF Numbers
<1>2. /\ Len(q) = m + n
      /\ \A i \in 1 .. m : q[i] = a[i]
      /\ \A i \in 1 .. n : q[m + i] = b[i]
  <2>1. /\ Len(q) = Len(a) + Len(b)
        /\ \A i \in 1 .. Len(a) : q[i] = a[i]
        /\ \A i \in 1 .. Len(b) : q[Len(a) + i] = b[i]
    <3>1. a \in Seq(Nat) /\ b \in Seq(Nat)
      BY <1>1
    <3> QED
      BY <3>1, JoinIs
  <2> QED
    BY <1>1, <2>1
<1>3. ASSUME NEW i \in 1 .. m PROVE w[i] = a[i]
  <2>1. i \in 1 .. Len(q)
    BY <1>2
  <2> QED
    BY <1>2, <2>1 DEF Begins
<1>4. ASSUME NEW i \in 1 .. n PROVE w[m + i] = b[i]
  <2>1. m + i \in 1 .. Len(q)
    BY <1>2
  <2> QED
    BY <1>2, <2>1 DEF Begins
<1> QED
  BY <1>1, <1>3, <1>4 DEF Begins, Placed

\* The bytes of a number as places of w.
LoByte(v) == v % 256
HiByte(v) == (v \div 256) % 256
Half2(w, at, v) == w[at + 1] = LoByte(v) /\ w[at + 2] = HiByte(v)
Full4(w, at, v) == Half2(w, at, v) /\ Half2(w, at + 2, v \div Wide)

LEMMA HalfNumber == V1!ByteSize = 256 /\ V1!Half = Wide
<1>1. V1!ByteSize = 256
  BY DEF V1!ByteSize
<1> QED
  BY <1>1 DEF V1!Half, Wide

LEMMA PlacedBytes ==
    ASSUME NEW w, NEW at \in Nat, NEW v \in Int
    PROVE  /\ Placed(w, at, V1!Bytes2(v)) => Half2(w, at, v)
           /\ Placed(w, at, V1!Bytes4(v)) => Full4(w, at, v)
<1>1. ASSUME NEW x \in Int
      PROVE  /\ Len(V1!Bytes2(x)) = 2 /\ V1!Bytes2(x)[1] = LoByte(x) /\ V1!Bytes2(x)[2] = HiByte(x)
             /\ V1!Bytes2(x) \in Seq(Nat)
  <2>1. V1!Bytes2(x) = <<LoByte(x), HiByte(x)>>
    BY HalfNumber DEF V1!Bytes2, LoByte, HiByte
  <2>2. V1!Bytes2(x) \in Seq(Nat)
    BY V1BytesAre
  <2>3. V1!Bytes2(x)[1] = LoByte(x) /\ V1!Bytes2(x)[2] = HiByte(x) /\ Len(V1!Bytes2(x)) = 2
    BY <2>1
  <2> QED
    BY <2>2, <2>3
<1>2. ASSUME Placed(w, at, V1!Bytes2(v)) PROVE Half2(w, at, v)
  <2> DEFINE s == V1!Bytes2(v)
  <2>1. Len(s) = 2 /\ s[1] = LoByte(v) /\ s[2] = HiByte(v)
    BY <1>1
  <2>2. \A i \in 1 .. Len(s) : w[at + i] = s[i]
    BY <1>2 DEF Placed
  <2> HIDE DEF s
  <2>3. w[at + 1] = s[1] /\ w[at + 2] = s[2]
    BY <2>1, <2>2
  <2> QED
    BY <2>1, <2>3 DEF Half2
<1>3. ASSUME Placed(w, at, V1!Bytes4(v)) PROVE Full4(w, at, v)
  <2> DEFINE hi == v \div Wide
             s == V1!Bytes4(v)
  <2>1. hi \in Int
    BY DEF Wide
  <2>2. s = V1!Bytes2(v) \o V1!Bytes2(hi)
    BY HalfNumber DEF V1!Bytes4
  <2> HIDE DEF hi
  <2>3. /\ Len(s) = 4
        /\ \A i \in 1 .. 2 : s[i] = V1!Bytes2(v)[i]
        /\ \A i \in 1 .. 2 : s[2 + i] = V1!Bytes2(hi)[i]
    <3> DEFINE a == V1!Bytes2(v)
               b == V1!Bytes2(hi)
    <3>1. a \in Seq(Nat) /\ b \in Seq(Nat) /\ s = a \o b
      BY <1>1, <2>1, <2>2
    <3>2. Len(a) = 2 /\ Len(b) = 2
      BY <1>1, <2>1
    <3> HIDE DEF s, a, b
    <3>3. /\ Len(s) = Len(a) + Len(b)
          /\ \A i \in 1 .. Len(a) : s[i] = a[i]
          /\ \A i \in 1 .. Len(b) : s[Len(a) + i] = b[i]
      BY <3>1, JoinIs
    <3>4. /\ Len(s) = 4
          /\ \A i \in 1 .. 2 : s[i] = a[i]
          /\ \A i \in 1 .. 2 : s[2 + i] = b[i]
      BY <3>2, <3>3
    <3> QED
      BY <3>4 DEF a, b
  <2>4. \A i \in 1 .. 4 : w[at + i] = s[i]
    BY <1>3, <2>3 DEF Placed
  <2> HIDE DEF s
  <2>5. w[at + 1] = s[1] /\ w[at + 2] = s[2] /\ w[at + 3] = s[3] /\ w[at + 4] = s[4]
    BY <2>4
  <2>6. s[1] = V1!Bytes2(v)[1] /\ s[2] = V1!Bytes2(v)[2]
    BY <2>3
  <2>7. s[3] = V1!Bytes2(hi)[1] /\ s[4] = V1!Bytes2(hi)[2]
    <3>1. s[2 + 1] = V1!Bytes2(hi)[1] /\ s[2 + 2] = V1!Bytes2(hi)[2]
      BY <2>3
    <3> QED
      BY <3>1
  <2>8. (at + 2) + 1 = at + 3 /\ (at + 2) + 2 = at + 4
    OBVIOUS
  <2>9. Half2(w, at, v)
    BY <1>1, <2>5, <2>6 DEF Half2
  <2>10. Half2(w, at + 2, hi)
    BY <1>1, <2>1, <2>5, <2>7, <2>8 DEF Half2
  <2> QED
    BY <2>9, <2>10 DEF Full4, hi
<1> QED
  BY <1>2, <1>3

LEMMA Uint16Of ==
    ASSUME NEW w, NEW at \in Nat, NEW v \in Int, Half2(w, at, v)
    PROVE  V1!Uint16(w, at) = v % Wide
<1>1. V1!Uint16(w, at) = (v % 256) + 256 * ((v \div 256) % 256)
  BY HalfNumber DEF V1!Uint16, Half2, LoByte, HiByte
<1>2. (v % 256) + 256 * ((v \div 256) % 256) = v % Wide
  BY DEF Wide
<1> QED
  BY <1>1, <1>2

LEMMA SmallRest ==
    ASSUME NEW m \in Nat, NEW v \in Nat, v < m
    PROVE  v % m = v
<1>1. m \in Nat \ {0} /\ v \in 0 .. m - 1 /\ 0 \in Nat /\ 0 * m + v = v
  OBVIOUS
<1> QED
  BY <1>1, Quotient

LEMMA WideIs == Wide \in Nat \ {0} /\ 16 \in Nat /\ 16 <= Wide
BY DEF Wide

LEMMA Uint16Back ==
    ASSUME NEW w, NEW at \in Nat, NEW v \in 0 .. Wide - 1, Half2(w, at, v)
    PROVE  V1!Uint16(w, at) = v
<1>1. v % Wide = v
  <2>1. v \in Nat /\ v < Wide /\ Wide \in Nat
    BY WideIs
  <2> QED
    BY <2>1, SmallRest
<1>2. V1!Uint16(w, at) = v % Wide
  BY Uint16Of
<1> QED
  BY <1>1, <1>2

LEMMA Uint32Back ==
    ASSUME NEW w, NEW at \in Nat, NEW v \in 0 .. 16 * Wide - 1, Full4(w, at, v)
    PROVE  V1!Uint32(w, at) = v
<1> DEFINE lo == v % Wide
           hi == v \div Wide
<1>c. Wide \in Nat \ {0} /\ 16 \in Nat /\ 16 <= Wide
  BY WideIs
<1>b. v \in Nat /\ v < 16 * Wide /\ Wide \in Nat \ {0} /\ 16 \in Nat /\ 16 <= Wide
  BY <1>c
<1>1. lo \in 0 .. Wide - 1 /\ hi \in 0 .. 15
  <2>1. v \div Wide < 16
    BY <1>b, QuotientBelow
  <2> HIDE DEF Wide
  <2> QED
    BY <1>b, <2>1
<1>a. lo + Wide * hi = v
  <2> HIDE DEF Wide
  <2> QED
    BY <1>b
<1>2. V1!Uint16(w, at) = lo
  BY Uint16Of DEF Full4
<1>3. Half2(w, at + 2, hi)
  BY DEF Full4
<1> HIDE DEF lo, hi
<1>4. V1!Uint16(w, at + 2) = hi
  <2>1. at + 2 \in Nat /\ hi \in 0 .. Wide - 1
    BY <1>1, <1>b
  <2> QED
    BY <1>3, <2>1, Uint16Back
<1>5. V1!Uint32(w, at) = V1!Uint16(w, at) + V1!Half * V1!Uint16(w, at + 2)
  BY DEF V1!Uint32
<1>6. V1!Uint32(w, at) = lo + Wide * hi
  BY <1>2, <1>4, <1>5, HalfNumber
<1> QED
  BY <1>a, <1>6

LEMMA Int32Back ==
    ASSUME NEW w, NEW at \in Nat, NEW v \in -7 .. 0, Full4(w, at, v)
    PROVE  V1!Int32(w, at) = v
<1>3. V1!Uint16(w, at) = v % Wide /\ V1!Uint16(w, at + 2) = (v \div Wide) % Wide
  <2>1. at + 2 \in Nat /\ v \div Wide \in Int /\ v \in Int
    BY DEF Wide
  <2> QED
    BY <2>1, Uint16Of DEF Full4
<1>5. V1!Int32(w, at) = v
  <2> DEFINE hi == (v \div Wide) % Wide
  <2>1. V1!Int32(w, at) = (v % Wide) + Wide * (IF hi < Wide \div 2 THEN hi ELSE hi - Wide)
    BY <1>3, HalfNumber DEF V1!Int32
  <2>2. CASE v = 0
    <3>1. hi = 0 /\ v % Wide = 0
      BY <2>2 DEF Wide
    <3> QED
      BY <2>1, <2>2, <3>1 DEF Wide
  <2>3. CASE v # 0
    <3>1. v \div Wide = -1 /\ v % Wide = v + Wide
      BY <2>3 DEF Wide
    <3>2. hi = Wide - 1
      BY <3>1 DEF Wide
    <3>3. v + Wide + Wide * ((Wide - 1) - Wide) = v
      BY DEF Wide
    <3> HIDE DEF hi
    <3> QED
      BY <2>1, <3>1, <3>2, <3>3 DEF Wide
  <2> QED
    BY <2>2, <2>3
<1> QED
  BY <1>5

LEMMA Uint16sBack ==
    ASSUME NEW w, NEW at \in Nat, NEW values \in Seq(Nat), Placed(w, at, V1!Uint16s(values)),
           NEW j \in 1 .. Len(values), values[j] \in 0 .. Wide - 1
    PROVE  V1!Uint16(w, at + 2 * (j - 1)) = values[j]
<1> DEFINE n == Len(values)
           v == values[j]
           s == V1!Uint16s(values)
           p == at + 2 * (j - 1)
<1>1. n \in Nat /\ j \in 1 .. n /\ v \in Int /\ v \in 0 .. Wide - 1
  OBVIOUS
<1>2. Len(s) = 2 * n
  BY Uint16sAre
<1>3. s = [i \in 1 .. 2 * n |-> V1!Bytes2(values[(i + 1) \div 2])[2 - (i % 2)]]
  BY DEF V1!Uint16s
<1>4. /\ 2 * j - 1 \in 1 .. 2 * n /\ 2 * j \in 1 .. 2 * n
      /\ ((2 * j - 1) + 1) \div 2 = j /\ (2 * j - 1) % 2 = 1
      /\ (2 * j + 1) \div 2 = j /\ (2 * j) % 2 = 0
  <2> HIDE DEF n
  <2> QED
    BY <1>1
<1> HIDE DEF n, s
<1>5. s[2 * j - 1] = V1!Bytes2(v)[1] /\ s[2 * j] = V1!Bytes2(v)[2]
  <2>1. s[2 * j - 1] = V1!Bytes2(values[((2 * j - 1) + 1) \div 2])[2 - ((2 * j - 1) % 2)]
    BY <1>3, <1>4
  <2>2. s[2 * j] = V1!Bytes2(values[(2 * j + 1) \div 2])[2 - ((2 * j) % 2)]
    BY <1>3, <1>4
  <2>3. 2 - 1 = 1 /\ 2 - 0 = 2
    OBVIOUS
  <2> QED
    BY <1>4, <2>1, <2>2, <2>3
<1>6. w[at + (2 * j - 1)] = s[2 * j - 1] /\ w[at + 2 * j] = s[2 * j]
  BY <1>2, <1>4 DEF Placed, s
<1>7. p + 1 = at + (2 * j - 1) /\ p + 2 = at + 2 * j /\ p \in Nat
  BY <1>1
<1> HIDE DEF p, v
<1>8. w[p + 1] = V1!Bytes2(v)[1] /\ w[p + 2] = V1!Bytes2(v)[2]
  BY <1>5, <1>6, <1>7
<1>9. Placed(w, p, V1!Bytes2(v))
  <2>1. Len(V1!Bytes2(v)) = 2
    BY <1>1, V1BytesAre
  <2>2. \A i \in 1 .. 2 : i = 1 \/ i = 2
    OBVIOUS
  <2> QED
    BY <1>8, <2>1, <2>2 DEF Placed
<1>10. V1!Uint16(w, p) = v
  BY <1>1, <1>7, <1>9, PlacedBytes, Uint16Back
<1> QED
  BY <1>10 DEF p, v

\* The fields of a V1 header that have room: counts of 20 bits, at most 7 bits
\* of padding, states of 16 bits.
FitsV1(h) ==
    /\ h.nLiterals \in 0 .. 16 * Wide - 1 /\ h.nMatches \in 0 .. 16 * Wide - 1
    /\ h.nLitPayload \in 0 .. 16 * Wide - 1 /\ h.nLMDPayload \in 0 .. 16 * Wide - 1
    /\ h.litBits \in -7 .. 0 /\ h.lmdBits \in -7 .. 0
    /\ h.litStates \in Seq(Nat) /\ Len(h.litStates) = Lanes
    /\ \A j \in 1 .. Lanes : h.litStates[j] \in 0 .. Wide - 1
    /\ h.lmdStates.l \in 0 .. Wide - 1 /\ h.lmdStates.m \in 0 .. Wide - 1 /\ h.lmdStates.d \in 0 .. Wide - 1

SameFields(x, h) ==
    /\ x.nLiterals = h.nLiterals /\ x.nMatches = h.nMatches
    /\ x.nLitPayload = h.nLitPayload /\ x.nLMDPayload = h.nLMDPayload
    /\ x.litBits = h.litBits /\ x.lmdBits = h.lmdBits
    /\ \A j \in 1 .. Lanes : x.litStates[j] = h.litStates[j]
    /\ x.lmdStates.l = h.lmdStates.l /\ x.lmdStates.m = h.lmdStates.m /\ x.lmdStates.d = h.lmdStates.d

LEMMA WriteLaid ==
    ASSUME NEW h, NEW freqs \in Seq(Nat), FitsV1(h), NEW w, w = V1!Write(h, freqs)
    PROVE  /\ Placed(w, 12, V1!Bytes4(h.nLiterals)) /\ Placed(w, 16, V1!Bytes4(h.nMatches))
           /\ Placed(w, 20, V1!Bytes4(h.nLitPayload)) /\ Placed(w, 24, V1!Bytes4(h.nLMDPayload))
           /\ Placed(w, 28, V1!Bytes4(h.litBits)) /\ Placed(w, 32, V1!Uint16s(h.litStates))
           /\ Placed(w, 40, V1!Bytes4(h.lmdBits))
           /\ Placed(w, 44, V1!Uint16s(<<h.lmdStates.l, h.lmdStates.m, h.lmdStates.d>>))
           /\ Placed(w, 52, V1!Uint16s(freqs))
<1>0. /\ h.nLiterals \in Nat /\ h.nMatches \in Nat /\ h.nLitPayload \in Nat /\ h.nLMDPayload \in Nat
      /\ h.litBits \in Int /\ h.lmdBits \in Int /\ h.litStates \in Seq(Nat) /\ Len(h.litStates) = Lanes
      /\ h.lmdStates.l \in Nat /\ h.lmdStates.m \in Nat /\ h.lmdStates.d \in Nat
  <2>1. 0 .. 16 * Wide - 1 \subseteq Nat /\ 0 .. Wide - 1 \subseteq Nat /\ -7 .. 0 \subseteq Int
    BY WideIs
  <2> QED
    BY <2>1 DEF FitsV1
<1> DEFINE p1 == V1!Blank(8)
           p2 == V1!Bytes4(h.nLitPayload + h.nLMDPayload)
           p3 == V1!Bytes4(h.nLiterals)
           p4 == V1!Bytes4(h.nMatches)
           p5 == V1!Bytes4(h.nLitPayload)
           p6 == V1!Bytes4(h.nLMDPayload)
           p7 == V1!Bytes4(h.litBits)
           p8 == V1!Uint16s(h.litStates)
           p9 == V1!Blank(8 - 2 * Len(h.litStates))
           p10 == V1!Bytes4(h.lmdBits)
           p11 == V1!Uint16s(<<h.lmdStates.l, h.lmdStates.m, h.lmdStates.d>>)
           p12 == V1!Blank(2)
           p13 == V1!Uint16s(freqs)
<1>1. w = p1 \o p2 \o p3 \o p4 \o p5 \o p6 \o p7 \o p8 \o p9 \o p10 \o p11 \o p12 \o p13
  BY DEF V1!Write
<1>2. p1 \in Seq(Nat) /\ Len(p1) = 8 /\ p12 \in Seq(Nat) /\ Len(p12) = 2
  BY BlanksAre
<1>3. /\ p3 \in Seq(Nat) /\ Len(p3) = 4 /\ p4 \in Seq(Nat) /\ Len(p4) = 4
      /\ p5 \in Seq(Nat) /\ Len(p5) = 4 /\ p6 \in Seq(Nat) /\ Len(p6) = 4
      /\ p7 \in Seq(Nat) /\ Len(p7) = 4 /\ p10 \in Seq(Nat) /\ Len(p10) = 4
  <2>1. \A v \in Int : V1!Bytes4(v) \in Seq(Nat) /\ Len(V1!Bytes4(v)) = 4
    BY V1BytesAre
  <2>2. h.nLiterals \in Int /\ h.nMatches \in Int /\ h.nLitPayload \in Int /\ h.nLMDPayload \in Int
    BY <1>0
  <2> QED
    BY <1>0, <2>1, <2>2
<1>4. p2 \in Seq(Nat) /\ Len(p2) = 4
  <2>1. h.nLitPayload + h.nLMDPayload \in Int
    BY <1>0
  <2> QED
    BY <2>1, V1BytesAre
<1>5. p8 \in Seq(Nat) /\ Len(p8) = 2 * Lanes /\ p13 \in Seq(Nat) /\ Len(p13) = 2 * Len(freqs)
  BY <1>0, Uint16sAre
<1>6. p9 \in Seq(Nat) /\ Len(p9) = 8 - 2 * Lanes
  <2>1. 8 - 2 * Lanes \in Nat
    BY EntropyAssumption
  <2>2. p9 = V1!Blank(8 - 2 * Lanes)
    BY <1>0
  <2> QED
    BY <2>1, <2>2, BlanksAre
<1>7. p11 \in Seq(Nat) /\ Len(p11) = 6
  <2> DEFINE st == <<h.lmdStates.l, h.lmdStates.m, h.lmdStates.d>>
  <2>1. st \in Seq(Nat) /\ Len(st) = 3
    BY <1>0
  <2> HIDE DEF st
  <2>2. V1!Uint16s(st) \in Seq(Nat) /\ Len(V1!Uint16s(st)) = 2 * Len(st)
    BY <2>1, Uint16sAre
  <2> QED
    BY <2>1, <2>2 DEF st
<1> DEFINE n == Len(freqs)
           q2 == p1 \o p2
           q3 == q2 \o p3
           q4 == q3 \o p4
           q5 == q4 \o p5
           q6 == q5 \o p6
           q7 == q6 \o p7
           q8 == q7 \o p8
           q9 == q8 \o p9
           q10 == q9 \o p10
           q11 == q10 \o p11
           q12 == q11 \o p12
<1>8. n \in Nat /\ Lanes \in Nat /\ 8 - 2 * Lanes \in Nat /\ Len(p13) = 2 * n
  BY <1>5, EntropyAssumption
<1> HIDE DEF p1, p2, p3, p4, p5, p6, p7, p8, p9, p10, p11, p12, p13, n
<1>9. /\ Numbers(p1, 8) /\ Numbers(p2, 4) /\ Numbers(p3, 4) /\ Numbers(p4, 4) /\ Numbers(p5, 4)
      /\ Numbers(p6, 4) /\ Numbers(p7, 4) /\ Numbers(p8, 2 * Lanes) /\ Numbers(p9, 8 - 2 * Lanes)
      /\ Numbers(p10, 4) /\ Numbers(p11, 6) /\ Numbers(p12, 2) /\ Numbers(p13, 2 * n)
  BY <1>2, <1>3, <1>4, <1>5, <1>6, <1>7, <1>8 DEF Numbers
<1>q2. Numbers(q2, 12)
  BY <1>9, Joined
<1> HIDE DEF q2
<1>q3. Numbers(q3, 16)
  BY <1>9, <1>q2, Joined
<1> HIDE DEF q3
<1>q4. Numbers(q4, 20)
  BY <1>9, <1>q3, Joined
<1> HIDE DEF q4
<1>q5. Numbers(q5, 24)
  BY <1>9, <1>q4, Joined
<1> HIDE DEF q5
<1>q6. Numbers(q6, 28)
  BY <1>9, <1>q5, Joined
<1> HIDE DEF q6
<1>q7. Numbers(q7, 32)
  BY <1>9, <1>q6, Joined
<1> HIDE DEF q7
<1>q8. Numbers(q8, 32 + 2 * Lanes)
  BY <1>8, <1>9, <1>q7, Joined
<1> HIDE DEF q8
<1>q9. Numbers(q9, 40)
  BY <1>8, <1>9, <1>q8, Joined
<1> HIDE DEF q9
<1>q10. Numbers(q10, 44)
  BY <1>9, <1>q9, Joined
<1> HIDE DEF q10
<1>q11. Numbers(q11, 50)
  BY <1>9, <1>q10, Joined
<1> HIDE DEF q11
<1>q12. Numbers(q12, 52)
  BY <1>9, <1>q11, Joined
<1> HIDE DEF q12
<1>10. w = q12 \o p13
  BY <1>1 DEF q2, q3, q4, q5, q6, q7, q8, q9, q10, q11, q12
<1>11. Begins(w, w)
  BY DEF Begins
<1>e0. 2 * n \in Nat /\ 2 * Lanes \in Nat /\ 32 + 2 * Lanes \in Nat
  BY <1>8
<1>e12. Begins(w, q12) /\ Placed(w, 52, p13)
  <2>1. Numbers(p13, 2 * n) /\ Numbers(q12, 52)
    BY <1>9, <1>q12
  <2> QED
    BY <1>e0, <1>10, <1>11, <2>1, Peel
<1>e11. Begins(w, q11) /\ Placed(w, 50, p12)
  <2>1. q12 = q11 \o p12
    BY DEF q12
  <2> QED
    BY <1>e0, <1>8, <1>9, <1>e12, <1>q11, <2>1, Peel
<1>e10. Begins(w, q10) /\ Placed(w, 44, p11)
  <2>1. q11 = q10 \o p11
    BY DEF q11
  <2> QED
    BY <1>e0, <1>8, <1>9, <1>e11, <1>q10, <2>1, Peel
<1>e9. Begins(w, q9) /\ Placed(w, 40, p10)
  <2>1. q10 = q9 \o p10
    BY DEF q10
  <2> QED
    BY <1>e0, <1>8, <1>9, <1>e10, <1>q9, <2>1, Peel
<1>e8. Begins(w, q8) /\ Placed(w, 32 + 2 * Lanes, p9)
  <2>1. q9 = q8 \o p9
    BY DEF q9
  <2> QED
    BY <1>e0, <1>8, <1>9, <1>e9, <1>q8, <2>1, Peel
<1>e7. Begins(w, q7) /\ Placed(w, 32, p8)
  <2>1. q8 = q7 \o p8
    BY DEF q8
  <2> QED
    BY <1>e0, <1>8, <1>9, <1>e8, <1>q7, <2>1, Peel
<1>e6. Begins(w, q6) /\ Placed(w, 28, p7)
  <2>1. q7 = q6 \o p7
    BY DEF q7
  <2> QED
    BY <1>e0, <1>8, <1>9, <1>e7, <1>q6, <2>1, Peel
<1>e5. Begins(w, q5) /\ Placed(w, 24, p6)
  <2>1. q6 = q5 \o p6
    BY DEF q6
  <2> QED
    BY <1>e0, <1>8, <1>9, <1>e6, <1>q5, <2>1, Peel
<1>e4. Begins(w, q4) /\ Placed(w, 20, p5)
  <2>1. q5 = q4 \o p5
    BY DEF q5
  <2> QED
    BY <1>e0, <1>8, <1>9, <1>e5, <1>q4, <2>1, Peel
<1>e3. Begins(w, q3) /\ Placed(w, 16, p4)
  <2>1. q4 = q3 \o p4
    BY DEF q4
  <2> QED
    BY <1>e0, <1>8, <1>9, <1>e4, <1>q3, <2>1, Peel
<1>e2. Begins(w, q2) /\ Placed(w, 12, p3)
  <2>1. q3 = q2 \o p3
    BY DEF q3
  <2> QED
    BY <1>e0, <1>8, <1>9, <1>e3, <1>q2, <2>1, Peel
<1> QED
  BY <1>e2, <1>e3, <1>e4, <1>e5, <1>e6, <1>e7, <1>e9, <1>e10, <1>e12
     DEF p3, p4, p5, p6, p7, p8, p10, p11, p13

ReadAs(h, b, nsym) ==
    /\ h.nLiterals = V1!Uint32(b, 12) /\ h.nMatches = V1!Uint32(b, 16)
    /\ h.nLitPayload = V1!Uint32(b, 20) /\ h.nLMDPayload = V1!Uint32(b, 24)
    /\ h.litBits = V1!Int32(b, 28) /\ h.lmdBits = V1!Int32(b, 40)
    /\ h.litStates = [j \in 1 .. Lanes |-> V1!Uint16(b, 32 + 2 * (j - 1))]
    /\ h.lmdStates = [l |-> V1!Uint16(b, 44), m |-> V1!Uint16(b, 46), d |-> V1!Uint16(b, 48)]
    /\ h.freqs = [i \in 1 .. nsym |-> V1!Uint16(b, 52 + 2 * (i - 1))]

LEMMA V1ReadFields ==
    ASSUME NEW b, NEW nsym
    PROVE  ReadAs(V1!Read(b, Lanes, nsym), b, nsym)
BY DEF V1!Read, V1!FreqsAt, ReadAs

LEMMA V1Back ==
    ASSUME NEW h, NEW freqs \in Seq(Nat), FitsV1(h), \A i \in 1 .. Len(freqs) : freqs[i] \in 0 .. Wide - 1,
           NEW x, x = V1!Read(V1!Write(h, freqs), Lanes, Len(freqs))
    PROVE  SameFields(x, h) /\ x.freqs = freqs
<1> DEFINE w == V1!Write(h, freqs)
           n == Len(freqs)
           st == <<h.lmdStates.l, h.lmdStates.m, h.lmdStates.d>>
<1>1. /\ Placed(w, 12, V1!Bytes4(h.nLiterals)) /\ Placed(w, 16, V1!Bytes4(h.nMatches))
      /\ Placed(w, 20, V1!Bytes4(h.nLitPayload)) /\ Placed(w, 24, V1!Bytes4(h.nLMDPayload))
      /\ Placed(w, 28, V1!Bytes4(h.litBits)) /\ Placed(w, 32, V1!Uint16s(h.litStates))
      /\ Placed(w, 40, V1!Bytes4(h.lmdBits)) /\ Placed(w, 44, V1!Uint16s(st))
      /\ Placed(w, 52, V1!Uint16s(freqs))
  BY WriteLaid
<1>2. /\ x.nLiterals = V1!Uint32(w, 12) /\ x.nMatches = V1!Uint32(w, 16)
      /\ x.nLitPayload = V1!Uint32(w, 20) /\ x.nLMDPayload = V1!Uint32(w, 24)
      /\ x.litBits = V1!Int32(w, 28) /\ x.lmdBits = V1!Int32(w, 40)
      /\ x.litStates = [j \in 1 .. Lanes |-> V1!Uint16(w, 32 + 2 * (j - 1))]
      /\ x.lmdStates = [l |-> V1!Uint16(w, 44), m |-> V1!Uint16(w, 46), d |-> V1!Uint16(w, 48)]
      /\ x.freqs = [i \in 1 .. n |-> V1!Uint16(w, 52 + 2 * (i - 1))]
  <2> HIDE DEF w, n
  <2>1. x = V1!Read(w, Lanes, n)
    BY DEF w, n
  <2>2. ReadAs(x, w, n)
    BY <2>1, V1ReadFields
  <2> QED
    BY <2>2 DEF ReadAs
<1> HIDE DEF w
<1>3. ASSUME NEW at \in Nat, NEW v \in 0 .. 16 * Wide - 1, Placed(w, at, V1!Bytes4(v))
      PROVE  V1!Uint32(w, at) = v
  <2>1. v \in Int
    BY WideIs
  <2>2. Full4(w, at, v)
    BY <1>3, <2>1, PlacedBytes
  <2> QED
    BY <2>2, Uint32Back
<1>4. ASSUME NEW at \in Nat, NEW v \in -7 .. 0, Placed(w, at, V1!Bytes4(v))
      PROVE  V1!Int32(w, at) = v
  <2>1. v \in Int
    OBVIOUS
  <2>2. Full4(w, at, v)
    BY <1>4, <2>1, PlacedBytes
  <2> QED
    BY <2>2, Int32Back
<1>5. /\ h.nLiterals \in 0 .. 16 * Wide - 1 /\ h.nMatches \in 0 .. 16 * Wide - 1
      /\ h.nLitPayload \in 0 .. 16 * Wide - 1 /\ h.nLMDPayload \in 0 .. 16 * Wide - 1
      /\ h.litBits \in -7 .. 0 /\ h.lmdBits \in -7 .. 0
      /\ h.litStates \in Seq(Nat) /\ Len(h.litStates) = Lanes
      /\ \A j \in 1 .. Lanes : h.litStates[j] \in 0 .. Wide - 1
      /\ h.lmdStates.l \in 0 .. Wide - 1 /\ h.lmdStates.m \in 0 .. Wide - 1 /\ h.lmdStates.d \in 0 .. Wide - 1
  BY DEF FitsV1
<1>6. /\ x.nLiterals = h.nLiterals /\ x.nMatches = h.nMatches
      /\ x.nLitPayload = h.nLitPayload /\ x.nLMDPayload = h.nLMDPayload
  <2>1. V1!Uint32(w, 12) = h.nLiterals
    BY <1>1, <1>3, <1>5
  <2>2. V1!Uint32(w, 16) = h.nMatches
    BY <1>1, <1>3, <1>5
  <2>3. V1!Uint32(w, 20) = h.nLitPayload
    BY <1>1, <1>3, <1>5
  <2>4. V1!Uint32(w, 24) = h.nLMDPayload
    BY <1>1, <1>3, <1>5
  <2> QED
    BY <1>2, <2>1, <2>2, <2>3, <2>4
<1>7. x.litBits = h.litBits /\ x.lmdBits = h.lmdBits
  <2>1. V1!Int32(w, 28) = h.litBits
    BY <1>1, <1>4, <1>5
  <2>2. V1!Int32(w, 40) = h.lmdBits
    BY <1>1, <1>4, <1>5
  <2> QED
    BY <1>2, <2>1, <2>2
<1>8. ASSUME NEW j \in 1 .. Lanes PROVE x.litStates[j] = h.litStates[j]
  <2>1. V1!Uint16(w, 32 + 2 * (j - 1)) = h.litStates[j]
    <3>1. j \in 1 .. Len(h.litStates) /\ 32 \in Nat
      BY <1>5
    <3> QED
      BY <1>1, <1>5, <3>1, Uint16sBack
  <2> QED
    BY <1>2, <2>1
<1>9. ASSUME NEW j \in 1 .. 3 PROVE V1!Uint16(w, 44 + 2 * (j - 1)) = st[j]
  <2>0. 0 .. Wide - 1 \subseteq Nat
    BY WideIs
  <2> DEFINE a == h.lmdStates.l
             b == h.lmdStates.m
             c == h.lmdStates.d
  <2>1. a \in 0 .. Wide - 1 /\ b \in 0 .. Wide - 1 /\ c \in 0 .. Wide - 1
    BY <1>5
  <2>2. st = <<a, b, c>> /\ Placed(w, 44, V1!Uint16s(st))
    BY <1>1
  <2> HIDE DEF st, a, b, c
  <2>3. st \in Seq(Nat)
    BY <2>0, <2>1, <2>2
  <2>4. Len(st) = 3
    BY <2>2
  <2>5. st[j] \in 0 .. Wide - 1
    BY <2>1, <2>2
  <2>6. 44 \in Nat /\ j \in 1 .. Len(st)
    BY <2>4
  <2> QED
    BY <2>2, <2>3, <2>5, <2>6, Uint16sBack
<1>10. x.lmdStates.l = h.lmdStates.l /\ x.lmdStates.m = h.lmdStates.m /\ x.lmdStates.d = h.lmdStates.d
  <2>1. V1!Uint16(w, 44 + 2 * (1 - 1)) = st[1] /\ V1!Uint16(w, 44 + 2 * (2 - 1)) = st[2]
        /\ V1!Uint16(w, 44 + 2 * (3 - 1)) = st[3]
    BY <1>9
  <2>2. 44 + 2 * (1 - 1) = 44 /\ 44 + 2 * (2 - 1) = 46 /\ 44 + 2 * (3 - 1) = 48
    OBVIOUS
  <2>3. st[1] = h.lmdStates.l /\ st[2] = h.lmdStates.m /\ st[3] = h.lmdStates.d
    OBVIOUS
  <2> HIDE DEF st
  <2> QED
    BY <1>2, <2>1, <2>2, <2>3
<1>11. x.freqs = freqs
  <2>1. ASSUME NEW i \in 1 .. n PROVE V1!Uint16(w, 52 + 2 * (i - 1)) = freqs[i]
    BY <1>1, Uint16sBack
  <2>2. freqs = [i \in 1 .. n |-> freqs[i]]
    OBVIOUS
  <2> HIDE DEF n
  <2> QED
    BY <1>2, <2>1, <2>2
<1> QED
  BY <1>6, <1>7, <1>8, <1>10, <1>11 DEF SameFields

=============================================================================
