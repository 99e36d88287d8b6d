----------------------------- MODULE BitStreams -----------------------------
(***************************************************************************)
(* The bit streams of fse.go.  A stream is written forwards and read       *)
(* backwards: the last bit written is the first one read.                  *)
(*                                                                         *)
(* The output stream is the sequence of the bits pushed.  Its accumulator  *)
(* is flushed after every symbol and never holds more than 7 + 23 of its   *)
(* 64 bits, so flushing only moves whole bytes and is not a step of its    *)
(* own.  The input stream keeps the accumulator of the code, a word of     *)
(* WordBytes bytes, with everything that shifting loses or leaves in it.   *)
(***************************************************************************)
EXTENDS Integers, Sequences

CONSTANTS
    ByteBits,    \* bits of a byte (8)
    WordBytes    \* bytes of the accumulator (8)

ASSUME BitStreamsAssumption ==
    /\ ByteBits \in Nat \ {0} /\ WordBytes \in Nat /\ WordBytes > 1

WordBits == ByteBits * WordBytes

\* The n low bits of v, the lowest first.
LowBits(n, v) == [i \in 1 .. n |-> (v \div 2^(i - 1)) % 2]

\* The number whose bits, lowest first, are bits[from + 1 .. from + n]; the
\* bits past the end of the sequence are zero.
Value(bits, from, n) ==
  LET sum[i \in 0 .. n] ==
        IF i = 0 THEN 0
        ELSE sum[i - 1] + (IF from + i <= Len(bits) THEN bits[from + i] * 2^(i - 1) ELSE 0)
  IN sum[n]

----------------------------------------------------------------------------
(* The output stream *)

Push(bits, n, v) == bits \o LowBits(n, v)

\* fseOutFinish: the bytes of the stream, the last one padded with zero bits,
\* and minus the number of padding bits, as the block header records it.
Finish(bits, width) ==
  LET last == Len(bits) % width
      nbytes == (Len(bits) + width - 1) \div width
  IN [buf |-> [i \in 1 .. nbytes |-> Value(bits, (i - 1) * width, width)],
      n |-> IF last > 0 THEN last - width ELSE 0]

----------------------------------------------------------------------------
(* The input stream over buf, ptr the number of bytes not yet loaded *)

\* accum << n, in a word.
ShiftIn(accum, n) == IF n >= WordBits THEN 0 ELSE (accum % 2^(WordBits - n)) * 2^n

\* The little-endian value of n bytes from offset `from`.
LoadWord(buf, from, n) ==
  LET word[i \in 0 .. n] ==
        IF i = 0 THEN 0 ELSE word[i - 1] + buf[from + i] * 2^(ByteBits * (i - 1))
  IN word[n]

\* fseInInit, with the position the caller keeps beside the stream.  A full
\* word is loaded for n # 0, one byte less for n = 0; an empty buffer counts
\* as that many zero bits.
InInit(buf, n) ==
  LET load == IF n # 0 THEN WordBytes ELSE WordBytes - 1
      accumNBits == n + ByteBits * load
      accum == LoadWord(buf, Len(buf) - load, load)
      stream(a) == [ok |-> TRUE, accum |-> a, accumNBits |-> accumNBits, ptr |-> Len(buf) - load]
  IN IF Len(buf) = 0 /\ n = 0 THEN stream(0)
     ELSE IF Len(buf) < load \/ accumNBits < WordBits - ByteBits \/ accumNBits >= WordBits
     THEN [ok |-> FALSE]
     ELSE IF accum >= 2^accumNBits THEN [ok |-> FALSE] ELSE stream(accum)

\* The bytes before ptr, as far as there are any, one at a time: no padding
\* is added when they run out.
LoadRest(s, buf, nbytes) ==
  LET count == IF s.ptr < 0 THEN 0 ELSE IF s.ptr < nbytes THEN s.ptr ELSE nbytes
      rest[i \in 0 .. count] ==
        IF i = 0 THEN s
        ELSE LET r == rest[i - 1]
             IN [r EXCEPT !.accum = ShiftIn(@, ByteBits) + buf[s.ptr - i + 1],
                          !.accumNBits = @ + ByteBits, !.ptr = @ - 1]
  IN rest[count]

\* Mutant of InFlush: half a word is loaded at most.
InFlushShort(s, buf) ==
  LET room == (WordBits - 1 - s.accumNBits) \div ByteBits
      nbytes == IF room < WordBytes \div 2 THEN room ELSE WordBytes \div 2
  IN IF s.ptr - nbytes < 0 THEN LoadRest(s, buf, nbytes)
     ELSE [s EXCEPT !.accum = ShiftIn(@, ByteBits * nbytes) + LoadWord(buf, s.ptr - nbytes, nbytes),
                    !.accumNBits = @ + ByteBits * nbytes, !.ptr = @ - nbytes]

\* fseInFlush: as many whole bytes as the word has room for, one bit kept free.
InFlush(s, buf) ==
  LET nbytes == (WordBits - 1 - s.accumNBits) \div ByteBits
      newPtr == s.ptr - nbytes
      loaded == IF nbytes < WordBytes THEN nbytes ELSE WordBytes
  IN IF newPtr < 0 THEN LoadRest(s, buf, nbytes)
     ELSE [s EXCEPT !.accum = ShiftIn(@, ByteBits * nbytes) + LoadWord(buf, newPtr, loaded),
                    !.accumNBits = @ + ByteBits * nbytes, !.ptr = newPtr]

\* fseInPull: the shift of a negative accumNBits is a huge one, which yields 0
\* and a mask of all ones.
InPull(s, n) ==
  LET left == s.accumNBits - n
  IN IF n <= 0 THEN [stream |-> s, b |-> 0]
     ELSE IF left < 0 THEN [stream |-> [s EXCEPT !.accumNBits = left], b |-> 0]
     ELSE [stream |-> [s EXCEPT !.accumNBits = left, !.accum = @ % 2^left], b |-> s.accum \div 2^left]
=============================================================================
