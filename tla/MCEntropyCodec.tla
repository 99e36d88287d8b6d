--------------------------- MODULE MCEntropyCodec ---------------------------
(***************************************************************************)
(* TLC instance of EntropyCodec.  A byte has 2 bits and a word 6 bytes, so *)
(* that a flush provides 10 bits: exactly two literals of 32 states, or    *)
(* the widest L and M.  A refill can therefore fail by one bit.            *)
(***************************************************************************)
EXTENDS EntropyCodec

MCNStates == [lit |-> 32, l |-> 8, m |-> 8, d |-> 8]
Table(t) == [s \in 0 .. Len(t) - 1 |-> t[s + 1]]
MCExtra == [lit |-> Table(<<0, 0, 0, 0, 0, 0, 0, 0>>), l |-> Table(<<0, 1, 2>>),
            m |-> Table(<<0, 1, 2>>), d |-> Table(<<0, 0, 3>>)]
MCBase == [lit |-> Table(<<0, 1, 2, 3, 4, 5, 6, 7>>), l |-> Table(<<0, 1, 3>>),
           m |-> Table(<<0, 1, 3>>), d |-> Table(<<0, 1, 2>>)]
MCHeaderTail == <<1, 3, 3, 3, 3, 3>>

Source(lits, recs) == [kind |-> "source", literals |-> lits, records |-> recs]
Rec(l, m, d) == [l |-> l, m |-> m, d |-> d]

LiteralBlocks ==
  { Source(lits, recs) : lits \in UNION { [1 .. n -> 0 .. 2] : n \in {0, 2, 4} },
                         recs \in { << >>, <<Rec(6, 2, 9)>> } }
  \cup { Source(lits, << >>) : lits \in [1 .. 6 -> 0 .. 2] \cup {<<0, 0, 0, 0, 0, 1, 0, 2>>} }

\* Two frequent symbols and six rare ones, rounded up at the expense of both;
\* and one frequent symbol that pays alone.
Skewed(often, rare) ==
  Source([i \in 1 .. 100 * Cardinality(often) + Cardinality(rare) |->
            IF i <= Cardinality(rare) THEN SetToSeq(rare)[i] ELSE SetToSeq(often)[1 + (i % Cardinality(often))]],
         << >>)

SkewedBlocks == { Skewed({0, 1}, 2 .. 7), Skewed({3, 7}, {0, 1, 2, 4, 5, 6}), Skewed({0}, {1, 2}) }

RecordBlocks ==
  { Source(<<1, 2>>, recs) :
      recs \in { <<Rec(l, m, d)>> : l \in 0 .. 6, m \in 0 .. 6, d \in {0, 1, 5} }
            \cup { <<Rec(l, m, d), Rec(l2, m2, d2)>> :
                     l \in {0, 4}, m \in {2, 3}, d \in {1, 9}, l2 \in {0, 5}, m2 \in {0, 6}, d2 \in {0, 4} }
            \cup { <<Rec(1, 3, 9), Rec(6, 0, 0), Rec(l, 2, 1), Rec(0, 6, 2), Rec(0, 0, d)>> : l \in {0, 5}, d \in {0, 9} } }

\* Blocks of others: V1 with tables that leave states over or have too many,
\* V2 with any data for its tables.
Lits(lists) == { Table(t) : t \in lists }

Fields(n, k, bits, lits, lmds, nLit, nLMD) ==
  [nLiterals |-> n, nMatches |-> k, litBits |-> bits, lmdBits |-> bits, litStates |-> lits,
   lmdStates |-> [l |-> lmds[1], m |-> lmds[2], d |-> 1], nLitPayload |-> nLit, nLMDPayload |-> nLMD]

V1Block(fields, lit, lmd, payload) ==
  [kind |-> "foreign", version |-> 1, payload |-> payload \o LMDPadding \o payload,
   bytes |-> V1!Write(fields, AllFreqs([lit |-> lit, l |-> lmd, m |-> lmd, d |-> lmd]))]

\* The L,M,D payload may be declared a byte too long or too short.
V1Fields(n, k, bits, lits, payload, more) ==
  Fields(n, k, bits, lits, <<lits[1] % 9, 7>>, Len(payload), WordBytes + Len(payload) + more)

ForeignV1 ==
  { V1Block(V1Fields(n, k, bits, <<s, t>>, payload, more), lit, lmd, payload) :
     n \in {2, 3, 6}, k \in {0, 2}, bits \in {0, -1, -3}, s \in {0, 20, 32}, t \in {5, 31}, more \in {0, 1, -1},
     lit \in Lits({<<1, 1, 0, 0, 0, 0, 0, 0>>, <<3, 9, 0, 0, 0, 0, 0, 20>>, <<20, 13, 0, 0, 0, 0, 0, 0>>}),
     lmd \in Lits({<<0, 1, 0>>, <<1, 2, 5>>}),
     payload \in {<< >>, <<1>>, <<2, 1, 3, 1>>} }

\* As many literals and records as a header may declare, and more.
ForeignLarge ==
  { V1Block(V1Fields(n, k, 0, <<20, 31>>, <<1>>, 0), Table(<<3, 9, 0, 0, 0, 0, 0, 20>>), Table(<<1, 2, 5>>), <<1>>) :
     n \in {LiteralsPerBlock, LiteralsPerBlock + 2}, k \in {MatchesPerBlock, MatchesPerBlock + 1} }

ForeignV2 ==
  { [kind |-> "foreign", version |-> 2, payload |-> << >>, freqData |-> data,
     words |-> V2!Pack(Fields(2, 1, 0, <<3, 31>>, <<7, v[1]>>, 0, 0),
                         V2!FixedBytes + Len(data) \div 8 + v[2])] :
     v \in {<<7, 0>>, <<8, 0>>, <<7, 1>>, <<7, -1>>, <<7, -5>>},
     data \in { LowBits(8, 0) \o FlattenSeq([i \in 1 .. n |-> LowBits(8, bytes[i])]) :
                  n \in {4, 5}, bytes \in { b \in [1 .. 5 -> {0, 15, 67, 170}] : b[1] = 0 /\ b[5] # 67 } } }

\* Tables left by the first block are under those of the second.
Left(n, k, lits, lit, lmd, payload) ==
  V1Block(V1Fields(n, k, 0, lits, payload, 0), Table(lit), Table(lmd), payload)

Before == { Left(2, 0, <<20, 31>>, lit, lmd, << >>) :
              lit \in {<<1, 1, 0, 0, 0, 0, 0, 0>>, <<3, 9, 0, 0, 0, 0, 0, 20>>}, lmd \in {<<0, 1, 0>>, <<1, 2, 5>>} }

After == { Left(6, 2, <<s, 31>>, lit, lmd, payload) :
             s \in {0, 20}, lit \in {<<1, 1, 0, 0, 0, 0, 0, 0>>, <<3, 9, 0, 0, 0, 0, 0, 20>>}, lmd \in {<<0, 1, 0>>, <<1, 2, 5>>},
             payload \in {<< >>, <<1>>, <<2, 1, 3, 1>>} }

MCQueues ==
  { <<b>> : b \in LiteralBlocks \cup SkewedBlocks \cup RecordBlocks \cup ForeignV1 \cup ForeignLarge \cup ForeignV2 }
  \cup { <<b, c>> : b \in Before, c \in { Source(<<2, 0>>, <<Rec(6, 2, 9), Rec(1, 0, 0)>>) } \cup Before }
  \cup { <<Source(<<0, 1, 2, 2>>, <<Rec(6, 2, 9)>>), c>> : c \in After }
=============================================================================
