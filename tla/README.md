# A TLA+ verification project for go-compressions/lzfse

This directory holds TLA+ models of the LZFSE/LZVN codec in this repository
(`lzfse.go`, `lzvn.go`, `fse.go`), the TLC configurations that check them on small
instances, and theorems about them that TLAPS checks for every value of the constants.

    tlc -config splitter.cfg MCBlockSplitter      # any run: <run>.cfg with its MC module
    tlapm BlockSplitterProofs.tla                 # any *Proofs module

`PROJECT.json` lists the runs, the source lines each definition stands for, the hazards,
the findings, and, for every property, a mutated form of the code that breaks it.

The library is sequential: no goroutine, no lock, no persistent state. What is hard about
it is not interleaving but *long sequences of legal steps* over state that is kept from
one step to the next - caps that cut the same block in turn, a match held back while
literals pile up, a distance both sides must remember, buffers written beyond their
logical end on purpose, length operands one byte wide - and, on the decoding side, input
whose parts need not fit each other.

## 1. Inventory

### Encoding

| Component | State | Operations | What makes it correct |
|---|---|---|---|
| Match finder, `findMatches` (lzfse.go:932) | hash table of buckets with 4 entries, pending match, list of matches | insert a position; search its bucket; hold, emit the pending one, emit a good one and jump, flush | matches disjoint, in order, inside the input, each a true copy from its distance; none is held past the point where it could still be emitted |
| Block splitter, `compressLZFSE` (1409) | block start, chosen matches, chosen end, walking counters | choose by match cap; walk for the raw cap, the literal cap, the record budget; emit | blocks partition bytes and matches, no cut inside a match, every per-block limit of the format is met |
| Block encoder, `encodeBlock` (1078) | records, literal buffer, previous distance | split long runs, append trailing literals, replace a repeated distance by 0, pad literals | what the decoder does with records and literals restores the bytes |
| Entropy coding, `encodeBlock` from the histograms on, `fse.go` | histograms, encoder tables, states, bit accumulator | normalise, build tables, push states and bits backwards, pad the L,M,D stream | no occurring symbol loses all its states; decodes to the symbols it was given, reading exactly what was written |
| LZVN encoder, `lzvnEncode*` (lzvn.go:478) | table, current position, start of pending literals, pending match, last distance | skip, hold, emit pending, emit a full literal run, final flush | stream decodes to the source; every run fits its opcode |
| Top level, `Compress`, `compressLZVN`, `storedBlock` | none | choose LZVN, LZFSE or stored by size | the choice is at most 12 bytes longer than the source and decodes to it - unless a block is one of findings 1 to 3 |

### Decoding

| Component | State | Operations | What makes it correct |
|---|---|---|---|
| Stream decoder, `DecompressLimit` (lzfse.go:772) | output slice, input position, frequency tables reused between blocks | one case per block magic; end of stream | output within the caller's limit; every block refused or decoded in full; reads inside the input; memory in proportion to it |
| L,M,D loop, `decodeCompressedBlock`, `growOut`, `matchCopyInto` (491-722) | output slice and its capacity, write position, literal position, last distance, record index | reserve, copy literals, copy match, grow, check length | no slice leaves the backing array; earlier output is preserved; what comes out is what was encoded |
| LZVN decoder, `lzvnDecode`, `lzvnCopyMatch` (lzvn.go:58-248) | read and write position, previous distance | five families of opcodes, nop, end | every read and write in bounds; bounded expansion; ends |
| Headers and frequency code (lzfse.go:82-470) | none | fixed V1 fields, packed V2 fields, prefix code of frequencies | reading inverts writing, out-of-range fields are refused |
| FSE decoder (fse.go) | tables, accumulator, position moving backwards | initialise, decode a symbol, refill | decodes what was encoded, never reads outside the buffer |

Interaction: `Compress` calls the match finder once for the whole input, the splitter
walks its list and calls the block encoder for each block; the decoder's blocks share one
growing output slice and matches may reach back into earlier blocks. Encoder and decoder
communicate only through the stream. `appleinterop` (a cgo binding for tests) and
`benchmarks` hold no logic of the library.

## 2. Modules

| Module | Models | State and actions against the code |
|---|---|---|
| `LMDRecords` | records and literals of `encodeBlock` (lzfse.go:1078-1158) | operators only: `RawRecords` splits runs longer than 315, `ReuseD` sends a repeated distance as 0, `LiteralPositions`, `Padded` |
| `Partition` | what splitting promises | abstract: `Cut` takes some bytes and the matches inside them, never cutting a match |
| `BlockSplitter` | `compressLZFSE` 1409-1602 | one action per stage of an iteration and per step of a walk: `SelectByMatchCap`, `RawFits`/`RawWalk`/`RawCut`, `LitFits`/`LitWalk`/`LitCut`/`LitTail`, `RecFits`/`RecWalk`/`RecCut`, `Emit`, `EndOfStream`. Implements `Partition` |
| `BlockDecoder` | the stored, V1 and V2 cases of `DecompressLimit`, the L,M,D loop, `growOut`, `matchCopyInto` | `out` is the slice: backing array and length, so that over-copies, stale bytes beyond the length and reallocation are visible. `Stored`, `Compressed` (all header checks, the reservation), `DecodeRecord` (growth, both copies with their fixed widths), `RejectRecord`, `EndBlock` |
| `BlockCodec` | `encodeBlock` and the decoder in sequence | pieces cut in every way `Partition` allows, encoded by `LMDRecords`, decoded by `BlockDecoder`. Source bytes are as different as the matches permit, so any other source with these matches is an image of it. A piece whose block would need more literals or records than a header may declare (`WithinBudgets`) is not encoded: the splitter never cuts one but in the case of finding 3, and the decoder would refuse it |
| `MatchFinder` | `findMatches` 932-1065 | `Insert` (the table update at a position), then one of `NothingHere`, `Hold`, `EmitPending`, `EmitGood`; `Finish`. Zeroed table entries are kept as the code keeps them: position 0, value 0 |
| `LzvnFormat` | the bytes of `lzvnEmit*` | opcode and operand bytes are numbers, a literal is an item of its own: what it would be as an opcode is unknown, so a decoder that reads one as an opcode is `out of step` |
| `LzvnEncoder` | `lzvnEncodeBuffer`, `lzvnEncode`, `lzvnFindMatchN`, `lzvnEmitMatch` | one action per outcome of an iteration: `InsideMatch`, `NoMatchHere`, `BacklogFull`, `MatchHere`, `LoopEnds`, then `Flush`. The hash table is a function of the position |
| `LzvnDecoder` | `lzvnDecode`, `lzvnCopyMatch` | one step per opcode, checks in the code's order with `Complaint` naming the first that fails |
| `LzvnCodec` | encoder, then decoder | `Hand` passes the finished stream on |
| `Fse` | normalisation, tables and the two steps of `fse.go` | operators only: `Rounded`/`AdjustFreqs`/`NormalizeFreq`, `Step`/`Entry`/`DecoderTable`, `EncoderTable`, `Encode`, `Decode`. `DecoderTable` is built over the table of the block before, as the scratch of lzfse.go:472 is |
| `BitStreams` | the output and input bit streams of `fse.go` | operators: `Push`/`Finish`; `InInit`, `InFlush`, `InPull` with accumulator, its count, the backward pointer and the short loads at the front |
| `V1Header` | `readV1Header`, `writeV1Header` | byte for byte |
| `V2Header` | `makeV2Block`, `decodeV2Header`, the frequency code | the three packed words bit for bit, writer (nothing masks a field) and reader; the reader's accumulator with its refills and its end-of-data checks |
| `EntropyCodec` | `encodeBlock` from the histograms, `encodeLiterals4Interleaved`, the entropy decoding of `decodeCompressedBlock`, between them the headers | encode: `BeginEncode`, one `EncodeRecord` per record, `FinishRecords`, one `EncodeGroup` per group of literals, `FinishLiterals`; decode: `ReadHeader`, `BuildTables`, `DecodeGroup`, `StartRecords`, `DecodeRecord`, `EndBlock`; `BeginForeign` takes a block of somebody else; `NextBlock` keeps the tables |
| `StreamFormat` | the stream as cells, one for each byte; `Compress` and its parts | `Compress(n)` is the set of block sequences it can return for n bytes. `Misread` is an LZVN block with a wrapped literal run (findings 1 and 2), which may yield an error or any number of bytes up to what it declares; `Overfull` is a V2 block of more records than a header may declare (finding 3). Every other block of `Compress` is `within` its limits |
| `StreamDecoder` | `DecompressLimit`, whole | one action per way an iteration ends: `EndOfInput`, `EndOfStream`, `Truncated`, `UnknownMagic`, `RefuseTruncatedHeader`, `RefuseMalformed`, `RefuseTooLarge`, `DecodeFails`, `AcceptBlock`. Implements `BoundedOutput` |
| `BoundedOutput` | what `DecompressLimit` promises | abstract: bytes are delivered up to the limit, then one verdict; it comes |
| `MC*` | TLC instances | inputs and scaled constants only |
| `BlockSplitterProofs`, `BlockCodecProofs`, `LzvnCodecProofs`, `StreamDecoderProofs`, `EntropyLemmas`, `EntropyCodecProofs`, `MatchFinderProofs` | the theorems | section 5 |
| `LibraryLemmas` | - | what the proofs share: least and largest elements, division with remainder, induction, functions defined by recursion up or down an interval, folds, sums, flattened sequences |

Abstractions, chosen so that control stays and data goes: bytes are small values or source
positions; `BlockCodec` takes the entropy coder between `encodeBlock` and
`decodeCompressedBlock` as lossless, which `EntropyCodec` checks on its own, and
`StreamDecoder` takes from both and from `LzvnDecoder` what a payload decodes to (in full only
for a block that is `within` its limits, as `DecodedIsSource` and `RoundTrip` promise it); error texts
are names; the several header checks of a compressed block report
whichever applies (V1 and V2 check in different orders); how far Go's `append`
over-allocates is left open. In the entropy layer, an output bit stream is the sequence of all
bits pushed (when the code moves full bytes of its accumulator out is not visible outside);
`fseDecode` and `fseValueDecode` are one operator, a literal being a value without extra bits;
32-bit integers of TLC make two fields narrower than in the code: a V1 count has 31 bits and
the V2 header size 20 of its 32, the rest of which is always refused. In `StreamDecoder` the
header checks of one block are one guard, because each ends in an error.

## 3. Runs

| Run | What it asks | Bounds, and why they suffice |
|---|---|---|
| `splitter` | Does every way of cutting keep the partition, the matches and the budgets, and implement `Partition`? | All lists of disjoint matches of length 1 and 3 over 12 bytes. Raw cap 9, literal cap 6, 5 matches and runs of 2 per record: each cap cuts, and each cuts after another has cut; the literal cap plus the longest match equals the raw cap, the tightest setting `CapsFit` (section 5) admits |
| `splitter_records` | Does the record walk keep the format's record limit, as its comment says? | Same instance. **Violated**: finding 3 |
| `splitter_rawcap` | May the raw cap be lowered freely, as its comment invites? | Raw cap 7. **Violated**: finding 4 |
| `decoder` | Are the output slice and the limit safe when literals, records and declared size disagree? | One to three records with lengths below, at and above a fixed copy of 2, absent, short and too long distances; declared sizes 0, right and one too large; limits 4 literals, 2 records, 6 bytes of output, so each is exceeded. Up to several blocks share the output |
| `codec` | Does decoding restore the source? | All match lists over 6 bytes, lengths 1-3, distances 1, 2, 4 (overlapping, equal and wider than a fixed copy of 2), all partitions whose blocks keep to 8 literals, padding included, and 3 records, so some pieces are too large |
| `matchfinder` | Are the matches what the splitter and the encoder assume? | All binary sources of 3, 5 and 13 bytes; good match at 6, longest match 7, largest distance 7, buckets of 2: holds, replacements, good matches, capped matches and matches at the end all occur |
| `lzvn` | Does LZVN restore the source, with the two sides agreeing on the distance? | All binary sources of 3, 12 and 13 bytes; one-byte lengths reach 5 + 1, the backlog 6, distances 6, with the three distance ranges at 4 and 6. All five opcode families are emitted |
| `lzvn_trailing`, `lzvn_match_run` | Do callers keep literal runs within 271, as two comments say? | Same instance. **Violated**: findings 1 and 2 |
| `lzvn_decoder` | Is `lzvnDecode` safe on payloads that fit nothing? | The code's own constants; all payloads of up to 4 items over one opcode of every kind with boundary operands, alone and after a first match; room for 4 and 300 bytes, so each overflow check fires |
| `entropy` | Is the entropy layer lossless and safe, with tables kept from block to block? | A byte of 2 bits, a word of 6 bytes, 2 lanes; 32 literal states with 8 symbols, 8 states for L, M and D with extra bits 0 to 3. A flush provides exactly the 10 bits the widest reads take between two of them, so a refill one bit short shows. Encoded blocks: all literal lists of up to 4 over three symbols and a few of 6 and 8, histograms of 100:1 whose rounding takes the four passes of `fse_adjust_freqs`, records over every symbol and extra value, one to five of them; V1 blocks of others with tables that fill the states, leave most of them over, or exceed them, states at and beyond the table, payloads short, empty and too long; V2 blocks with arbitrary table data and header sizes on both sides of it; blocks at and beyond the limits of literals (206) and records (5) of a header; pairs of blocks over one another's tables |
| `stream` | Does the loop keep its promises wherever a stream is cut and whatever it declares? | Magic of 2 bytes, headers of 3 to 6, expansion 4, LZVN up to 4 bytes. All streams `Compress` can return for 0 to 6 and 10 to 12 bytes, cut at every byte; LZVN runs of more than 1 literal wrap and V2 blocks take 5 records: a source of up to 4 bytes with a payload of 2 may be misread, as an error or as 0 to 4 bytes, and a block of 6 bytes may be overfull; streams of up to three blocks of every kind with right and wrong sizes, cut at every byte; limits -1, 0, 3, 8, 11 with a uint64 of 6 bits |

Every invariant is checked in all reachable states, so each is also an invariant *between*
the records of a block and the opcodes of a stream, not only at the end.

Properties worth a word:

- `NoCutInsideMatch` speaks of the blocks already emitted; it is not inductive, and section 5
  says what had to be added.
- `RecordsOfMatchesWithinBudget` is the part of the record limit the code does keep (the
  records of matches); `RecordBudget` is the limit the comment claims.
- `PrefixKept` is an action property: no step changes a byte below the write position, through
  growth, over-copies and doubling copies.
- `PendingInReach` (match finder) and `PendingAhead` (LZVN) say that a match held back can
  still be emitted when its turn comes: neither emit function checks.
- `OpcodeExpandsWithin` is what lets `DecompressLimit` refuse an LZVN block by its declared
  size alone (`lzvnMaxExpansion`, lzfse.go:885). It holds with 136 because a long match is
  271 bytes for two.
- `StatesInTables` says that no state ever indexes beyond its table, from headers, tables and
  payloads of any origin. It depends on a chain: the bound on initial states, frequencies that
  do not exceed the table (or an entry of the block before, itself in range), and refills that
  give each read its bits - or zeroes where there are none.
- `ShortOnlyAtFront`: more bits are taken than the accumulator holds only when the pointer has
  come to the front of the buffer. `ConsumedExactly`: at the end of a block that `encodeBlock`
  wrote, each stream has been read to its first bit and the states are back at 0.
- `StatesAllOwned`: after normalisation every occurring symbol has a state and all states are
  used, for every histogram of the run, the skewed ones included.
- `HeaderCanonical`: V2 frequency data is accepted only if it is what the encoder would write for
  the tables read, and so ends in the byte before the payload - for arbitrary data as well.
- `AllocationBounded` is a sum over blocks: each LZVN block allocates what it declares, is
  within the limit alone, and may produce nothing.
- `CutYieldsPrefix`: a cut stream gives an error or whole blocks, and the cut is then between
  blocks: the end marker may be missing (lzfse.go:905), but not in part.
- `CompressedAccepted` and `CutYieldsPrefix` state their exception: a stream of `Compress` may be
  called malformed only if one of its blocks is not `within` its limits, and may come back short as a
  success only if it is an LZVN stream, i.e. for no source above the LZVN threshold. The
  size bound and the limit hold without exception.
- `ImplementsBoundedOutput` is the refinement, liveness included: the output never exceeds the
  limit, is only ever appended to, and a verdict comes.
- `RoundTrip` and `SameDistance` are claimed for streams without an over-long literal run;
  `RunsBounded` says by how much a run can exceed its opcode, so the exception is exact.

Liveness: `Delivered`, `DecodingEnds` and `ImplementsBoundedOutput` assume weak fairness of the next-state relation
only, i.e. that the calling goroutine keeps running; the code is a loop with no other party.

`CHECK_DEADLOCK FALSE` stands in every configuration because all these programs return.

## 4. Findings

1. `lzvn_trailing` - lzvn.go:374-378 says callers of `lzvnEmitLiteralBytes` always pass
   L <= 271. `lzvnEncodeBuffer` emits everything after the last match in one run (591-593),
   the backlog plus the margin at the end; `byte(L-16)` wraps for 272 and more, and the
   stream does not decode to its source.
2. `lzvn_match_run` - lzvn.go:403-405 says callers cap L at 271. A match found with a full
   backlog is held (543) and an overlapping better one found a position later is emitted
   with L = 272 (550-555).
3. `splitter_records` - lzfse.go:1521-1523 says the record walk guarantees the limit of
   records per block. Line 1538 reserves two records for the run after the last match, which
   may need up to 127.
4. `splitter_rawcap` - lzfse.go:1453-1454 and 63-64: the bare cut at the raw cap may fall
   inside a match. The literal cap repairs it only if it is at least a longest match below
   the raw cap. The shipped values satisfy that; the comment inviting tests to lower the
   variable has no such condition.

What findings 1 to 3 mean for a caller of `Compress` and `Decompress`: a block of finding 3 is refused by
`decodeV2Header` (350). A block of finding 1 or 2 is read out of step; `lzvnDecode` then reports an
error, or meets a literal 0x06, which it takes for the end of the stream (lzvn.go:71-74), and
returns what it has. `DecompressLimit` appends that without comparing it with the declared size
(lzfse.go:893-897): part of the source, as a success. The run `stream` has all three outcomes.

Met while reading or modelling, without a run of their own:

- `DecompressLimit` converts `maxOut` to unsigned (lzfse.go:779), so a negative limit is a huge
  one; its comment (767-768) speaks of "maxOut bytes" only. The run `stream` includes -1.
- A stream is accepted without its end marker at any block boundary (905).
- The comment in `decodeV2Header` that the frequency bit stream "has no failure mode" (337-340)
  predates the error it propagates two lines below.
- `fseInInit` documents n as -7 to 0 (fse.go:86) and accepts -8, which only a V1 header can say
  (a full word of 64 bits of which 56 count).
- `fseInFlush` says "Pad with zeros" (fse.go:137) where it loads what bytes remain and leaves
  the count short: nothing is padded, reads past the front see zero bits.
- The comment before the raw block of a piece without matches (lzfse.go:1559-1561) says that
  an empty L,M,D stream could not be initialised; the 8 bytes of padding in front of every
  L,M,D stream (1251-1254) make it readable, and the run `entropy` decodes such blocks.

## 5. Proofs

All theorems are about the specifications as checked, for every value of the constants that
meets the named assumptions.

**BlockSplitterProofs.** `TypeCorrect`, `NoCutInsideMatchHolds`, `BlocksPartitionInputHolds`
and `RefinesPartition`, for all inputs, match lists and caps under
`CapsFit == MaxBlockLiterals + MaxMValue <= MaxBlockRawBytes` (39992 + 2359 <= 524288 in the
code; without it `splitter_rawcap` is a counterexample). `NoCutInsideMatch` is not inductive:
it says nothing of the block being chosen. The invariant adds what every stage keeps of the
choice (`Chosen`): the block holds its matches and cuts no later one - with one exception,
`Bare`. A raw cut with no match kept may fall inside the first match, and only the literal
walk that follows pulls it back: the run before that match must then exceed the literal cap,
because the match itself is at most `MaxMValue` long. `CapsFit` is used there and nowhere
else. The refinement maps a splitter step to a cut when it emits and to a stutter otherwise.

`LiteralCapHolds` and `RecordsOfMatchesHold` are about the last step, what a block costs: the
literals of a block are at most `MaxBlockLiterals` and the records of its matches at most
`MatchesPerBlock - 2`. Both compare the running counts of the walks with a sum over the matches
kept - the sum of the runs of literals before them, the length of the flattened records. The
invariant carries the counts along the match walk (`Counted`), and the lemmas on sums and flattening
say what one more match adds. The records need `FirstMatchFits`: a match after the longest run
of literals the cap admits fits the budget of an empty block (the code has room for 9998 records;
a run of 39992 literals takes 127).

**BlockCodecProofs**, the decoder. `TypeOKHolds`, `SlicesStayInBufferHolds`,
`ProducedWithinBoundHolds`, `OutputWithinLimitHolds` and the action property `PrefixKeptHolds`,
for every stream of frames (`DecoderAssumption`: fields are naturals and a record's match is at
most `MaxMValue`, which is what the symbol tables can express), every width of the fixed copies
and every limit. The inductive invariant `IInv` adds that the write position never leads the
length nor the length the capacity (`Reserved`), and that the loop only runs on a frame
(`Framed`). Below it are the lemmas on what the helpers *write*, byte by byte: `WriteIs`,
`GrowOutIs`, `MatchCopyIs`. The doubling copy is the interesting one: after any number of
doublings what has been filled repeats with the distance (`ExpandedIs`), and as many doublings as
the match is long fill it. `RecordWrites` sums up one record: what was decoded stays, its literals
follow, and every byte of its match is the byte its distance before - although the fixed copies
may have written beyond both.

**BlockCodecProofs**, the round trip. `DecodedIsSourceHolds`, `LiteralsInStepHolds`,
`DistancesAgreeHolds` under `CodecAssumption` (the match lists are what `findMatches` returns by
`ReturnsMatchList`: in order, disjoint, copying from before themselves; the limit admits the
source), for every source, every run limit, number of lanes and cutting into blocks.

- *What records say.* `Tells(recs, lits, src, open, x, y)` is that the records, with the
  positions their literals were taken from, walk the source from `x` to `y`: every literal is a
  position no match covers, and every match lies where the source repeats at its distance. Walks
  that meet compose (`TellsBoth`); a literal run with its match is one, split records included
  (`TellsRun`); so, by induction over the matches of a piece, is everything `RawRecords` and
  `LiteralPositions` make of it (`TellsPiece`).
- *What a walk implies.* It is no longer than `rawFitsBlock` allows (`WalkFits`), and the literals
  used are as many as the uncovered positions passed (`WalkCounts`). So `EncodedIs`: the decoder
  has no complaint about an encoded block's header.
- *The decoder on it* (`CodecInv`). Between blocks it is where the encoder is; in a block
  (`Following`) it is at a step of the block's walk, with the walk's count of literals and the
  distance of the raw record before. The last conjunct is what makes the reuse of distances work:
  a zero then stands for the right one (`RecordIs`), so the record is not refused, and
  `RecordWrites` gives the source byte by byte, overlapping matches by induction (`CopiesFollow`).

**LzvnCodecProofs**, the decoder. `StaysInBuffersHolds`, `OpcodeExpandsWithinHolds`,
`ExpansionBoundedHolds`, `PreviousDistanceInReachHolds`, for every payload and room.
`OpcodeFields` bounds length and match of every opcode family over its operand bytes;
`LiteralsArePaidFor` adds that a literal costs a byte of its own, so only matches expand. The
assumption `2 * Expansion >= LargeBase + 255` is exactly what 136 is made for.
`DecoderTypeOKHolds` adds what the copies leave behind: `dpos` is the length of what was
written, every position holds a byte (`Origins`: a position written by a doubling copy holds
what an earlier one held), through `Copies`, the content of the destination after each round of
`lzvnCopyMatch`'s doubling, as a function of the round.

**LzvnCodecProofs**, the codec. The five invariants of `LzvnCodec` - `PendingAheadHolds`,
`RunsBoundedHolds`, `RoundTripHolds`, `SameDistanceHolds` and the type invariant - for every
source, hash and number of ways, under `EncoderAssumption` (sources are sequences of bytes,
`MaxBacklog` is the longest run, `MinSrcSize` leaves room for the margin, a distance fits two
bytes) and the two format assumptions. The argument has three stages.

- *The encoder by itself* (`EncoderInv`). `Held` says of the match held back that it was found
  behind the literals emitted and before `srcCurrent`, and that it is a true copy; `Backlog`
  that the literals not yet emitted are at most one more than `MaxBacklog`. That one more is
  real: a match held back lets the loop go on one position past the cap, which is why
  `RunsBounded` states `MaxBacklog + 1` for the literals before a match.
- *What the stream says* (`Encoded`). `Leap` reads one opcode of the stream, its literals and its match
  as a step from a pair of positions to the next, `Path` is a walk of such steps, and
  `Says(w, st, d, v)` that the stream `st` says the first `d` bytes of `w` and leaves the
  distance `v`. Every emission extends the walk (`SaysLMD`, `SaysFullMatches`, `SaysLiteralRun`); there
  is one lemma per header form, the wrap of the length byte included: `Says` is claimed only as
  long as the longest run before a match is within `MaxRun`.
- *The decoder on that stream* (`Handed`, `Faithful`). The rest of the stream is a walk from the decoder's
  position to the end, so its next step is a header that `ReadAs` shows the decoder takes apart
  into the same lengths and the same distance; the match it then copies, doubled
  when it overlaps itself, writes what the source holds because positions a multiple of the distance apart
  agree (`SameFar`, `CopyHolds`). `SameDistance` and `RoundTrip` follow at the end of the walk.

**StreamDecoderProofs.** `ReadsInsideHolds`, `AllocationBoundedHolds` and `RefinesBoundedOutput`
(the safety part of `BoundedOutput`), for every stream of headers and every limit under
`StreamAssumption` and `FormatAssumption`: fields are naturals and a payload decodes to an error
or to what `BlockDecoder` and `LzvnDecoder` say (at most, for LZVN, the declared size).
`AllocationBounded` is not inductive: `reserved` grows with the payload, `read` is what was
looked at. The invariant (`Accounted`) adds that while the loop runs `read` is `pos`, so that the
block about to be reserved pays with bytes not yet counted (`ReservePaid`), and that the output is
within the limit; the products are dealt with in `Monotone`, `Covers` and `Distributes`.

`CompressedAcceptedHolds` and `CutYieldsPrefixHolds` are about the streams of `Compress`, for every
length of the source and every partition and coding that `Compress` may choose. `OwnAssumption`
says what a source marked as its own is: `Compress` of some n bytes, whole or cut, n below 2^32
(`FieldSize`: the sizes in a header are 32 bits wide). `Compress` returns blocks that are refused or
misread, too, so both theorems speak of them: what is claimed of the output is claimed of
blocks that are `within` their limits and of every source above the LZVN threshold. First the
language: `Compress(n)` is in sequences of `OwnBlocks` that hold n bytes in total (`PartsHold`, by
induction over the recursive function that collects the partitions), at most `Overhead` longer than n
(`CompressHolds`), whose bytes, block by block, are what `NextBlockAt` says. Then the invariant
`OwnInv`: there is a j such that the loop stands behind the first j blocks and the output is
what they hold (`OwnAt`). It is not enough to know the size of the output: `Delivered` says block for
block where each part lies, which is what makes the result of a cut stream a prefix. The step
(`OwnPreserved`) needs that a magic at that place is either that of block j + 1, which is
well formed if the stream is entire and the block within its limits (`OwnWellFormed`), or the
end marker (`HeaderIs`). The loop has `Passed` only blocks that are within their limits or LZVN
blocks, since an overfull one is refused; and an LZVN block is the only one of its
stream (`AlonePassed`), so nothing follows what may have come out short.

**EntropyLemmas**, one step of the coder. `StepInverts`, `DecodeInvertsEncode` and
`StepStaysInTable`, for every number of states 2^r, every frequency, state and value, under
`PowersOfTwo`: the laws of the exponents up to `PrecisionBits` (tlapm knows nothing of exponents;
TLC evaluates the assumption in `entropy`).
Existence and uniqueness of the shift come first (`ShiftExists` by `Smallest` of `LibraryLemmas`,
`Log2OfPower`), then `Cut`: the table of n = q * 2^k states is cut where a symbol's f states
need k or k - 1 bits, with q <= f < 2q. The rest is division with remainder in each half.

**EntropyLemmas** and **EntropyCodecProofs**, any block. `CodecInvHolds`, `StatesInTablesHolds`,
`ShortOnlyAtFrontHolds` and `StatesAllOwnedHolds`, for every size of the four tables, every source
and every block of others, whatever its header, table data and payload, in any sequence
(`QueuesAssumption` says no more than what a source and a sequence of bytes are).
`EntropyAssumption` is what the code's sizes satisfy: the bits taken between two flushes are at
most what a flush provides (40, 31 and 23 of 56), a table has a power of two of states and no more symbols
than states, the symbols of L, M and D cover contiguous values, and the laws of powers of two
hold up to the width of a word.

- *Tables.* The runs of states of the symbols tile the first `Total(freqs)` states (`Offsets`,
  `OffsetsGrow`, `Tiled`: sums over an initial part of the symbols), so that every state below belongs to one
  symbol and `StepStaysInTable` applies to each entry (`DecoderTableOK`). Entries above are those of the block before,
  which is why `TablesInv` speaks of all four tables in every stage: a table is safe
  whatever it holds, if everything written into it ever was.
- *Normalisation* (`RoundedIs`, `TakeBackKeeps`, `SpareIs`, `AdjustFreqsIs`, `NormalizeFreqIs`). Rounding gives
  every symbol that occurs at least one state and may exceed the total; the four passes of
  `fse_adjust_freqs` take the excess back without taking a symbol's last state. The passes suffice
  because the last takes whatever a symbol has beyond one state, and there are no more symbols than states.
- *Streams* (`Sound`, `Ready`). A `Sound` stream holds in its accumulator no more than its count says;
  `Ready(s, k)` is that it has k bits or nothing left to load. `FlushKeeps` and `InInitIs` give what a refill
  provides, `TakeKeeps` what a symbol costs, so three L, M, D reads or a group of literals leave
  `Ready(s, 0)`: `ShortOnlyAtFront`. The loads are recursive functions of the byte (`LoadWordIs`, `LoadRestKeeps`).
- *Headers.* Whatever the bytes and bits are, the fields read are numbers and the reader of
  the frequency code returns one for each symbol or fails (`V1ReadIs`, `V2UnpackIs`, `ReadFreqsIs`); what the
  encoder writes is a header and bytes of that kind (`V1WriteIs`, `PackIs`, `WriteFreqsIs`, `FinishIs`).
- *The invariant* (`CodecInv`). `StatesInTables` is not inductive: a state is in its table because the
  entry it came from was, so `TablesInv`; the initial states because the header passed
  `StatesFit`, so `AcceptedInv`; the streams must be those that the payload sizes cut out, so
  `PayloadInv`, `LitStreamInv` and `LMDStreamInv`; and the encoder's own blocks must arrive as headers like any
  other, so `EncodingInv` to `HeaderInv` follow its states, counts and bits through `encodeBlock`.
  TLC checked `CodecInv` on the run `entropy` before it was proved.

**EntropyLemmas** and **EntropyCodecProofs**, the blocks of this encoder. `RestoredHolds`,
`ConsumedExactlyHolds` and `HeaderCanonicalHolds`, from the invariant `TraceInv` (`TraceInvHolds`), for
the same constants, sources and foreign blocks in any order. Two more assumptions: `FieldsAssumption`, that
the fields of a header have room for what the code's sizes put there (a padding of 3 bits, a state of 10,
a header size of 20; a literal is its own symbol; the values of L, M and D start at zero), and
`SourcesAssumption`, that a source is within the limits of a block (`WithinLimits`: at most
`LiteralsPerBlock` literals and `MatchesPerBlock` records - the code's 40000 and 10000, which `HeaderOK` checks and which
must fit 20 bits - payloads of fewer than 2^20 bytes, and values that have a
symbol, up to `maxLValue`, `maxMValue`, `maxDValue`).

- *Numbers and bits.* `Value(bits, from, n)` is the number in a window of the bits; windows are cut and
  joined by `ValueSplit`, and `PushedIs` says that a pushed number is the window it was pushed to.
- *The reader* (`Faithful`). Its accumulator is the window of `accumNBits` bits above its pointer: `LoadWordValue`
  says this of a load, `PullValue` and `FlushFaithful` that pulling and refilling keep it, in whatever place
  of a symbol a refill falls; `UnreadOf` counts what is below, and only pulls change it. `Opening` and `InitFaithful` are
  the start, `FinishedBits` the bits of a buffer that ends in a finished stream.
- *Traces.* A trace of the encoder is a function: `trace[i]` is the bits and the states when the
  values after i are written (`LitTraced`, `RecTraced`, one more value by `PutValue` from i + 1 to i). `LiteralPut`,
  `ValuePut` and `OneBack` are the step, there and back, by `StepInverts`; `GroupBack` and `RecordBack` take a group of literals or a record, with
  the flushes where `decodeCompressedBlock` has them. A decoder that has read i values stands at the
  trace of i (`At`: unread is as much as was written by then), so it reads value i + 1.
- *Headers.* `V1Back`: a V1 header reads back, field by field. `PackBack`: each field of a V2 header
  has bits of its own in its word, and nothing that is packed exceeds them (`FieldWidths`, `SaysFits`).
- *The frequency code.* The rows of the code have distinct low bits (`Rows`, by evaluation over the
  32 of them), so what is read as v begins with the code of v (`ReadOneSteps`), and the code of v is read
  as v: `FreqsBack` and `FreqsCanonical` follow the reader forwards through what was written, and back from
  where it ended.
- *The invariant* (`TraceInv`). While a block is encoded, the encoder is at a trace from the initial states
  (`RecordsTracedInv`, `LiteralsTracedInv`). A finished block (`Made`) is two whole traces and a header
  that announces them; while it is decoded the tables are those of the source (`BuiltFor`) and the decoder stands at the trace
  (`LiteralsAt`, `RecordsAt`). `RefusedInv` adds that no such block is refused, `ReadInv` what an accepted
  header of any origin was read from. At the end of a trace nothing is unread and the states are
  those the encoder began with. `TraceInv` says that traces exist, which TLC cannot enumerate: unlike the
  other inductive invariants it was not model-checked before the proof; what it implies is checked in `entropy`.

**MatchFinderProofs.** `TypeCorrect`, `MatchesDisjointHolds`, `MatchesCopyHolds`,
`PendingInReachHolds` and `ReturnsMatchList`, for every input, every hash function and every
setting under `FinderAssumption`. The invariant has three parts. `Scanning` types the scan and
keeps a search off the last `Margin` positions; `Emitted` says of what is emitted, pairwise, that
it is disjoint, a true copy and ends no later than `litStart`; `Held` says that the match held
back starts behind `litStart`, is shorter than `GoodMatch` and is searched from only strictly
inside. The last two facts carry `EmitGood`: a good match is longer than the one held, so it
replaces it and nothing emitted can overlap. `CandidateIsGood` shows that a candidate copies what
it says whatever table entry led to it, a zeroed one too, since the extension compares from the
first byte; `BestExists` that there is a best candidate, lengths and distances being bounded.
`ReturnsMatchList` closes the seam to the splitter: what `findMatches` returns is what
`BlockSplitter` assumes of its inputs.

Three definitions are written the way they are because tlapm expands neither `SelectSeq` nor
exponents: a bucket's entries (`BucketAt`, by counting the newer ones) and the rounds of the
two doubling copies (`FilledBefore` and `MatchCopy`, recursive functions of the round).

Only model-checked, with the reason:

- Liveness (`DecodingEnds`, `Delivered` and the liveness half of `BoundedOutput`): fairness and `ENABLED` are
  beyond tlapm. Every safety property of every run that passes is proved.

## 6. Plan

Done: all components of the library, and proofs of all their safety properties. What could follow is one
behaviour from `Compress` to `Decompress`: the theorems meet at `ReturnsMatchList` (finder and splitter),
`CapsFit` and `WithinBudgets` (splitter and encoder), the values of the records (encoder and entropy layer) and the sizes
of blocks and whether they are `within` their limits (`StreamFormat`, against `LzvnCodec!WithinRuns` and `BlockCodec!WithinBudgets`), and the seams themselves are argued in this document only.

## 7. Not modelled

- `appleinterop`: a cgo binding to a system library, for tests; `benchmarks`: a measuring
  program. Neither holds logic of the library.
- The hash functions: any function of the bytes is admitted in `MatchFinder` and `LzvnEncoder`.
- Little-endian access to fields except in the V1 header, where the layout is the subject; the
  moment at which full bytes leave the output accumulator; error texts; performance.
- Entropy coding and record decoding in one behaviour: `EntropyCodec` hands over symbols,
  `BlockCodec` and `BlockDecoder` start from them. The composition of both would multiply two
  state spaces that touch only in the records.
