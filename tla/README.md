# Verification of the SofaBuffers Rust core library

TLA+ modules that model the streaming encoder and decoder of this repository
(`src/` below is the crate's source directory, `src/src/` in the paths of
`PROJECT.json`), TLC configurations that check them on small instances, and
TLAPS proofs of what holds for every instance.

## The system

The library turns calls into a byte stream and back. A message is a sequence
of fields, each headed by a varint `id << 3 | wire type`; sequences nest, and
arrays, strings, blobs and floats have their own heads. Both directions work
in pieces: the encoder through buffers of any size, the decoder through chunks
cut at any byte. Nothing runs concurrently and nothing is persisted; what makes
the code hard is that a call may be interrupted at every byte, by a full buffer
or by the end of a chunk, and that the state kept across the interruption must
be exactly right.

| Part | Source | State | Operations | Talks to |
|---|---|---|---|---|
| Streaming encoder | `ostream.rs`, `OStream` | buffer, `offset`, `end`, `depth`, `pending`, `dead`, sink | field writers, `write_sequence_begin_lazy`, `_end`, `_end_keep`, `flush`, `buffer_set` | the sink, by callback in the middle of a write |
| Held-back headers | `ostream.rs`, `PendingRun` | up to 255 ids | `push`, `pop`, `get`, `drop_front` | inside the encoder |
| Sinks | `ostream.rs`, `Flush`, `FlushTake` | the caller's | take the full buffer, answer with one to go on in | called by the encoder |
| Streaming decoder | `istream.rs`, `IStream` | `carry`, `resume`, `depth`, `invalid` | `feed`, `reset`, one-shot `decode` | the visitor, by callback |
| Visitor | `istream.rs`, `Visitor` | the application's | a callback per value, chunk, announcement, sequence mark | called by the decoder |
| Varints, ZigZag | `varint.rs` | none | encode, decode (a wide and a tail path) | both streams |
| Format | `types.rs`, `error.rs` | none | limits, tags | both streams |
| Wrapper arrays | `seq.rs` | container and live count, the caller's | `reserve_*`, `place_elem`, `reuse_*` | generated visitors |
| Payload accumulator | `payload.rs`, `PayloadAcc` | bytes so far, `complete` | `feed`, `reset`, `buffered` | generated visitors |
| Receiver | tests and docs, as generated code | destination, open sequences, first verdict, latched verdict | callbacks, `feed` of a consumer | above the decoder, uses the accumulator and the placement |
| Float comparison | `float_bits.rs` | none | `bits_equal` | generated encoders |

What makes each part correct, and where it could go wrong:

* **Encoder.** Every accepted byte leaves once, in order, whatever buffers the
  sink or the caller provides; a sequence appears on the wire only when it has
  content or is closed with `_end_keep`; the headers of nested sequences come
  out before the first content, once, outermost first; a call that fails leaves
  `depth` and `pending` in step with the wire; a refused replacement ends the
  stream for good. Hard: the buffer fills inside a held-back header, between
  two, or before an end marker; the sink answers with a buffer that has
  reserved room or is too small; `buffer_set` in the middle of a message. Below
  that: one capacity test lets several bytes, varints or array elements out
  unchecked, each store scribbles over more bytes than it counts, and every
  test has a fallback that can drain in the middle of a field.
* **Decoder.** The callbacks, the verdict and the state left behind do not
  depend on where the message was cut; each announcement is made once; a
  malformed message is rejected at the same byte and stays rejected; the fixed
  carry never fills. Hard: an item cut in its head is parsed again from its
  start with the next chunk, but behind its announcement it must not be; a
  payload continues by offset and an array by count, at times with carried
  bytes of the element in between.
* **Varints.** Ten bytes at most, the tenth with one bit; a truncated varint
  is not a malformed one; a wide and a narrow path read the same. Hard: eight
  bytes are loaded, packed and stored at once, and what a store leaves behind a
  short value must not count.
* **Wrapper arrays.** The container is what the accepted elements say, whatever
  their order and repetitions; no slot of an earlier decode is seen, though the
  container still holds them; a refused growth changes nothing. Hard: the
  steady state is a shortcut, growth resets a gap slot by slot, and the caller
  has a protocol of its own around the calls.
* **Payload accumulator.** A payload is handed back once and whole. Hard:
  payloads are abandoned, over-delivered or mixed with others', and one
  accumulator serves them all without a reset in between.
* **Receiver.** A bound is judged at the length word, text when it is whole,
  and what is rejected stays rejected; none of it may depend on the cuts. Hard:
  a visitor cannot stop the feed that calls it, so callbacks follow a verdict.

The `hazards` of `PROJECT.json` list each of these at its line.

## Modules

```
Varint ── Format ─┬─ Decode (reference decoder) ── FormatProofs
                  ├─ OStream ──┬─ OStreamRefinement ── Decode
                  │            │    │               ·· Encoder (abstract)
                  │            │    └─ OStreamProofs ── FormatProofs
                  │            └─ WritePaths ·· OStream
                  │                 └─ WritePathsProofs ── OStreamProofs
                  └─ IStream ──── IStreamChunking ── Decode
                                    └─ Receiver ·· PayloadAcc
                                         └─ IStreamProofs ── FormatProofs
WrapperArray ─┬─ Receiver
              ├─ FreshArray ── FreshArrayProofs
              └─ ReusedArray ·· FreshArray
                   └─ ReusedArrayProofs
PayloadAcc ── PayloadSource ── PayloadProofs
VarintWords ── VarintWordsProofs

── extends    ·· instantiates
```

* **Varint** — the codec of `varint.rs` over numbers. Groups have their real
  seven bits; only the number of bytes is a parameter (`MaxVarintLen`, ten in
  the code). `Unsigned` then has `7 * (MaxVarintLen - 1) + 1` bits, so the last
  byte of a full-length varint carries one bit as in the code, and overflow
  happens at small instances too. `ReadVarint` keeps the code's two paths: with
  `MaxVarintLen` bytes readable it always decides, with fewer it may ask for
  more and can never overflow.
* **VarintWords** — the same codec as the code computes it, at its real 64 bits
  and ten bytes: a word is the set of its one-bits, so that a mask is an
  intersection and a shift adds to each member. Loads and stores of eight
  bytes, the three rounds of `compact7` and `spread7`, the terminator search,
  the ninth and tenth byte, ZigZag. A run of values is written into a buffer
  that held something else and read back; or bytes from elsewhere are read.
* **Format** — `types.rs`: limits as constants with their assumptions (`ASSUME
  WidthAssumption`: no header or word overflows a varint), the tags, the
  callbacks of `Visitor`, and the `Resume` enum.
* **OStream** — the encoder. `end`, `offset`, `depth`, `pending`, `dead` are
  the struct's fields and `hasSink` is `flush.is_some()`. The buffer's memory
  is `room` (reserved bytes before the encoder's own) and `mem`; `out` is what
  left, to the sink or in a buffer the caller replaced. A call is a step that
  checks its arguments and leaves its bytes in `todo` (`Begin`), and further
  steps: `Push` fills the buffer, `DrainToSink` hands it over and takes any
  reply, `DrainFails` reports a full or dead stream, `HeaderWritten` goes
  through the held-back run (`commit_pending`), `NextElement` through an array,
  `Return` ends the call and only then counts a sequence as closed.
* **WritePaths** — how the code's routines do what OStream's `Push` does. A
  field is written by the routines in `routines`: `WriteVarint`,
  `WriteFieldVarint`, `WriteFixlenField` and `WriteElement` test the room once
  and store unchecked, or divert to `WriteSplit` and `PushRaw`, which alone may
  drain. `run` is how many elements one division (`RunRoom`) let out; `reach`
  is how far the last store scribbled. `ImplementsOStream` is OStream's
  specification, with the stores since the last full buffer taken back
  (`ahead`), so a path may not write other bytes, nor drain a buffer that is
  not full.
* **Encoder** — what an encoder promises, without buffers or bytes: a tree of
  fields and open sequences, of which a receiver is told what is visible.
* **OStreamRefinement** — OStream with the tree as history. What a receiver is
  told (`told`) is not history: it is what `Decode` makes of the bytes. The
  property `ImplementsEncoder` is `Encoder`'s specification under that mapping.
* **Decode** — the reference decoder: the field loop of `parse` over a whole
  message, one item after the other, with nothing suspended. `Run(s)` is a
  recursive function, where it is after n items; `Field` reads the words at a
  place and `Headed` says what they head. It is written apart from IStream so
  that the two can disagree.
* **IStream** — the decoder. `carry`, `resume`, `depth`, `invalid` are the
  struct's fields. A feed is a sequence of steps over `buf` from `pos`:
  `Feed` stitches the carry to the head of the chunk (`resume_carried`), one
  action per way `parse` goes on, and `CarryConsumed`, `CarryShort` and `Stash`
  are what `feed` does with the bytes that are left. `fed` and `events` are
  history.
* **IStreamChunking** — IStream against `Decode`.
* **WrapperArray** — the bounds of `seq.rs` (schema or cap, index or length)
  and what growing a container means.
* **FreshArray** — `reserve_elem`, `reserve_row`, `place_elem` into a container
  that starts empty, with the caller's writes into the slot it was handed. A
  slot is the sequence of what was written into it. `log` is history.
* **ReusedArray** — `reuse_elem`, `reuse_leaf`, `reuse_row` over a container
  that holds an earlier decode, step by step: the check, the steady state's
  shortcut, the push loop of `grow_to`, the loop that resets the gap, the slot
  that is reserved; and the caller's protocol (`BeginDecode`, `BeginWrapper`,
  `EndDecode` with its truncate, whatever the verdict). It implements
  FreshArray with `slots` cut at the live count (`DecodesAsFresh`).
* **PayloadAcc** — the accumulator's two fields and `feed` in its three ways to
  go. **PayloadSource** feeds it: payloads in any pieces, abandoned,
  over-delivered, with stray chunks in between, and resets.
* **Receiver** — the composition above the decoder, of the shape the generator
  emits and the tests write by hand: IStream calls a visitor for `{ name:
  string, tags: array<string> }` with one PayloadAcc and the placement of
  WrapperArray, and a consumer latches the first verdict. The visitor runs
  between the decoder's steps, one callback at a time, and cannot stop a feed:
  behind a verdict it takes payloads like any other, as most of those visitors
  do (`header_limits.rs:302`, `payload_acc_tests.rs:40`), and only a further
  verdict is dropped (`Raised`).
* **FormatProofs, VarintWordsProofs, OStreamProofs, WritePathsProofs,
  IStreamProofs, PayloadProofs, FreshArrayProofs, ReusedArrayProofs** — the
  proofs. FormatProofs has the lemmas of Varint, Format and Decode that the
  proofs of both streams rest on; IStreamProofs is about the decoder and about
  the receiver above it.
* **MC…** — values for TLC.

## Runs

| Run | Question | Bounds |
|---|---|---|
| `refine_framing` | Is the wire the abstract message, whatever the buffers, handovers, failures and buffer-sets? Is no byte lost, and dead final and reported? | two sequences deep (`MAX_DEPTH` = 2, so the limit is met), ids with one- and two-byte headers and one over the limit, buffers of 0, 1 and 3 bytes with 0 or 1 reserved (some invalid), no call begins once four bytes are out (`WireBound`) |
| `refine_writers` | Does every writer produce what decodes back to it, and refuse what it must? | every writer with empty, normal, over-long and ill-typed arguments, one field inside at most one sequence; the same buffers |
| `write_paths` | Does every unchecked store stay in the buffer, every path write what OStream pushes, and every call return? | fields and arrays of up to three elements; buffers of 0 to 6 bytes, on both sides of each test (two varints need four bytes, two and a payload six), with and without reserved room |
| `varint_words` | Do the word-wide paths write and read the groups of seven? | every word with one or two one-bits, one run of them, or all but two; up to three values (`RunBound`) at the ends of each length; 0 to 10 continuing bytes of each kind before a last byte |
| `istream` | Are cuts invisible, for every short message and in long items? Do callbacks come in order, and does every feed return? | 5103 sequences of four bytes over an alphabet with every wire type; 18 messages with every kind of item and of malformation; varints of three bytes, so that the carry holds up to eight; every cut, empty chunks included |
| `payload_acc` | Does a payload come back whole and once, and nothing older? | payloads of 0 to 4 bytes, one a prefix of another, up to two bytes too many, strays that announce less, as much and more than has come; no further chunk behind five bytes (`ArrivedBound`), while a payload has four |
| `fresh_array` | Is the array what the accepted calls say? | four ids, bounds below the largest and a cap of 0, containers of two and four slots, four calls (`LogBound`), two values in a slot (`SlotBound`) |
| `reused_array` | Does a reused destination decode as a fresh one, and does a refusal change nothing? | the same, with any number of decodes one after another |
| `receiver` | Do verdict and destination depend on the cuts, or on what comes behind a verdict? | 14 messages within and beyond each bound, with fields repeated, foreign and malformed; every cut; any number of messages one after another |
| `istream_carry` | *violated*: are `carry` and `resume` never both set? | as `istream`, whole messages |
| `payload_acc_buffered` | *violated*: is `buffered` non-zero exactly while a split payload is incomplete? | as `payload_acc` |

The bounds are enough for what the runs ask because the code treats bytes
alike: an interruption can only fall before, inside or behind a header, word,
value, element, payload or marker, and each of these is longer than one byte
in some run and the buffers and chunks are shorter. The depth limit, the id,
length and count limits and the varint width are met in the runs. What a
second sequence inside a first adds (a run of two headers, one of them out) is
there; a third adds nothing new to `commit_pending`. A wrapper array treats
slots alike; four ids give a gap of two slots of which an earlier decode left
none, one or both. In `varint_words` the masks and shifts act on each bit by
itself, so words with one bit show where each bit goes and those with two that
none is in another's way; carries exist nowhere in the codec.

`WireBound`, `LogBound`, `ArrivedBound` and `RunBound` limit when a call may
start, not how far it gets, so every call runs to its end. A deadlock is
allowed only in `varint_words`, where a buffer that was read out is done;
everywhere else a caller can always call.

**Properties.** Of the encoder: `TypeOK` (with the bound of the held-back
array), `HeldBackAreOpen`, `CursorInBuffer`, `StoresInBuffer`, `NothingLost`,
`DeadIsFinal`, `DeadIsReported`, `CallsReturn`, `WireIsWhole`,
`ImplementsEncoder`, `ImplementsOStream`. Of the codec: `WritesAreShortest`, `ReadsAreGroups`,
`ZigZagIsSmall`, `RoundTrip`. Of the decoder: `TypeOK`, `CarryIsOnePrefix`,
`PayloadsInOrder`, `ArraysInOrder`, `InvalidIsTerminal`, `ChunkingInvisible`,
`FeedReturns`. Of what is above it: `PayloadHandedBack`, `NothingStale`,
`ArrayIsWhatArrived`, `RefusalChangesNothing`, `DecodesAsFresh`,
`VerdictIsChunkFree`, `DestinationIsMessage`. Each is stated in words where it is defined. Each passing run has, for each of its
properties, a plausible bug of the code (the operators marked *Mutant*) under
which TLC finds it violated.

Encoder and decoder meet in `Decode`: the encoder's bytes decode to the calls
(`ImplementsEncoder`), and the streaming decoder gives for any bytes, cut in any
way, what `Decode` gives (`ChunkingInvisible`).

**Fairness.** `WF_vars(Steps)` in both streams, and `WF_allVars(PathSteps)` in
WritePaths: a call that was made goes on. The code is sequential, the steps of
a call follow each other without waiting, and sinks and visitors are ordinary
callbacks that return. No fairness is assumed of the calls themselves.
`CallsReturn` is then about the loops of the writers: it needs the minimum
capacity that `hand_over` asks of a replacement. Accumulator, arrays, codec and
receiver need none: their properties are of what has happened.

## Where the code and its documentation differ

* `istream.rs:429` says that `carry` and `resume` are never both set, and
  `istream.rs:320` that array elements never reach the carry. An element (or
  float) cut by the end of a chunk sets `resume` and has its first bytes
  stashed. Nothing goes wrong: `resume_carried` parses the carry through
  `resume_item`. Run `istream_carry`.
* `payload.rs:161` says that `buffered` is zero between messages and non-zero
  exactly while a split payload is incomplete. `feed` hands a split payload
  back as a slice of its buffer, which it can then not clear: the bytes stay
  until the next first chunk or `reset`. Run `payload_acc_buffered`.

## Proofs

TLAPS proves, for every value of the constants (varint width, limits, minimum
capacity, any sets of ids, values, payloads, bounds, capacities and buffers, any
messages, and any bounds of a receiver):

| Module | Theorem | States |
|---|---|---|
| OStreamProofs | `TypeCorrect` | `Spec => []TypeOK` |
| | `CursorCorrect` | `Spec => []CursorInBuffer` |
| | `HeldBackCorrect` | `Spec => []HeldBackAreOpen` |
| | `NoByteLost` | `Spec => NothingLost` |
| | `DeadStaysDead` | `Spec => DeadIsFinal` |
| | `DeadAnswers` | `Spec => DeadIsReported` |
| | `EncoderWritesWholeItems` | `TraceSpec => []WireIsWhole` |
| | `StreamImplementsEncoder` | `TraceSpec => ImplementsEncoder`, that is, OStream implements Encoder |
| WritePathsProofs | `StoresCorrect` | `PathSpec => []StoresInBuffer` |
| | `PathCursorCorrect` | `PathSpec => []CursorInBuffer` |
| | `WritePathsPush` | `PathSpec => Pushes!Init /\ [][Pushes!Next]_(Pushes!vars)`, that is, WritePaths implements OStream but for fairness |
| IStreamProofs | `DecoderTypeCorrect` | `Spec => []TypeOK` |
| | `CarryCorrect` | `Spec => []CarryIsOnePrefix` |
| | `PayloadOrderCorrect` | `Spec => []PayloadsInOrder` |
| | `ArrayOrderCorrect` | `Spec => []ArraysInOrder` |
| | `VerdictIsTerminal` | `Spec => InvalidIsTerminal` |
| | `MeaningInvariant` | in every state the reference decoder passes through the place of the streaming one, with the callbacks made so far |
| | `ChunkingIsInvisible` | `Spec => []ChunkingInvisible` |
| | `ReceiverInvariant` | under `ReceiverSpec` the decoder keeps its invariants, and the visitor is where the callbacks it handled say |
| | `VerdictCorrect` | `ReceiverSpec => []VerdictIsChunkFree` |
| | `DestinationCorrect` | `ReceiverSpec => []DestinationIsMessage` |
| FormatProofs | `VarintRoundTrip` | `ReadVarint` reads every `Unsigned` back from its `EncodeVarint`, whatever follows it |
| | `ZigZagRoundTrip` | `ZigZagDecode` undoes `ZigZag` on every `Signed` |
| VarintWordsProofs | `VarintLenCorrect` | the formula of `varint_len` is the length of the shortest encoding, 1 to `MAX_VARINT_LEN` bytes, for every word |
| | `WritesAreShortestCorrect` | `Spec => []WritesAreShortest` |
| | `ReadsAreGroupsCorrect` | `Spec => []ReadsAreGroups` |
| | `RoundTripCorrect` | `Spec => []RoundTrip` |
| | `ZigZagIsSmallCorrect` | `Spec => []ZigZagIsSmall` |
| PayloadProofs | `PayloadTypeCorrect` | `Spec => []TypeOK` |
| | `PayloadComesWhole` | `Spec => []PayloadHandedBack` |
| | `PayloadNothingStale` | `Spec => []NothingStale` |
| FreshArrayProofs | `FreshTypeCorrect` | `Spec => []TypeOK` |
| | `FreshIsWhatArrived` | `Spec => []ArrayIsWhatArrived` |
| ReusedArrayProofs | `ReusedTypeCorrect` | `Spec => []TypeOK` |
| | `RefusalsCorrect` | `Spec => []RefusalChangesNothing` |
| | `ReusedIsFresh` | `Spec => DecodesAsFresh`, that is, ReusedArray implements FreshArray |

*Encoder.* The invariants are proved together. None is inductive alone: what a
handover takes is well typed because the cursor is the reserved room plus what
was written; the commit loop reads the run inside its bounds because of
`HeldBackAreOpen`; a closing call may count down because a sequence was open
when it began. The inductive invariant `IInv` adds one fact no run
needed to state: between calls nothing of a call is left (`IdleIsClean`);
without it, dropping a held-back sequence could follow a half-finished closing
call. There is one lemma per action. `NoByteLost` rests on `WireGrows`: a step
appends bytes to the wire or leaves it alone, since a handover only moves what
lies between `room` and `offset`, which is all of `mem`. `DeadStaysDead` needs
that a dead stream has no buffer, so that no write path can store a byte.
`DeadAnswers` needs one thing more: a call in progress on a dead stream has a
byte left to put out (`DeadHasMore`), since every header has one; having no
buffer to put it in, the call can only fail, and reports it. What is left is
the exception that the comment of `hand_over` names (`ostream.rs:488`): a call
that only holds a header back, or drops one, writes nothing and succeeds.

*Encoder against the tree.* The invariant (`TraceInv`) has the wire together with
what is left of the item that is being written: whatever the cut, the two are
whole items and that item (`Whole`, `InFront`; `InElements` within an array).
Without what is left nothing could be said of a wire that ends inside an item,
and the step that ends it could not be shown to add a whole one. `Whole` says
where the reference decoder is at the end of the wire: as many sequences deep
as are open and not held back (`Framed`), with the callbacks of the tree up to
there (`ToldTo`). It is inductive only with the tree's shape (`TreeInv`: the
held-back sequences are the innermost frames and have no content) and with what
the call in progress was asked (`AskedInv`: its arguments were accepted, so
what it writes can be read back). Two kinds of lemmas carry it. What a writer
puts out for accepted arguments the reference reads back as the callbacks asked
for, field by field (`AcceptedIsTold`); this is where the codec's round trips
are used. And each step does to the tree what one action of Encoder does, or
leaves it, or tears the item (`Traced`); from that `StreamImplementsEncoder`
follows step by step, `told` being what the reference makes of the wire.

*Write paths.* That a store stays in the buffer is a matter of what the routine
still has to write when the room is measured. The invariant `PInv` says that it
has the shape the routine expects (so its lengths bound what the test adds up),
that what one division lets out keeps room for the whole reach of each element
that is left, and that the bytes stored since the last full buffer (`ahead`)
are the front of what OStream still has to push. With nothing ahead the
refinement mapping is the identity and a step is OStream's own; a store that
ends neither the piece nor the buffer is a stutter; one that does is OStream's
`Push` of all the bytes ahead.

*Decoder.* Three parts, each inductive only with the others: `TypeInv`; what
the carry holds for each place a feed can stop at (`CarryInv`), where a stitched
carry is shorter than an item until a byte of the chunk completes it; and, for
the log, what its last entries say of the item that is being resumed
(`OrderInv`), from which the next chunk's offset and how many elements are still
to come follow. That what is read is in its range rests on FormatProofs.

*Decoder against the reference.* `ChunkingInvisible` speaks of the state between
feeds; the invariant has to hold inside one. `PlaceInv` says where the bytes the
decoder holds (the carry, the bytes being parsed behind the cursor, the chunk)
are among all that were fed. `MeaningInv` says that the reference, run on what
was fed, passes through the decoder's place, with its depth, its item and its
callbacks joined; inside a payload, which the reference reads as one, it is at
the payload's start and the bytes since are its chunk (`Means`). The decoder
parses a copy of a few bytes, the reference all of them, so every step rests on
`StepAgrees`: two byte sequences that agree from a place on decide an item
alike, if it is decided at all. More bytes do not change what was decided
(`ReachesOn`), which is what a new feed needs. Between feeds the reference can
go no further because what is carried is short (`CarryInv`), so it ran out where
the decoder did (`RestsRunOut`), and `Decode` is that (`DecodeIs`: each item
takes a byte or ends one that did, so `2 * Len(s) + 1` steps do).

*Receiver.* A step of the receiver is a step of its decoder or none of it
(`ReceiverIsDecoder`), so the decoder's invariants hold under it, and what is
left is the visitor. `ReceiverInv` says that the visitor is where `Told` says,
the callbacks it has handled joined up: the sequences it has open, its verdict
(`FirstBreach`), and, while nothing was rejected, its name and tags
(`VisitorInv`). That alone is not inductive: what the accumulator holds has to
be the payload in progress as far as it was told, and a payload of the message
must have been let through when it was announced (`HeldInv`); the list must
not have passed its container, or a slot beyond it would not be refused;
`LastInv` and `ConsumerInv` tie what was handled to
the decoder's log and to the message. Behind a verdict the
visitor goes on taking payloads, which leave the verdict (`Raised`); nothing
more is needed of them, or claimed.
One more callback changes the first breach, the name and the tags as the
visitor's handlers do (`FirstBreachNext`, `NameNext`, `TagsNext`), and the
pieces of a payload that is not whole change none of them
(`UnfinishedSaysNothing`). Between feeds everything was handled, and then `Told`
is what `Decode` makes of what was fed (`ChunkingInvisible`): that is
`DestinationIsMessage`. `VerdictIsChunkFree` speaks of all bytes the consumer
was offered, and behind a rejection it feeds no more of them. So the proof needs
that the reference does not take back what it told (`DecodeTells`) and that a
breach or a malformed item stands whatever comes behind it (`FirstBreachStays`,
`BreachStands`).

*Codec over numbers.* A varint is read back because, after each group, the
groups so far and what they leave of the value make the value (`LeftFrom`); the
reader stops where the writer did since nothing is left there exactly
(`NothingLeft`). Both read paths, any position and any bytes behind it.

*Codec over words.* A routine on words is described by where bit `e` of its
result comes from. The three rounds of `spread7` and `compact7` compose to "the
bit of a group is the bit of its byte" (`SpreadIs`, `CompactIs`), eight bytes in
a word to "bit `e` is bit `e % 8` of byte `e \div 8`" (`LoadIs`, `StoreIs`). So
every read is one of three (`ReadCases`): it ends at the first byte that does
not go on, it runs out, or it looks at the tenth; and each is what the
reference answers (`ReadIsReference`). A write leaves the groups of the value
and the bytes before it alone (`WriteIs`, `NarrowIs`); the invariant keeps where
each value written ends (`Cuts`), so that a later store, scribbling behind the
last, keeps them all, and the reads' cursor is always at one of these places.

*Accumulator.* `NothingStale` is not inductive: that what is handed back is the
front of what arrived needs that the buffer is what arrived as long as nothing
was handed back (`HeldArrived`). That it is the payload needs that what arrived
agrees with the payload as far as both go (`AloneAgrees`); over-delivery is why
it cannot be a prefix of it.

*Fresh array.* `ArrayIsWhatArrived` speaks of the whole log; the proof is what
one more entry does to what arrived: nothing to another id's, which has one
more piece without values, and to its own a piece more at the end or, when it
replaces, no piece but its own. The length is kept as the furthest id accepted.

*Reused array.* The invariant says what lies behind the live count in the
middle of a call (`ResetSoFar`): the slots the push loop added and the gap as
far as the loop has been hold the default; what is left of the gap, and the
slot that is reserved, may be an earlier decode's. A call that grows keeps the
bound that let it through (`GrowingCall`), from which a refusal is the abstract
one; a full container is found before the first push (`NothingChanged`).
`ReusedIsFresh` maps each step of a call to a stutter but the last, which is
FreshArray's reservation; `HandOverRefines` is the one place where the two ways
to a slot, the shortcut and the growth, are compared with it.

The assumptions are the `ASSUME`s of Varint, VarintWords, Format, OStream,
IStream, Receiver, PayloadSource, FreshArray and ReusedArray: sizes, ids and
bounds are natural numbers or absent, a buffer with a sink must have room for a
byte, the caller's values have their types, and `128^0 = 1` and `128^(i+1) = 128 * 128^i` (the provers have no rule for the
power). TLC evaluates all of them. Where an argument needs induction over
numbers (the groups of a varint, the pieces of a log joined up), it is on a set
of numbers with a least element, which the library proves from well-foundedness.

Only liveness is model-checked and not proved (`CallsReturn`, `FeedReturns`, and
the fairness that `ImplementsOStream` asks for beside the steps that
`WritePathsPush` proves): it is out of this prover's reach. Every other property
of a passing run is a theorem above.

The inductive invariants are in the modules of proofs; the runs state what they
imply. TLC evaluates most of them (a module that extends the MC module and the
proofs is enough), and no reachable state breaks them: `ItemsWellFormed`,
`CarryFits`, `Latched`, `CarryInv`, `OrderInv`, `PlaceInv` and `MeaningInv` on
the constants of `IStreamCarry.cfg`; `CallInv`, `TodoInv`, `RunInv` and
`AheadInv` on those of `WritePaths.cfg`; the parts of `TraceInv` on those of
`RefineWriters.cfg`; and those of `ReceiverInv` on those of `Receiver.cfg`.
What they say of the reference's steps is evaluated with `2 * Len(s) + 1` of
them, which `DecodeIs` shows to be all.
`Cuts` it cannot evaluate, which quantifies over functions on the whole output,
nor types like `events \in Seq(Events)`.

## Not modelled

`float_bits.rs`, a stateless comparison of two slices of memory; the crate
root, features, benches, scripts and the smoke program `roundtrip.rs`, which
uses the public API once. Floats are byte images, not numbers. Buffer memory
before the reserved room's end is the caller's and has no content here. The
byte count that `flush` returns and `bytes_used` are `offset`. The text that a
Receiver judges has one two-byte character, which is what a cut can divide.
The trait implementations for `Vec` and `heapless::Vec` differ in their
capacity only.

## Plan

1. *Done:* the encoder with its abstract specification and its write paths, the
   decoder with its reference, the codec over numbers and over words, the
   accumulator, wrapper arrays fresh and reused, and the receiver that composes
   decoder, accumulator and placement.
2. *Done:* proved: the encoder's invariants and action properties, its write
   paths and their refinement, that it implements the abstract encoder, the
   decoder's invariants and that cuts are invisible, the receiver's verdict
   and destination, both codecs, the accumulator's contract, the fresh
   array and the reused array's refinement.
3. Nothing a run checks is left to prove but liveness, for which the prover has
   no rules. What could still be modelled is listed above under *Not modelled*.
