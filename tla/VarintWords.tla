----------------------------- MODULE VarintWords -----------------------------
(***************************************************************************)
(* The varint codec of src/src/varint.rs at its real widths: ten bytes,    *)
(* 64 bits, eight bytes at a time in one word.  A word is the set of the   *)
(* numbers of its one-bits, a byte as well; | is union, & intersection and *)
(* ^ the symmetric difference.  Varint is the same codec over numbers.     *)
(*                                                                         *)
(* A run of values is written into a buffer, one unchecked write behind    *)
(* the other, or the buffer holds bytes from elsewhere; then it is read.   *)
(***************************************************************************)
EXTENDS Integers, Sequences
LOCAL INSTANCE FiniteSetsExt
LOCAL INSTANCE SequencesExt

CONSTANTS
  Values(_),    \* the words that are written into a buffer of a length
  Blank,        \* buffers to write into, with whatever they held before
  Foreign,      \* buffers whose bytes come from elsewhere
  RunBound      \* bound: values in one buffer

BITS == 64
MAX_VARINT_LEN == 10
Bit == 0..(BITS - 1)
Word == SUBSET Bit
ByteBit == 0..7
ByteWord == SUBSET ByteBit

ASSUME WordsAssumption ==
  /\ Blank \subseteq Seq(ByteWord) /\ Foreign \subseteq Seq(ByteWord)
  /\ \A m \in Blank : Values(Len(m)) \subseteq Word
  /\ RunBound \in Nat

VARIABLES
  mem,                \* the buffer
  at,                 \* bytes in it that count
  rd,                 \* bytes read
  last,               \* the last read: where it began (0: none yet), and its answer
  written, signed,    \* history: the words written; the signed value behind each, if any
  back                \* history: the words read

vars == <<mem, at, rd, last, written, signed, back>>

(***************************************************************************)
(* Words.                                                                  *)
(***************************************************************************)
Shl(x, k) == {b + k : b \in {c \in x : c + k < BITS}}
Shr(x, k) == {b - k : b \in {c \in x : c >= k}}
Not(x) == Bit \ x
Xor(x, y) == (x \ y) \cup (y \ x)

\* The bits b of a word with b % width in lo..hi: a mask that repeats every width bits.
Mask(width, lo, hi) == {b \in Bit : b % width \in lo..hi}

MSB == Mask(8, 7, 7)
LOW7 == Mask(8, 0, 6)
CONT(n) == MSB \cap 0..(8 * (n - 1) - 1)
KEEP7(n) == LOW7 \cap 0..(8 * n - 1)

\* Mutant: the last round moves the upper groups one bit too few.
compact7Short(w) ==
  LET x == (w \cap Mask(16, 0, 6)) \cup Shr(w \cap Mask(16, 8, 14), 1)
      y == (x \cap Mask(32, 0, 13)) \cup Shr(x \cap Mask(32, 16, 29), 2)
  IN  (y \cap Mask(64, 0, 27)) \cup Shr(y \cap Mask(64, 32, 59), 3)

\* Eight groups of seven bits, one per byte, into the low 56 bits, in three rounds.
compact7(w) ==
  LET x == (w \cap Mask(16, 0, 6)) \cup Shr(w \cap Mask(16, 8, 14), 1)
      y == (x \cap Mask(32, 0, 13)) \cup Shr(x \cap Mask(32, 16, 29), 2)
  IN  (y \cap Mask(64, 0, 27)) \cup Shr(y \cap Mask(64, 32, 59), 4)

\* The low 56 bits into eight groups of seven, in three rounds.
spread7(w) ==
  LET x == (w \cap Mask(64, 0, 27)) \cup Shl(w \cap Mask(64, 28, 55), 4)
      y == (x \cap Mask(32, 0, 13)) \cup Shl(x \cap Mask(32, 14, 27), 2)
  IN  (y \cap Mask(16, 0, 6)) \cup Shl(y \cap Mask(16, 7, 13), 1)

Load8(m, p) == UNION {{8 * k + b : b \in m[p + k]} : k \in 0..7}
Store8(m, p, w) ==
  [i \in DOMAIN m |->
     IF i \in p..(p + 7) THEN {b \in ByteBit : 8 * (i - p) + b \in w} ELSE m[i]]

(***************************************************************************)
(* Encoding.                                                               *)
(***************************************************************************)
\* Mutant: a value of a multiple of seven bits gets a byte of its own.
varint_lenLong(v) == (Max({0} \cup v) + 8) \div 7

\* The bits up to the highest that is set, one at least, in groups of seven.
varint_len(v) == (Max({0} \cup v) + 1 + 6) \div 7

\* Written at position p of the memory: eight bytes in one store whatever the length,
\* and up to two behind them.
write_varint_unchecked(m, p, v) ==
  LET spread == spread7(v)
      hi == Shr(v, 56)
      n == varint_len(v)
  IN  IF hi = {} THEN [mem |-> Store8(m, p, spread \cup CONT(n)), len |-> n]
      ELSE LET eight == Store8(m, p, spread \cup MSB)
           IN  IF 63 \notin v
                 THEN [mem |-> [eight EXCEPT ![p + 8] = hi], len |-> 9]
                 ELSE [mem |-> [eight EXCEPT ![p + 8] = hi \cup {7}, ![p + 9] = {0}],
                       len |-> MAX_VARINT_LEN]

write_varint_unchecked_narrow(m, p, v) ==
  IF v \subseteq 0..6 THEN [mem |-> [m EXCEPT ![p] = v], len |-> 1]
  ELSE write_varint_unchecked(m, p, v)

\* Mutant: the sign is shifted in, not spread.
zigzag_encodeSign(v) == Xor(Shl(v, 1), Shr(v, BITS - 1))

\* v >> 63 is arithmetic: all ones for a negative value.
zigzag_encode(v) == Xor(Shl(v, 1), IF 63 \in v THEN Bit ELSE {})

\* -(u & 1) is all ones for an odd u.
zigzag_decode(u) == Xor(Shr(u, 1), IF 0 \in u THEN Bit ELSE {})

(***************************************************************************)
(* Decoding, from position p of the first `end' bytes.                     *)
(***************************************************************************)
ReadMore == [status |-> "more", value |-> {}, len |-> 0]
ReadInvalid == [status |-> "invalid", value |-> {}, len |-> 0]
ReadOk(v, n) == [status |-> "ok", value |-> v, len |-> n]

\* Mutant: the tenth byte may hold any bits.
read_tenthAny(value, b) == ReadOk(value \cup Shl(b, 63), MAX_VARINT_LEN)

\* Only bit 63 is left for the tenth byte.
read_tenth(value, b) ==
  IF b \notin {{}, {0}} THEN ReadInvalid
  ELSE ReadOk(value \cup Shl(b, 63), MAX_VARINT_LEN)

read_varint_wide(m, p) ==
  LET w == Load8(m, p)
      terminators == Not(w) \cap MSB
      len == (Min(terminators) \div 8) + 1
      nine == compact7(w \cap LOW7) \cup Shl(m[p + 8] \ {7}, 56)
  IN  IF terminators # {} THEN ReadOk(compact7(w \cap KEEP7(len)), len)
      ELSE IF 7 \notin m[p + 8] THEN ReadOk(nine, 9)
      ELSE read_tenth(nine, m[p + 9])

\* The byte loop over fewer than ten bytes.
read_varint_tail(m, p, end) ==
  LET ends == {i \in p..end : 7 \notin m[i]}
      n == Min(ends) - p + 1
  IN  IF ends = {} THEN ReadMore
      ELSE ReadOk(UNION {Shl(m[p + i] \ {7}, 7 * i) : i \in 0..(n - 1)}, n)

read_varint(m, p, end) ==
  IF p > end THEN ReadMore
  ELSE IF 7 \notin m[p] THEN ReadOk(m[p], 1)
  ELSE IF end - p + 1 >= MAX_VARINT_LEN THEN read_varint_wide(m, p)
  ELSE read_varint_tail(m, p, end)

(***************************************************************************)
(* Behaviours.                                                             *)
(***************************************************************************)
Init ==
  /\ \/ mem \in Blank /\ at = 0
     \/ mem \in Foreign /\ at = Len(mem)
  /\ rd = 0 /\ last = [from |-> 0, read |-> ReadMore]
  /\ written = <<>> /\ signed = <<>> /\ back = <<>>

\* A caller writes unchecked only where ten bytes are left.
Written(result, v, s) ==
  /\ rd = 0
  /\ mem' = result.mem /\ at' = at + result.len
  /\ written' = Append(written, v) /\ signed' = Append(signed, s)
  /\ UNCHANGED <<rd, last, back>>
HasRoom == Len(written) < RunBound /\ Len(mem) - at >= MAX_VARINT_LEN

Write(v) == HasRoom /\ Written(write_varint_unchecked(mem, at + 1, v), v, <<>>)
WriteNarrow(v) == HasRoom /\ Written(write_varint_unchecked_narrow(mem, at + 1, v), v, <<>>)
WriteSigned(v) ==
  LET u == zigzag_encode(v)
  IN  HasRoom /\ Written(write_varint_unchecked(mem, at + 1, u), u, <<v>>)

\* read_varint; bytes that are malformed or too few are not read again.
Read ==
  LET r == read_varint(mem, rd + 1, at)
  IN  /\ rd < at /\ last' = [from |-> rd + 1, read |-> r]
      /\ IF r.status = "ok"
           THEN rd' = rd + r.len /\ back' = Append(back, r.value)
           ELSE UNCHANGED <<rd, back>>
      /\ UNCHANGED <<mem, at, written, signed>>

Next == (\E v \in Values(Len(mem)) : Write(v) \/ WriteNarrow(v) \/ WriteSigned(v)) \/ Read

Spec == Init /\ [][Next]_vars

-----------------------------------------------------------------------------
(***************************************************************************)
(* Properties, and the groups they are stated in.                          *)
(***************************************************************************)
\* The bytes of a value: groups of seven bits, the lowest first, no more than it
\* needs, each but the last with its continuation bit.
Encoding(v) ==
  LET groups == {0} \cup {b \div 7 : b \in v}
  IN  [i \in 1..(Max(groups) + 1) |->
         {b \in 0..6 : 7 * (i - 1) + b \in v} \cup (IF i <= Max(groups) THEN {7} ELSE {})]

\* The answer for the bytes s: the value of the groups up to the first byte without a
\* continuation bit, unless it has bits beyond the 64th or takes an eleventh byte.
Decoding(s) ==
  LET ends == {i \in DOMAIN s : 7 \notin s[i]}
      n == Min(ends)
      value == UNION {{7 * (i - 1) + b : b \in s[i] \ {7}} : i \in 1..n}
  IN  IF Len(s) >= MAX_VARINT_LEN /\ \A i \in ends : i > MAX_VARINT_LEN THEN ReadInvalid
      ELSE IF ends = {} THEN ReadMore
      ELSE IF value \subseteq Bit THEN ReadOk(value, n)
      ELSE ReadInvalid

\* A run of unchecked writes leaves the values' shortest encodings one behind the other,
\* whatever the buffer held: what a store leaves behind a value is covered by the next,
\* and nothing before the cursor is touched (write_varint_unchecked's safety comment).
WritesAreShortest ==
  written # <<>> => SubSeq(mem, 1, at) = FlattenSeq([i \in DOMAIN written |-> Encoding(written[i])])

\* A read answers what the groups say on each of its paths, bytes behind the value
\* notwithstanding; too wide and cut short are told apart (varint.rs:137-193).
ReadsAreGroups == last.from > 0 => last.read = Decoding(SubSeq(mem, last.from, at))

\* What was written comes back, signed values as well.
RoundTrip ==
  written # <<>> =>
    /\ last.read.status # "invalid" /\ IsPrefix(back, written)
    /\ \A i \in DOMAIN back : signed[i] # <<>> => zigzag_decode(back[i]) = signed[i][1]

\* A signed value becomes twice itself, or for a negative one twice its complement and
\* one: small magnitudes become small, no two values the same.
ZigZagIsSmall ==
  \A i \in DOMAIN written : signed[i] # <<>> =>
    LET v == signed[i][1]
    IN  written[i] = IF 63 \in v THEN {0} \cup {b + 1 : b \in Not(v)} ELSE {b + 1 : b \in v}
=============================================================================
