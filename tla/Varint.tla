------------------------------- MODULE Varint -------------------------------
(***************************************************************************)
(* The base-128 varint codec of src/src/varint.rs: how a value becomes     *)
(* bytes, and what a read at a position of a byte sequence answers.  Bytes *)
(* are the numbers 0..255 and the group width is the real one (7 bits);    *)
(* the only thing scaled down is MaxVarintLen, ten in the code.  A value   *)
(* of the scaled type `Unsigned' has 7*(MaxVarintLen-1)+1 bits, as u64 has *)
(* 7*9+1: the last byte of a full-length varint carries exactly one bit.   *)
(***************************************************************************)
EXTENDS Integers, Sequences
LOCAL INSTANCE FiniteSetsExt

CONSTANT MaxVarintLen       \* bytes of the longest varint (MAX_VARINT_LEN)

ASSUME MaxVarintLenAssumption == MaxVarintLen \in Nat /\ MaxVarintLen >= 2

Byte == 0..255
Continue == 128             \* the continuation bit, and the radix of a group

\* The provers have no axiom for the power; TLC evaluates this fact about it.
ASSUME WeightAssumption ==
  /\ Continue^0 = 1
  /\ \A i \in 0..(MaxVarintLen - 1) : Continue^(i + 1) = Continue * Continue^i

Half == Continue^(MaxVarintLen - 1)
MaxUnsigned == 2 * Half - 1
Unsigned == 0..MaxUnsigned
Signed == (-Half)..(Half - 1)

(***************************************************************************)
(* Encoding.                                                               *)
(***************************************************************************)
\* The fewest groups that hold v, and one for zero.
VarintLen(v) ==
  CHOOSE n \in 1..MaxVarintLen :
    (n < MaxVarintLen => v < Continue^n) /\ \A i \in 1..(n - 1) : v >= Continue^i

\* The i-th byte of v's encoding: seven bits, low group first, with the
\* continuation bit on every byte but the last.
VarintByte(v, i) ==
  LET group == (v \div Continue^(i - 1)) % Continue
  IN  IF i < VarintLen(v) THEN group + Continue ELSE group

Varint(v) == [i \in 1..VarintLen(v) |-> VarintByte(v, i)]

\* Mutant: the sign bit is lost.
ZigZagUnsigned(v) == IF v >= 0 THEN 2 * v ELSE -2 * v

\* zigzag_encode: signed values of small magnitude become small unsigned ones.
ZigZag(v) == IF v >= 0 THEN 2 * v ELSE -2 * v - 1

ZigZagDecode(u) == IF u % 2 = 0 THEN u \div 2 ELSE -(u \div 2) - 1

(***************************************************************************)
(* Decoding.  A read answers a value and the bytes it took, or that the    *)
(* bytes ran out ("more", Ok(None) in the code), or that the value is too  *)
(* wide for Unsigned ("invalid").                                          *)
(***************************************************************************)
ReadMore == [status |-> "more", value |-> 0, len |-> 0]
ReadInvalid == [status |-> "invalid", value |-> 0, len |-> 0]
ReadOk(v, n) == [status |-> "ok", value |-> v, len |-> n]

\* The value of the n bytes of s from position p.
Groups(s, p, n) ==
  LET value[k \in 0..n] ==
        IF k = 0 THEN 0
        ELSE value[k - 1] + (s[p + k - 1] % Continue) * Continue^(k - 1)
  IN  value[n]

\* The positions, counted from p, of the bytes within the next n that end a varint.
Terminators(s, p, n) == {i \in 1..n : s[p + i - 1] < Continue}

\* read_varint_wide: MaxVarintLen bytes are readable, so it always decides.
ReadWide(s, p) ==
  LET ends == Terminators(s, p, MaxVarintLen - 1)
      last == s[p + MaxVarintLen - 1]
  IN  IF ends # {} THEN ReadOk(Groups(s, p, Min(ends)), Min(ends))
      ELSE IF last > 1 THEN ReadInvalid
      ELSE ReadOk(Groups(s, p, MaxVarintLen), MaxVarintLen)

\* read_varint_tail: fewer than MaxVarintLen bytes are readable, so no byte can
\* overflow the value, and running out of bytes is no error.
ReadTail(s, p) ==
  LET ends == Terminators(s, p, Len(s) - p + 1)
  IN  IF ends = {} THEN ReadMore
      ELSE ReadOk(Groups(s, p, Min(ends)), Min(ends))

ReadVarint(s, p) ==
  IF Len(s) - p + 1 >= MaxVarintLen THEN ReadWide(s, p) ELSE ReadTail(s, p)
=============================================================================
