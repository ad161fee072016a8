---------------------------- MODULE FormatProofs ----------------------------
(***************************************************************************)
(* Facts about the wire format that hold for every length of varints and   *)
(* every value of the limits: about the varint codec, and about the        *)
(* reference decoder of the module Decode.                                 *)
(*                                                                         *)
(* Everything the proofs of the two streams need about bytes is here: what *)
(* a read answers and how it depends on bytes that come later (ReadLocal), *)
(* that a value comes back from its encoding (VarintRoundTrip), what one   *)
(* step of the reference decoder does and that more bytes do not change it *)
(* unless they had run out (StepAgrees), that `Decode' takes enough steps  *)
(* to come to a verdict (DecodeIs), and that it does not take back what it *)
(* told on the way (DecodeTells).                                          *)
(***************************************************************************)
EXTENDS Decode, FiniteSetTheorems, SequenceTheorems, TLAPS
LOCAL INSTANCE FiniteSetsExt

(***************************************************************************)
(* Induction.  The library's induction theorems take an operator, which    *)
(* the provers cannot instantiate; these say the same about sets.          *)
(***************************************************************************)
Below == {pair \in Nat \X Nat : pair[1] < pair[2]}

\* Every set of numbers that is not empty has a least element.
LEMMA LeastElement ==
  ASSUME NEW S \in SUBSET Nat, S # {}
  PROVE  \E m \in S : \A n \in S : m <= n
<1>1. IsWellFoundedOn(Below, Nat)
  BY NatLessThanWellFounded DEF OpToRel, Below
<1>2. PICK m \in S : \A n \in S : <<n, m>> \notin Below
  BY <1>1, WFMin
<1>3. \A n \in S : m <= n
  <2> TAKE n \in S
  <2> DEFINE pair == <<n, m>>
  <2>1. pair \in Nat \X Nat /\ pair[1] = n /\ pair[2] = m
    OBVIOUS
  <2>2. pair \notin Below
    BY <1>2
  <2>3. ~(n < m)
    <3> HIDE DEF pair
    <3> QED  BY <2>1, <2>2 DEF Below
  <2> QED  BY <2>3
<1> QED  BY <1>3

\* A set of numbers that holds 0 and the successor of each of its elements holds all.
LEMMA Induction ==
  ASSUME NEW S \in SUBSET Nat, 0 \in S, \A n \in S : n + 1 \in S
  PROVE  S = Nat
<1> SUFFICES ASSUME Nat \ S # {} PROVE FALSE
  OBVIOUS
<1>1. PICK m \in Nat \ S : \A n \in Nat \ S : m <= n
  BY LeastElement
<1>2. m # 0 /\ m - 1 \in Nat
  BY <1>1
<1>3. m - 1 \in S
  BY <1>1, <1>2
<1> QED  BY <1>1, <1>2, <1>3

\* Min picks the least element.
LEMMA MinIsLeast ==
  ASSUME NEW S \in SUBSET Nat, S # {}
  PROVE  Min(S) \in S /\ \A n \in S : Min(S) <= n
BY LeastElement DEF Min

(***************************************************************************)
(* Encoding.                                                               *)
(***************************************************************************)
\* The weight of a group is positive.
LEMMA WeightType == \A i \in 0..MaxVarintLen : Continue^i \in Nat \ {0}
<1> DEFINE S == {i \in Nat : i <= MaxVarintLen => Continue^i \in Nat \ {0}}
<1>1. 0 \in S
  BY WeightAssumption
<1>2. ASSUME NEW i \in S PROVE i + 1 \in S
  <2> SUFFICES ASSUME i + 1 <= MaxVarintLen PROVE Continue^(i + 1) \in Nat \ {0}
    OBVIOUS
  <2> DEFINE w == Continue^i
  <2>1. Continue^(i + 1) = 128 * w /\ w \in Nat \ {0}
    BY WeightAssumption, MaxVarintLenAssumption DEF Continue
  <2> HIDE DEF w
  <2> QED  BY <2>1
<1> HIDE DEF S
<1>3. S = Nat
  BY <1>1, <1>2, Induction DEF S
<1> QED  BY <1>3, MaxVarintLenAssumption DEF S

\* A varint has at least one byte and never more than MaxVarintLen, the room the
\* writers reserve for it (varint_len): the fewest groups that hold the value.
LEMMA VarintLenBounds ==
  ASSUME NEW v \in Nat
  PROVE  /\ VarintLen(v) \in 1..MaxVarintLen
         /\ VarintLen(v) < MaxVarintLen => v < Continue^VarintLen(v)
         /\ \A i \in 1..(VarintLen(v) - 1) : v >= Continue^i
<1> DEFINE S == {n \in 1..MaxVarintLen : n < MaxVarintLen => v < Continue^n}
<1>1. MaxVarintLen \in S /\ S \in SUBSET Nat
  BY MaxVarintLenAssumption
<1>2. PICK n \in S : \A m \in S : n <= m
  BY <1>1, LeastElement
<1>3. \A i \in 1..(n - 1) : v >= Continue^i
  <2> TAKE i \in 1..(n - 1)
  <2>1. i \in 1..MaxVarintLen /\ i < MaxVarintLen /\ i \notin S
    BY <1>2, MaxVarintLenAssumption
  <2>2. Continue^i \in Nat
    BY <2>1, WeightType, MaxVarintLenAssumption
  <2> DEFINE w == Continue^i
  <2>3. ~(v < w)
    BY <2>1
  <2> HIDE DEF w
  <2> QED  BY <2>2, <2>3 DEF w
<1>4. \E m \in 1..MaxVarintLen :
        (m < MaxVarintLen => v < Continue^m) /\ \A i \in 1..(m - 1) : v >= Continue^i
  BY <1>2, <1>3
<1> QED  BY <1>4 DEF VarintLen

\* Every byte of an encoding is a byte (write_varint_unchecked).
LEMMA VarintByteType ==
  ASSUME NEW v \in Nat, NEW i \in 1..VarintLen(v)
  PROVE  VarintByte(v, i) \in Byte
<1> DEFINE weight == Continue^(i - 1)
           group == (v \div weight) % Continue
<1>1. i - 1 \in 0..MaxVarintLen
  BY VarintLenBounds, MaxVarintLenAssumption
<1>2. weight \in Nat \ {0}
  BY <1>1, WeightType
<1>3. v \div weight \in Nat
  <2> HIDE DEF weight
  <2> QED  BY <1>2
<1>4. group \in 0..127
  <2> HIDE DEF weight
  <2> QED  BY <1>3 DEF Continue
<1>5. VarintByte(v, i) \in {group, group + 128}
  BY DEF VarintByte, Continue
<1> HIDE DEF group
<1> QED
  BY <1>4, <1>5 DEF Byte

\* The encoding of a value is a sequence of bytes.
LEMMA VarintType ==
  ASSUME NEW v \in Nat
  PROVE  Varint(v) \in Seq(Byte)
<1>1. VarintLen(v) \in Nat
  BY VarintLenBounds
<1>2. Varint(v) \in [1..VarintLen(v) -> Byte]
  BY VarintByteType DEF Varint
<1> QED
  BY <1>1, <1>2

\* ZigZag maps every signed value to an unsigned one (zigzag_encode).
LEMMA ZigZagType ==
  ASSUME NEW v \in Int
  PROVE  ZigZag(v) \in Nat
BY DEF ZigZag

(***************************************************************************)
(* Decoding.                                                               *)
(***************************************************************************)
\* The k-th byte from p is a byte.
LEMMA ByteFrom ==
  ASSUME NEW s \in Seq(Byte), NEW p \in Nat \ {0}, NEW n \in Int, p + n - 1 <= Len(s)
  PROVE  \A k \in 1..n : s[p + k - 1] \in 0..255
<1> TAKE k \in 1..n
<1> DEFINE j == p + k - 1
<1>1. j \in 1..Len(s)
  OBVIOUS
<1> HIDE DEF j
<1>2. s[j] \in Byte
  BY <1>1, ElementOfSeq
<1> QED  BY <1>2 DEF Byte, j

\* What the k-th byte from p adds to a value.
Group(s, p, k) == (s[p + k - 1] % Continue) * Continue^(k - 1)

\* f sums up the first k groups from p, for every k up to n.
IsSum(f, s, p, n) == f = [k \in 0..n |-> IF k = 0 THEN 0 ELSE f[k - 1] + Group(s, p, k)]

\* A group of a byte that is there is a number.
LEMMA GroupType ==
  ASSUME NEW s \in Seq(Byte), NEW p \in Nat \ {0}, NEW n \in 0..MaxVarintLen,
         p + n - 1 <= Len(s)
  PROVE  \A k \in 1..n : Group(s, p, k) \in Nat
<1> TAKE k \in 1..n
<1> DEFINE w == Continue^(k - 1)
           b == s[p + k - 1]
<1>1. w \in Nat
  BY WeightType, MaxVarintLenAssumption
<1>2. n \in Int
  BY MaxVarintLenAssumption
<1>3. b \in 0..255
  BY <1>2, ByteFrom
<1>4. Group(s, p, k) = (b % 128) * w
  BY DEF Group, Continue
<1> HIDE DEF w, b
<1> QED  BY <1>1, <1>3, <1>4

\* The partial sums of groups exist.
LEMMA SumExists ==
  ASSUME NEW s, NEW p, NEW n \in Nat, \A k \in 1..n : Group(s, p, k) \in Nat
  PROVE  \E f \in [0..n -> Nat] : IsSum(f, s, p, n)
<1> DEFINE S == {m \in Nat : m <= n => \E f \in [0..m -> Nat] : IsSum(f, s, p, m)}
<1>1. 0 \in S
  <2> DEFINE f == [k \in 0..0 |-> 0]
  <2>1. f \in [0..0 -> Nat] /\ IsSum(f, s, p, 0)
    BY DEF IsSum
  <2> QED  BY <2>1
<1>2. ASSUME NEW m \in S PROVE m + 1 \in S
  <2> SUFFICES ASSUME m + 1 <= n
               PROVE  \E f \in [0..(m + 1) -> Nat] : IsSum(f, s, p, m + 1)
    BY SMTT(30)
  <2>1. PICK f \in [0..m -> Nat] : IsSum(f, s, p, m)
    BY <1>2
  <2> DEFINE next == Group(s, p, m + 1)
             g == [k \in 0..(m + 1) |-> IF k = m + 1 THEN f[m] + next ELSE f[k]]
  <2>2. next \in Nat /\ m \in Nat
    OBVIOUS
  <2>3. f[0] = 0 /\ \A k \in 1..m : f[k] = f[k - 1] + Group(s, p, k)
    BY <2>1 DEF IsSum
  <2>4. g \in [0..(m + 1) -> Nat]
    <3> HIDE DEF next
    <3> QED  BY <2>2
  <2>5. \A k \in 0..(m + 1) : g[k] = IF k = 0 THEN 0 ELSE g[k - 1] + Group(s, p, k)
    <3> TAKE k \in 0..(m + 1)
    <3>1. CASE k = 0
      BY <2>2, <2>3, <3>1
    <3>2. CASE k \in 1..m
      BY <2>2, <2>3, <3>2
    <3>3. CASE k = m + 1
      BY <2>2, <3>3
    <3> QED  BY <2>2, <3>1, <3>2, <3>3
  <2>6. IsSum(g, s, p, m + 1)
    <3> HIDE DEF g
    <3> QED  BY <2>4, <2>5 DEF IsSum
  <2> QED  BY <2>4, <2>6
<1> HIDE DEF S
<1>3. S = Nat
  BY <1>1, <1>2, Induction DEF S
<1>4. n \in S
  BY <1>3
<1> QED  BY <1>4 DEF S

\* Partial sums of equal groups are equal.
LEMMA SumUnique ==
  ASSUME NEW s, NEW p, NEW t, NEW q, NEW f, NEW g, NEW m \in Nat, NEW n \in Nat, m <= n,
         IsSum(f, s, p, m), IsSum(g, t, q, n), \A k \in 1..m : Group(s, p, k) = Group(t, q, k)
  PROVE  \A k \in 0..m : f[k] = g[k]
<1> DEFINE S == {k \in Nat : k <= m => f[k] = g[k]}
<1>1. 0 \in S
  BY DEF IsSum
<1>2. ASSUME NEW k \in S PROVE k + 1 \in S
  BY <1>2 DEF IsSum
<1> HIDE DEF S
<1>3. S = Nat
  BY <1>1, <1>2, Induction DEF S
<1> QED  BY <1>3 DEF S

\* The recursion of Groups is well founded.
LEMMA GroupsIsSum ==
  ASSUME NEW s, NEW p, NEW n \in Nat, \A k \in 1..n : Group(s, p, k) \in Nat
  PROVE  \E f \in [0..n -> Nat] : IsSum(f, s, p, n) /\ Groups(s, p, n) = f[n]
<1> DEFINE f == CHOOSE f : IsSum(f, s, p, n)
<1>1. Groups(s, p, n) = f[n]
  BY DEF Groups, IsSum, Group
<1>2. PICK g \in [0..n -> Nat] : IsSum(g, s, p, n)
  BY SumExists
<1>3. IsSum(f, s, p, n)
  BY <1>2
<1> HIDE DEF f
<1>4. \A k \in 0..n : f[k] = g[k]
  BY <1>2, <1>3, SumUnique
<1>5. f \in [0..n -> Nat]
  BY <1>2, <1>3, <1>4 DEF IsSum
<1> QED  BY <1>1, <1>3, <1>5

\* Equal groups make equal values.
LEMMA GroupsUnique ==
  ASSUME NEW s, NEW p, NEW t, NEW q, NEW n \in Nat,
         \A k \in 1..n : Group(s, p, k) \in Nat,
         \A k \in 1..n : Group(s, p, k) = Group(t, q, k)
  PROVE  Groups(s, p, n) = Groups(t, q, n)
<1>1. PICK f \in [0..n -> Nat] : IsSum(f, s, p, n) /\ Groups(s, p, n) = f[n]
  BY GroupsIsSum
<1>2. \A k \in 1..n : Group(t, q, k) \in Nat
  OBVIOUS
<1>3. PICK g \in [0..n -> Nat] : IsSum(g, t, q, n) /\ Groups(t, q, n) = g[n]
  BY <1>2, GroupsIsSum
<1>4. n <= n
  OBVIOUS
<1>5. \A k \in 0..n : f[k] = g[k]
  BY <1>1, <1>3, <1>4, SumUnique
<1> QED  BY <1>1, <1>3, <1>5

\* A value is a number.
LEMMA GroupsType ==
  ASSUME NEW s \in Seq(Byte), NEW p \in Nat \ {0}, NEW n \in 0..MaxVarintLen,
         p + n - 1 <= Len(s)
  PROVE  Groups(s, p, n) \in Nat
<1>1. n \in Nat
  BY MaxVarintLenAssumption
<1>2. \A k \in 1..n : Group(s, p, k) \in Nat
  BY GroupType
<1>3. PICK f \in [0..n -> Nat] : IsSum(f, s, p, n) /\ Groups(s, p, n) = f[n]
  BY <1>1, <1>2, GroupsIsSum
<1> QED  BY <1>1, <1>3

\* n bytes of s from p are there, and are those of t from q.
Alike(s, p, t, q, n) ==
  p + n - 1 <= Len(s) /\ \A i \in 1..n : s[p + i - 1] = t[q + i - 1]

\* Equal bytes have equal values, wherever they are.
LEMMA GroupsLocal ==
  ASSUME NEW s \in Seq(Byte), NEW p \in Nat \ {0}, NEW t, NEW q,
         NEW n \in 0..MaxVarintLen, Alike(s, p, t, q, n)
  PROVE  Groups(s, p, n) = Groups(t, q, n)
<1>1. n \in Nat
  BY MaxVarintLenAssumption
<1>2. \A k \in 1..n : Group(s, p, k) \in Nat
  BY GroupType DEF Alike
<1>3. \A k \in 1..n : Group(s, p, k) = Group(t, q, k)
  BY DEF Group, Alike
<1> QED  BY <1>1, <1>2, <1>3, GroupsUnique

\* The i-th byte from p ends a varint; the first n bytes make one; none of them does.
Stops(s, p, i) == s[p + i - 1] < Continue
Ends(s, p, n) == Stops(s, p, n) /\ \A i \in 1..(n - 1) : ~Stops(s, p, i)
Goes(s, p, n) == \A i \in 1..n : ~Stops(s, p, i)

\* The first terminator among n bytes, when there is one.
LEMMA FirstTerminator ==
  ASSUME NEW s \in Seq(Byte), NEW p \in Nat \ {0}, NEW n \in Nat, p + n - 1 <= Len(s)
  PROVE  /\ Terminators(s, p, n) = {} => Goes(s, p, n)
         /\ Terminators(s, p, n) # {} =>
              /\ Min(Terminators(s, p, n)) \in 1..n
              /\ Ends(s, p, Min(Terminators(s, p, n)))
<1> DEFINE ends == Terminators(s, p, n)
<1>1. ends \in SUBSET Nat
  BY DEF Terminators
<1>2. \A i \in 1..n : i \in ends <=> Stops(s, p, i)
  BY DEF Terminators, Stops
<1>3. ASSUME ends # {}
      PROVE  Min(ends) \in 1..n /\ Ends(s, p, Min(ends))
  <2>1. Min(ends) \in ends /\ \A i \in ends : Min(ends) <= i
    BY <1>1, <1>3, MinIsLeast
  <2>2. Min(ends) \in 1..n
    BY <2>1 DEF Terminators
  <2>3. \A i \in 1..(Min(ends) - 1) : i \in 1..n /\ i \notin ends
    <3> HIDE DEF ends
    <3> QED  BY <2>1, <2>2
  <2> QED  BY <1>2, <2>1, <2>2, <2>3 DEF Ends
<1> QED  BY <1>2, <1>3 DEF Goes

\* The four outcomes of a read, of which the bytes decide one.
ReadEnds(s, p, n) == Ends(s, p, n) /\ ReadVarint(s, p) = ReadOk(Groups(s, p, n), n)
ReadGoes(s, p, n) == Goes(s, p, n) /\ ReadVarint(s, p) = ReadMore
ReadLast(s, p) ==
  /\ Goes(s, p, MaxVarintLen - 1)
  /\ ReadVarint(s, p) = IF s[p + MaxVarintLen - 1] > 1 THEN ReadInvalid
                        ELSE ReadOk(Groups(s, p, MaxVarintLen), MaxVarintLen)

\* Every read is one of them.
LEMMA ReadCases ==
  ASSUME NEW s \in Seq(Byte), NEW p \in 1..(Len(s) + 1)
  PROVE  LET room == Len(s) - p + 1
         IN  \/ \E n \in 1..room : n < MaxVarintLen /\ ReadEnds(s, p, n)
             \/ room < MaxVarintLen /\ ReadGoes(s, p, room)
             \/ room >= MaxVarintLen /\ ReadLast(s, p)
<1> DEFINE room == Len(s) - p + 1
<1>1. p \in Nat \ {0} /\ room \in Nat /\ p + room - 1 = Len(s)
  OBVIOUS
<1>2. CASE room < MaxVarintLen
  <2> DEFINE ends == Terminators(s, p, room)
  <2>1. ReadVarint(s, p) = IF ends = {} THEN ReadMore ELSE ReadOk(Groups(s, p, Min(ends)), Min(ends))
    BY <1>2, MaxVarintLenAssumption DEF ReadVarint, ReadTail
  <2>2. /\ ends = {} => Goes(s, p, room)
        /\ ends # {} => Min(ends) \in 1..room /\ Ends(s, p, Min(ends))
    <3> HIDE DEF room
    <3> QED  BY <1>1, FirstTerminator
  <2> HIDE DEF ends
  <2>3. CASE ends = {}
    BY <1>2, <2>1, <2>2, <2>3 DEF ReadGoes
  <2>4. CASE ends # {}
    <3> DEFINE n == Min(ends)
    <3>1. n \in 1..room /\ ReadEnds(s, p, n)
      BY <2>1, <2>2, <2>4 DEF ReadEnds
    <3>2. n < MaxVarintLen
      BY <1>2, <3>1, MaxVarintLenAssumption
    <3> HIDE DEF n
    <3> QED  BY <3>1, <3>2
  <2> QED  BY <2>3, <2>4
<1>3. CASE room >= MaxVarintLen
  <2> DEFINE ends == Terminators(s, p, MaxVarintLen - 1)
  <2>1. ReadVarint(s, p) =
          IF ends # {} THEN ReadOk(Groups(s, p, Min(ends)), Min(ends))
          ELSE IF s[p + MaxVarintLen - 1] > 1 THEN ReadInvalid
          ELSE ReadOk(Groups(s, p, MaxVarintLen), MaxVarintLen)
    BY <1>3, MaxVarintLenAssumption DEF ReadVarint, ReadWide
  <2>2. MaxVarintLen - 1 \in Nat /\ p + (MaxVarintLen - 1) - 1 <= Len(s)
    BY <1>3, MaxVarintLenAssumption
  <2>3. /\ ends = {} => Goes(s, p, MaxVarintLen - 1)
        /\ ends # {} => Min(ends) \in 1..(MaxVarintLen - 1) /\ Ends(s, p, Min(ends))
    BY <1>1, <2>2, FirstTerminator
  <2> HIDE DEF ends
  <2>4. CASE ends = {}
    BY <1>3, <2>1, <2>3, <2>4 DEF ReadLast
  <2>5. CASE ends # {}
    <3> DEFINE n == Min(ends)
    <3>1. n \in 1..(MaxVarintLen - 1) /\ ReadEnds(s, p, n)
      BY <2>1, <2>3, <2>5 DEF ReadEnds
    <3>2. n \in 1..room /\ n < MaxVarintLen
      BY <1>3, <3>1, MaxVarintLenAssumption
    <3> HIDE DEF n
    <3> QED  BY <3>1, <3>2
  <2> QED  BY <2>4, <2>5
<1> QED  BY <1>2, <1>3, MaxVarintLenAssumption

\* What a read answers: a value with its length, within the bytes that are there; or
\* that fewer bytes are left than the longest varint has (read_varint).
LEMMA ReadOutcome ==
  ASSUME NEW s \in Seq(Byte), NEW p \in 1..(Len(s) + 1)
  PROVE  LET r == ReadVarint(s, p)
         IN  /\ r.status \in {"ok", "more", "invalid"}
             /\ r.value \in Nat /\ r.len \in 0..MaxVarintLen
             /\ r.status = "ok" => r.len >= 1 /\ p + r.len - 1 <= Len(s)
             /\ r.status = "more" => Len(s) - p + 1 < MaxVarintLen
             /\ r.status # "ok" => r.len = 0
<1> DEFINE room == Len(s) - p + 1
           r == ReadVarint(s, p)
<1>1. p \in Nat \ {0} /\ room \in Nat
  OBVIOUS
<1>2. \A n \in 0..MaxVarintLen : n <= room => Groups(s, p, n) \in Nat
  BY GroupsType, MaxVarintLenAssumption
<1>3. ASSUME NEW n \in 1..room, n <= MaxVarintLen, r = ReadOk(Groups(s, p, n), n)
      PROVE  /\ r.status = "ok" /\ r.value \in Nat /\ r.len \in 1..MaxVarintLen
             /\ p + r.len - 1 <= Len(s)
  <2>1. Groups(s, p, n) \in Nat
    BY <1>2, <1>3, MaxVarintLenAssumption
  <2> QED  BY <1>3, <2>1, MaxVarintLenAssumption DEF ReadOk
<1>4. ASSUME NEW n \in 1..room, n < MaxVarintLen, ReadEnds(s, p, n)
      PROVE  /\ r.status = "ok" /\ r.value \in Nat /\ r.len \in 1..MaxVarintLen
             /\ p + r.len - 1 <= Len(s)
  <2>1. n <= MaxVarintLen /\ r = ReadOk(Groups(s, p, n), n)
    BY <1>4, MaxVarintLenAssumption DEF ReadEnds
  <2> QED  BY <1>3, <2>1
<1>5. ASSUME room < MaxVarintLen, ReadGoes(s, p, room)
      PROVE  r.status = "more" /\ r.value = 0 /\ r.len = 0
  BY <1>5 DEF ReadGoes, ReadMore
<1>6. ASSUME room >= MaxVarintLen, ReadLast(s, p), s[p + MaxVarintLen - 1] > 1
      PROVE  r.status = "invalid" /\ r.value = 0 /\ r.len = 0
  BY <1>6 DEF ReadLast, ReadInvalid
<1>7. ASSUME room >= MaxVarintLen, ReadLast(s, p), ~(s[p + MaxVarintLen - 1] > 1)
      PROVE  /\ r.status = "ok" /\ r.value \in Nat /\ r.len \in 1..MaxVarintLen
             /\ p + r.len - 1 <= Len(s)
  <2>1. MaxVarintLen \in 1..room /\ MaxVarintLen <= MaxVarintLen
    BY <1>7, MaxVarintLenAssumption
  <2>2. r = ReadOk(Groups(s, p, MaxVarintLen), MaxVarintLen)
    BY <1>7 DEF ReadLast
  <2> QED  BY <1>3, <2>1, <2>2
<1>8. \/ \E n \in 1..room : n < MaxVarintLen /\ ReadEnds(s, p, n)
      \/ room < MaxVarintLen /\ ReadGoes(s, p, room)
      \/ room >= MaxVarintLen /\ ReadLast(s, p)
  BY ReadCases
<1> HIDE DEF r
<1>9. \/ /\ r.status = "ok" /\ r.value \in Nat /\ r.len \in 1..MaxVarintLen
         /\ p + r.len - 1 <= Len(s)
      \/ r.status = "more" /\ r.value = 0 /\ r.len = 0 /\ room < MaxVarintLen
      \/ r.status = "invalid" /\ r.value = 0 /\ r.len = 0
  BY <1>4, <1>5, <1>6, <1>7, <1>8
<1>10. 0 \in 0..MaxVarintLen /\ \A n \in 1..MaxVarintLen : n \in 0..MaxVarintLen /\ n >= 1
  BY MaxVarintLenAssumption
<1> QED  BY <1>9, <1>10 DEF r

\* A read of the same bytes, followed by any others, answers the same; and a read that
\* ran out of bytes, given more of them, ends behind those it had.
LEMMA ReadLocal ==
  ASSUME NEW s \in Seq(Byte), NEW p \in 1..(Len(s) + 1),
         NEW t \in Seq(Byte), NEW q \in 1..(Len(t) + 1),
         Len(s) - p <= Len(t) - q,
         \A i \in 1..(Len(s) - p + 1) : s[p + i - 1] = t[q + i - 1]
  PROVE  LET r == ReadVarint(s, p)
             longer == ReadVarint(t, q)
         IN  /\ r.status # "more" => longer = r
             /\ r.status = "more" /\ longer.status = "ok" => longer.len > Len(s) - p + 1
             /\ r.status = "more" /\ Len(s) - p = Len(t) - q => longer = r
<1> DEFINE room == Len(s) - p + 1
           all == Len(t) - q + 1
           r == ReadVarint(s, p)
           longer == ReadVarint(t, q)
<1>1. p \in Nat \ {0} /\ q \in Nat \ {0} /\ room \in Nat /\ all \in Nat /\ room <= all
  OBVIOUS
<1>4. \A i \in 1..room : s[p + i - 1] = t[q + i - 1]
  OBVIOUS
<1>2. \A n \in 0..MaxVarintLen : n <= room => Groups(s, p, n) = Groups(t, q, n)
  <2> TAKE n \in 0..MaxVarintLen
  <2> SUFFICES ASSUME n <= room PROVE Groups(s, p, n) = Groups(t, q, n)
    OBVIOUS
  <2>1. p + n - 1 <= Len(s)
    BY MaxVarintLenAssumption
  <2>2. \A i \in 1..n : i \in 1..room
    BY <1>1, MaxVarintLenAssumption
  <2>3. \A i \in 1..n : s[p + i - 1] = t[q + i - 1]
    BY <1>4, <2>2
  <2>4. Alike(s, p, t, q, n)
    BY <2>1, <2>3 DEF Alike
  <2> QED  BY <1>1, <2>4, GroupsLocal
<1>5. \/ \E n \in 1..room : n < MaxVarintLen /\ ReadEnds(s, p, n)
      \/ room < MaxVarintLen /\ ReadGoes(s, p, room)
      \/ room >= MaxVarintLen /\ ReadLast(s, p)
  BY ReadCases
<1>6. \/ \E n \in 1..all : n < MaxVarintLen /\ ReadEnds(t, q, n)
      \/ all < MaxVarintLen /\ ReadGoes(t, q, all)
      \/ all >= MaxVarintLen /\ ReadLast(t, q)
  BY ReadCases
<1>3. \A i \in 1..room : Stops(t, q, i) <=> Stops(s, p, i)
  BY <1>4 DEF Stops
<1> HIDE DEF r, longer, room, all
\* The same terminator, among the first bytes.
<1>7. ASSUME NEW n \in 1..room, n < MaxVarintLen, ReadEnds(s, p, n)
      PROVE  longer = r
  <2>1. Ends(s, p, n) /\ r = ReadOk(Groups(s, p, n), n)
    BY <1>7 DEF ReadEnds, r
  <2>2. Ends(t, q, n)
    <3>1. n \in 1..room /\ \A i \in 1..(n - 1) : i \in 1..room
      BY <1>1
    <3> QED  BY <1>3, <2>1, <3>1 DEF Ends
  <2>3. Groups(s, p, n) = Groups(t, q, n)
    BY <1>1, <1>2, <1>7, MaxVarintLenAssumption
  <2>4. ASSUME NEW m \in 1..all, m < MaxVarintLen, ReadEnds(t, q, m)
        PROVE  longer = r
    <3>1. Ends(t, q, m)
      BY <2>4 DEF ReadEnds
    <3>2. m = n
      <4>1. ~(m \in 1..(n - 1)) /\ ~(n \in 1..(m - 1))
        BY <2>2, <3>1 DEF Ends
      <4> QED  BY <1>1, <4>1
    <3> QED  BY <2>1, <2>3, <2>4, <3>2 DEF ReadEnds, longer
  <2>5. ASSUME ReadGoes(t, q, all)
        PROVE  FALSE
    <3>1. n \in 1..all
      BY <1>1
    <3> QED  BY <2>2, <2>5, <3>1 DEF ReadGoes, Goes, Ends
  <2>6. ASSUME ReadLast(t, q)
        PROVE  FALSE
    <3>1. n \in 1..(MaxVarintLen - 1)
      BY <1>1, <1>7, MaxVarintLenAssumption
    <3> QED  BY <2>2, <2>6, <3>1 DEF ReadLast, Goes, Ends
  <2> QED  BY <1>6, <2>4, <2>5, <2>6
\* No terminator before the last byte of the longest varint.
<1>8. ASSUME room >= MaxVarintLen, ReadLast(s, p)
      PROVE  longer = r
  <2>1. MaxVarintLen \in 1..room /\ \A i \in 1..(MaxVarintLen - 1) : i \in 1..room
    BY <1>1, <1>8, MaxVarintLenAssumption
  <2>2. Goes(t, q, MaxVarintLen - 1)
    BY <1>3, <1>8, <2>1 DEF ReadLast, Goes
  <2>3. t[q + MaxVarintLen - 1] = s[p + MaxVarintLen - 1]
    BY <1>4, <2>1
  <2>4. Groups(s, p, MaxVarintLen) = Groups(t, q, MaxVarintLen)
    BY <1>1, <1>2, <1>8, MaxVarintLenAssumption
  <2>5. ASSUME NEW m \in 1..all, m < MaxVarintLen, ReadEnds(t, q, m)
        PROVE  FALSE
    <3>1. m \in 1..(MaxVarintLen - 1)
      BY <1>1, <2>5, MaxVarintLenAssumption
    <3> QED  BY <2>2, <2>5, <3>1 DEF Goes, ReadEnds, Ends
  <2>6. all >= MaxVarintLen
    BY <1>1, <1>8, MaxVarintLenAssumption
  <2>7. ~(all < MaxVarintLen)
    BY <1>1, <2>6, MaxVarintLenAssumption
  <2>8. ReadLast(t, q)
    BY <1>6, <2>5, <2>7
  <2> QED  BY <1>8, <2>3, <2>4, <2>8 DEF ReadLast, r, longer
\* No terminator among the bytes there are.
<1>9. ASSUME room < MaxVarintLen, ReadGoes(s, p, room)
      PROVE  /\ r.status = "more"
             /\ longer.status = "ok" => longer.len > room
             /\ room = all => longer = r
  <2>1. r = ReadMore /\ r.status = "more"
    BY <1>9 DEF ReadGoes, ReadMore, r
  <2>2. Goes(t, q, room)
    BY <1>3, <1>9 DEF ReadGoes, Goes
  <2>3. ASSUME NEW m \in 1..all, ReadEnds(t, q, m)
        PROVE  longer.len > room /\ room # all
    <3>1. m \notin 1..room
      BY <2>2, <2>3 DEF Goes, ReadEnds, Ends
    <3>2. longer.len = m
      BY <2>3 DEF ReadEnds, ReadOk, longer
    <3> QED  BY <1>1, <3>1, <3>2
  <2>4. ASSUME ReadGoes(t, q, all)
        PROVE  longer = r /\ longer.status # "ok"
    BY <2>1, <2>4 DEF ReadGoes, ReadMore, longer
  <2>5. ASSUME all >= MaxVarintLen, ReadLast(t, q)
        PROVE  (longer.status = "ok" => longer.len > room) /\ room # all
    <3>1. MaxVarintLen > room /\ room # all
      BY <1>1, <1>9, <2>5, MaxVarintLenAssumption
    <3>2. longer.status = "ok" => longer.len = MaxVarintLen
      BY <2>5 DEF ReadLast, ReadOk, ReadInvalid, longer
    <3> QED  BY <3>1, <3>2
  <2> QED  BY <1>6, <2>1, <2>3, <2>4, <2>5
<1>10. Len(s) - p = Len(t) - q <=> room = all
  BY DEF room, all
<1>11. CASE \E n \in 1..room : n < MaxVarintLen /\ ReadEnds(s, p, n)
  <2>1. longer = r /\ r.status = "ok"
    BY <1>7, <1>11 DEF ReadEnds, ReadOk, r
  <2> QED  BY <2>1 DEF r, longer
<1>12. CASE room >= MaxVarintLen /\ ReadLast(s, p)
  <2>1. longer = r /\ r.status # "more"
    BY <1>8, <1>12 DEF ReadLast, ReadOk, ReadInvalid, r
  <2> QED  BY <2>1 DEF r, longer
<1>13. CASE room < MaxVarintLen /\ ReadGoes(s, p, room)
  BY <1>9, <1>10, <1>13 DEF r, longer, room
<1> QED  BY <1>5, <1>11, <1>12, <1>13

-----------------------------------------------------------------------------
(***************************************************************************)
(* Reading back what was written.                                          *)
(***************************************************************************)
\* Division by a weight in two steps, and of less than the weight.
LEMMA DivTwice ==
  ASSUME NEW v \in Nat, NEW w \in Nat \ {0}
  PROVE  v \div w \in Nat /\ v \div (128 * w) = (v \div w) \div 128
OBVIOUS

LEMMA DivNone ==
  ASSUME NEW v \in Nat, NEW w \in Nat \ {0}, v < w
  PROVE  v \div w = 0
OBVIOUS

\* The bytes of an encoding that stand in s from p.
Stands(v, s, p) == \A i \in 1..VarintLen(v) : s[p + i - 1] = VarintByte(v, i)

\* What is left of a value from its i-th group on.
LeftFrom(v, i) == v \div Continue^(i - 1)

\* The i-th byte of an encoding carries seven bits of the value; the last one alone has
\* no continuation bit.
LEMMA ByteCarries ==
  ASSUME NEW v \in Nat, NEW i \in 1..VarintLen(v)
  PROVE  /\ LeftFrom(v, i) \in Nat
         /\ VarintByte(v, i) % Continue = LeftFrom(v, i) % Continue
         /\ VarintByte(v, i) < Continue <=> i = VarintLen(v)
<1> DEFINE w == Continue^(i - 1)
           q == v \div w
<1>1. VarintLen(v) \in 1..MaxVarintLen /\ i - 1 \in 0..MaxVarintLen
  BY VarintLenBounds, MaxVarintLenAssumption
<1>2. w \in Nat \ {0}
  BY <1>1, WeightType
<1>3. q \in Nat
  <2> HIDE DEF w
  <2> QED  BY <1>2
<1>4. VarintByte(v, i) = IF i < VarintLen(v) THEN (q % 128) + 128 ELSE q % 128
  BY DEF VarintByte, Continue
<1>5. q % 128 \in 0..127 /\ (q % 128) % 128 = q % 128 /\ ((q % 128) + 128) % 128 = q % 128
  <2> HIDE DEF q
  <2> QED  BY <1>3
<1>6. LeftFrom(v, i) = q
  BY DEF LeftFrom
<1> HIDE DEF q
<1>7. Continue = 128 /\ i \in Nat /\ VarintLen(v) \in Nat /\ i <= VarintLen(v)
  BY <1>1 DEF Continue
<1> QED  BY <1>3, <1>4, <1>5, <1>6, <1>7

\* What is left of a value behind its encoding is nothing.
LEMMA NothingLeft ==
  ASSUME NEW v \in Unsigned
  PROVE  v \in Nat /\ v < Continue^VarintLen(v) /\ v \div Continue^(MaxVarintLen - 1) <= 1
<1> DEFINE h == Continue^(MaxVarintLen - 1)
           all == Continue^MaxVarintLen
           n == VarintLen(v)
<1>1. h \in Nat \ {0} /\ all = 128 * h
  <2>1. MaxVarintLen - 1 \in 0..MaxVarintLen /\ MaxVarintLen - 1 \in 0..(MaxVarintLen - 1)
        /\ MaxVarintLen - 1 + 1 = MaxVarintLen
    BY MaxVarintLenAssumption
  <2>2. h \in Nat \ {0}
    BY <2>1, WeightType
  <2>3. Continue^(MaxVarintLen - 1 + 1) = Continue * Continue^(MaxVarintLen - 1)
    BY <2>1, WeightAssumption
  <2> QED  BY <2>1, <2>2, <2>3 DEF Continue
<1>2. v \in 0..(2 * h - 1)
  BY DEF Unsigned, MaxUnsigned, Half
<1> HIDE DEF h, all
<1>3. v \in Nat /\ v < all /\ v < 2 * h
  BY <1>1, <1>2
<1>4. v \div h <= 1
  BY <1>1, <1>3
<1>5. n \in 1..MaxVarintLen /\ (n < MaxVarintLen => v < Continue^n)
  BY <1>3, VarintLenBounds
<1>6. CASE n < MaxVarintLen
  BY <1>3, <1>4, <1>5, <1>6 DEF h
<1>7. CASE ~(n < MaxVarintLen)
  <2>1. n = MaxVarintLen
    BY <1>5, <1>7, MaxVarintLenAssumption
  <2> QED  BY <1>3, <1>4, <2>1 DEF h, all
<1> QED  BY <1>6, <1>7

\* The groups of an encoding add up to the value.
LEMMA GroupsAreValue ==
  ASSUME NEW v \in Unsigned, NEW s \in Seq(Byte), NEW p \in Nat \ {0},
         p + VarintLen(v) - 1 <= Len(s), Stands(v, s, p)
  PROVE  Groups(s, p, VarintLen(v)) = v
<1> DEFINE n == VarintLen(v)
<1>1. v \in Nat /\ n \in 1..MaxVarintLen /\ n \in Nat
  BY NothingLeft, VarintLenBounds, MaxVarintLenAssumption
<1>2. \A k \in 1..n : Group(s, p, k) \in Nat
  <2>1. n \in 0..MaxVarintLen /\ p + n - 1 <= Len(s)
    BY <1>1, MaxVarintLenAssumption
  <2> HIDE DEF n
  <2> QED  BY <2>1, GroupType
<1>3. PICK f \in [0..n -> Nat] : IsSum(f, s, p, n) /\ Groups(s, p, n) = f[n]
  BY <1>1, <1>2, GroupsIsSum
<1>4. f[0] = 0 /\ \A k \in 1..n : f[k] = f[k - 1] + Group(s, p, k)
  BY <1>1, <1>3 DEF IsSum
\* The groups so far, and what they have left of the value, make the value.
<1> DEFINE S == {k \in Nat : k <= n => f[k] + (v \div Continue^k) * Continue^k = v}
<1>5. 0 \in S
  <2>1. (v \div 1) * 1 = v
    BY <1>1
  <2> QED  BY <1>1, <1>4, <2>1, WeightAssumption
<1>6. ASSUME NEW k \in S PROVE k + 1 \in S
  <2> SUFFICES ASSUME k + 1 <= n
               PROVE  f[k + 1] + (v \div Continue^(k + 1)) * Continue^(k + 1) = v
    OBVIOUS
  <2> DEFINE w == Continue^k
             q == v \div w
             a == f[k]
             b == f[k + 1]
  <2>1. k \in Nat /\ k + 1 \in 1..n /\ k \in 0..MaxVarintLen /\ k \in 0..(MaxVarintLen - 1) /\ k + 1 - 1 = k
    BY <1>1, MaxVarintLenAssumption
  <2>2. w \in Nat \ {0}
    BY <2>1, WeightType
  <2>3. Continue^(k + 1) = 128 * w
    BY <2>1, WeightAssumption DEF Continue
  <2>4. a + q * w = v
    BY <1>1, <2>1
  <2>5. b = a + Group(s, p, k + 1)
    BY <1>4, <2>1
  <2>6. Group(s, p, k + 1) = (q % 128) * w
    <3>1. Group(s, p, k + 1) = (s[p + (k + 1) - 1] % Continue) * Continue^(k + 1 - 1)
      BY DEF Group
    <3>2. s[p + (k + 1) - 1] = VarintByte(v, k + 1)
      BY <2>1 DEF Stands
    <3>3. VarintByte(v, k + 1) % Continue = LeftFrom(v, k + 1) % Continue
      BY <1>1, <2>1, ByteCarries
    <3>4. LeftFrom(v, k + 1) = q
      BY <2>1 DEF LeftFrom
    <3> HIDE DEF q
    <3> QED  BY <2>1, <3>1, <3>2, <3>3, <3>4 DEF Continue
  <2>7. a \in Nat /\ b \in Nat
    BY <1>1, <1>3, <2>1
  <2> HIDE DEF w, a, b
  <2>8. q \in Nat /\ v \div (128 * w) = q \div 128
    BY Zenon, <1>1, <2>2, DivTwice
  <2> HIDE DEF q
  <2>9. q = (q \div 128) * 128 + (q % 128) /\ q \div 128 \in Nat /\ q % 128 \in Nat
    BY <2>8
  <2>10. b + (q \div 128) * (128 * w) = v
    <3> DEFINE c == q \div 128
               d == q % 128
    <3>1. q = c * 128 + d /\ c \in Nat /\ d \in Nat /\ b = a + d * w
      BY <2>5, <2>6, <2>9
    <3> HIDE DEF c, d
    <3>2. q * w = c * (128 * w) + d * w
      BY <2>2, <3>1
    <3>3. q * w \in Nat /\ c * (128 * w) \in Nat /\ d * w \in Nat
      BY <2>2, <2>8, <3>1
    <3> QED  BY <2>4, <2>7, <3>1, <3>2, <3>3 DEF c
  <2> QED  BY <2>3, <2>8, <2>10 DEF b
<1> HIDE DEF S
<1>7. S = Nat
  BY <1>5, <1>6, Induction DEF S
<1>8. f[n] + (v \div Continue^n) * Continue^n = v
  BY <1>1, <1>7 DEF S
<1> DEFINE w == Continue^n
           a == f[n]
<1>9. w \in Nat \ {0} /\ v < w /\ a \in Nat
  BY <1>1, <1>3, WeightType, NothingLeft, MaxVarintLenAssumption
<1>10. a = v
  <2>1. a + (v \div w) * w = v
    BY <1>8
  <2> HIDE DEF a, w
  <2>2. v \div w = 0
    BY <1>1, <1>9, DivNone
  <2>3. a + 0 * w = v
    BY <2>1, <2>2
  <2> QED  BY <1>9, <2>3
<1> QED  BY <1>3, <1>10

\* A value that is written is read back, with its length, wherever its bytes stand and
\* whatever follows them, on both read paths (varint.rs:137-193, 256-290).
THEOREM VarintRoundTrip ==
  ASSUME NEW v \in Unsigned, NEW s \in Seq(Byte), NEW p \in 1..Len(s),
         p + VarintLen(v) - 1 <= Len(s), Stands(v, s, p)
  PROVE  ReadVarint(s, p) = ReadOk(v, VarintLen(v))
<1> DEFINE n == VarintLen(v)
           room == Len(s) - p + 1
<1>1. v \in Nat /\ n \in 1..MaxVarintLen /\ n \in 1..room /\ p \in Nat \ {0}
  <2>1. v \in Nat /\ n \in 1..MaxVarintLen /\ p + n - 1 <= Len(s) /\ Len(s) \in Nat
    BY NothingLeft, VarintLenBounds, LenProperties
  <2> HIDE DEF n
  <2> QED  BY <2>1, MaxVarintLenAssumption
<1>2. \A i \in 1..n : Stops(s, p, i) <=> i = n
  BY <1>1, ByteCarries DEF Stops, Stands
<1>3. Groups(s, p, n) = v
  BY <1>1, GroupsAreValue
<1>4. ASSUME NEW m \in 1..room, m < MaxVarintLen, ReadEnds(s, p, m)
      PROVE  ReadVarint(s, p) = ReadOk(v, n)
  <2>1. Ends(s, p, m) /\ ReadVarint(s, p) = ReadOk(Groups(s, p, m), m)
    BY <1>4 DEF ReadEnds
  <2>2. m = n
    <3>1. ~(n \in 1..(m - 1)) /\ (m \in 1..n => m = n)
      BY <1>1, <1>2, <2>1 DEF Ends
    <3> QED  BY <1>1, <3>1, MaxVarintLenAssumption
  <2> QED  BY <1>3, <2>1, <2>2
<1>5. ~ReadGoes(s, p, room)
  BY <1>1, <1>2 DEF ReadGoes, Goes
<1>6. ASSUME ReadLast(s, p)
      PROVE  ReadVarint(s, p) = ReadOk(v, n)
  <2>1. n = MaxVarintLen
    <3>1. ~(n \in 1..(MaxVarintLen - 1))
      BY <1>1, <1>2, <1>6 DEF ReadLast, Goes
    <3> QED  BY <1>1, <3>1, MaxVarintLenAssumption
  <2>2. ~(s[p + MaxVarintLen - 1] > 1)
    <3> DEFINE b == VarintByte(v, n)
               q == LeftFrom(v, n)
    <3>1. s[p + MaxVarintLen - 1] = b
      BY <1>1, <2>1 DEF Stands
    <3>2. q \in Nat /\ b % 128 = q % 128 /\ b < 128 /\ b \in Byte
      BY <1>1, ByteCarries, VarintByteType DEF Continue
    <3>3. q <= 1
      BY <2>1, NothingLeft DEF LeftFrom
    <3> HIDE DEF b, q
    <3>4. b \in 0..127 /\ q \in 0..1
      BY <3>2, <3>3 DEF Byte
    <3>5. b % 128 = b /\ q % 128 = q
      BY <3>4
    <3> QED  BY <3>1, <3>2, <3>4, <3>5
  <2> QED  BY <1>3, <1>6, <2>1, <2>2 DEF ReadLast
<1>7. \/ \E m \in 1..room : m < MaxVarintLen /\ ReadEnds(s, p, m)
      \/ room < MaxVarintLen /\ ReadGoes(s, p, room)
      \/ room >= MaxVarintLen /\ ReadLast(s, p)
  BY ReadCases
<1> QED  BY <1>4, <1>5, <1>6, <1>7

\* ZigZag takes the signed values to unsigned ones and back, no two to the same
\* (zigzag_encode, zigzag_decode).
THEOREM ZigZagRoundTrip ==
  ASSUME NEW v \in Signed
  PROVE  ZigZag(v) \in Unsigned /\ ZigZagDecode(ZigZag(v)) = v
<1> DEFINE h == Continue^(MaxVarintLen - 1)
<1>1. h \in Nat \ {0}
  BY WeightType, MaxVarintLenAssumption
<1>2. v \in (-h)..(h - 1)
  BY DEF Signed, Half
<1>3. ZigZag(v) \in 0..(2 * h - 1)
  <2> HIDE DEF h
  <2> QED  BY <1>1, <1>2 DEF ZigZag
<1>4. ZigZagDecode(ZigZag(v)) = v
  <2> HIDE DEF h
  <2>1. v \in Int
    BY <1>1, <1>2
  <2>2. CASE v >= 0
    <3>1. (2 * v) % 2 = 0 /\ (2 * v) \div 2 = v
      BY <2>1, <2>2
    <3> QED  BY <2>2, <3>1 DEF ZigZag, ZigZagDecode
  <2>3. CASE ~(v >= 0)
    <3> DEFINE u == -2 * v - 1
    <3>1. u % 2 = 1 /\ u \div 2 = -v - 1
      BY <2>1, <2>3
    <3>2. ZigZag(v) = u
      BY <2>3 DEF ZigZag
    <3> HIDE DEF u
    <3>3. -(-v - 1) - 1 = v
      BY <2>1
    <3> QED  BY <3>1, <3>2, <3>3 DEF ZigZagDecode
  <2> QED  BY <2>2, <2>3
<1> QED  BY <1>3, <1>4 DEF Unsigned, MaxUnsigned, Half

-----------------------------------------------------------------------------
(***************************************************************************)
(* The callbacks.                                                          *)
(***************************************************************************)
CallbackNames == {"unsigned", "signed", "float", "fixlen_begin", "chunk", "array_begin",
                  "sequence_begin", "sequence_end"}
Events == [name : CallbackNames, id : Nat, type : Nat, value : Int, offset : Nat, data : Seq(Byte)]

\* The callbacks are well typed.
LEMMA CallbackType ==
  ASSUME NEW name \in CallbackNames, NEW id0 \in Nat, NEW type \in Nat, NEW value \in Int,
         NEW offset \in Nat, NEW data \in Seq(Byte)
  PROVE  Callback(name, id0, type, value, offset, data) \in Events
BY DEF Callback, Events

\* A decoded value is a number.
LEMMA ZigZagDecodeType ==
  ASSUME NEW u \in Nat
  PROVE  ZigZagDecode(u) \in Int
BY DEF ZigZagDecode

-----------------------------------------------------------------------------
(***************************************************************************)
(* Bytes that begin with the same bytes.                                   *)
(***************************************************************************)
\* What follows q in t begins with what follows p in s.
Agree(s, p, t, q) ==
  Len(s) - p <= Len(t) - q /\ \A i \in 1..(Len(s) - p) : s[p + i] = t[q + i]

\* Bytes that agree agree further on.
LEMMA AgreeBehind ==
  ASSUME NEW s \in Seq(Byte), NEW p \in 0..Len(s), NEW t \in Seq(Byte), NEW q \in 0..Len(t),
         Agree(s, p, t, q), NEW k \in 0..(Len(s) - p)
  PROVE  Agree(s, p + k, t, q + k) /\ p + k \in 0..Len(s) /\ q + k \in 0..Len(t)
<1>1. Len(s) \in Nat /\ Len(t) \in Nat
  OBVIOUS
<1>2. /\ Len(s) - (p + k) <= Len(t) - (q + k)
      /\ p + k \in 0..Len(s) /\ q + k \in 0..Len(t)
  BY <1>1 DEF Agree
<1>3. ASSUME NEW i \in 1..(Len(s) - (p + k))
      PROVE  s[(p + k) + i] = t[(q + k) + i]
  <2> DEFINE j == k + i
  <2>1. j \in 1..(Len(s) - p) /\ (p + k) + i = p + j /\ (q + k) + i = q + j
    BY <1>1
  <2>2. s[p + j] = t[q + j]
    <3> HIDE DEF j
    <3> QED  BY <2>1 DEF Agree
  <2> QED  BY <2>1, <2>2
<1> QED  BY <1>2, <1>3 DEF Agree

\* A varint that is read in the first bytes is read alike in the second; one that is
\* short ends behind them.
LEMMA AgreeReads ==
  ASSUME NEW s \in Seq(Byte), NEW p \in 0..Len(s), NEW t \in Seq(Byte), NEW q \in 0..Len(t),
         Agree(s, p, t, q)
  PROVE  LET r == ReadVarint(s, p + 1)
             longer == ReadVarint(t, q + 1)
         IN  /\ r.status # "more" => longer = r
             /\ r.status = "more" /\ longer.status = "ok" => longer.len > Len(s) - p
             /\ r.status = "more" /\ Len(s) - p = Len(t) - q => longer = r
             /\ r.status = "ok" => r.len \in 0..(Len(s) - p)
<1> DEFINE from == p + 1
           to == q + 1
           r == ReadVarint(s, from)
           longer == ReadVarint(t, to)
<1>1. Len(s) \in Nat /\ Len(t) \in Nat
  OBVIOUS
<1>2. /\ from \in 1..(Len(s) + 1) /\ to \in 1..(Len(t) + 1) /\ Len(s) - from <= Len(t) - to
      /\ Len(s) - from + 1 = Len(s) - p
      /\ Len(s) - from = Len(t) - to <=> Len(s) - p = Len(t) - q
  BY <1>1 DEF Agree
<1>3. ASSUME NEW i \in 1..(Len(s) - from + 1)
      PROVE  s[from + i - 1] = t[to + i - 1]
  <2>1. from + i - 1 = p + i /\ to + i - 1 = q + i /\ i \in 1..(Len(s) - p)
    BY <1>1
  <2>2. s[p + i] = t[q + i]
    BY <2>1 DEF Agree
  <2> QED  BY <2>1, <2>2
<1> HIDE DEF from, to
<1>4. /\ r.status # "more" => longer = r
      /\ r.status = "more" /\ longer.status = "ok" => longer.len > Len(s) - from + 1
      /\ r.status = "more" /\ Len(s) - from = Len(t) - to => longer = r
  BY <1>2, <1>3, ReadLocal
<1>5. r.len \in 0..MaxVarintLen /\ (r.status = "ok" => from + r.len - 1 <= Len(s))
  BY <1>2, ReadOutcome
<1>6. r.status = "ok" => r.len \in 0..(Len(s) - p)
  <2> HIDE DEF r
  <2> QED  BY <1>1, <1>5, MaxVarintLenAssumption DEF from
<1> HIDE DEF r, longer
<1>7. /\ r.status # "more" => longer = r
      /\ r.status = "more" /\ longer.status = "ok" => longer.len > Len(s) - p
      /\ r.status = "more" /\ Len(s) - p = Len(t) - q => longer = r
  BY <1>2, <1>4
<1> QED  BY <1>6, <1>7 DEF r, longer, from, to


(***************************************************************************)
(* The head of a field: up to three varints.                               *)
(***************************************************************************)
\* The varints of a field that begins behind p, as parse reads them from its bytes.
HeadIn(s, p) == ReadVarint(s, p + 1)
AtWordIn(s, p) == p + HeadIn(s, p).len
WordIn(s, p) == ReadVarint(s, AtWordIn(s, p) + 1)
AtElemIn(s, p) == AtWordIn(s, p) + WordIn(s, p).len
ElemIn(s, p) == ReadVarint(s, AtElemIn(s, p) + 1)

IdIn(s, p) == HeadIn(s, p).value \div 8
WireIn(s, p) == HeadIn(s, p).value % 8
LengthIn(s, p) == WordIn(s, p).value \div 8
SubtypeIn(s, p) == WordIn(s, p).value % 8
ElemSubtypeIn(s, p) == ElemIn(s, p).value % 8

\* The header is there and has a varint behind it; that is there too, and is a count.
HeadReadIn(s, p) ==
  HeadIn(s, p).status = "ok" /\ HeadIn(s, p).value \div 8 <= IdMax /\ HasWord(HeadIn(s, p).value % 8)
WordReadIn(s, p) == HeadReadIn(s, p) /\ WordIn(s, p).status = "ok"
CountReadIn(s, p) ==
  /\ HeadReadIn(s, p) /\ HeadIn(s, p).value % 8 = T_FIXLENARRAY
  /\ WordIn(s, p).status = "ok" /\ WordIn(s, p).value <= ArrayMax

\* Behind p, the bytes s end inside the head of a field.
HeadShortIn(s, p) ==
  \/ HeadIn(s, p).status = "more"
  \/ HeadReadIn(s, p) /\ WordIn(s, p).status = "more"
  \/ CountReadIn(s, p) /\ ElemIn(s, p).status = "more"

\* Words that no payload and no float can satisfy.
BadFixlenIn(s, p) ==
  \/ LengthIn(s, p) > FixlenMax
  \/ SubtypeIn(s, p) \notin FixlenTypes
  \/ SubtypeIn(s, p) \in Floats /\ LengthIn(s, p) # FloatLen(SubtypeIn(s, p))
BadElemIn(s, p) ==
  \/ ElemSubtypeIn(s, p) \notin Floats
  \/ ElemIn(s, p).value \div 8 # FloatLen(ElemSubtypeIn(s, p))

\* Behind p, the bytes s are no field.
HeadBadIn(s, p, depth) ==
  \/ HeadIn(s, p).status = "invalid"
  \/ HeadIn(s, p).status = "ok" /\ IdIn(s, p) > IdMax
  \/ HeadIn(s, p).status = "ok" /\ IdIn(s, p) <= IdMax /\ WireIn(s, p) = T_SEQUENCE_START /\ depth >= MaxDepth
  \/ HeadIn(s, p).status = "ok" /\ IdIn(s, p) <= IdMax /\ WireIn(s, p) = T_SEQUENCE_END /\ depth = 0
  \/ HeadReadIn(s, p) /\ WordIn(s, p).status = "invalid"
  \/ WordReadIn(s, p) /\ WireIn(s, p) = T_FIXLEN /\ BadFixlenIn(s, p)
  \/ /\ WordReadIn(s, p) /\ WireIn(s, p) \in IntArrays \cup {T_FIXLENARRAY}
     /\ WordIn(s, p).value > ArrayMax
  \/ CountReadIn(s, p) /\ ElemIn(s, p).status = "invalid"
  \/ CountReadIn(s, p) /\ ElemIn(s, p).status = "ok" /\ BadElemIn(s, p)

\* The fields, by what is behind the header.
BeginsIn(s, p, depth) ==
  /\ HeadIn(s, p).status = "ok" /\ IdIn(s, p) <= IdMax
  /\ WireIn(s, p) = T_SEQUENCE_START /\ depth < MaxDepth
EndsIn(s, p, depth) ==
  /\ HeadIn(s, p).status = "ok" /\ IdIn(s, p) <= IdMax
  /\ WireIn(s, p) = T_SEQUENCE_END /\ depth > 0
UnsignedIn(s, p) == WordReadIn(s, p) /\ WireIn(s, p) = T_VARINT_UNSIGNED
SignedIn(s, p) == WordReadIn(s, p) /\ WireIn(s, p) = T_VARINT_SIGNED
PayloadIn(s, p) ==
  WordReadIn(s, p) /\ WireIn(s, p) = T_FIXLEN /\ SubtypeIn(s, p) \in {Str, Blob} /\ ~BadFixlenIn(s, p)
FloatIn(s, p) ==
  WordReadIn(s, p) /\ WireIn(s, p) = T_FIXLEN /\ SubtypeIn(s, p) \in Floats /\ ~BadFixlenIn(s, p)
IntArrayIn(s, p) ==
  WordReadIn(s, p) /\ WireIn(s, p) \in IntArrays /\ WordIn(s, p).value <= ArrayMax
FloatArrayIn(s, p) == CountReadIn(s, p) /\ ElemIn(s, p).status = "ok" /\ ~BadElemIn(s, p)

\* What the head of a field announces.
PayloadOf(s, p) ==
  Resume("payload", IdIn(s, p), SubtypeIn(s, p), LengthIn(s, p), LengthIn(s, p))
FloatOf(s, p) == Resume("fix", IdIn(s, p), SubtypeIn(s, p), 0, 1)
IntKindIn(s, p) == IF WireIn(s, p) = T_VARINTARRAY_SIGNED THEN KindSigned ELSE KindUnsigned
FloatKindIn(s, p) == IF ElemSubtypeIn(s, p) = Fp64 THEN KindFp64 ELSE KindFp32
IntsOf(s, p) == Resume("int", IdIn(s, p), IntKindIn(s, p), 0, WordIn(s, p).value)
FloatsOf(s, p) == Resume("fix", IdIn(s, p), ElemSubtypeIn(s, p), 0, WordIn(s, p).value)

\* What the head of a field tells, and a scalar behind it.
UnsignedOf(s, p) == OnUnsigned(IdIn(s, p), WordIn(s, p).value)
SignedOf(s, p) == OnSigned(IdIn(s, p), ZigZagDecode(WordIn(s, p).value))
FixlenOf(s, p) == OnFixlenBegin(IdIn(s, p), SubtypeIn(s, p), LengthIn(s, p))
ArrayOf(s, p, kind) == OnArrayBegin(IdIn(s, p), kind, WordIn(s, p).value)

\* What Field answers, by what the bytes are.
FieldAnswers(s, p, depth, events) ==
  /\ HeadShortIn(s, p) =>
       Field(s, p, depth, events) = RanOut(s, p, depth, NoResume, events)
  /\ HeadBadIn(s, p, depth) =>
       Field(s, p, depth, events) = Malformed(p, depth, NoResume, events)
  /\ BeginsIn(s, p, depth) =>
       Field(s, p, depth, events) =
         Going(AtWordIn(s, p), depth + 1, NoResume, Append(events, OnSequenceBegin(IdIn(s, p))))
  /\ EndsIn(s, p, depth) =>
       Field(s, p, depth, events) =
         Going(AtWordIn(s, p), depth - 1, NoResume, Append(events, OnSequenceEnd))
  /\ UnsignedIn(s, p) => Field(s, p, depth, events) = Going(AtElemIn(s, p), depth, NoResume, Append(events, UnsignedOf(s, p)))
  /\ SignedIn(s, p) => Field(s, p, depth, events) = Going(AtElemIn(s, p), depth, NoResume, Append(events, SignedOf(s, p)))
  /\ PayloadIn(s, p) =>
       Field(s, p, depth, events) =
         Going(AtElemIn(s, p), depth, PayloadOf(s, p), Append(events, FixlenOf(s, p)))
  /\ FloatIn(s, p) =>
       Field(s, p, depth, events) =
         Going(AtElemIn(s, p), depth, FloatOf(s, p), Append(events, FixlenOf(s, p)))
  /\ IntArrayIn(s, p) =>
       Field(s, p, depth, events) =
         Going(AtElemIn(s, p), depth, IntsOf(s, p), Append(events, ArrayOf(s, p, IntKindIn(s, p))))
  /\ FloatArrayIn(s, p) =>
       Field(s, p, depth, events) =
         Going(AtElemIn(s, p) + ElemIn(s, p).len, depth, FloatsOf(s, p),
               Append(events, ArrayOf(s, p, FloatKindIn(s, p))))

LEMMA FieldIs ==
  ASSUME NEW s, NEW p, NEW depth \in Nat, NEW events,
         HeadIn(s, p).value \in Nat, WordIn(s, p).value \in Nat, ElemIn(s, p).value \in Nat
  PROVE  FieldAnswers(s, p, depth, events)
<1> DEFINE f == Field(s, p, depth, events)
           h == HeadIn(s, p)
           w == WordIn(s, p)
           x == ElemIn(s, p)
           hid == h.value \div 8
           type == h.value % 8
           len == w.value \div 8
           sub == w.value % 8
           width == x.value \div 8
           el == x.value % 8
           atW == AtWordIn(s, p)
           atX == AtElemIn(s, p)
           kind == CASE type = T_VARINTARRAY_UNSIGNED -> KindUnsigned
                [] type = T_VARINTARRAY_SIGNED -> KindSigned
                [] OTHER -> IF el = Fp64 THEN KindFp64 ELSE KindFp32
           short == RanOut(s, p, depth, NoResume, events)
           bad == Malformed(p, depth, NoResume, events)
           fixlen(item) == Going(atX, depth, item, Append(events, OnFixlenBegin(hid, sub, len)))
           array(q, item) == Going(q, depth, item, Append(events, OnArrayBegin(hid, kind, w.value)))
<1>1. f =
  CASE h.status = "more" -> short
    [] h.status = "invalid" -> bad
    [] h.status = "ok" /\ hid > IdMax -> bad
    [] h.status = "ok" /\ hid <= IdMax /\ type = T_SEQUENCE_START ->
         IF depth >= MaxDepth THEN bad
         ELSE Going(atW, depth + 1, NoResume, Append(events, OnSequenceBegin(hid)))
    [] h.status = "ok" /\ hid <= IdMax /\ type = T_SEQUENCE_END ->
         IF depth = 0 THEN bad
         ELSE Going(atW, depth - 1, NoResume, Append(events, OnSequenceEnd))
    [] OTHER ->
  CASE w.status = "more" -> short
    [] w.status = "invalid" -> bad
    [] w.status = "ok" /\ type = T_VARINT_UNSIGNED ->
         Going(atX, depth, NoResume, Append(events, OnUnsigned(hid, w.value)))
    [] w.status = "ok" /\ type = T_VARINT_SIGNED ->
         Going(atX, depth, NoResume, Append(events, OnSigned(hid, ZigZagDecode(w.value))))
    [] w.status = "ok" /\ type = T_FIXLEN ->
         IF len > FixlenMax \/ sub \notin FixlenTypes THEN bad
         ELSE IF sub \in {Str, Blob} THEN fixlen(Resume("payload", hid, sub, len, len))
         ELSE IF len # FloatLen(sub) THEN bad
         ELSE fixlen(Resume("fix", hid, sub, 0, 1))
    [] w.status = "ok" /\ type \in IntArrays ->
         IF w.value > ArrayMax THEN bad
         ELSE array(atX, Resume("int", hid, kind, 0, w.value))
    [] w.status = "ok" /\ type = T_FIXLENARRAY ->
         IF w.value > ArrayMax \/ x.status = "invalid" THEN bad
         ELSE IF x.status = "more" THEN short
         ELSE IF el \notin Floats \/ width # FloatLen(el) THEN bad
         ELSE array(atX + x.len, Resume("fix", hid, el, 0, w.value))
  BY DEF Field, Headed, HeadIn, WordIn, ElemIn, AtWordIn, AtElemIn
<1>2. /\ h.value \in Nat /\ w.value \in Nat /\ x.value \in Nat
      /\ IdIn(s, p) = hid /\ WireIn(s, p) = type /\ LengthIn(s, p) = len /\ SubtypeIn(s, p) = sub
      /\ ElemSubtypeIn(s, p) = el /\ hid \in Nat /\ type \in 0..7 /\ len \in Nat /\ sub \in 0..7
      /\ el \in 0..7 /\ width \in Nat /\ IdMax \in Nat /\ FixlenMax \in Nat /\ ArrayMax \in Nat
      /\ MaxDepth \in Nat
  <2>1. /\ IdIn(s, p) = hid /\ WireIn(s, p) = type /\ LengthIn(s, p) = len /\ SubtypeIn(s, p) = sub
        /\ ElemSubtypeIn(s, p) = el
    BY DEF IdIn, WireIn, LengthIn, SubtypeIn, ElemSubtypeIn
  <2>2. h.value \in Nat /\ w.value \in Nat /\ x.value \in Nat
    OBVIOUS
  <2> HIDE DEF h, w, x
  <2>3. /\ hid \in Nat /\ type \in 0..7 /\ len \in Nat /\ sub \in 0..7
        /\ el \in 0..7 /\ width \in Nat
    BY <2>2
  <2> QED  BY <2>1, <2>2, <2>3, FormatAssumption
<1>3. /\ HeadReadIn(s, p) <=> h.status = "ok" /\ hid <= IdMax /\ type \notin {6, 7}
      /\ WordReadIn(s, p) <=> HeadReadIn(s, p) /\ w.status = "ok"
      /\ CountReadIn(s, p) <=> WordReadIn(s, p) /\ type = 5 /\ w.value <= ArrayMax
      /\ BadFixlenIn(s, p) <=> (len > FixlenMax \/ sub \notin {0, 1, 2, 3} \/ (sub \in {0, 1} /\ len # FloatLen(sub)))
      /\ BadElemIn(s, p) <=> el \notin {0, 1} \/ width # FloatLen(el)
  <2>1. HeadReadIn(s, p) <=> h.status = "ok" /\ hid <= IdMax /\ type \notin {6, 7}
    BY DEF HeadReadIn, HasWord, T_SEQUENCE_START, T_SEQUENCE_END
  <2>2. WordReadIn(s, p) <=> HeadReadIn(s, p) /\ w.status = "ok"
    BY DEF WordReadIn
  <2>3. CountReadIn(s, p) <=> WordReadIn(s, p) /\ type = 5 /\ w.value <= ArrayMax
    <3>1. CountReadIn(s, p) <=> HeadReadIn(s, p) /\ type = 5 /\ w.status = "ok" /\ w.value <= ArrayMax
      BY DEF CountReadIn, T_FIXLENARRAY
    <3> QED  BY <2>2, <3>1
  <2>4. /\ BadFixlenIn(s, p) <=> (len > FixlenMax \/ sub \notin {0, 1, 2, 3} \/ (sub \in {0, 1} /\ len # FloatLen(sub)))
        /\ BadElemIn(s, p) <=> el \notin {0, 1} \/ width # FloatLen(el)
    <3> HIDE DEF h, w, x, hid, type, len, sub, width, el
    <3>2. \A a \in Nat, b \in 0..7 :
            /\ b \in Floats <=> b \in {0, 1}
            /\ b \in FixlenTypes <=> b \in {0, 1, 2, 3}
      BY DEF FixlenTypes, Floats, Fp32, Fp64, Str, Blob
    <3>3. BadFixlenIn(s, p) <=> (len > FixlenMax \/ sub \notin FixlenTypes \/ (sub \in Floats /\ len # FloatLen(sub)))
      BY <1>2 DEF BadFixlenIn
    <3>4. BadElemIn(s, p) <=> el \notin Floats \/ ElemIn(s, p).value \div 8 # FloatLen(el)
      BY <1>2 DEF BadElemIn
    <3>5. ElemIn(s, p).value \div 8 = width
      BY DEF width, x
    <3> QED  BY <1>2, <3>2, <3>3, <3>4, <3>5
  <2> QED  BY <2>1, <2>2, <2>3, <2>4
<1>4. /\ PayloadOf(s, p) = Resume("payload", hid, sub, len, len)
      /\ FloatOf(s, p) = Resume("fix", hid, sub, 0, 1)
      /\ IntsOf(s, p) = Resume("int", hid, IntKindIn(s, p), 0, w.value)
      /\ FloatsOf(s, p) = Resume("fix", hid, el, 0, w.value)
      /\ type = 3 \/ type = 4 => kind = IntKindIn(s, p)
      /\ type = 5 => kind = FloatKindIn(s, p)
  BY <1>2 DEF PayloadOf, FloatOf, IntsOf, FloatsOf, IntKindIn, FloatKindIn,
     T_VARINTARRAY_SIGNED, T_VARINTARRAY_UNSIGNED
<1> HIDE DEF f, h, w, x, hid, type, len, sub, width, el, atW, atX, kind, short, bad
<1> USE DEF T_VARINT_UNSIGNED, T_VARINT_SIGNED, T_FIXLEN, T_VARINTARRAY_UNSIGNED,
            T_VARINTARRAY_SIGNED, T_FIXLENARRAY, T_SEQUENCE_START, T_SEQUENCE_END, IntArrays,
            Fp32, Fp64, Str, Blob, FixlenTypes, Floats
\* A header that is there.
<1>5. ASSUME h.status = "ok", hid <= IdMax
      PROVE  /\ type = 6 => f = IF depth >= MaxDepth THEN bad
                                ELSE Going(atW, depth + 1, NoResume, Append(events, OnSequenceBegin(hid)))
             /\ type = 7 => f = IF depth = 0 THEN bad
                                ELSE Going(atW, depth - 1, NoResume, Append(events, OnSequenceEnd))
  BY <1>1, <1>2, <1>5
<1>6. ASSUME HeadReadIn(s, p)
      PROVE  /\ w.status = "more" => f = short
             /\ w.status = "invalid" => f = bad
  BY <1>1, <1>2, <1>3, <1>6
<1>7. ASSUME WordReadIn(s, p)
      PROVE  /\ type = 0 => f = Going(atX, depth, NoResume, Append(events, OnUnsigned(hid, w.value)))
             /\ type = 1 => f = Going(atX, depth, NoResume, Append(events, OnSigned(hid, ZigZagDecode(w.value))))
             /\ type = 2 => f = IF len > FixlenMax \/ sub \notin FixlenTypes THEN bad
                     ELSE IF sub \in {Str, Blob} THEN fixlen(Resume("payload", hid, sub, len, len))
                     ELSE IF len # FloatLen(sub) THEN bad
                     ELSE fixlen(Resume("fix", hid, sub, 0, 1))
             /\ type \in {3, 4} => f = IF w.value > ArrayMax THEN bad
                     ELSE array(atX, Resume("int", hid, kind, 0, w.value))
             /\ type = 5 => f = IF w.value > ArrayMax \/ x.status = "invalid" THEN bad
                     ELSE IF x.status = "more" THEN short
                     ELSE IF el \notin Floats \/ width # FloatLen(el) THEN bad
                     ELSE array(atX + x.len, Resume("fix", hid, el, 0, w.value))
  <2>1. h.status = "ok" /\ hid <= IdMax /\ type \notin {6, 7} /\ w.status = "ok"
    BY <1>3, <1>7
  <2> HIDE DEF fixlen, array
  <2> QED  BY <1>1, <1>2, <2>1
<1>8. HeadShortIn(s, p) => f = short
  <2>1. HeadShortIn(s, p) => \/ h.status = "more"
                             \/ HeadReadIn(s, p) /\ w.status = "more"
                             \/ CountReadIn(s, p) /\ x.status = "more"
    BY DEF HeadShortIn, h, w, x
  <2>2. h.status = "more" => f = short
    BY <1>1
  <2>3. CountReadIn(s, p) /\ x.status = "more" => f = short
    BY <1>2, <1>3, <1>7
  <2> QED  BY <1>6, <2>1, <2>2, <2>3
<1>9. HeadBadIn(s, p, depth) => f = bad
  <2>1. HeadBadIn(s, p, depth) =>
          \/ h.status = "invalid"
          \/ h.status = "ok" /\ hid > IdMax
          \/ h.status = "ok" /\ hid <= IdMax /\ type = 6 /\ depth >= MaxDepth
          \/ h.status = "ok" /\ hid <= IdMax /\ type = 7 /\ depth = 0
          \/ HeadReadIn(s, p) /\ w.status = "invalid"
          \/ WordReadIn(s, p) /\ type = 2 /\ BadFixlenIn(s, p)
          \/ WordReadIn(s, p) /\ type \in {3, 4, 5} /\ w.value > ArrayMax
          \/ CountReadIn(s, p) /\ x.status = "invalid"
          \/ CountReadIn(s, p) /\ x.status = "ok" /\ BadElemIn(s, p)
    BY <1>2 DEF HeadBadIn, h, w, x
  <2>2. h.status = "invalid" => f = bad
    BY <1>1
  <2>3. h.status = "ok" /\ hid > IdMax => f = bad
    BY <1>1, <1>2
  <2>4. h.status = "ok" /\ hid <= IdMax /\ type = 6 /\ depth >= MaxDepth => f = bad
    BY <1>5
  <2>5. h.status = "ok" /\ hid <= IdMax /\ type = 7 /\ depth = 0 => f = bad
    BY <1>5
  <2>6. WordReadIn(s, p) /\ type = 2 /\ BadFixlenIn(s, p) => f = bad
    BY <1>2, <1>3, <1>7
  <2>7. WordReadIn(s, p) /\ type \in {3, 4, 5} /\ w.value > ArrayMax => f = bad
    BY <1>2, <1>3, <1>7
  <2>8. CountReadIn(s, p) /\ x.status = "invalid" => f = bad
    BY <1>2, <1>3, <1>7
  <2>9. CountReadIn(s, p) /\ x.status = "ok" /\ BadElemIn(s, p) => f = bad
    BY <1>2, <1>3, <1>7
  <2> QED  BY <1>6, <2>1, <2>2, <2>3, <2>4, <2>5, <2>6, <2>7, <2>8, <2>9
<1>10. /\ BeginsIn(s, p, depth) =>
            f = Going(atW, depth + 1, NoResume, Append(events, OnSequenceBegin(hid)))
       /\ EndsIn(s, p, depth) => f = Going(atW, depth - 1, NoResume, Append(events, OnSequenceEnd))
  <2>1. /\ BeginsIn(s, p, depth) => h.status = "ok" /\ hid <= IdMax /\ type = 6 /\ ~(depth >= MaxDepth)
        /\ EndsIn(s, p, depth) => h.status = "ok" /\ hid <= IdMax /\ type = 7 /\ depth # 0
    BY <1>2 DEF BeginsIn, EndsIn, h
  <2> QED  BY <1>5, <2>1
<1>11. /\ UnsignedIn(s, p) =>
            f = Going(atX, depth, NoResume, Append(events, OnUnsigned(hid, w.value)))
       /\ SignedIn(s, p) =>
            f = Going(atX, depth, NoResume, Append(events, OnSigned(hid, ZigZagDecode(w.value))))
  BY <1>2, <1>7 DEF UnsignedIn, SignedIn
<1>12. /\ PayloadIn(s, p) => f = fixlen(PayloadOf(s, p))
       /\ FloatIn(s, p) => f = fixlen(FloatOf(s, p))
  <2> HIDE DEF fixlen
  <2>1. PayloadIn(s, p) => WordReadIn(s, p) /\ type = 2 /\ sub \in {2, 3} /\ ~(len > FixlenMax)
    <3>1. PayloadIn(s, p) => WordReadIn(s, p) /\ type = 2 /\ sub \in {Str, Blob} /\ ~BadFixlenIn(s, p)
      BY <1>2 DEF PayloadIn
    <3> QED  BY <1>3, <3>1
  <2>2. FloatIn(s, p) => WordReadIn(s, p) /\ type = 2 /\ sub \in {0, 1} /\ ~(len > FixlenMax)
                         /\ len = FloatLen(sub)
    <3>1. FloatIn(s, p) => WordReadIn(s, p) /\ type = 2 /\ sub \in Floats /\ ~BadFixlenIn(s, p)
      BY <1>2 DEF FloatIn
    <3> QED  BY <1>3, <3>1
  <2>3. PayloadIn(s, p) => f = fixlen(PayloadOf(s, p))
    BY <1>4, <1>7, <2>1
  <2>4. FloatIn(s, p) => f = fixlen(FloatOf(s, p))
    BY <1>4, <1>7, <2>2
  <2> QED  BY <2>3, <2>4
<1>13. /\ IntArrayIn(s, p) => f = array(atX, IntsOf(s, p)) /\ kind = IntKindIn(s, p)
       /\ FloatArrayIn(s, p) => f = array(atX + x.len, FloatsOf(s, p)) /\ kind = FloatKindIn(s, p)
  <2> HIDE DEF array
  <2>1. IntArrayIn(s, p) => WordReadIn(s, p) /\ type \in {3, 4} /\ ~(w.value > ArrayMax)
    BY <1>2 DEF IntArrayIn, w
  <2>2. FloatArrayIn(s, p) => CountReadIn(s, p) /\ x.status = "ok" /\ ~BadElemIn(s, p)
    BY DEF FloatArrayIn, x
  <2>3. IntArrayIn(s, p) => f = array(atX, IntsOf(s, p)) /\ kind = IntKindIn(s, p)
    <3>1. type \in {3, 4} => kind = IntKindIn(s, p)
      BY <1>4
    <3> QED  BY <1>4, <1>7, <2>1, <3>1
  <2>4. FloatArrayIn(s, p) => f = array(atX + x.len, FloatsOf(s, p)) /\ kind = FloatKindIn(s, p)
    BY <1>2, <1>3, <1>4, <1>7, <2>2
  <2> QED  BY <2>3, <2>4
<1> QED  BY <1>2, <1>8, <1>9, <1>10, <1>11, <1>12, <1>13 DEF f, atW, atX, w, x, short, bad,
         UnsignedOf, SignedOf, FixlenOf, ArrayOf, FieldAnswers

\* The varints at the head of a field lie one behind the other.
LEMMA HeadInFacts ==
  ASSUME NEW s \in Seq(Byte), NEW p \in 0..Len(s)
  PROVE  /\ HeadIn(s, p).status \in {"ok", "more", "invalid"} /\ HeadIn(s, p).value \in Nat
         /\ WordIn(s, p).status \in {"ok", "more", "invalid"} /\ WordIn(s, p).value \in Nat
         /\ ElemIn(s, p).status \in {"ok", "more", "invalid"} /\ ElemIn(s, p).value \in Nat
         /\ AtWordIn(s, p) \in p..Len(s) /\ AtElemIn(s, p) \in AtWordIn(s, p)..Len(s)
         /\ HeadIn(s, p).status = "ok" => AtWordIn(s, p) > p
         /\ WordIn(s, p).status = "ok" => AtElemIn(s, p) > AtWordIn(s, p)
         /\ ElemIn(s, p).status = "ok" => AtElemIn(s, p) + ElemIn(s, p).len \in (AtElemIn(s, p) + 1)..Len(s)
         /\ ElemIn(s, p).len \in Nat
<1>1. ASSUME NEW q \in 0..Len(s)
      PROVE  LET r == ReadVarint(s, q + 1)
             IN  /\ r.status \in {"ok", "more", "invalid"} /\ r.value \in Nat /\ r.len \in Nat
                 /\ q + r.len \in q..Len(s)
                 /\ r.status = "ok" => q + r.len > q
  <2> DEFINE from == q + 1
             r == ReadVarint(s, from)
  <2>1. from \in 1..(Len(s) + 1)
    OBVIOUS
  <2> HIDE DEF from
  <2>2. /\ r.status \in {"ok", "more", "invalid"} /\ r.value \in Nat /\ r.len \in 0..MaxVarintLen
        /\ r.status = "ok" => r.len >= 1 /\ from + r.len - 1 <= Len(s)
        /\ r.status # "ok" => r.len = 0
    BY <2>1, ReadOutcome
  <2> HIDE DEF r
  <2>3. r.len \in Nat
    BY <2>2, MaxVarintLenAssumption
  <2>4. q + r.len \in q..Len(s) /\ (r.status = "ok" => q + r.len > q)
    BY <2>2, <2>3 DEF from
  <2> QED  BY <2>2, <2>3, <2>4 DEF r, from
<1>2. /\ HeadIn(s, p).status \in {"ok", "more", "invalid"} /\ HeadIn(s, p).value \in Nat
      /\ AtWordIn(s, p) \in p..Len(s)
      /\ HeadIn(s, p).status = "ok" => AtWordIn(s, p) > p
  BY <1>1 DEF HeadIn, AtWordIn
<1>3. AtWordIn(s, p) \in 0..Len(s)
  BY <1>2
<1>4. /\ WordIn(s, p).status \in {"ok", "more", "invalid"} /\ WordIn(s, p).value \in Nat
      /\ AtElemIn(s, p) \in AtWordIn(s, p)..Len(s)
      /\ WordIn(s, p).status = "ok" => AtElemIn(s, p) > AtWordIn(s, p)
  BY <1>1, <1>3 DEF WordIn, AtElemIn
<1>5. AtElemIn(s, p) \in 0..Len(s)
  BY <1>3, <1>4
<1>6. /\ ElemIn(s, p).status \in {"ok", "more", "invalid"} /\ ElemIn(s, p).value \in Nat
      /\ ElemIn(s, p).len \in Nat
      /\ AtElemIn(s, p) + ElemIn(s, p).len \in AtElemIn(s, p)..Len(s)
      /\ ElemIn(s, p).status = "ok" => AtElemIn(s, p) + ElemIn(s, p).len > AtElemIn(s, p)
  BY <1>1, <1>5 DEF ElemIn
<1>7. ElemIn(s, p).status = "ok" => AtElemIn(s, p) + ElemIn(s, p).len \in (AtElemIn(s, p) + 1)..Len(s)
  BY <1>5, <1>6
<1> QED  BY <1>2, <1>4, <1>6, <1>7

\* A field that is announced is one of eight; otherwise it is short or bad.
FieldGoesIn(s, p, depth) ==
  \/ BeginsIn(s, p, depth) \/ EndsIn(s, p, depth) \/ UnsignedIn(s, p) \/ SignedIn(s, p)
  \/ PayloadIn(s, p) \/ FloatIn(s, p) \/ IntArrayIn(s, p) \/ FloatArrayIn(s, p)

LEMMA FieldCases ==
  ASSUME NEW s \in Seq(Byte), NEW p \in 0..Len(s), NEW depth \in Nat
  PROVE  HeadShortIn(s, p) \/ HeadBadIn(s, p, depth) \/ FieldGoesIn(s, p, depth)
<1> DEFINE h == HeadIn(s, p)
           w == WordIn(s, p)
           x == ElemIn(s, p)
           type == WireIn(s, p)
           sub == SubtypeIn(s, p)
<1>1. /\ h.status \in {"ok", "more", "invalid"} /\ w.status \in {"ok", "more", "invalid"}
      /\ x.status \in {"ok", "more", "invalid"}
      /\ h.value \in Nat /\ w.value \in Nat
      /\ IdMax \in Nat /\ ArrayMax \in Nat /\ MaxDepth \in Nat
  BY HeadInFacts, FormatAssumption
<1>2. type \in 0..7 /\ IdIn(s, p) \in Nat /\ sub \in 0..7
  <2>1. ASSUME NEW v \in Nat PROVE v % 8 \in 0..7 /\ v \div 8 \in Nat
    OBVIOUS
  <2>2. type = h.value % 8 /\ IdIn(s, p) = h.value \div 8 /\ sub = w.value % 8
    BY DEF WireIn, IdIn, SubtypeIn, h, w
  <2> HIDE DEF h, w, type, sub
  <2>3. h.value % 8 \in 0..7 /\ h.value \div 8 \in Nat
    BY <1>1, <2>1
  <2>4. w.value % 8 \in 0..7
    BY <1>1, <2>1
  <2> QED  BY <2>2, <2>3, <2>4
<1>3. HeadReadIn(s, p) <=> (h.status = "ok" /\ IdIn(s, p) <= IdMax /\ type \notin {6, 7})
  BY DEF HeadReadIn, IdIn, WireIn, HasWord, T_SEQUENCE_START, T_SEQUENCE_END
<1>4. CountReadIn(s, p) <=> (HeadReadIn(s, p) /\ type = 5 /\ w.status = "ok" /\ w.value <= ArrayMax)
  BY DEF CountReadIn, WireIn, T_FIXLENARRAY
<1> HIDE DEF h, w, x, type, sub
<1>5. CASE h.status # "ok"
  BY <1>1, <1>5 DEF HeadShortIn, HeadBadIn, h
<1>6. CASE h.status = "ok" /\ ~(IdIn(s, p) <= IdMax)
  <2>1. IdIn(s, p) > IdMax
    BY <1>1, <1>2, <1>6
  <2> QED  BY <1>6, <2>1 DEF HeadBadIn, h
<1>7. CASE h.status = "ok" /\ IdIn(s, p) <= IdMax /\ type \in {6, 7}
  BY <1>1, <1>7 DEF HeadBadIn, FieldGoesIn, BeginsIn, EndsIn, T_SEQUENCE_START, T_SEQUENCE_END, h, type
<1>8. CASE HeadReadIn(s, p) /\ w.status # "ok"
  BY <1>1, <1>8 DEF HeadShortIn, HeadBadIn, w
<1>9. CASE WordReadIn(s, p) /\ type \in {0, 1}
  BY <1>9 DEF FieldGoesIn, UnsignedIn, SignedIn, type, T_VARINT_UNSIGNED, T_VARINT_SIGNED
<1>10. CASE WordReadIn(s, p) /\ type = 2
  <2>1. CASE BadFixlenIn(s, p)
    BY <1>10, <2>1 DEF HeadBadIn, type, T_FIXLEN
  <2>2. CASE ~BadFixlenIn(s, p)
    <3>1. SubtypeIn(s, p) \in {Str, Blob} \/ SubtypeIn(s, p) \in Floats
      BY <2>2 DEF BadFixlenIn, FixlenTypes, Floats
    <3> QED  BY <1>10, <2>2, <3>1 DEF FieldGoesIn, PayloadIn, FloatIn, type, T_FIXLEN
  <2> QED  BY <2>1, <2>2
<1>11. CASE WordReadIn(s, p) /\ type \in {3, 4, 5} /\ ~(w.value <= ArrayMax)
  <2>1. w.value > ArrayMax
    BY <1>1, <1>11
  <2> QED  BY <1>11, <2>1 DEF HeadBadIn, type, w, IntArrays, T_VARINTARRAY_UNSIGNED,
             T_VARINTARRAY_SIGNED, T_FIXLENARRAY
<1>12. CASE WordReadIn(s, p) /\ type \in {3, 4} /\ w.value <= ArrayMax
  BY <1>12 DEF FieldGoesIn, IntArrayIn, type, w, IntArrays, T_VARINTARRAY_UNSIGNED, T_VARINTARRAY_SIGNED
<1>13. CASE WordReadIn(s, p) /\ type = 5 /\ w.value <= ArrayMax
  <2>1. CountReadIn(s, p)
    BY <1>4, <1>13 DEF WordReadIn, w
  <2> QED  BY <1>1, <2>1 DEF HeadShortIn, HeadBadIn, FieldGoesIn, FloatArrayIn, x
<1>14. HeadReadIn(s, p) /\ w.status = "ok" => WordReadIn(s, p)
  BY DEF WordReadIn, w
<1> QED  BY <1>1, <1>2, <1>3, <1>5, <1>6, <1>7, <1>8, <1>9, <1>10, <1>11, <1>12, <1>13, <1>14

(***************************************************************************)
(* One item: where it ends, and that the bytes behind it do not matter.    *)
(***************************************************************************)
\* The same place in bytes that begin k bytes later.
Moved(c, k) == [c EXCEPT !.at = @ + k]

LEMMA MovedIs ==
  ASSUME NEW at, NEW depth, NEW item, NEW events, NEW k
  PROVE  /\ Moved(Going(at, depth, item, events), k) = Going(at + k, depth, item, events)
         /\ Moved(Malformed(at, depth, item, events), k) = Malformed(at + k, depth, item, events)
BY DEF Moved, Going, Malformed

\* A head that is not short is the same wherever the bytes are, and whatever follows.
LEMMA HeadsAgree ==
  ASSUME NEW s \in Seq(Byte), NEW p \in 0..Len(s), NEW t \in Seq(Byte), NEW q \in 0..Len(t),
         Agree(s, p, t, q), ~HeadShortIn(s, p)
  PROVE  /\ HeadIn(t, q) = HeadIn(s, p)
         /\ HeadIn(s, p).status = "ok" => AtWordIn(t, q) = AtWordIn(s, p) + (q - p)
         /\ HeadReadIn(s, p) => WordIn(t, q) = WordIn(s, p)
         /\ WordReadIn(s, p) => AtElemIn(t, q) = AtElemIn(s, p) + (q - p)
         /\ CountReadIn(s, p) => ElemIn(t, q) = ElemIn(s, p)
<1> DEFINE h == HeadIn(s, p)
           w == WordIn(s, p)
           atW == AtWordIn(s, p)
           atX == AtElemIn(s, p)
<1>1. /\ Len(s) \in Nat /\ Len(t) \in Nat /\ atW \in p..Len(s) /\ atX \in atW..Len(s)
      /\ AtWordIn(t, q) \in q..Len(t) /\ AtElemIn(t, q) \in AtWordIn(t, q)..Len(t)
  BY HeadInFacts
<1>2. HeadIn(t, q) = h
  BY AgreeReads DEF HeadIn, HeadShortIn
<1>3. /\ atW = p + h.len /\ AtWordIn(t, q) = q + h.len /\ atX = atW + w.len
      /\ AtElemIn(t, q) = AtWordIn(t, q) + WordIn(t, q).len
  BY <1>2 DEF AtWordIn, AtElemIn
<1>4. ASSUME h.status = "ok"
      PROVE  /\ AtWordIn(t, q) = atW + (q - p) /\ Agree(s, atW, t, AtWordIn(t, q))
             /\ atW \in 0..Len(s) /\ AtWordIn(t, q) \in 0..Len(t)
  <2> DEFINE k == h.len
  <2>1. k \in 0..(Len(s) - p)
    BY <1>4, AgreeReads DEF HeadIn
  <2>2. Agree(s, p + k, t, q + k) /\ p + k \in 0..Len(s) /\ q + k \in 0..Len(t)
    BY <2>1, AgreeBehind
  <2>3. atW = p + k /\ AtWordIn(t, q) = q + k
    BY <1>3
  <2> HIDE DEF h, k, atW
  <2> QED  BY <1>1, <2>1, <2>2, <2>3
<1>5. ASSUME HeadReadIn(s, p) PROVE WordIn(t, q) = w /\ h.status = "ok"
  <2>1. h.status = "ok" /\ w.status # "more"
    BY <1>5 DEF HeadReadIn, HeadShortIn
  <2>2. ReadVarint(t, AtWordIn(t, q) + 1) = ReadVarint(s, atW + 1)
    BY <1>4, <2>1, AgreeReads DEF WordIn
  <2> QED  BY <2>1, <2>2 DEF WordIn
<1>6. ASSUME WordReadIn(s, p)
      PROVE  /\ AtElemIn(t, q) = atX + (q - p) /\ Agree(s, atX, t, AtElemIn(t, q))
             /\ atX \in 0..Len(s) /\ AtElemIn(t, q) \in 0..Len(t)
  <2> DEFINE k == w.len
             from == atW
             to == AtWordIn(t, q)
  <2>1. WordIn(t, q) = w /\ h.status = "ok" /\ w.status = "ok"
    BY <1>5, <1>6 DEF WordReadIn
  <2>2. Agree(s, from, t, to) /\ from \in 0..Len(s) /\ to \in 0..Len(t) /\ to = from + (q - p)
    BY <1>4, <2>1
  <2>3. k \in 0..(Len(s) - from)
    BY <2>1, <2>2, AgreeReads DEF WordIn
  <2>4. atX = from + k /\ AtElemIn(t, q) = to + k
    BY <1>3, <2>1
  <2> HIDE DEF k, from, to, h, w, atX
  <2>5. Agree(s, from + k, t, to + k) /\ from + k \in 0..Len(s) /\ to + k \in 0..Len(t)
    BY <2>2, <2>3, AgreeBehind
  <2> QED  BY <1>1, <2>2, <2>3, <2>4, <2>5
<1>7. ASSUME CountReadIn(s, p) PROVE ElemIn(t, q) = ElemIn(s, p)
  <2>1. WordReadIn(s, p) /\ ElemIn(s, p).status # "more"
    BY <1>7 DEF CountReadIn, WordReadIn, HeadShortIn
  <2>2. ReadVarint(t, AtElemIn(t, q) + 1) = ReadVarint(s, atX + 1)
    BY <1>6, <2>1, AgreeReads DEF ElemIn
  <2> QED  BY <2>2 DEF ElemIn
<1> QED  BY <1>2, <1>4, <1>5, <1>6, <1>7

\* What Field answers of a head that is there, wherever it is.
LEMMA FieldAgrees ==
  ASSUME NEW s \in Seq(Byte), NEW p \in 0..Len(s), NEW t \in Seq(Byte), NEW q \in 0..Len(t),
         Agree(s, p, t, q), NEW depth \in Nat, NEW events, ~HeadShortIn(s, p)
  PROVE  Field(t, q, depth, events) = Moved(Field(s, p, depth, events), q - p)
<1> DEFINE k == q - p
           f == Field(s, p, depth, events)
           g == Field(t, q, depth, events)
<1>1. /\ HeadIn(t, q) = HeadIn(s, p)
      /\ HeadIn(s, p).status = "ok" => AtWordIn(t, q) = AtWordIn(s, p) + k
      /\ HeadReadIn(s, p) => WordIn(t, q) = WordIn(s, p)
      /\ WordReadIn(s, p) => AtElemIn(t, q) = AtElemIn(s, p) + k
      /\ CountReadIn(s, p) => ElemIn(t, q) = ElemIn(s, p)
  BY HeadsAgree
<1>2. /\ HeadReadIn(t, q) <=> HeadReadIn(s, p)
      /\ IdIn(t, q) = IdIn(s, p) /\ WireIn(t, q) = WireIn(s, p)
  BY <1>1 DEF HeadReadIn, IdIn, WireIn
<1>3. HeadReadIn(s, p) =>
        LengthIn(t, q) = LengthIn(s, p) /\ SubtypeIn(t, q) = SubtypeIn(s, p)
  BY <1>1 DEF LengthIn, SubtypeIn
<1>4. WordReadIn(t, q) <=> WordReadIn(s, p)
  BY <1>1, <1>2 DEF WordReadIn
<1>5. CountReadIn(t, q) <=> CountReadIn(s, p)
  BY <1>1, <1>2 DEF CountReadIn
<1>6. CountReadIn(s, p) =>
        ElemSubtypeIn(t, q) = ElemSubtypeIn(s, p) /\ (BadElemIn(t, q) <=> BadElemIn(s, p))
  BY <1>1 DEF ElemSubtypeIn, BadElemIn
<1>7. HeadReadIn(s, p) => (BadFixlenIn(t, q) <=> BadFixlenIn(s, p))
  BY <1>3 DEF BadFixlenIn
<1>8. /\ WordReadIn(s, p) => HeadReadIn(s, p)
      /\ CountReadIn(s, p) => WordReadIn(s, p)
      /\ HeadReadIn(s, p) => HeadIn(s, p).status = "ok"
  BY DEF WordReadIn, CountReadIn, HeadReadIn
<1>9. /\ HeadIn(s, p).value \in Nat /\ WordIn(s, p).value \in Nat /\ ElemIn(s, p).value \in Nat
      /\ HeadIn(t, q).value \in Nat /\ WordIn(t, q).value \in Nat /\ ElemIn(t, q).value \in Nat
      /\ AtWordIn(s, p) \in Nat /\ AtElemIn(s, p) \in Nat /\ ElemIn(s, p).len \in Nat
  <2>1. /\ HeadIn(s, p).value \in Nat /\ WordIn(s, p).value \in Nat /\ ElemIn(s, p).value \in Nat
        /\ AtWordIn(s, p) \in p..Len(s) /\ AtElemIn(s, p) \in AtWordIn(s, p)..Len(s)
        /\ ElemIn(s, p).len \in Nat
    BY HeadInFacts
  <2>2. HeadIn(t, q).value \in Nat /\ WordIn(t, q).value \in Nat /\ ElemIn(t, q).value \in Nat
    BY HeadInFacts
  <2> QED  BY <2>1, <2>2
<1>16. FieldAnswers(s, p, depth, events)
  BY <1>9, FieldIs
<1>17. FieldAnswers(t, q, depth, events)
  BY <1>9, FieldIs
<1>10. CASE HeadBadIn(s, p, depth)
  <2>1. HeadBadIn(t, q, depth)
    BY <1>1, <1>2, <1>3, <1>4, <1>5, <1>6, <1>7, <1>8, <1>10 DEF HeadBadIn
  <2>2. f = Malformed(p, depth, NoResume, events) /\ g = Malformed(q, depth, NoResume, events)
    BY <1>16, <1>17, <1>10, <2>1 DEF FieldAnswers
  <2>3. q = p + k
    OBVIOUS
  <2> QED  BY <2>2, <2>3, MovedIs
<1>11. CASE BeginsIn(s, p, depth)
  <2>1. BeginsIn(t, q, depth)
    BY <1>1, <1>2, <1>11 DEF BeginsIn
  <2>2. /\ f = Going(AtWordIn(s, p), depth + 1, NoResume, Append(events, OnSequenceBegin(IdIn(s, p))))
        /\ g = Going(AtWordIn(t, q), depth + 1, NoResume, Append(events, OnSequenceBegin(IdIn(t, q))))
    BY <1>16, <1>17, <1>11, <2>1 DEF FieldAnswers
  <2> QED  BY <1>1, <1>2, <1>11, <2>2, MovedIs DEF BeginsIn
<1>12. CASE EndsIn(s, p, depth)
  <2>1. EndsIn(t, q, depth)
    BY <1>1, <1>2, <1>12 DEF EndsIn
  <2>2. /\ f = Going(AtWordIn(s, p), depth - 1, NoResume, Append(events, OnSequenceEnd))
        /\ g = Going(AtWordIn(t, q), depth - 1, NoResume, Append(events, OnSequenceEnd))
    BY <1>16, <1>17, <1>12, <2>1 DEF FieldAnswers
  <2> QED  BY <1>1, <1>2, <1>12, <2>2, MovedIs DEF EndsIn
<1>13. CASE UnsignedIn(s, p) \/ SignedIn(s, p)
  <2>1. WordReadIn(s, p) /\ WordIn(t, q) = WordIn(s, p) /\ AtElemIn(t, q) = AtElemIn(s, p) + k
    BY <1>1, <1>8, <1>13 DEF UnsignedIn, SignedIn
  <2>2. (UnsignedIn(s, p) => UnsignedIn(t, q)) /\ (SignedIn(s, p) => SignedIn(t, q))
    BY <1>2, <1>4 DEF UnsignedIn, SignedIn
  <2>3. ASSUME UnsignedIn(s, p), UnsignedIn(t, q)
        PROVE  /\ f = Going(AtElemIn(s, p), depth, NoResume, Append(events, UnsignedOf(s, p)))
               /\ g = Going(AtElemIn(t, q), depth, NoResume, Append(events, UnsignedOf(t, q)))
    BY <1>16, <1>17, <2>3 DEF FieldAnswers
  <2>4. ASSUME SignedIn(s, p), SignedIn(t, q)
        PROVE  /\ f = Going(AtElemIn(s, p), depth, NoResume, Append(events, SignedOf(s, p)))
               /\ g = Going(AtElemIn(t, q), depth, NoResume, Append(events, SignedOf(t, q)))
    BY <1>16, <1>17, <2>4 DEF FieldAnswers
  <2>5. UnsignedOf(t, q) = UnsignedOf(s, p) /\ SignedOf(t, q) = SignedOf(s, p)
    BY <1>2, <2>1 DEF UnsignedOf, SignedOf
  <2> QED  BY <1>13, <2>1, <2>2, <2>3, <2>4, <2>5, MovedIs
<1>14. CASE PayloadIn(s, p) \/ FloatIn(s, p)
  <2>1. /\ WordReadIn(s, p) /\ HeadReadIn(s, p) /\ AtElemIn(t, q) = AtElemIn(s, p) + k
    BY <1>1, <1>8, <1>14 DEF PayloadIn, FloatIn
  <2>2. (PayloadIn(s, p) => PayloadIn(t, q)) /\ (FloatIn(s, p) => FloatIn(t, q))
    BY <1>2, <1>3, <1>4, <1>7, <2>1 DEF PayloadIn, FloatIn
  <2>3. PayloadOf(t, q) = PayloadOf(s, p) /\ FloatOf(t, q) = FloatOf(s, p)
    BY <1>2, <1>3, <2>1 DEF PayloadOf, FloatOf
  <2> DEFINE told(u, r) == Append(events, FixlenOf(u, r))
  <2>4. ASSUME PayloadIn(s, p), PayloadIn(t, q)
        PROVE  /\ f = Going(AtElemIn(s, p), depth, PayloadOf(s, p), told(s, p))
               /\ g = Going(AtElemIn(t, q), depth, PayloadOf(t, q), told(t, q))
    BY <1>16, <1>17, <2>4 DEF FieldAnswers
  <2>6. ASSUME FloatIn(s, p), FloatIn(t, q)
        PROVE  /\ f = Going(AtElemIn(s, p), depth, FloatOf(s, p), told(s, p))
               /\ g = Going(AtElemIn(t, q), depth, FloatOf(t, q), told(t, q))
    BY <1>16, <1>17, <2>6 DEF FieldAnswers
  <2>5. told(t, q) = told(s, p)
    BY <1>2, <1>3, <2>1 DEF FixlenOf
  <2> HIDE DEF told
  <2> QED  BY <1>14, <2>1, <2>2, <2>3, <2>4, <2>5, <2>6, MovedIs
<1>15. CASE IntArrayIn(s, p) \/ FloatArrayIn(s, p)
  <2>1. /\ WordReadIn(s, p) /\ AtElemIn(t, q) = AtElemIn(s, p) + k /\ WordIn(t, q) = WordIn(s, p)
    BY <1>1, <1>8, <1>15 DEF IntArrayIn, FloatArrayIn
  <2>2. (IntArrayIn(s, p) => IntArrayIn(t, q)) /\ (FloatArrayIn(s, p) => FloatArrayIn(t, q))
    BY <1>1, <1>2, <1>4, <1>5, <1>6, <2>1 DEF IntArrayIn, FloatArrayIn
  <2>3. /\ IntsOf(t, q) = IntsOf(s, p) /\ IntKindIn(t, q) = IntKindIn(s, p)
        /\ FloatArrayIn(s, p) =>
             /\ FloatsOf(t, q) = FloatsOf(s, p) /\ FloatKindIn(t, q) = FloatKindIn(s, p)
             /\ ElemIn(t, q) = ElemIn(s, p)
    BY <1>1, <1>2, <1>6, <2>1 DEF IntsOf, FloatsOf, IntKindIn, FloatKindIn, FloatArrayIn
  <2> DEFINE told(u, r, kind) == Append(events, ArrayOf(u, r, kind))
  <2>4. ASSUME IntArrayIn(s, p), IntArrayIn(t, q)
        PROVE  /\ f = Going(AtElemIn(s, p), depth, IntsOf(s, p), told(s, p, IntKindIn(s, p)))
               /\ g = Going(AtElemIn(t, q), depth, IntsOf(t, q), told(t, q, IntKindIn(t, q)))
    BY <1>16, <1>17, <2>4 DEF FieldAnswers
  <2>5. ASSUME FloatArrayIn(s, p), FloatArrayIn(t, q)
        PROVE  /\ f = Going(AtElemIn(s, p) + ElemIn(s, p).len, depth, FloatsOf(s, p), told(s, p, FloatKindIn(s, p)))
               /\ g = Going(AtElemIn(t, q) + ElemIn(t, q).len, depth, FloatsOf(t, q), told(t, q, FloatKindIn(t, q)))
    BY <1>16, <1>17, <2>5 DEF FieldAnswers
  <2>6. \A kind : told(t, q, kind) = told(s, p, kind)
    BY <1>2, <2>1 DEF ArrayOf
  <2> HIDE DEF told
  <2>7. FloatArrayIn(s, p) => AtElemIn(t, q) + ElemIn(t, q).len = (AtElemIn(s, p) + ElemIn(s, p).len) + k
    <3> DEFINE n == ElemIn(s, p).len
               at == AtElemIn(s, p)
    <3>1. n \in Nat /\ at \in Nat /\ k \in Int
      BY <1>9
    <3> HIDE DEF n, at, k
    <3>2. (at + k) + n = (at + n) + k
      BY <3>1
    <3> QED  BY <2>1, <2>3, <3>2 DEF n, at
  <2>8. CASE IntArrayIn(s, p)
    BY <2>1, <2>2, <2>3, <2>4, <2>6, <2>8, MovedIs
  <2>9. CASE FloatArrayIn(s, p)
    BY <2>2, <2>3, <2>5, <2>6, <2>7, <2>9, MovedIs
  <2> QED  BY <1>15, <2>8, <2>9
<1> QED  BY <1>10, <1>11, <1>12, <1>13, <1>14, <1>15, FieldCases DEF FieldGoesIn

\* An item that comes next, none of it read.
Fresh(it) ==
  /\ it \in Items
  /\ it.kind = "none" => it = NoResume
  /\ it.kind = "payload" => it.remaining = it.total

\* The decoder goes on, behind bytes that are there.
GoesOn(s, c) ==
  /\ c = Going(c.at, c.depth, c.item, c.events)
  /\ c.at \in 0..Len(s) /\ c.depth \in Nat /\ Fresh(c.item)

LEMMA GoingFields ==
  ASSUME NEW at, NEW depth, NEW item, NEW events
  PROVE  LET c == Going(at, depth, item, events)
         IN  /\ c.at = at /\ c.depth = depth /\ c.item = item /\ c.events = events
             /\ c.verdict = "none"
BY DEF Going

LEMMA NoneFresh == Fresh(NoResume) /\ NoResume.kind = "none"
BY FormatAssumption DEF Fresh, NoResume, Resume, Items

\* What a field announces is well formed.
LEMMA AnnouncedFresh ==
  ASSUME NEW s \in Seq(Byte), NEW p \in 0..Len(s)
  PROVE  /\ PayloadIn(s, p) => Fresh(PayloadOf(s, p)) /\ PayloadOf(s, p).kind = "payload"
         /\ FloatIn(s, p) => Fresh(FloatOf(s, p)) /\ FloatOf(s, p).kind = "fix"
         /\ IntArrayIn(s, p) => Fresh(IntsOf(s, p)) /\ IntsOf(s, p).kind = "int"
         /\ FloatArrayIn(s, p) => Fresh(FloatsOf(s, p)) /\ FloatsOf(s, p).kind = "fix"
<1> USE DEF Fresh, Resume, Items, Floats, Fp32, Fp64, Str, Blob
<1>1. /\ HeadIn(s, p).value \in Nat /\ WordIn(s, p).value \in Nat
      /\ IdMax \in Nat /\ FixlenMax \in Nat
  BY HeadInFacts, FormatAssumption
<1>2. IdIn(s, p) \in Nat /\ LengthIn(s, p) \in Nat
  <2>1. ASSUME NEW v \in Nat PROVE v \div 8 \in Nat
    OBVIOUS
  <2> QED  BY <1>1, <2>1 DEF IdIn, LengthIn
<1>3. WordReadIn(s, p) \/ CountReadIn(s, p) => IdIn(s, p) \in 0..IdMax
  BY <1>1, <1>2 DEF WordReadIn, CountReadIn, HeadReadIn, IdIn
<1>4. ASSUME PayloadIn(s, p) PROVE Fresh(PayloadOf(s, p)) /\ PayloadOf(s, p).kind = "payload"
  <2>1. LengthIn(s, p) \in 0..FixlenMax
    BY <1>1, <1>2, <1>4 DEF PayloadIn, BadFixlenIn
  <2> QED  BY <1>2, <1>3, <1>4, <2>1 DEF PayloadIn, PayloadOf
<1>5. ASSUME FloatIn(s, p) PROVE Fresh(FloatOf(s, p)) /\ FloatOf(s, p).kind = "fix"
  BY <1>1, <1>3, <1>5 DEF FloatIn, FloatOf
<1>6. ASSUME IntArrayIn(s, p) PROVE Fresh(IntsOf(s, p)) /\ IntsOf(s, p).kind = "int"
  BY <1>1, <1>3, <1>6 DEF IntArrayIn, IntsOf, IntKindIn, KindSigned, KindUnsigned
<1>7. ASSUME FloatArrayIn(s, p) PROVE Fresh(FloatsOf(s, p)) /\ FloatsOf(s, p).kind = "fix"
  BY <1>1, <1>3, <1>7 DEF FloatArrayIn, FloatsOf, BadElemIn
<1> QED  BY <1>4, <1>5, <1>6, <1>7

\* A field that goes on has a byte at least, all of them there.
LEMMA FieldGoes ==
  ASSUME NEW s \in Seq(Byte), NEW p \in 0..Len(s), NEW depth \in Nat, NEW events,
         FieldGoesIn(s, p, depth)
  PROVE  LET f == Field(s, p, depth, events) IN GoesOn(s, f) /\ f.at > p
<1> DEFINE f == Field(s, p, depth, events)
<1>1. /\ Len(s) \in Nat /\ MaxDepth \in Nat
      /\ AtWordIn(s, p) \in p..Len(s) /\ AtElemIn(s, p) \in AtWordIn(s, p)..Len(s)
      /\ HeadIn(s, p).status = "ok" => AtWordIn(s, p) > p
      /\ WordIn(s, p).status = "ok" => AtElemIn(s, p) > AtWordIn(s, p)
      /\ ElemIn(s, p).status = "ok" => AtElemIn(s, p) + ElemIn(s, p).len \in (AtElemIn(s, p) + 1)..Len(s)
  BY HeadInFacts, FormatAssumption
<1>2. FieldAnswers(s, p, depth, events)
  BY HeadInFacts, FieldIs
<1>3. ASSUME NEW at, NEW d, NEW item, NEW told,
             f = Going(at, d, item, told), at \in (p + 1)..Len(s), d \in Nat, Fresh(item)
      PROVE  GoesOn(s, f) /\ f.at > p
  <2> HIDE DEF f
  <2>1. f.at = at /\ f.depth = d /\ f.item = item /\ f.events = told
    BY <1>3, GoingFields
  <2>2. at \in 0..Len(s) /\ at > p
    BY <1>1, <1>3
  <2> QED  BY <1>3, <2>1, <2>2 DEF GoesOn
<1> HIDE DEF f
<1>4. WordReadIn(s, p) => AtElemIn(s, p) \in (p + 1)..Len(s)
  BY <1>1 DEF WordReadIn, HeadReadIn
<1>5. CASE BeginsIn(s, p, depth)
  <2>1. f = Going(AtWordIn(s, p), depth + 1, NoResume, Append(events, OnSequenceBegin(IdIn(s, p))))
    BY <1>2, <1>5 DEF FieldAnswers, f
  <2>2. AtWordIn(s, p) \in (p + 1)..Len(s) /\ depth + 1 \in Nat
    BY <1>1, <1>5 DEF BeginsIn
  <2> QED  BY <1>3, <2>1, <2>2, NoneFresh DEF f
<1>6. CASE EndsIn(s, p, depth)
  <2>1. f = Going(AtWordIn(s, p), depth - 1, NoResume, Append(events, OnSequenceEnd))
    BY <1>2, <1>6 DEF FieldAnswers, f
  <2>2. AtWordIn(s, p) \in (p + 1)..Len(s) /\ depth - 1 \in Nat
    BY <1>1, <1>6 DEF EndsIn
  <2> QED  BY <1>3, <2>1, <2>2, NoneFresh DEF f
<1>7. CASE UnsignedIn(s, p) \/ SignedIn(s, p)
  <2>1. \/ f = Going(AtElemIn(s, p), depth, NoResume, Append(events, UnsignedOf(s, p)))
        \/ f = Going(AtElemIn(s, p), depth, NoResume, Append(events, SignedOf(s, p)))
    BY <1>2, <1>7 DEF FieldAnswers, f
  <2>2. WordReadIn(s, p)
    BY <1>7 DEF UnsignedIn, SignedIn
  <2> QED  BY <1>3, <1>4, <2>1, <2>2, NoneFresh DEF f
<1>8. CASE PayloadIn(s, p)
  <2>1. f = Going(AtElemIn(s, p), depth, PayloadOf(s, p), Append(events, FixlenOf(s, p)))
    BY <1>2, <1>8 DEF FieldAnswers, f
  <2>2. WordReadIn(s, p)
    BY <1>8 DEF PayloadIn
  <2> QED  BY <1>3, <1>4, <1>8, <2>1, <2>2, AnnouncedFresh DEF f
<1>9. CASE FloatIn(s, p)
  <2>1. f = Going(AtElemIn(s, p), depth, FloatOf(s, p), Append(events, FixlenOf(s, p)))
    BY <1>2, <1>9 DEF FieldAnswers, f
  <2>2. WordReadIn(s, p)
    BY <1>9 DEF FloatIn
  <2> QED  BY <1>3, <1>4, <1>9, <2>1, <2>2, AnnouncedFresh DEF f
<1>10. CASE IntArrayIn(s, p)
  <2>1. f = Going(AtElemIn(s, p), depth, IntsOf(s, p), Append(events, ArrayOf(s, p, IntKindIn(s, p))))
    BY <1>2, <1>10 DEF FieldAnswers, f
  <2>2. WordReadIn(s, p)
    BY <1>10 DEF IntArrayIn
  <2> QED  BY <1>3, <1>4, <1>10, <2>1, <2>2, AnnouncedFresh DEF f
<1>11. CASE FloatArrayIn(s, p)
  <2>1. f = Going(AtElemIn(s, p) + ElemIn(s, p).len, depth, FloatsOf(s, p),
                  Append(events, ArrayOf(s, p, FloatKindIn(s, p))))
    BY <1>2, <1>11 DEF FieldAnswers, f
  <2>2. WordReadIn(s, p) /\ ElemIn(s, p).status = "ok"
    BY <1>11 DEF FloatArrayIn, CountReadIn, WordReadIn
  <2>3. AtElemIn(s, p) + ElemIn(s, p).len \in (p + 1)..Len(s)
    <3> DEFINE end == AtElemIn(s, p) + ElemIn(s, p).len
    <3>1. end \in (AtElemIn(s, p) + 1)..Len(s) /\ AtElemIn(s, p) \in (p + 1)..Len(s)
      BY <1>1, <1>4, <2>2
    <3> HIDE DEF end
    <3>2. end \in (p + 1)..Len(s)
      BY <3>1
    <3> QED  BY <3>2 DEF end
  <2> QED  BY <1>3, <1>11, <2>1, <2>3, AnnouncedFresh DEF f
<1> QED  BY <1>5, <1>6, <1>7, <1>8, <1>9, <1>10, <1>11 DEF FieldGoesIn, f

\* Bytes that agree have equal parts.
LEMMA AgreeSubSeq ==
  ASSUME NEW s \in Seq(Byte), NEW p \in 0..Len(s), NEW t \in Seq(Byte), NEW q \in 0..Len(t),
         Agree(s, p, t, q), NEW n \in 0..(Len(s) - p)
  PROVE  /\ SubSeq(t, q + 1, q + n) = SubSeq(s, p + 1, p + n)
         /\ SubSeq(s, p + 1, p + n) \in Seq(Byte) /\ Len(SubSeq(s, p + 1, p + n)) = n
<1> DEFINE a == SubSeq(s, p + 1, p + n)
           b == SubSeq(t, q + 1, q + n)
<1>1. Len(s) \in Nat /\ Len(t) \in Nat /\ Len(s) - p <= Len(t) - q
  BY DEF Agree
<1>2. /\ p + 1 \in 1..(Len(s) + 1) /\ p + n \in (p + 1 - 1)..Len(s)
      /\ q + 1 \in 1..(Len(t) + 1) /\ q + n \in (q + 1 - 1)..Len(t)
  BY <1>1
<1>3. /\ a \in Seq(Byte) /\ Len(a) = p + n - (p + 1) + 1
      /\ \A i \in 1..(p + n - (p + 1) + 1) : a[i] = s[(p + 1) + i - 1]
  BY <1>2, SubSeqProperties
<1>4. /\ b \in Seq(Byte) /\ Len(b) = q + n - (q + 1) + 1
      /\ \A i \in 1..(q + n - (q + 1) + 1) : b[i] = t[(q + 1) + i - 1]
  BY <1>2, SubSeqProperties
<1>5. p + n - (p + 1) + 1 = n /\ q + n - (q + 1) + 1 = n
  BY <1>1
<1> HIDE DEF a, b
<1>6. ASSUME NEW i \in 1..n PROVE a[i] = b[i]
  <2>1. (p + 1) + i - 1 = p + i /\ (q + 1) + i - 1 = q + i /\ i \in 1..(Len(s) - p)
    BY <1>1
  <2>2. s[p + i] = t[q + i]
    BY <2>1 DEF Agree
  <2>3. a[i] = s[p + i] /\ b[i] = t[q + i]
    BY <1>3, <1>4, <1>5, <2>1
  <2> QED  BY <2>2, <2>3
<1>7. a = b
  BY <1>3, <1>4, <1>5, <1>6, SeqEqual
<1> QED  BY <1>3, <1>5, <1>7 DEF a, b

\* An element behind p, and its callback.
ElementIn(it, s, p) ==
  IF it.kind = "int" THEN ReadVarint(s, p + 1)
  ELSE IF Len(s) - p < FloatLen(it.type) THEN ReadMore
  ELSE ReadOk(0, FloatLen(it.type))
ElementOf(it, s, p) ==
  IF it.kind = "fix"
    THEN OnFloat(it.id, it.type, SubSeq(s, p + 1, p + ElementIn(it, s, p).len))
  ELSE IF it.type = KindSigned
    THEN OnSigned(it.id, ZigZagDecode(ElementIn(it, s, p).value))
  ELSE OnUnsigned(it.id, ElementIn(it, s, p).value)

\* What Element answers.
LEMMA ElementIs ==
  ASSUME NEW s, NEW p, NEW depth, NEW it, NEW events
  PROVE  LET e == Element(s, p, depth, it, events)
             r == ElementIn(it, s, p)
         IN  /\ it.remaining = 0 => e = Going(p, depth, NoResume, events)
             /\ it.remaining # 0 /\ r.status = "more" => e = RanOut(s, p, depth, it, events)
             /\ it.remaining # 0 /\ r.status = "invalid" => e = Malformed(p, depth, it, events)
             /\ it.remaining # 0 /\ r.status = "ok" =>
                  e = Going(p + r.len, depth, [it EXCEPT !.remaining = @ - 1],
                            Append(events, ElementOf(it, s, p)))
<1> DEFINE e == Element(s, p, depth, it, events)
           r == ElementIn(it, s, p)
<1>1. e = IF it.remaining = 0 THEN Going(p, depth, NoResume, events)
          ELSE IF r.status = "more" THEN RanOut(s, p, depth, it, events)
          ELSE IF r.status = "invalid" THEN Malformed(p, depth, it, events)
          ELSE Going(p + r.len, depth, [it EXCEPT !.remaining = @ - 1],
                     Append(events, ElementOf(it, s, p)))
  BY Zenon DEF Element, ElementIn, ElementOf
<1> HIDE DEF e, r
<1>2. /\ it.remaining = 0 => e = Going(p, depth, NoResume, events)
      /\ it.remaining # 0 /\ r.status = "more" => e = RanOut(s, p, depth, it, events)
      /\ it.remaining # 0 /\ r.status = "invalid" => e = Malformed(p, depth, it, events)
      /\ it.remaining # 0 /\ r.status = "ok" =>
           e = Going(p + r.len, depth, [it EXCEPT !.remaining = @ - 1],
                     Append(events, ElementOf(it, s, p)))
  BY <1>1
<1> QED  BY <1>2 DEF e, r

\* An element that is there is a byte at least, and the same wherever it is.
LEMMA ElementInFacts ==
  ASSUME NEW s \in Seq(Byte), NEW p \in 0..Len(s), NEW it
  PROVE  LET r == ElementIn(it, s, p)
         IN  /\ r.status \in {"ok", "more", "invalid"} /\ r.value \in Nat /\ r.len \in Nat
             /\ r.status = "ok" => p + r.len \in (p + 1)..Len(s)
<1>1. CASE it.kind = "int"
  <2> DEFINE r == ReadVarint(s, p + 1)
             from == p + 1
  <2>1. ElementIn(it, s, p) = r
    BY <1>1 DEF ElementIn
  <2>2. HeadIn(s, p) = r /\ AtWordIn(s, p) = p + r.len
    BY DEF HeadIn, AtWordIn
  <2>3. from \in 1..(Len(s) + 1)
    OBVIOUS
  <2> HIDE DEF from
  <2>4. ReadVarint(s, from).len \in 0..MaxVarintLen
    BY <2>3, ReadOutcome
  <2>5. r.len \in Nat
    BY <2>4, MaxVarintLenAssumption DEF from
  <2>6. /\ r.status \in {"ok", "more", "invalid"} /\ r.value \in Nat
        /\ p + r.len \in p..Len(s) /\ (r.status = "ok" => p + r.len > p)
    BY <2>2, HeadInFacts
  <2> HIDE DEF r
  <2>7. r.status = "ok" => p + r.len \in (p + 1)..Len(s)
    BY <2>5, <2>6
  <2> QED  BY <2>1, <2>5, <2>6, <2>7
<1>2. CASE it.kind # "int"
  <2> DEFINE n == FloatLen(it.type)
  <2>1. n \in Nat \ {0}
    BY FormatAssumption DEF FloatLen
  <2>2. ElementIn(it, s, p) = IF Len(s) - p < n THEN ReadMore ELSE ReadOk(0, n)
    BY <1>2 DEF ElementIn
  <2> HIDE DEF n
  <2>3. CASE Len(s) - p < n
    BY <2>2, <2>3 DEF ReadMore
  <2>4. CASE ~(Len(s) - p < n)
    <3>1. ElementIn(it, s, p) = [status |-> "ok", value |-> 0, len |-> n]
      BY <2>2, <2>4 DEF ReadOk
    <3>2. p + n \in (p + 1)..Len(s)
      BY <2>1, <2>4
    <3> QED  BY <2>1, <3>1, <3>2
  <2> QED  BY <2>3, <2>4
<1> QED  BY <1>1, <1>2

LEMMA ElementAgrees ==
  ASSUME NEW s \in Seq(Byte), NEW p \in 0..Len(s), NEW t \in Seq(Byte), NEW q \in 0..Len(t),
         Agree(s, p, t, q), NEW it, ElementIn(it, s, p).status # "more"
  PROVE  /\ ElementIn(it, t, q) = ElementIn(it, s, p)
         /\ ElementIn(it, s, p).status = "ok" => ElementOf(it, t, q) = ElementOf(it, s, p)
<1>1. ElementIn(it, t, q) = ElementIn(it, s, p)
  <2>1. CASE it.kind = "int"
    BY <2>1, AgreeReads DEF ElementIn
  <2>2. CASE it.kind # "int"
    <3> DEFINE n == FloatLen(it.type)
    <3>1. n \in Nat \ {0}
      BY FormatAssumption DEF FloatLen
    <3>2. /\ ElementIn(it, s, p) = IF Len(s) - p < n THEN ReadMore ELSE ReadOk(0, n)
          /\ ElementIn(it, t, q) = IF Len(t) - q < n THEN ReadMore ELSE ReadOk(0, n)
      BY <2>2 DEF ElementIn
    <3> HIDE DEF n
    <3>3. ~(Len(s) - p < n)
      BY <3>2 DEF ReadMore
    <3>4. ~(Len(t) - q < n)
      BY <3>1, <3>3 DEF Agree
    <3> QED  BY <3>2, <3>3, <3>4
  <2> QED  BY <2>1, <2>2
<1>2. ASSUME ElementIn(it, s, p).status = "ok"
      PROVE  ElementOf(it, t, q) = ElementOf(it, s, p)
  <2> DEFINE n == ElementIn(it, s, p).len
  <2>1. n \in Nat /\ p + n \in (p + 1)..Len(s)
    BY <1>2, ElementInFacts
  <2> HIDE DEF n
  <2>2. n \in 0..(Len(s) - p)
    BY <2>1
  <2>3. SubSeq(t, q + 1, q + n) = SubSeq(s, p + 1, p + n)
    BY <2>2, AgreeSubSeq
  <2> QED  BY <1>1, <2>3 DEF ElementOf, n
<1> QED  BY <1>1, <1>2

\* The payload behind p, as far as the bytes go.
PayloadHas(it, s, p) == IF it.total <= Len(s) - p THEN it.total ELSE Len(s) - p
ChunkOf(it, s, p, n) == OnChunk(it.id, it.type, it.total, 0, SubSeq(s, p + 1, p + n))

\* What Payload answers.
LEMMA PayloadIs ==
  ASSUME NEW s \in Seq(Byte), NEW p \in 0..Len(s), NEW depth, NEW it, it.total \in Nat, NEW events
  PROVE  /\ it.total <= Len(s) - p =>
              Payload(s, p, depth, it, events) =
                Going(p + it.total, depth, NoResume,
                      Append(events, ChunkOf(it, s, p, it.total)))
         /\ ~(it.total <= Len(s) - p) =>
              Payload(s, p, depth, it, events) =
                RanOut(s, Len(s), depth, [it EXCEPT !.remaining = it.total - (Len(s) - p)],
                       IF Len(s) - p = 0 THEN events
                       ELSE Append(events, ChunkOf(it, s, p, Len(s) - p)))
<1> DEFINE n == PayloadHas(it, s, p)
           told == IF n = 0 /\ it.total > 0 THEN events ELSE Append(events, ChunkOf(it, s, p, n))
<1>1. Payload(s, p, depth, it, events) =
        IF n = it.total THEN Going(p + n, depth, NoResume, told)
        ELSE RanOut(s, p + n, depth, [it EXCEPT !.remaining = it.total - n], told)
  BY Zenon DEF Payload, PayloadHas, ChunkOf
<1>2. Len(s) \in Nat
  OBVIOUS
<1>3. CASE it.total <= Len(s) - p
  <2>1. n = it.total /\ ~(n = 0 /\ it.total > 0)
    BY <1>2, <1>3 DEF PayloadHas
  <2> HIDE DEF n
  <2> QED  BY <1>1, <1>3, <2>1
<1>4. CASE ~(it.total <= Len(s) - p)
  <2>1. n = Len(s) - p /\ n # it.total /\ it.total > 0 /\ p + n = Len(s)
    BY <1>2, <1>4 DEF PayloadHas
  <2> HIDE DEF n
  <2> QED  BY <1>1, <1>4, <2>1
<1> QED  BY <1>3, <1>4

(***************************************************************************)
(* One step of the decoder.                                                *)
(***************************************************************************)
\* A measure of how far it is: it grows with every step and is bounded by the bytes.
Ahead(c) == 2 * c.at - IF c.item.kind = "none" THEN 0 ELSE 1

LEMMA StepIs ==
  ASSUME NEW s, NEW c, c = Going(c.at, c.depth, c.item, c.events)
  PROVE  /\ c.item.kind = "none" => Step(s, c) = Field(s, c.at, c.depth, c.events)
         /\ c.item.kind = "payload" => Step(s, c) = Payload(s, c.at, c.depth, c.item, c.events)
         /\ c.item.kind \in {"int", "fix"} => Step(s, c) = Element(s, c.at, c.depth, c.item, c.events)
<1>1. c.verdict = "none"
  BY GoingFields
<1> QED  BY <1>1 DEF Step

\* What stops has a verdict.
LEMMA Stopped ==
  ASSUME NEW s, NEW at, NEW depth, NEW item, NEW events
  PROVE  /\ Malformed(at, depth, item, events).verdict = "InvalidMsg"
         /\ RanOut(s, at, depth, item, events).verdict \in {"Complete", "Incomplete"}
BY DEF Malformed, RanOut

\* A step that goes on makes progress.
LEMMA StepGoes ==
  ASSUME NEW s \in Seq(Byte), NEW c, GoesOn(s, c), Step(s, c).verdict = "none"
  PROVE  /\ GoesOn(s, Step(s, c)) /\ Ahead(Step(s, c)) > Ahead(c)
         /\ Step(s, c).at >= c.at
<1> DEFINE r == Step(s, c)
           p == c.at
           it == c.item
<1>1. /\ p \in 0..Len(s) /\ c.depth \in Nat /\ Fresh(it) /\ Len(s) \in Nat
      /\ c = Going(p, c.depth, it, c.events)
      /\ it.kind \in {"none", "payload", "int", "fix"} /\ it.total \in Nat /\ it.remaining \in Nat
  BY FormatAssumption DEF GoesOn, Fresh, Items
<1>2. CASE it.kind = "none"
  <2>1. r = Field(s, p, c.depth, c.events)
    BY <1>1, <1>2, StepIs
  <2>2. FieldAnswers(s, p, c.depth, c.events)
    BY <1>1, HeadInFacts, FieldIs
  <2>3. FieldGoesIn(s, p, c.depth)
    <3>1. r.verdict = "none"
      OBVIOUS
    <3> HIDE DEF r, p, it
    <3>2. ~HeadShortIn(s, p)
      BY <2>1, <2>2, <3>1, Stopped DEF FieldAnswers
    <3>3. ~HeadBadIn(s, p, c.depth)
      BY <2>1, <2>2, <3>1, Stopped DEF FieldAnswers
    <3> QED  BY <1>1, <3>2, <3>3, FieldCases
  <2>4. GoesOn(s, r) /\ r.at > p
    BY <1>1, <2>1, <2>3, FieldGoes
  <2> HIDE DEF r
  <2>5. r.at \in Nat /\ r.at > p /\ p \in Nat
    BY <1>1, <2>4 DEF GoesOn
  <2> HIDE DEF p
  <2>7. ASSUME NEW a \in Nat, NEW b \in Nat, a > b
        PROVE  2 * a - 1 > 2 * b - 0 /\ 2 * a - 0 > 2 * b - 0 /\ a >= b
    BY <2>7
  <2>6. 2 * r.at - 1 > 2 * p - 0 /\ 2 * r.at - 0 > 2 * p - 0 /\ r.at >= p
    BY <2>5, <2>7
  <2> QED  BY <1>2, <2>4, <2>6 DEF Ahead, r, p
<1>3. CASE it.kind = "payload"
  <2>1. r = Payload(s, p, c.depth, it, c.events)
    BY <1>1, <1>3, StepIs
  <2>2. it.total <= Len(s) - p /\ r = Going(p + it.total, c.depth, NoResume,
                      Append(c.events, ChunkOf(it, s, p, it.total)))
    <3>1. r.verdict = "none"
      OBVIOUS
    <3> HIDE DEF r, p, it
    <3> DEFINE half == [it EXCEPT !.remaining = it.total - (Len(s) - p)]
               told == IF Len(s) - p = 0 THEN c.events
                       ELSE Append(c.events, ChunkOf(it, s, p, Len(s) - p))
    <3>2. ~(it.total <= Len(s) - p) => r = RanOut(s, Len(s), c.depth, half, told)
      BY <1>1, <2>1, PayloadIs
    <3>3. it.total <= Len(s) - p => r = Going(p + it.total, c.depth, NoResume,
                      Append(c.events, ChunkOf(it, s, p, it.total)))
      BY <1>1, <2>1, PayloadIs
    <3> HIDE DEF half, told
    <3> QED  BY <3>1, <3>2, <3>3, Stopped
  <2> HIDE DEF r, p, it
  <2>3. /\ r.at = p + it.total /\ r.depth = c.depth /\ r.item = NoResume
        /\ r = Going(r.at, r.depth, r.item, r.events)
    BY <2>2, GoingFields
  <2>4. r.at \in 0..Len(s) /\ r.at >= p /\ 2 * r.at - 0 > 2 * p - 1
    BY <1>1, <2>2, <2>3
  <2>5. GoesOn(s, r)
    BY <1>1, <2>3, <2>4, NoneFresh DEF GoesOn
  <2> QED  BY <1>3, <2>3, <2>4, <2>5, NoneFresh DEF Ahead, r, p, it
<1>4. CASE it.kind \in {"int", "fix"}
  <2> DEFINE e == ElementIn(it, s, p)
             fewer == [it EXCEPT !.remaining = @ - 1]
  <2>1. r = Element(s, p, c.depth, it, c.events)
    BY <1>1, <1>4, StepIs
  <2>2. /\ e.status \in {"ok", "more", "invalid"} /\ e.len \in Nat
        /\ e.status = "ok" => p + e.len \in (p + 1)..Len(s)
    BY <1>1, ElementInFacts
  <2>3. \/ it.remaining = 0 /\ r = Going(p, c.depth, NoResume, c.events)
        \/ /\ it.remaining # 0 /\ e.status = "ok"
           /\ r = Going(p + e.len, c.depth, fewer, Append(c.events, ElementOf(it, s, p)))
    <3>1. r.verdict = "none"
      OBVIOUS
    <3> HIDE DEF r, p, it
    <3>2. /\ it.remaining = 0 => r = Going(p, c.depth, NoResume, c.events)
          /\ it.remaining # 0 /\ e.status = "more" => r = RanOut(s, p, c.depth, it, c.events)
          /\ it.remaining # 0 /\ e.status = "invalid" => r = Malformed(p, c.depth, it, c.events)
          /\ it.remaining # 0 /\ e.status = "ok" =>
               r = Going(p + e.len, c.depth, fewer, Append(c.events, ElementOf(it, s, p)))
      BY <2>1, ElementIs
    <3> HIDE DEF e, fewer
    <3> QED  BY <2>2, <3>1, <3>2, Stopped
  <2> HIDE DEF r, p, it, e
  <2>4. CASE it.remaining = 0
    <3>1. /\ r.at = p /\ r.depth = c.depth /\ r.item = NoResume
          /\ r = Going(r.at, r.depth, r.item, r.events)
      BY <2>3, <2>4, GoingFields
    <3>2. r.at \in 0..Len(s) /\ r.at >= p /\ 2 * r.at - 0 > 2 * p - 1
      BY <1>1, <3>1
    <3>3. GoesOn(s, r)
      BY <1>1, <3>1, <3>2, NoneFresh DEF GoesOn
    <3> QED  BY <1>4, <3>1, <3>2, <3>3, NoneFresh DEF Ahead, r, p, it
  <2>5. CASE it.remaining # 0
    <3>1. /\ r.at = p + e.len /\ r.depth = c.depth /\ r.item = fewer
          /\ r = Going(r.at, r.depth, r.item, r.events)
      BY <2>3, <2>5, GoingFields
    <3>2. r.at \in 0..Len(s) /\ r.at >= p /\ 2 * r.at - 1 > 2 * p - 1
      BY <1>1, <2>2, <2>3, <2>5, <3>1
    <3>3. Fresh(fewer) /\ fewer.kind \in {"int", "fix"}
      <4>1. it \in Items /\ it.remaining - 1 \in Nat
        BY <1>1, <2>5 DEF Fresh
      <4>2. fewer \in Items /\ fewer.kind = it.kind
        BY <4>1 DEF Items
      <4> QED  BY <1>4, <4>2 DEF Fresh
    <3>4. GoesOn(s, r)
      BY <1>1, <3>1, <3>2, <3>3 DEF GoesOn
    <3> QED  BY <1>4, <3>1, <3>2, <3>3, <3>4 DEF Ahead, r, p, it
  <2> QED  BY <2>4, <2>5
<1> QED  BY <1>1, <1>2, <1>3, <1>4

\* A step that finds the bytes malformed says where.
LEMMA StepMalformed ==
  ASSUME NEW s \in Seq(Byte), NEW c, GoesOn(s, c), Step(s, c).verdict = "InvalidMsg"
  PROVE  Step(s, c) = Malformed(c.at, c.depth, c.item, c.events)
<1> DEFINE r == Step(s, c)
           p == c.at
           it == c.item
<1>1. /\ p \in 0..Len(s) /\ c.depth \in Nat /\ Fresh(it) /\ Len(s) \in Nat
      /\ c = Going(p, c.depth, it, c.events)
      /\ it.kind \in {"none", "payload", "int", "fix"} /\ it.total \in Nat
      /\ it.kind = "none" => it = NoResume
  BY FormatAssumption DEF GoesOn, Fresh, Items
<1>2. r.verdict = "InvalidMsg"
  OBVIOUS
<1>3. CASE it.kind = "none"
  <2>1. r = Field(s, p, c.depth, c.events)
    BY <1>1, <1>3, StepIs
  <2>2. FieldAnswers(s, p, c.depth, c.events)
    BY <1>1, HeadInFacts, FieldIs
  <2> HIDE DEF r, p, it
  <2>3. ~HeadShortIn(s, p)
    BY <1>2, <2>1, <2>2, Stopped DEF FieldAnswers
  <2>4. ~FieldGoesIn(s, p, c.depth)
    <3> SUFFICES ASSUME FieldGoesIn(s, p, c.depth) PROVE FALSE
      OBVIOUS
    <3>1. GoesOn(s, r)
      BY <1>1, <2>1, FieldGoes
    <3>2. r.verdict = "none"
      BY <3>1, GoingFields DEF GoesOn
    <3> QED  BY <1>2, <3>2
  <2>5. HeadBadIn(s, p, c.depth)
    BY <1>1, <2>3, <2>4, FieldCases
  <2>6. r = Malformed(p, c.depth, NoResume, c.events)
    BY <2>1, <2>2, <2>5 DEF FieldAnswers
  <2> QED  BY <1>1, <1>3, <2>6 DEF r, p, it
<1>4. CASE it.kind = "payload"
  <2>1. r = Payload(s, p, c.depth, it, c.events)
    BY <1>1, <1>4, StepIs
  <2> HIDE DEF r, p, it
  <2> DEFINE half == [it EXCEPT !.remaining = it.total - (Len(s) - p)]
             told == IF Len(s) - p = 0 THEN c.events
                     ELSE Append(c.events, ChunkOf(it, s, p, Len(s) - p))
  <2>2. ~(it.total <= Len(s) - p) => r = RanOut(s, Len(s), c.depth, half, told)
    BY <1>1, <2>1, PayloadIs
  <2>3. it.total <= Len(s) - p => r = Going(p + it.total, c.depth, NoResume,
                    Append(c.events, ChunkOf(it, s, p, it.total)))
    BY <1>1, <2>1, PayloadIs
  <2>4. it.total <= Len(s) - p
    <3> HIDE DEF half, told
    <3> QED  BY <1>2, <2>2, Stopped
  <2> QED  BY <1>2, <2>3, <2>4, GoingFields
<1>5. CASE it.kind \in {"int", "fix"}
  <2> DEFINE e == ElementIn(it, s, p)
             fewer == [it EXCEPT !.remaining = @ - 1]
  <2>1. r = Element(s, p, c.depth, it, c.events)
    BY <1>1, <1>5, StepIs
  <2>2. /\ e.status \in {"ok", "more", "invalid"} /\ e.len \in Nat
    BY <1>1, ElementInFacts
  <2> HIDE DEF r, p, it
  <2>3. /\ it.remaining = 0 => r = Going(p, c.depth, NoResume, c.events)
        /\ it.remaining # 0 /\ e.status = "more" => r = RanOut(s, p, c.depth, it, c.events)
        /\ it.remaining # 0 /\ e.status = "invalid" => r = Malformed(p, c.depth, it, c.events)
        /\ it.remaining # 0 /\ e.status = "ok" =>
             r = Going(p + e.len, c.depth, fewer, Append(c.events, ElementOf(it, s, p)))
    BY <2>1, ElementIs
  <2> HIDE DEF e, fewer
  <2>4. r = Malformed(p, c.depth, it, c.events)
    BY <1>2, <2>2, <2>3, Stopped, GoingFields
  <2> QED  BY <2>4 DEF r, p, it
<1> QED  BY <1>1, <1>3, <1>4, <1>5

\* A step that does not run out of bytes is the same wherever they are, and whatever
\* follows them.
LEMMA StepAgrees ==
  ASSUME NEW s \in Seq(Byte), NEW c, GoesOn(s, c), NEW t \in Seq(Byte), NEW q \in 0..Len(t),
         Agree(s, c.at, t, q), Step(s, c).verdict \in {"none", "InvalidMsg"}
  PROVE  Step(t, Moved(c, q - c.at)) = Moved(Step(s, c), q - c.at)
<1> DEFINE r == Step(s, c)
           p == c.at
           it == c.item
           k == q - p
           d == Moved(c, k)
<1>1. /\ p \in 0..Len(s) /\ c.depth \in Nat /\ Fresh(it) /\ Len(s) \in Nat
      /\ c = Going(p, c.depth, it, c.events)
      /\ it.kind \in {"none", "payload", "int", "fix"} /\ it.total \in Nat
  BY FormatAssumption DEF GoesOn, Fresh, Items
<1>2. d = Going(q, c.depth, it, c.events)
  <2> DEFINE g == Going(p, c.depth, it, c.events)
  <2>1. Moved(g, k) = Going(p + k, c.depth, it, c.events) /\ c = g /\ p + k = q
    BY <1>1, MovedIs
  <2> HIDE DEF g
  <2> QED  BY <2>1
<1>3. /\ d.at = q /\ d.depth = c.depth /\ d.item = it /\ d.events = c.events
      /\ d = Going(d.at, d.depth, d.item, d.events)
  <2> HIDE DEF d
  <2> QED  BY <1>2, GoingFields
<1>4. r.verdict \in {"none", "InvalidMsg"} /\ Agree(s, p, t, q)
  OBVIOUS
<1> SUFFICES Step(t, d) = Moved(r, k)
  OBVIOUS
<1>5. CASE it.kind = "none"
  <2>1. r = Field(s, p, c.depth, c.events)
    BY <1>1, <1>5, StepIs
  <2>2. Step(t, d) = Field(t, q, c.depth, c.events)
    <3> HIDE DEF d
    <3> QED  BY <1>3, <1>5, StepIs
  <2>3. FieldAnswers(s, p, c.depth, c.events)
    BY <1>1, HeadInFacts, FieldIs
  <2> HIDE DEF r, d, it
  <2>4. ~HeadShortIn(s, p)
    BY <1>4, <2>1, <2>3, Stopped DEF FieldAnswers
  <2> HIDE DEF p
  <2> QED  BY <1>1, <1>4, <2>1, <2>2, <2>4, FieldAgrees
<1>6. CASE it.kind = "payload"
  <2>1. r = Payload(s, p, c.depth, it, c.events)
    BY <1>1, <1>6, StepIs
  <2>2. Step(t, d) = Payload(t, q, c.depth, it, c.events)
    <3> HIDE DEF d
    <3> QED  BY <1>3, <1>6, StepIs
  <2> HIDE DEF r, p, it, d
  <2> DEFINE half == [it EXCEPT !.remaining = it.total - (Len(s) - p)]
             told == IF Len(s) - p = 0 THEN c.events
                     ELSE Append(c.events, ChunkOf(it, s, p, Len(s) - p))
  <2>3. ~(it.total <= Len(s) - p) => r = RanOut(s, Len(s), c.depth, half, told)
    BY <1>1, <2>1, PayloadIs
  <2>4. it.total <= Len(s) - p => r = Going(p + it.total, c.depth, NoResume,
                    Append(c.events, ChunkOf(it, s, p, it.total)))
    BY <1>1, <2>1, PayloadIs
  <2>5. it.total <= Len(s) - p
    <3> HIDE DEF half, told
    <3> QED  BY <1>4, <2>3, Stopped
  <2>6. it.total <= Len(t) - q
    BY <1>1, <1>4, <2>5 DEF Agree
  <2>7. Step(t, d) = Going(q + it.total, c.depth, NoResume,
                    Append(c.events, ChunkOf(it, t, q, it.total)))
    BY <1>1, <2>2, <2>6, PayloadIs
  <2>8. ChunkOf(it, t, q, it.total) = ChunkOf(it, s, p, it.total)
    <3> DEFINE n == it.total
    <3>1. n \in 0..(Len(s) - p)
      BY <1>1, <2>5
    <3> HIDE DEF n
    <3>2. SubSeq(t, q + 1, q + n) = SubSeq(s, p + 1, p + n)
      BY <1>1, <1>4, <3>1, AgreeSubSeq
    <3> QED  BY <3>2 DEF ChunkOf, n
  <2>9. q + it.total = (p + it.total) + k
    BY <1>1
  <2> QED  BY <2>4, <2>5, <2>7, <2>8, <2>9, MovedIs
<1>7. CASE it.kind \in {"int", "fix"}
  <2> DEFINE e == ElementIn(it, s, p)
             fewer == [it EXCEPT !.remaining = @ - 1]
  <2>1. r = Element(s, p, c.depth, it, c.events)
    BY <1>1, <1>7, StepIs
  <2>2. Step(t, d) = Element(t, q, c.depth, it, c.events)
    <3> HIDE DEF d
    <3> QED  BY <1>3, <1>7, StepIs
  <2>3. /\ e.status \in {"ok", "more", "invalid"} /\ e.len \in Nat
    BY <1>1, ElementInFacts
  <2> HIDE DEF r, p, it, d
  <2>4. /\ it.remaining = 0 => r = Going(p, c.depth, NoResume, c.events)
        /\ it.remaining # 0 /\ e.status = "more" => r = RanOut(s, p, c.depth, it, c.events)
        /\ it.remaining # 0 /\ e.status = "invalid" => r = Malformed(p, c.depth, it, c.events)
        /\ it.remaining # 0 /\ e.status = "ok" =>
             r = Going(p + e.len, c.depth, fewer, Append(c.events, ElementOf(it, s, p)))
    BY <2>1, ElementIs
  <2>5. it.remaining = 0 \/ e.status # "more"
    <3> HIDE DEF e, fewer
    <3> QED  BY <1>4, <2>4, Stopped
  <2>6. e.status # "more" =>
          ElementIn(it, t, q) = e /\ (e.status = "ok" => ElementOf(it, t, q) = ElementOf(it, s, p))
    BY <1>1, <1>4, ElementAgrees
  <2> DEFINE e2 == ElementIn(it, t, q)
  <2>7. /\ it.remaining = 0 => Step(t, d) = Going(q, c.depth, NoResume, c.events)
        /\ it.remaining # 0 /\ e2.status = "invalid" => Step(t, d) = Malformed(q, c.depth, it, c.events)
        /\ it.remaining # 0 /\ e2.status = "ok" =>
             Step(t, d) = Going(q + e2.len, c.depth, fewer, Append(c.events, ElementOf(it, t, q)))
    BY <2>2, ElementIs
  <2>8. q = p + k /\ q + e.len = (p + e.len) + k
    <3> DEFINE n == e.len
    <3>1. n \in Nat
      BY <2>3
    <3> HIDE DEF n, e
    <3>2. q = p + k /\ q + n = (p + n) + k
      BY <1>1, <3>1
    <3> QED  BY <3>2 DEF n, e
  <2> HIDE DEF e, e2, fewer
  <2>9. CASE it.remaining = 0
    BY <2>4, <2>7, <2>8, <2>9, MovedIs
  <2>10. CASE it.remaining # 0 /\ e.status = "invalid"
    BY <2>4, <2>6, <2>7, <2>8, <2>10, MovedIs DEF e2
  <2>11. CASE it.remaining # 0 /\ e.status = "ok"
    BY <2>4, <2>6, <2>7, <2>8, <2>11, MovedIs DEF e2
  <2> QED  BY <2>3, <2>5, <2>9, <2>10, <2>11
<1> QED  BY <1>1, <1>5, <1>6, <1>7

(***************************************************************************)
(* The run of the decoder.                                                 *)
(***************************************************************************)
AtStart == Going(0, 0, NoResume, <<>>)
RunsTo(f, s, n) ==
  f = [k \in 0..n |-> IF k = 0 THEN AtStart ELSE Step(s, f[k - 1])]

LEMMA RunPrefix ==
  ASSUME NEW s, NEW n \in Nat
  PROVE  \E f : RunsTo(f, s, n)
<1> DEFINE S == {m \in Nat : \E f : RunsTo(f, s, m)}
<1>1. 0 \in S
  <2> DEFINE f == [k \in 0..0 |-> AtStart]
  <2>1. RunsTo(f, s, 0)
    BY DEF RunsTo
  <2> QED  BY <2>1
<1>2. ASSUME NEW m \in S PROVE m + 1 \in S
  <2>1. PICK f : RunsTo(f, s, m)
    BY <1>2
  <2> DEFINE g == [k \in 0..(m + 1) |-> IF k = m + 1 THEN Step(s, f[m]) ELSE f[k]]
  <2>2. m \in Nat
    OBVIOUS
  <2>3. f[0] = AtStart /\ \A k \in 1..m : f[k] = Step(s, f[k - 1])
    BY <2>1, <2>2 DEF RunsTo
  <2>4. \A k \in 0..(m + 1) : g[k] = IF k = 0 THEN AtStart ELSE Step(s, g[k - 1])
    <3> TAKE k \in 0..(m + 1)
    <3>1. CASE k = 0
      BY <2>2, <2>3, <3>1
    <3>2. CASE k \in 1..m
      BY <2>2, <2>3, <3>2
    <3>3. CASE k = m + 1
      BY <2>2, <3>3
    <3> QED  BY <2>2, <3>1, <3>2, <3>3
  <2>5. g = [k \in 0..(m + 1) |-> g[k]]
    OBVIOUS
  <2>6. RunsTo(g, s, m + 1)
    <3> HIDE DEF g
    <3> QED  BY <2>4, <2>5 DEF RunsTo
  <2> QED  BY <2>2, <2>6
<1> HIDE DEF S
<1>3. S = Nat
  BY <1>1, <1>2, Induction DEF S
<1> QED  BY <1>3 DEF S

LEMMA RunPrefixUnique ==
  ASSUME NEW s, NEW m \in Nat, NEW n \in Nat, m <= n, NEW f, NEW g,
         RunsTo(f, s, m), RunsTo(g, s, n)
  PROVE  \A k \in 0..m : f[k] = g[k]
<1> DEFINE S == {k \in Nat : k <= m => f[k] = g[k]}
<1>1. 0 \in S
  BY DEF RunsTo
<1>2. ASSUME NEW k \in S PROVE k + 1 \in S
  BY <1>2 DEF RunsTo
<1> HIDE DEF S
<1>3. S = Nat
  BY <1>1, <1>2, Induction DEF S
<1> QED  BY <1>3 DEF S

\* The recursion of Run is well founded.
LEMMA RunIs ==
  ASSUME NEW s
  PROVE  /\ Run(s)[0] = AtStart
         /\ \A n \in Nat : Run(s)[n + 1] = Step(s, Run(s)[n])
<1> DEFINE f == CHOOSE f : f = [n \in Nat |-> IF n = 0 THEN AtStart ELSE Step(s, f[n - 1])]
           g(n) == CHOOSE h : RunsTo(h, s, n)
           h0 == [n \in Nat |-> g(n)[n]]
<1>1. \A n \in Nat : RunsTo(g(n), s, n)
  BY RunPrefix
<1> HIDE DEF g
<1>2. h0[0] = AtStart
  BY <1>1 DEF RunsTo
<1>3. ASSUME NEW n \in Nat, n # 0
      PROVE  h0[n] = Step(s, h0[n - 1])
  <2>1. n - 1 \in Nat /\ n \in 0..n /\ n - 1 <= n /\ n - 1 \in 0..(n - 1)
    BY <1>3
  <2>2. RunsTo(g(n), s, n) /\ RunsTo(g(n - 1), s, n - 1)
    BY <1>1, <2>1
  <2>3. g(n - 1)[n - 1] = g(n)[n - 1]
    BY <2>1, <2>2, RunPrefixUnique
  <2>4. g(n)[n] = Step(s, g(n)[n - 1])
    BY <1>3, <2>1, <2>2 DEF RunsTo
  <2> QED  BY <2>1, <2>3, <2>4
<1>4. h0 = [n \in Nat |-> IF n = 0 THEN AtStart ELSE Step(s, h0[n - 1])]
  <2>1. h0 = [n \in Nat |-> h0[n]]
    OBVIOUS
  <2> HIDE DEF h0
  <2> QED  BY <1>2, <1>3, <2>1
<1>5. f = [n \in Nat |-> IF n = 0 THEN AtStart ELSE Step(s, f[n - 1])]
  <2> HIDE DEF h0
  <2> QED  BY <1>4
<1>6. Run(s) = f
  BY DEF Run, AtStart
<1> HIDE DEF f
<1>7. \A n \in Nat : n + 1 \in Nat /\ n + 1 # 0 /\ (n + 1) - 1 = n
  OBVIOUS
<1>8. f[0] = AtStart /\ \A n \in Nat : f[n + 1] = Step(s, f[(n + 1) - 1])
  BY <1>5, <1>7
<1> QED  BY <1>6, <1>7, <1>8

\* The decoder is at c after some of the items.
Reaches(s, c) == \E n \in Nat : Run(s)[n] = c

LEMMA ReachesStart ==
  ASSUME NEW s
  PROVE  Reaches(s, AtStart)
BY RunIs DEF Reaches

LEMMA ReachesStep ==
  ASSUME NEW s, NEW c, Reaches(s, c)
  PROVE  Reaches(s, Step(s, c))
<1>1. PICK n \in Nat : Run(s)[n] = c
  BY DEF Reaches
<1>2. Run(s)[n + 1] = Step(s, c) /\ n + 1 \in Nat
  BY <1>1, RunIs
<1> QED  BY <1>2 DEF Reaches

\* A verdict is final.
LEMMA RunFinal ==
  ASSUME NEW s, NEW n \in Nat, Run(s)[n].verdict # "none", NEW m \in Nat, n <= m
  PROVE  Run(s)[m] = Run(s)[n]
<1> DEFINE S == {k \in Nat : n <= k => Run(s)[k] = Run(s)[n]}
<1>1. 0 \in S
  OBVIOUS
<1>2. ASSUME NEW k \in S PROVE k + 1 \in S
  <2>1. Run(s)[k + 1] = Step(s, Run(s)[k]) /\ k \in Nat
    BY RunIs
  <2>2. CASE n <= k
    <3>1. Run(s)[k] = Run(s)[n]
      BY <1>2, <2>2
    <3>2. Step(s, Run(s)[k]) = Run(s)[k]
      BY <3>1 DEF Step
    <3> QED  BY <2>1, <3>1, <3>2
  <2>3. CASE ~(n <= k)
    BY <2>1, <2>3
  <2> QED  BY <2>2, <2>3
<1> HIDE DEF S
<1>3. S = Nat
  BY <1>1, <1>2, Induction DEF S
<1> QED  BY <1>3 DEF S

\* As long as it has no verdict, it is ahead by an item at least with every step.
LEMMA RunGoes ==
  ASSUME NEW s \in Seq(Byte), NEW n \in Nat, Run(s)[n].verdict = "none"
  PROVE  GoesOn(s, Run(s)[n]) /\ Ahead(Run(s)[n]) >= n
<1> DEFINE S == {k \in Nat : Run(s)[k].verdict = "none" =>
                                GoesOn(s, Run(s)[k]) /\ Ahead(Run(s)[k]) >= k}
<1>1. 0 \in S
  <2>1. Run(s)[0] = AtStart
    BY RunIs
  <2>2. /\ AtStart.at = 0 /\ AtStart.depth = 0 /\ AtStart.item = NoResume
        /\ AtStart = Going(AtStart.at, AtStart.depth, AtStart.item, AtStart.events)
    BY GoingFields DEF AtStart
  <2>3. GoesOn(s, AtStart)
    BY <2>2, NoneFresh DEF GoesOn
  <2>4. Ahead(AtStart) = 2 * 0 - 0
    BY <2>2, NoneFresh DEF Ahead
  <2> QED  BY <2>1, <2>3, <2>4
<1>2. ASSUME NEW k \in S PROVE k + 1 \in S
  <2> DEFINE c == Run(s)[k]
  <2>1. Run(s)[k + 1] = Step(s, c) /\ k \in Nat
    BY RunIs
  <2> SUFFICES ASSUME Step(s, c).verdict = "none"
               PROVE  GoesOn(s, Step(s, c)) /\ Ahead(Step(s, c)) >= k + 1
    BY <2>1
  <2>2. c.verdict = "none"
    <3>1. c.verdict # "none" => Step(s, c) = c
      BY DEF Step
    <3> QED  BY <3>1
  <2>3. GoesOn(s, c) /\ Ahead(c) >= k
    BY <1>2, <2>2
  <2>4. GoesOn(s, Step(s, c)) /\ Ahead(Step(s, c)) > Ahead(c)
    BY <2>3, StepGoes
  <2>5. Ahead(c) \in Int /\ Ahead(Step(s, c)) \in Int
    <3>1. ASSUME NEW d, GoesOn(s, d) PROVE Ahead(d) \in Int
      <4>1. d.at \in Int
        BY <3>1 DEF GoesOn
      <4> QED  BY <4>1 DEF Ahead
    <3> QED  BY <2>3, <2>4, <3>1
  <2>6. ASSUME NEW x \in Int, NEW y \in Int, y > x, x >= k PROVE y >= k + 1
    BY <2>1, <2>6
  <2> QED  BY <2>3, <2>4, <2>5, <2>6
<1> HIDE DEF S
<1>3. S = Nat
  BY <1>1, <1>2, Induction DEF S
<1> QED  BY <1>3 DEF S

\* It comes to a verdict.
LEMMA RunStops ==
  ASSUME NEW s \in Seq(Byte)
  PROVE  Run(s)[2 * Len(s) + 1].verdict # "none"
<1> DEFINE last == 2 * Len(s) + 1
<1>1. last \in Nat /\ Len(s) \in Nat
  OBVIOUS
<1> SUFFICES ASSUME Run(s)[last].verdict = "none" PROVE FALSE
  OBVIOUS
<1> HIDE DEF last
<1>2. GoesOn(s, Run(s)[last]) /\ Ahead(Run(s)[last]) >= last
  BY <1>1, RunGoes
<1> DEFINE at == Run(s)[last].at
           less == IF Run(s)[last].item.kind = "none" THEN 0 ELSE 1
<1>3. at \in 0..Len(s) /\ 2 * at - less >= last /\ less \in {0, 1}
  BY <1>2 DEF GoesOn, Ahead
<1> HIDE DEF at, less
<1> QED  BY <1>1, <1>3 DEF last

\* The verdict it reaches is what Decode answers.
LEMMA DecodeIs ==
  ASSUME NEW s \in Seq(Byte), NEW c, Reaches(s, c), c.verdict # "none"
  PROVE  Decode(s) = [verdict |-> c.verdict, depth |-> c.depth, events |-> c.events,
                      resume |-> c.item, rest |-> SubSeq(s, c.at + 1, Len(s))]
<1> DEFINE last == 2 * Len(s) + 1
<1>1. last \in Nat /\ Len(s) \in Nat
  OBVIOUS
<1>2. PICK n \in Nat : Run(s)[n] = c
  BY DEF Reaches
<1>3. Run(s)[last].verdict # "none"
  BY RunStops
<1> HIDE DEF last
<1>4. Run(s)[last] = c
  <2>1. CASE n <= last
    BY <1>1, <1>2, <2>1, RunFinal
  <2>2. CASE last <= n
    <3>1. Run(s)[n] = Run(s)[last]
      BY <1>1, <1>3, <2>2, RunFinal
    <3> QED  BY <1>2, <3>1
  <2> QED  BY <1>1, <2>1, <2>2
<1> QED  BY <1>4 DEF Decode, last

\* More bytes do not change what was reached before they came.
LEMMA ReachesOn ==
  ASSUME NEW s \in Seq(Byte), NEW t \in Seq(Byte), Agree(s, 0, t, 0),
         NEW c, Reaches(s, c), c.verdict \in {"none", "InvalidMsg"}
  PROVE  Reaches(t, c)
<1> DEFINE S == {n \in Nat : Run(s)[n].verdict \in {"none", "InvalidMsg"} => Run(t)[n] = Run(s)[n]}
<1>1. 0 \in S
  BY RunIs
<1>2. ASSUME NEW n \in S PROVE n + 1 \in S
  <2> DEFINE d == Run(s)[n]
  <2>1. Run(s)[n + 1] = Step(s, d) /\ Run(t)[n + 1] = Step(t, Run(t)[n]) /\ n \in Nat
    BY RunIs
  <2> SUFFICES ASSUME Step(s, d).verdict \in {"none", "InvalidMsg"}
               PROVE  Step(t, Run(t)[n]) = Step(s, d)
    BY <2>1
  <2>2. CASE d.verdict = "none"
    <3>1. Run(t)[n] = d
      BY <1>2, <2>2
    <3>2. GoesOn(s, d)
      BY <2>1, <2>2, RunGoes
    <3> DEFINE p == d.at
    <3>3. /\ p \in 0..Len(s) /\ Len(s) \in Nat /\ Len(t) \in Nat /\ Len(s) - 0 <= Len(t) - 0
          /\ d = Going(p, d.depth, d.item, d.events)
      BY <3>2 DEF GoesOn, Agree
    <3>4. Agree(s, 0 + p, t, 0 + p) /\ 0 \in 0..Len(s) /\ 0 \in 0..Len(t)
      <4> HIDE DEF p
      <4>1. p \in 0..(Len(s) - 0)
        BY <3>3
      <4>2. 0 \in 0..Len(s) /\ 0 \in 0..Len(t)
        BY <3>3
      <4>3. Agree(s, 0 + p, t, 0 + p)
        BY <4>1, <4>2, AgreeBehind
      <4> QED  BY <4>2, <4>3
    <3>5. Agree(s, p, t, p) /\ p \in 0..Len(t) /\ p - p = 0
      <4> HIDE DEF p
      <4>1. 0 + p = p /\ p \in 0..Len(t) /\ p - p = 0
        BY <3>3
      <4> QED  BY <3>4, <4>1
    <3>6. Step(t, Moved(d, p - p)) = Moved(Step(s, d), p - p)
      BY <3>2, <3>5, StepAgrees
    <3>7. Moved(d, p - p) = d
      <4> DEFINE g == Going(p, d.depth, d.item, d.events)
      <4>1. Moved(g, p - p) = Going(p + (p - p), d.depth, d.item, d.events) /\ d = g
        BY <3>3, MovedIs
      <4>2. p + (p - p) = p
        <5> HIDE DEF p
        <5> QED  BY <3>3
      <4> HIDE DEF g, p
      <4> QED  BY <4>1, <4>2 DEF g
    <3>8. Moved(Step(s, d), p - p) = Step(s, d)
      <4> DEFINE r == Step(s, d)
      <4>1. \/ r = Going(r.at, r.depth, r.item, r.events) /\ r.at \in 0..Len(s)
            \/ r = Malformed(p, d.depth, d.item, d.events)
        BY <3>2, <3>3, StepGoes, StepMalformed DEF GoesOn
      <4> SUFFICES Moved(r, p - p) = r
        OBVIOUS
      <4> HIDE DEF r, p
      <4>2. CASE r = Malformed(p, d.depth, d.item, d.events)
        <5>1. p + (p - p) = p
          BY <3>3
        <5> QED  BY <4>2, <5>1, MovedIs
      <4>3. CASE r = Going(r.at, r.depth, r.item, r.events) /\ r.at \in 0..Len(s)
        <5> DEFINE at == r.at
        <5>1. at + (p - p) = at
          <6> HIDE DEF at
          <6> QED  BY <3>3, <4>3 DEF at
        <5> HIDE DEF at
        <5>2. Moved(Going(at, r.depth, r.item, r.events), p - p) = Going(at + (p - p), r.depth, r.item, r.events)
          BY MovedIs
        <5> QED  BY <4>3, <5>1, <5>2 DEF at
      <4> QED  BY <4>1, <4>2, <4>3
    <3> QED  BY <3>1, <3>6, <3>7, <3>8
  <2>3. CASE d.verdict # "none"
    <3>1. Step(s, d) = d
      BY <2>3 DEF Step
    <3>2. Run(t)[n] = d
      BY <1>2, <3>1
    <3> QED  BY <2>3, <3>1, <3>2 DEF Step
  <2> QED  BY <2>2, <2>3
<1> HIDE DEF S
<1>3. S = Nat
  BY <1>1, <1>2, Induction DEF S
<1> QED  BY <1>3 DEF S, Reaches

-----------------------------------------------------------------------------
(***************************************************************************)
(* What was told is not taken back.                                        *)
(***************************************************************************)
\* Callbacks that begin with others: with the first k of them, and with all.
BeginWith(more, es, k) == \A i \in 1..k : more[i] = es[i]
Grows(more, es) == Len(es) <= Len(more) /\ BeginWith(more, es, Len(es))

LEMMA GrowsAppend ==
  ASSUME NEW es \in Seq(Events), NEW a, NEW b
  PROVE  Grows(es, es) /\ Grows(Append(es, a), es) /\ Grows(Append(Append(es, a), b), es)
<1> DEFINE S == Events \cup {a, b}
<1>1. es \in Seq(S) /\ a \in S /\ b \in S
  OBVIOUS
<1> HIDE DEF S
<1>2. /\ Append(es, a) \in Seq(S) /\ Len(Append(es, a)) = Len(es) + 1
      /\ \A i \in 1..Len(es) : Append(es, a)[i] = es[i]
  BY <1>1, AppendProperties
<1>3. /\ Len(Append(Append(es, a), b)) = Len(es) + 2
      /\ \A i \in 1..(Len(es) + 1) : Append(Append(es, a), b)[i] = Append(es, a)[i]
  <2> DEFINE t == Append(es, a)
  <2>1. t \in Seq(S) /\ Len(t) = Len(es) + 1 /\ Len(es) \in Nat
    BY <1>2
  <2> HIDE DEF t
  <2>2. Len(Append(t, b)) = Len(t) + 1 /\ \A i \in 1..Len(t) : Append(t, b)[i] = t[i]
    BY <1>1, <2>1, AppendProperties
  <2>3. Len(Append(t, b)) = Len(es) + 2 /\ \A i \in 1..(Len(es) + 1) : Append(t, b)[i] = t[i]
    BY <2>1, <2>2
  <2> QED  BY <2>3 DEF t
<1>4. Len(es) \in Nat
  OBVIOUS
<1> QED  BY <1>2, <1>3, <1>4 DEF Grows, BeginWith

\* A callback more at most.
TellsOne(more, es) == more = es \/ \E e \in Events : more = Append(es, e)

\* What a field, a payload and an element tell is a callback.
LEMMA CallbacksIn ==
  ASSUME NEW s \in Seq(Byte), NEW p \in 0..Len(s)
  PROVE  /\ UnsignedOf(s, p) \in Events /\ SignedOf(s, p) \in Events /\ FixlenOf(s, p) \in Events
         /\ \A kind \in Nat : ArrayOf(s, p, kind) \in Events
         /\ OnSequenceBegin(IdIn(s, p)) \in Events /\ OnSequenceEnd \in Events
         /\ \A it \in Items, n \in Int : p + n \in p..Len(s) => ChunkOf(it, s, p, n) \in Events
         /\ \A it \in Items : ElementIn(it, s, p).status = "ok" => ElementOf(it, s, p) \in Events
<1>1. /\ HeadIn(s, p).value \in Nat /\ WordIn(s, p).value \in Nat
  BY HeadInFacts
<1>2. IdIn(s, p) \in Nat /\ LengthIn(s, p) \in Nat /\ SubtypeIn(s, p) \in Nat
  <2>1. ASSUME NEW v \in Nat PROVE v \div 8 \in Nat /\ v % 8 \in Nat
    OBVIOUS
  <2> QED  BY <1>1, <2>1 DEF IdIn, LengthIn, SubtypeIn
<1>3. /\ <<>> \in Seq(Byte) /\ 0 \in Nat /\ 0 \in Int
      /\ "unsigned" \in CallbackNames /\ "signed" \in CallbackNames /\ "float" \in CallbackNames
      /\ "fixlen_begin" \in CallbackNames /\ "chunk" \in CallbackNames /\ "array_begin" \in CallbackNames
      /\ "sequence_begin" \in CallbackNames /\ "sequence_end" \in CallbackNames
      /\ Nat \subseteq Int
  BY DEF CallbackNames
<1>4. UnsignedOf(s, p) \in Events
  BY <1>1, <1>2, <1>3, CallbackType DEF UnsignedOf, OnUnsigned
<1>5. SignedOf(s, p) \in Events
  <2>1. ZigZagDecode(WordIn(s, p).value) \in Int
    BY <1>1, ZigZagDecodeType
  <2> QED  BY <1>2, <1>3, <2>1, CallbackType DEF SignedOf, OnSigned
<1>6. FixlenOf(s, p) \in Events
  BY <1>2, <1>3, CallbackType DEF FixlenOf, OnFixlenBegin
<1>7. ASSUME NEW kind \in Nat PROVE ArrayOf(s, p, kind) \in Events
  BY <1>1, <1>2, <1>3, CallbackType DEF ArrayOf, OnArrayBegin
<1>8. OnSequenceBegin(IdIn(s, p)) \in Events /\ OnSequenceEnd \in Events
  BY <1>2, <1>3, CallbackType DEF OnSequenceBegin, OnSequenceEnd
<1>9. ASSUME NEW it \in Items PROVE it.id \in Nat /\ it.type \in Nat /\ it.total \in Nat
  BY FormatAssumption DEF Items
<1>10. ASSUME NEW n \in Int, p + n \in p..Len(s) PROVE SubSeq(s, p + 1, p + n) \in Seq(Byte)
  <2> DEFINE m == p + n
  <2>1. m \in Nat /\ m <= Len(s) /\ p \in Nat
    BY <1>10
  <2> HIDE DEF m
  <2>2. \A i \in (p + 1)..m : s[i] \in Byte
    BY <2>1
  <2>3. SubSeq(s, p + 1, m) \in Seq(Byte)
    BY <2>1, <2>2, SubSeqProperties
  <2> QED  BY <2>3 DEF m
<1>11. ASSUME NEW it \in Items, NEW n \in Int, p + n \in p..Len(s) PROVE ChunkOf(it, s, p, n) \in Events
  BY <1>3, <1>9, <1>10, <1>11, CallbackType DEF ChunkOf, OnChunk
<1>12. ASSUME NEW it \in Items, ElementIn(it, s, p).status = "ok" PROVE ElementOf(it, s, p) \in Events
  <2> DEFINE v == ElementIn(it, s, p).value
             n == ElementIn(it, s, p).len
  <2>1. v \in Nat /\ n \in Nat /\ p + n \in (p + 1)..Len(s)
    BY <1>12, ElementInFacts
  <2>2. ZigZagDecode(v) \in Int
    BY <2>1, ZigZagDecodeType
  <2>3. SubSeq(s, p + 1, p + n) \in Seq(Byte)
    <3> HIDE DEF n
    <3>1. p + n \in p..Len(s)
      BY <2>1
    <3> QED  BY <1>10, <3>1
  <2> HIDE DEF v, n
  <2>4. /\ OnFloat(it.id, it.type, SubSeq(s, p + 1, p + n)) \in Events
        /\ OnSigned(it.id, ZigZagDecode(v)) \in Events /\ OnUnsigned(it.id, v) \in Events
    BY <1>3, <1>9, <2>1, <2>2, <2>3, CallbackType DEF OnFloat, OnSigned, OnUnsigned
  <2> QED  BY <2>4 DEF ElementOf, v, n
<1> QED  BY <1>4, <1>5, <1>6, <1>7, <1>8, <1>11, <1>12

LEMMA FieldTells ==
  ASSUME NEW s \in Seq(Byte), NEW p \in 0..Len(s), NEW d \in Nat, NEW es
  PROVE  TellsOne(Field(s, p, d, es).events, es)
<1> DEFINE f == Field(s, p, d, es)
<1>1. ASSUME NEW at, NEW d2, NEW it, NEW told
      PROVE  /\ Going(at, d2, it, told).events = told /\ Malformed(at, d2, it, told).events = told
             /\ RanOut(s, at, d2, it, told).events = told
  BY DEF Going, Malformed, RanOut
<1>2. FieldAnswers(s, p, d, es)
  BY HeadInFacts, FieldIs
<1>3. ASSUME NEW e \in Events, f.events = Append(es, e) PROVE TellsOne(f.events, es)
  BY <1>3 DEF TellsOne
<1>4. KindUnsigned \in Nat /\ KindSigned \in Nat /\ KindFp32 \in Nat /\ KindFp64 \in Nat
  BY DEF KindUnsigned, KindSigned, KindFp32, KindFp64
<1>5. ArrayOf(s, p, IntKindIn(s, p)) \in Events /\ ArrayOf(s, p, FloatKindIn(s, p)) \in Events
  BY <1>4, CallbacksIn DEF IntKindIn, FloatKindIn
<1> HIDE DEF f
<1>6. CASE HeadShortIn(s, p) \/ HeadBadIn(s, p, d)
  BY <1>1, <1>2, <1>6 DEF FieldAnswers, TellsOne, f
<1>7. CASE BeginsIn(s, p, d)
  <2>1. f.events = Append(es, OnSequenceBegin(IdIn(s, p)))
    BY <1>2, <1>7 DEF FieldAnswers, f, Going
  <2> QED  BY <1>3, <2>1, CallbacksIn DEF f
<1>8. CASE EndsIn(s, p, d)
  <2>1. f.events = Append(es, OnSequenceEnd)
    BY <1>2, <1>8 DEF FieldAnswers, f, Going
  <2> QED  BY <1>3, <2>1, CallbacksIn DEF f
<1>9. CASE UnsignedIn(s, p)
  <2>1. f.events = Append(es, UnsignedOf(s, p))
    BY <1>2, <1>9 DEF FieldAnswers, f, Going
  <2> QED  BY <1>3, <2>1, CallbacksIn DEF f
<1>10. CASE SignedIn(s, p)
  <2>1. f.events = Append(es, SignedOf(s, p))
    BY <1>2, <1>10 DEF FieldAnswers, f, Going
  <2> QED  BY <1>3, <2>1, CallbacksIn DEF f
<1>11. CASE PayloadIn(s, p) \/ FloatIn(s, p)
  <2>1. f.events = Append(es, FixlenOf(s, p))
    BY <1>2, <1>11 DEF FieldAnswers, f, Going
  <2> QED  BY <1>3, <2>1, CallbacksIn DEF f
<1>12. CASE IntArrayIn(s, p)
  <2>1. f.events = Append(es, ArrayOf(s, p, IntKindIn(s, p)))
    BY <1>2, <1>12 DEF FieldAnswers, f, Going
  <2> QED  BY <1>3, <1>5, <2>1 DEF f
<1>13. CASE FloatArrayIn(s, p)
  <2>1. f.events = Append(es, ArrayOf(s, p, FloatKindIn(s, p)))
    BY <1>2, <1>13 DEF FieldAnswers, f, Going
  <2> QED  BY <1>3, <1>5, <2>1 DEF f
<1> QED  BY <1>6, <1>7, <1>8, <1>9, <1>10, <1>11, <1>12, <1>13, FieldCases DEF FieldGoesIn, f

LEMMA StepTells ==
  ASSUME NEW s \in Seq(Byte), NEW c, GoesOn(s, c)
  PROVE  TellsOne(Step(s, c).events, c.events)
<1> DEFINE p == c.at
           it == c.item
           es == c.events
           r == Step(s, c)
<1>1. /\ p \in 0..Len(s) /\ c.depth \in Nat /\ it \in Items /\ Len(s) \in Nat
      /\ c = Going(p, c.depth, it, es)
      /\ it.kind \in {"none", "payload", "int", "fix"} /\ it.total \in Nat /\ it.remaining \in Nat
  BY FormatAssumption DEF GoesOn, Fresh, Items
<1>2. ASSUME NEW at, NEW d2, NEW it2, NEW told
      PROVE  /\ Going(at, d2, it2, told).events = told /\ Malformed(at, d2, it2, told).events = told
             /\ RanOut(s, at, d2, it2, told).events = told
  BY DEF Going, Malformed, RanOut
<1>3. /\ it.kind = "none" => r = Field(s, p, c.depth, es)
      /\ it.kind = "payload" => r = Payload(s, p, c.depth, it, es)
      /\ it.kind \in {"int", "fix"} => r = Element(s, p, c.depth, it, es)
  BY <1>1, StepIs
<1> HIDE DEF r
<1>4. CASE it.kind = "none"
  BY <1>1, <1>3, <1>4, FieldTells DEF r
<1> HIDE DEF p, it, es
<1>5. CASE it.kind = "payload"
  <2>1. CASE it.total <= Len(s) - p
    <3>1. r = Going(p + it.total, c.depth, NoResume, Append(es, ChunkOf(it, s, p, it.total)))
      BY <1>1, <1>3, <1>5, <2>1, PayloadIs
    <3>3. r.events = Append(es, ChunkOf(it, s, p, it.total))
      BY <3>1 DEF Going
    <3>2. p + it.total \in p..Len(s)
      BY <1>1, <2>1
    <3> QED  BY <1>1, <3>2, <3>3, CallbacksIn DEF TellsOne, r, es
  <2>2. CASE ~(it.total <= Len(s) - p)
    <3> DEFINE half == [it EXCEPT !.remaining = it.total - (Len(s) - p)]
               told == IF Len(s) - p = 0 THEN es ELSE Append(es, ChunkOf(it, s, p, Len(s) - p))
    <3>3. r = RanOut(s, Len(s), c.depth, half, told)
      BY <1>1, <1>3, <1>5, <2>2, PayloadIs
    <3>1. r.events = told
      <4> HIDE DEF half, told
      <4> QED  BY <3>3 DEF RanOut
    <3>2. p + (Len(s) - p) \in p..Len(s)
      BY <1>1
    <3> QED  BY <1>1, <3>1, <3>2, CallbacksIn DEF TellsOne, r, es
  <2> QED  BY <2>1, <2>2
<1>6. CASE it.kind \in {"int", "fix"}
  <2> DEFINE e == ElementIn(it, s, p)
             o == ElementOf(it, s, p)
  <2>1. e.status \in {"ok", "more", "invalid"}
    BY <1>1, ElementInFacts
  <2>2. e.status = "ok" => o \in Events
    BY <1>1, CallbacksIn
  <2>3. /\ it.remaining = 0 => r.events = es
        /\ it.remaining # 0 /\ e.status = "more" => r.events = es
        /\ it.remaining # 0 /\ e.status = "invalid" => r.events = es
        /\ it.remaining # 0 /\ e.status = "ok" => r.events = Append(es, o)
    <3> DEFINE fewer == [it EXCEPT !.remaining = @ - 1]
    <3>1. /\ it.remaining = 0 => r = Going(p, c.depth, NoResume, es)
          /\ it.remaining # 0 /\ e.status = "more" => r = RanOut(s, p, c.depth, it, es)
          /\ it.remaining # 0 /\ e.status = "invalid" => r = Malformed(p, c.depth, it, es)
          /\ it.remaining # 0 /\ e.status = "ok" => r = Going(p + e.len, c.depth, fewer, Append(es, o))
      BY <1>3, <1>6, ElementIs
    <3> HIDE DEF e, o, fewer
    <3> QED  BY <3>1 DEF Going, RanOut, Malformed
  <2> HIDE DEF e, o
  <2> QED  BY <2>1, <2>2, <2>3 DEF TellsOne, r, es
<1> QED  BY <1>1, <1>4, <1>5, <1>6

LEMMA GrowsTrans ==
  ASSUME NEW a \in Seq(Events), NEW b \in Seq(Events), NEW c \in Seq(Events), Grows(b, a), Grows(c, b)
  PROVE  Grows(c, a)
BY DEF Grows, BeginWith

\* What the reference decoder has told it does not take back.
LEMMA RunTells ==
  ASSUME NEW s \in Seq(Byte), NEW n \in Nat, NEW m \in Nat, n <= m
  PROVE  /\ Run(s)[n].events \in Seq(Events) /\ Run(s)[m].events \in Seq(Events)
         /\ Grows(Run(s)[m].events, Run(s)[n].events)
<1> DEFINE es(k) == Run(s)[k].events
           S == {k \in Nat : es(k) \in Seq(Events)}
           T == {k \in Nat : n <= k => Grows(es(k), es(n))}
<1>1. ASSUME NEW k \in Nat PROVE TellsOne(es(k + 1), es(k))
  <2>1. Run(s)[k + 1] = Step(s, Run(s)[k])
    BY RunIs
  <2>2. CASE Run(s)[k].verdict = "none"
    <3>1. GoesOn(s, Run(s)[k])
      BY <2>2, RunGoes
    <3> QED  BY <2>1, <3>1, StepTells
  <2>3. CASE Run(s)[k].verdict # "none"
    BY <2>1, <2>3 DEF Step, TellsOne
  <2> QED  BY <2>2, <2>3
<1>2. es(0) = <<>>
  BY RunIs, GoingFields DEF AtStart
<1> HIDE DEF es
<1>3. 0 \in S
  <2>1. <<>> \in Seq(Events)
    OBVIOUS
  <2> QED  BY <1>2, <2>1
<1>4. ASSUME NEW k \in S PROVE k + 1 \in S
  <2>1. k \in Nat /\ es(k) \in Seq(Events) /\ TellsOne(es(k + 1), es(k))
    BY <1>1, <1>4
  <2>2. es(k + 1) \in Seq(Events)
    <3>1. ASSUME NEW x \in Seq(Events), NEW e \in Events PROVE Append(x, e) \in Seq(Events)
      OBVIOUS
    <3> QED  BY <2>1, <3>1 DEF TellsOne
  <2> QED  BY <2>1, <2>2
<1> HIDE DEF S
<1>5. S = Nat
  BY <1>3, <1>4, Induction DEF S
<1>6. \A k \in Nat : es(k) \in Seq(Events)
  BY <1>5 DEF S
<1>7. 0 \in T
  <2>1. Grows(es(0), es(0))
    BY <1>6, GrowsAppend, Zenon
  <2> QED  BY <2>1
<1>8. ASSUME NEW k \in T PROVE k + 1 \in T
  <2>1. k \in Nat /\ k + 1 \in Nat
    OBVIOUS
  <2>2. CASE n <= k
    <3>1. Grows(es(k), es(n)) /\ TellsOne(es(k + 1), es(k))
      BY <1>1, <1>8, <2>1, <2>2
    <3>2. Grows(es(k + 1), es(k))
      BY <1>6, <2>1, <3>1, GrowsAppend DEF TellsOne
    <3> QED  BY <1>6, <2>1, <3>1, <3>2, GrowsTrans
  <2>3. CASE n = k + 1
    <3>1. Grows(es(n), es(n))
      BY <1>6, GrowsAppend, Zenon
    <3> QED  BY <2>1, <2>3, <3>1
  <2>4. CASE ~(n <= k + 1)
    BY <2>1, <2>4
  <2> QED  BY <2>1, <2>2, <2>3, <2>4
<1> HIDE DEF T
<1>9. T = Nat
  BY <1>7, <1>8, Induction DEF T
<1> QED  BY <1>6, <1>9 DEF T, es

\* Nor does what it answers in the end.
LEMMA DecodeTells ==
  ASSUME NEW s \in Seq(Byte), NEW c, Reaches(s, c)
  PROVE  Decode(s).events \in Seq(Events) /\ Grows(Decode(s).events, c.events)
<1> DEFINE last == 2 * Len(s) + 1
<1>1. last \in Nat /\ Decode(s).events = Run(s)[last].events
  BY DEF Decode
<1>2. PICK n \in Nat : Run(s)[n] = c
  BY DEF Reaches
<1> HIDE DEF last
<1>3. CASE n <= last
  BY <1>1, <1>2, <1>3, RunTells
<1>4. CASE ~(n <= last)
  <2>1. Run(s)[last].verdict # "none"
    BY RunStops DEF last
  <2>2. Run(s)[n] = Run(s)[last]
    BY <1>1, <1>4, <2>1, RunFinal
  <2>3. Run(s)[last].events \in Seq(Events) /\ Grows(Run(s)[last].events, Run(s)[last].events)
    BY <1>1, RunTells
  <2> QED  BY <1>1, <1>2, <2>2, <2>3
<1> QED  BY <1>1, <1>3, <1>4

-----------------------------------------------------------------------------
(***************************************************************************)
(* Reading back what was written.                                          *)
(***************************************************************************)
\* Bytes that stand in s behind p consist of parts that do.
LEMMA AgreeParts ==
  ASSUME NEW a \in Seq(Byte), NEW b \in Seq(Byte), NEW s \in Seq(Byte), NEW p \in 0..Len(s),
         Agree(a \o b, 0, s, p)
  PROVE  /\ Agree(a, 0, s, p) /\ p + Len(a) \in 0..Len(s) /\ Agree(b, 0, s, p + Len(a))
<1> DEFINE c == a \o b
<1>1. /\ Len(a) \in Nat /\ Len(b) \in Nat /\ Len(s) \in Nat /\ Len(c) = Len(a) + Len(b)
      /\ \A i \in 1..Len(a) : c[i] = a[i]
      /\ \A i \in 1..Len(b) : c[Len(a) + i] = b[i]
  OBVIOUS
<1>2. Len(c) - 0 <= Len(s) - p /\ \A i \in 1..(Len(c) - 0) : c[0 + i] = s[p + i]
  BY DEF Agree
<1> HIDE DEF c
<1>3. \A i \in 1..Len(a) : a[0 + i] = s[p + i]
  BY <1>1, <1>2
<1>4. \A i \in 1..Len(b) : b[0 + i] = s[(p + Len(a)) + i]
  <2> TAKE i \in 1..Len(b)
  <2>1. b[i] = c[Len(a) + i] /\ Len(a) + i \in 1..(Len(c) - 0)
    BY <1>1
  <2>2. c[0 + (Len(a) + i)] = s[p + (Len(a) + i)]
    BY <1>2, <2>1
  <2>3. 0 + (Len(a) + i) = Len(a) + i /\ p + (Len(a) + i) = (p + Len(a)) + i /\ 0 + i = i
    BY <1>1
  <2> QED  BY <2>1, <2>2, <2>3
<1> QED  BY <1>1, <1>2, <1>3, <1>4 DEF Agree

\* What is appended stands behind what was there.
LEMMA AgreeAppended ==
  ASSUME NEW s \in Seq(Byte), NEW b \in Seq(Byte)
  PROVE  /\ s \o b \in Seq(Byte) /\ Len(s) \in 0..Len(s \o b) /\ Len(s \o b) = Len(s) + Len(b)
         /\ Agree(b, 0, s \o b, Len(s)) /\ Agree(s, 0, s \o b, 0)
<1>1. /\ s \o b \in Seq(Byte) /\ Len(s \o b) = Len(s) + Len(b) /\ Len(s) \in Nat /\ Len(b) \in Nat
      /\ \A i \in 1..Len(s) : (s \o b)[i] = s[i]
      /\ \A i \in 1..Len(b) : (s \o b)[Len(s) + i] = b[i]
  OBVIOUS
<1> DEFINE t == s \o b
<1> HIDE DEF t
<1>2. /\ t \in Seq(Byte) /\ Len(t) = Len(s) + Len(b)
      /\ \A i \in 1..Len(s) : t[i] = s[i]
      /\ \A i \in 1..Len(b) : t[Len(s) + i] = b[i]
  BY <1>1 DEF t
<1>3. Agree(b, 0, t, Len(s)) /\ Agree(s, 0, t, 0) /\ Len(s) \in 0..Len(t)
  BY <1>1, <1>2 DEF Agree
<1> QED  BY <1>2, <1>3 DEF t

LEMMA UnsignedType == Unsigned \subseteq Nat /\ MaxUnsigned \in Nat
<1>1. Half \in Nat \ {0}
  BY WeightType, MaxVarintLenAssumption DEF Half
<1>2. MaxUnsigned \in Nat
  BY <1>1 DEF MaxUnsigned
<1> QED  BY <1>2 DEF Unsigned

\* A value is read back from where its encoding stands.
LEMMA ReadsBack ==
  ASSUME NEW v \in Unsigned, NEW s \in Seq(Byte), NEW p \in 0..Len(s), Agree(Varint(v), 0, s, p)
  PROVE  /\ ReadVarint(s, p + 1) = ReadOk(v, Len(Varint(v)))
         /\ Varint(v) \in Seq(Byte) /\ Len(Varint(v)) \in Nat \ {0}
<1> DEFINE n == VarintLen(v)
<1>1. v \in Nat /\ n \in 1..MaxVarintLen /\ n \in Nat
  <2>1. v \in Nat
    BY UnsignedType
  <2> QED  BY <2>1, VarintLenBounds, MaxVarintLenAssumption
<1>2. Varint(v) \in Seq(Byte) /\ Len(Varint(v)) = n /\ \A i \in 1..n : Varint(v)[i] = VarintByte(v, i)
  <2>1. Varint(v) = [i \in 1..n |-> VarintByte(v, i)]
    BY DEF Varint
  <2>2. Varint(v) \in Seq(Byte)
    BY <1>1, VarintType
  <2> HIDE DEF n
  <2> QED  BY <1>1, <2>1, <2>2
<1> HIDE DEF n
<1>3. n <= Len(s) - p /\ \A i \in 1..n : VarintByte(v, i) = s[p + i]
  <2>1. Len(Varint(v)) - 0 <= Len(s) - p /\ \A i \in 1..(Len(Varint(v)) - 0) : Varint(v)[0 + i] = s[p + i]
    BY DEF Agree
  <2>2. n - 0 = n /\ \A i \in 1..n : 0 + i = i
    BY <1>1
  <2> QED  BY <1>1, <1>2, <2>1, <2>2
<1> DEFINE q == p + 1
<1>4. q \in 1..Len(s) /\ q + n - 1 <= Len(s) /\ \A i \in 1..n : q + i - 1 = p + i
  BY <1>1, <1>3
<1>5. Stands(v, s, q)
  BY <1>3, <1>4 DEF Stands, n
<1> HIDE DEF q
<1>6. ReadVarint(s, q) = ReadOk(v, VarintLen(v))
  BY <1>4, <1>5, VarintRoundTrip DEF n
<1> QED  BY <1>1, <1>2, <1>6 DEF n, q
=============================================================================
