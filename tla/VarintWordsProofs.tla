-------------------------- MODULE VarintWordsProofs --------------------------
(***************************************************************************)
(* What holds of VarintWords for any words, buffers and lengths of a run:  *)
(* its four properties.                                                    *)
(*                                                                         *)
(* A routine on words is described by its bits: where bit e of the result  *)
(* comes from.  The rounds of spread7 and compact7 compose to "the group   *)
(* of e is the byte of e", eight bytes in one word to "bit e is bit e % 8  *)
(* of byte e \div 8", and so every path of a read is one of three: it ends *)
(* at the first byte without a continuation bit, it runs out of bytes, or  *)
(* it looks at the tenth.  Each of them is what the reference answers.     *)
(*                                                                         *)
(* A write leaves the groups of the value and touches nothing before it.   *)
(* The invariant says where each of the values written ends (Cuts), so     *)
(* that a later store, which is behind the last, keeps what is there; and  *)
(* that the cursor of the reads is at one of these places.                 *)
(***************************************************************************)
EXTENDS VarintWords, SequenceTheorems, TLAPS
LOCAL INSTANCE FiniteSetsExt
LOCAL INSTANCE SequencesExt
LOCAL Order == INSTANCE WellFoundedInduction

-----------------------------------------------------------------------------
(***************************************************************************)
(* Words, bit by bit.                                                      *)
(***************************************************************************)
\* A shift moves every bit that stays in the word.
LEMMA Shifts ==
  ASSUME NEW x \in Word, NEW k \in Nat
  PROVE  /\ Shl(x, k) \in Word /\ Shr(x, k) \in Word
         /\ \A e \in Int : /\ e \in Shl(x, k) <=> e < 64 /\ e - k \in x
                           /\ e \in Shr(x, k) <=> 0 <= e /\ e + k \in x
<1>1. \A b \in x : b \in 0..63
  BY DEF Word, Bit, BITS
<1>2. \A e \in Int : e - k + k = e /\ e + k - k = e
  OBVIOUS
<1>3. \A e \in Int : /\ e \in Shl(x, k) <=> e < 64 /\ e - k \in x
                     /\ e \in Shr(x, k) <=> 0 <= e /\ e + k \in x
  BY <1>1, <1>2 DEF Shl, Shr, BITS
<1>4. Shl(x, k) \in Word
  BY <1>1 DEF Shl, BITS, Word, Bit
<1>5. Shr(x, k) \in Word
  BY <1>1 DEF Shr, BITS, Word, Bit
<1> QED  BY <1>3, <1>4, <1>5

\* A part of a word is a word.
LEMMA Parts ==
  ASSUME NEW w \in Word
  PROVE  w \subseteq 0..63 /\ \A m : w \cap m \in Word
<1>1. w \subseteq 0..63
  BY DEF Word, Bit, BITS
<1>2. \A m : w \cap m \in Word
  BY DEF Word
<1> QED  BY <1>1, <1>2

\* First round of spread7: halves of 28 bits into the halves of 32.
LEMMA SpreadOne ==
  ASSUME NEW w \in Word
  PROVE  LET x == (w \cap Mask(64, 0, 27)) \cup Shl(w \cap Mask(64, 28, 55), 4)
         IN  /\ x \in Word
             /\ \A e \in Int : e \in x <=> e \in 0..63 /\ e % 32 <= 27 /\ e - 4 * (e \div 32) \in w
<1> DEFINE upper == w \cap Mask(64, 28, 55)
           x == (w \cap Mask(64, 0, 27)) \cup Shl(upper, 4)
<1>1. upper \in Word /\ w \cap Mask(64, 0, 27) \in Word /\ w \subseteq 0..63
  BY Parts
<1>2. Shl(upper, 4) \in Word
  BY <1>1, Shifts
<1>3. x \in Word
  BY <1>1, <1>2 DEF Word
<1>4. ASSUME NEW e \in Int
      PROVE  e \in x <=> e \in 0..63 /\ e % 32 <= 27 /\ e - 4 * (e \div 32) \in w
  <2>1. e \in Shl(upper, 4) <=> e < 64 /\ e - 4 \in upper
    BY <1>1, Shifts
  <2> QED  BY <1>1, <2>1 DEF Mask, Bit, BITS
<1> QED  BY <1>3, <1>4

\* Second round: of 14 bits into those of 16.
LEMMA SpreadTwo ==
  ASSUME NEW w \in Word
  PROVE  LET x == (w \cap Mask(32, 0, 13)) \cup Shl(w \cap Mask(32, 14, 27), 2)
         IN  /\ x \in Word
             /\ \A e \in Int : e \in x <=> e \in 0..63 /\ e % 16 <= 13 /\ e - 2 * ((e % 32) \div 16) \in w
<1> DEFINE upper == w \cap Mask(32, 14, 27)
           x == (w \cap Mask(32, 0, 13)) \cup Shl(upper, 2)
<1>1. upper \in Word /\ w \cap Mask(32, 0, 13) \in Word /\ w \subseteq 0..63
  BY Parts
<1>2. Shl(upper, 2) \in Word
  BY <1>1, Shifts
<1>3. x \in Word
  BY <1>1, <1>2 DEF Word
<1>4. ASSUME NEW e \in Int
      PROVE  e \in x <=> e \in 0..63 /\ e % 16 <= 13 /\ e - 2 * ((e % 32) \div 16) \in w
  <2>1. e \in Shl(upper, 2) <=> e < 64 /\ e - 2 \in upper
    BY <1>1, Shifts
  <2> QED  BY <1>1, <2>1 DEF Mask, Bit, BITS
<1> QED  BY <1>3, <1>4

\* Third round: groups of seven bits into bytes.
LEMMA SpreadThree ==
  ASSUME NEW w \in Word
  PROVE  LET x == (w \cap Mask(16, 0, 6)) \cup Shl(w \cap Mask(16, 7, 13), 1)
         IN  /\ x \in Word
             /\ \A e \in Int : e \in x <=> e \in 0..63 /\ e % 8 <= 6 /\ e - ((e % 16) \div 8) \in w
<1> DEFINE upper == w \cap Mask(16, 7, 13)
           x == (w \cap Mask(16, 0, 6)) \cup Shl(upper, 1)
<1>1. upper \in Word /\ w \cap Mask(16, 0, 6) \in Word /\ w \subseteq 0..63
  BY Parts
<1>2. Shl(upper, 1) \in Word
  BY <1>1, Shifts
<1>3. x \in Word
  BY <1>1, <1>2 DEF Word
<1>4. ASSUME NEW e \in Int
      PROVE  e \in x <=> e \in 0..63 /\ e % 8 <= 6 /\ e - ((e % 16) \div 8) \in w
  <2>1. e \in Shl(upper, 1) <=> e < 64 /\ e - 1 \in upper
    BY <1>1, Shifts
  <2> QED  BY <1>1, <2>1 DEF Mask, Bit, BITS
<1> QED  BY <1>3, <1>4

\* First round of compact7: groups of seven bits together in 14.
LEMMA CompactOne ==
  ASSUME NEW w \in Word
  PROVE  LET x == (w \cap Mask(16, 0, 6)) \cup Shr(w \cap Mask(16, 8, 14), 1)
         IN  /\ x \in Word
             /\ \A e \in Int : e \in x <=> e \in 0..63 /\ e % 16 <= 13 /\ e + ((e % 16) \div 7) \in w
<1> DEFINE upper == w \cap Mask(16, 8, 14)
           x == (w \cap Mask(16, 0, 6)) \cup Shr(upper, 1)
<1>1. upper \in Word /\ w \cap Mask(16, 0, 6) \in Word /\ w \subseteq 0..63
  BY Parts
<1>2. Shr(upper, 1) \in Word
  BY <1>1, Shifts
<1>3. x \in Word
  BY <1>1, <1>2 DEF Word
<1>4. ASSUME NEW e \in Int
      PROVE  e \in x <=> e \in 0..63 /\ e % 16 <= 13 /\ e + ((e % 16) \div 7) \in w
  <2>1. e \in Shr(upper, 1) <=> 0 <= e /\ e + 1 \in upper
    BY <1>1, Shifts
  <2> QED  BY <1>1, <2>1 DEF Mask, Bit, BITS
<1> QED  BY <1>3, <1>4

\* Second round: 14 and 14 in 28.
LEMMA CompactTwo ==
  ASSUME NEW w \in Word
  PROVE  LET x == (w \cap Mask(32, 0, 13)) \cup Shr(w \cap Mask(32, 16, 29), 2)
         IN  /\ x \in Word
             /\ \A e \in Int : e \in x <=> e \in 0..63 /\ e % 32 <= 27 /\ e + 2 * ((e % 32) \div 14) \in w
<1> DEFINE upper == w \cap Mask(32, 16, 29)
           x == (w \cap Mask(32, 0, 13)) \cup Shr(upper, 2)
<1>1. upper \in Word /\ w \cap Mask(32, 0, 13) \in Word /\ w \subseteq 0..63
  BY Parts
<1>2. Shr(upper, 2) \in Word
  BY <1>1, Shifts
<1>3. x \in Word
  BY <1>1, <1>2 DEF Word
<1>4. ASSUME NEW e \in Int
      PROVE  e \in x <=> e \in 0..63 /\ e % 32 <= 27 /\ e + 2 * ((e % 32) \div 14) \in w
  <2>1. e \in Shr(upper, 2) <=> 0 <= e /\ e + 2 \in upper
    BY <1>1, Shifts
  <2> QED  BY <1>1, <2>1 DEF Mask, Bit, BITS
<1> QED  BY <1>3, <1>4

\* Third round: 28 and 28 in 56.
LEMMA CompactThree ==
  ASSUME NEW w \in Word
  PROVE  LET x == (w \cap Mask(64, 0, 27)) \cup Shr(w \cap Mask(64, 32, 59), 4)
         IN  /\ x \in Word
             /\ \A e \in Int : e \in x <=> e \in 0..63 /\ e <= 55 /\ e + 4 * (e \div 28) \in w
<1> DEFINE upper == w \cap Mask(64, 32, 59)
           x == (w \cap Mask(64, 0, 27)) \cup Shr(upper, 4)
<1>1. upper \in Word /\ w \cap Mask(64, 0, 27) \in Word /\ w \subseteq 0..63
  BY Parts
<1>2. Shr(upper, 4) \in Word
  BY <1>1, Shifts
<1>3. x \in Word
  BY <1>1, <1>2 DEF Word
<1>4. ASSUME NEW e \in Int
      PROVE  e \in x <=> e \in 0..63 /\ e <= 55 /\ e + 4 * (e \div 28) \in w
  <2>1. e \in Shr(upper, 4) <=> 0 <= e /\ e + 4 \in upper
    BY <1>1, Shifts
  <2> QED  BY <1>1, <2>1 DEF Mask, Bit, BITS
<1> QED  BY <1>3, <1>4

\* The rounds together: the bit of a byte is the bit of its group.
LEMMA SpreadIs ==
  ASSUME NEW v \in Word
  PROVE  /\ spread7(v) \in Word
         /\ \A e \in Int : e \in spread7(v) <=> e \in 0..63 /\ e % 8 <= 6 /\ e - e \div 8 \in v
<1> DEFINE x == (v \cap Mask(64, 0, 27)) \cup Shl(v \cap Mask(64, 28, 55), 4)
           y == (x \cap Mask(32, 0, 13)) \cup Shl(x \cap Mask(32, 14, 27), 2)
           z == (y \cap Mask(16, 0, 6)) \cup Shl(y \cap Mask(16, 7, 13), 1)
<1>1. x \in Word /\ \A e \in Int : e \in x <=> e \in 0..63 /\ e % 32 <= 27 /\ e - 4 * (e \div 32) \in v
  BY SpreadOne
<1>2. spread7(v) = z
  BY DEF spread7
<1> HIDE DEF x
<1>3. y \in Word /\ \A e \in Int : e \in y <=> e \in 0..63 /\ e % 16 <= 13 /\ e - 2 * ((e % 32) \div 16) \in x
  BY <1>1, SpreadTwo
<1> HIDE DEF y
<1>4. z \in Word /\ \A e \in Int : e \in z <=> e \in 0..63 /\ e % 8 <= 6 /\ e - ((e % 16) \div 8) \in y
  BY <1>3, SpreadThree
<1> HIDE DEF z
<1>5. ASSUME NEW e \in 0..63, e % 8 <= 6
      PROVE  e \in z <=> e - e \div 8 \in v
  <2> DEFINE e1 == e - ((e % 16) \div 8)
             e2 == e1 - 2 * ((e1 % 32) \div 16)
             e3 == e2 - 4 * (e2 \div 32)
  <2>1. /\ e1 \in 0..63 /\ e1 % 16 <= 13
        /\ e2 \in 0..63 /\ e2 % 32 <= 27
        /\ e3 = e - e \div 8
    BY <1>5
  <2>2. e \in z <=> e1 \in y
    BY <1>4, <1>5
  <2> HIDE DEF e1
  <2>3. e1 \in y <=> e2 \in x
    BY <1>3, <2>1
  <2> HIDE DEF e2
  <2>4. e2 \in x <=> e3 \in v
    BY <1>1, <2>1
  <2> HIDE DEF e3
  <2> QED  BY <2>1, <2>2, <2>3, <2>4
<1> QED  BY <1>2, <1>4, <1>5

\* The inverse: the bit of a group is the bit of its byte.
LEMMA CompactIs ==
  ASSUME NEW w \in Word
  PROVE  /\ compact7(w) \in Word
         /\ \A e \in Int : e \in compact7(w) <=> e \in 0..55 /\ e + e \div 7 \in w
<1> DEFINE x == (w \cap Mask(16, 0, 6)) \cup Shr(w \cap Mask(16, 8, 14), 1)
           y == (x \cap Mask(32, 0, 13)) \cup Shr(x \cap Mask(32, 16, 29), 2)
           z == (y \cap Mask(64, 0, 27)) \cup Shr(y \cap Mask(64, 32, 59), 4)
<1>1. x \in Word /\ \A e \in Int : e \in x <=> e \in 0..63 /\ e % 16 <= 13 /\ e + ((e % 16) \div 7) \in w
  BY CompactOne
<1>2. compact7(w) = z
  BY DEF compact7
<1> HIDE DEF x
<1>3. y \in Word /\ \A e \in Int : e \in y <=> e \in 0..63 /\ e % 32 <= 27 /\ e + 2 * ((e % 32) \div 14) \in x
  BY <1>1, CompactTwo
<1> HIDE DEF y
<1>4. z \in Word /\ \A e \in Int : e \in z <=> e \in 0..63 /\ e <= 55 /\ e + 4 * (e \div 28) \in y
  BY <1>3, CompactThree
<1> HIDE DEF z
<1>5. ASSUME NEW e \in 0..55
      PROVE  e \in z <=> e + e \div 7 \in w
  <2> DEFINE e1 == e + 4 * (e \div 28)
             e2 == e1 + 2 * ((e1 % 32) \div 14)
             e3 == e2 + ((e2 % 16) \div 7)
  <2>1. /\ e1 \in 0..63 /\ e1 % 32 <= 27
        /\ e2 \in 0..63 /\ e2 % 16 <= 13
        /\ e3 = e + e \div 7
    BY <1>5
  <2>2. e \in z <=> e1 \in y
    BY <1>4, <1>5
  <2> HIDE DEF e1
  <2>3. e1 \in y <=> e2 \in x
    BY <1>3, <2>1
  <2> HIDE DEF e2
  <2>4. e2 \in x <=> e3 \in w
    BY <1>1, <2>1
  <2> HIDE DEF e3
  <2> QED  BY <2>1, <2>2, <2>3, <2>4
<1> QED  BY <1>2, <1>4, <1>5

\* A byte is a word of eight bits.
LEMMA ByteParts ==
  ASSUME NEW m \in Seq(ByteWord), NEW i \in 1..Len(m)
  PROVE  m[i] \subseteq 0..7 /\ m[i] \in Word
<1>1. m[i] \in ByteWord
  BY ElementOfSeq
<1> QED  BY <1>1 DEF ByteWord, ByteBit, Word, Bit, BITS

\* A bit of a word is a bit of one of its bytes.
LEMMA Octets == \A e \in 0..63 : e \div 8 \in 0..7 /\ e = 8 * (e \div 8) + (e % 8)
OBVIOUS

\* Eight bytes in one word (read_word): byte k has the bits from 8k on.
LEMMA LoadIs ==
  ASSUME NEW m \in Seq(ByteWord), NEW p \in Nat \ {0}, p + 7 <= Len(m)
  PROVE  /\ Load8(m, p) \in Word
         /\ \A e \in Int : e \in Load8(m, p) <=> e \in 0..63 /\ e % 8 \in m[p + e \div 8]
<1>1. \A k \in 0..7 : m[p + k] \subseteq 0..7
  <2> TAKE k \in 0..7
  <2> DEFINE i == p + k
  <2>1. i \in 1..Len(m)
    OBVIOUS
  <2> HIDE DEF i
  <2>2. m[i] \subseteq 0..7
    BY <2>1, ByteParts
  <2> QED  BY <2>2 DEF i
<1>2. ASSUME NEW e \in Load8(m, p)
      PROVE  e \in 0..63 /\ e % 8 \in m[p + e \div 8]
  <2>1. PICK k \in 0..7 : e \in {8 * k + b : b \in m[p + k]}
    BY DEF Load8
  <2>2. PICK b \in m[p + k] : e = 8 * k + b
    BY <2>1
  <2>3. b \in 0..7
    BY <1>1, <2>1, <2>2
  <2>4. e \div 8 = k /\ e % 8 = b /\ e \in 0..63
    BY <2>2, <2>3
  <2> QED  BY <2>2, <2>4
<1>3. ASSUME NEW e \in 0..63, e % 8 \in m[p + e \div 8]
      PROVE  e \in Load8(m, p)
  <2>2. e \div 8 \in 0..7 /\ e = 8 * (e \div 8) + (e % 8)
    BY Octets
  <2> DEFINE k == e \div 8
             b == e % 8
  <2>3. k \in 0..7 /\ e = 8 * k + b /\ b \in m[p + k]
    BY <1>3, <2>2
  <2> HIDE DEF k, b
  <2>4. e \in {8 * k + c : c \in m[p + k]}
    BY <2>3
  <2>5. {8 * k + c : c \in m[p + k]} \in {{8 * i + c : c \in m[p + i]} : i \in 0..7}
    BY <2>3
  <2>6. e \in UNION {{8 * i + c : c \in m[p + i]} : i \in 0..7}
    BY <2>4, <2>5
  <2> QED  BY <2>6 DEF Load8
<1>4. Load8(m, p) \in Word
  <2>1. \A e \in Load8(m, p) : e \in 0..63
    BY <1>2
  <2> QED  BY <2>1 DEF Word, Bit, BITS
<1>5. \A e \in Int : e \in Load8(m, p) <=> e \in 0..63 /\ e % 8 \in m[p + e \div 8]
  BY <1>2, <1>3
<1> QED  BY <1>4, <1>5

-----------------------------------------------------------------------------
(***************************************************************************)
(* Reading: every path takes the groups of the bytes up to the first one   *)
(* without a continuation bit.                                             *)
(***************************************************************************)
\* The first n bytes from p go on; the n-th is the first that does not.
Runs(m, p, n) == \A i \in 0..(n - 1) : 7 \in m[p + i]
Ends(m, p, n) == Runs(m, p, n - 1) /\ 7 \notin m[p + n - 1]

\* The groups of n bytes from p, put together.
GroupBits(m, p, n) == {e \in Nat : e \div 7 < n /\ e % 7 \in m[p + e \div 7]}

ReadEnds(m, p, end, n) == Ends(m, p, n) /\ read_varint(m, p, end) = ReadOk(GroupBits(m, p, n), n)
ReadRuns(m, p, end, n) == Runs(m, p, n) /\ read_varint(m, p, end) = ReadMore
ReadTenth(m, p, end) ==
  /\ Runs(m, p, 9)
  /\ read_varint(m, p, end) = IF m[p + 9] \notin {{}, {0}} THEN ReadInvalid
                              ELSE ReadOk(GroupBits(m, p, 10), 10)

\* Some set of numbers has a least element, which Min picks.
LEMMA MinIsLeast ==
  ASSUME NEW S \in SUBSET Nat, S # {}
  PROVE  Min(S) \in S /\ \A n \in S : Min(S) <= n
<1> DEFINE Below == {pair \in Nat \X Nat : pair[1] < pair[2]}
<1>1. Order!IsWellFoundedOn(Below, Nat)
  BY Order!NatLessThanWellFounded DEF Order!OpToRel
<1> HIDE DEF Below
<1>2. PICK m \in S : \A n \in S : <<n, m>> \notin Below
  BY <1>1, Order!WFMin
<1>3. \A n \in S : m <= n
  <2> TAKE n \in S
  <2> DEFINE pair == <<n, m>>
  <2>1. pair \in Nat \X Nat /\ pair[1] = n /\ pair[2] = m
    OBVIOUS
  <2>2. pair \notin Below
    BY <1>2
  <2>3. ~(n < m)
    <3> HIDE DEF pair
    <3> QED  BY <2>1, <2>2 DEF Below
  <2> QED  BY <2>3
<1> QED  BY <1>3 DEF Min

\* The eight bytes of the word path, with those that count kept: their groups.
LEMMA WordIsGroups ==
  ASSUME NEW m \in Seq(ByteWord), NEW p \in Nat \ {0}, p + 7 <= Len(m), NEW n \in 1..8
  PROVE  compact7(Load8(m, p) \cap KEEP7(n)) = GroupBits(m, p, n)
<1> DEFINE w == Load8(m, p) \cap KEEP7(n)
<1>1. \A e \in Int : e \in Load8(m, p) <=> e \in 0..63 /\ e % 8 \in m[p + e \div 8]
  BY LoadIs
<1>2. w \in Word
  BY LoadIs, Parts
<1>3. \A e \in Int : e \in w <=> e \in 0..(8 * n - 1) /\ e % 8 <= 6 /\ e % 8 \in m[p + e \div 8]
  BY <1>1, SMTT(30) DEF KEEP7, LOW7, Mask, Bit, BITS
<1>4. compact7(w) \in Word /\ \A e \in Int : e \in compact7(w) <=> e \in 0..55 /\ e + e \div 7 \in w
  BY <1>2, CompactIs
<1> HIDE DEF w
<1>5. ASSUME NEW e \in Nat
      PROVE  e \in compact7(w) <=> e \div 7 < n /\ e % 7 \in m[p + e \div 7]
  <2> DEFINE f == e + e \div 7
  <2>1. f \in Int /\ f % 8 = e % 7 /\ f \div 8 = e \div 7 /\ (f \in 0..(8 * n - 1) <=> e \div 7 < n)
        /\ (e \div 7 < n => e \in 0..55)
    OBVIOUS
  <2>2. e \in compact7(w) <=> e \in 0..55 /\ f \in w
    BY <1>4
  <2>3. f \in w <=> f \in 0..(8 * n - 1) /\ f % 8 <= 6 /\ f % 8 \in m[p + f \div 8]
    BY <1>3, <2>1
  <2>4. e % 7 <= 6
    OBVIOUS
  <2> HIDE DEF f
  <2> QED  BY <2>1, <2>2, <2>3, <2>4
<1>6. compact7(w) \subseteq Nat
  <2>1. compact7(w) \subseteq 0..63
    BY <1>4, Parts
  <2>2. 0..63 \subseteq Nat
    OBVIOUS
  <2> QED  BY <2>1, <2>2, Zenon
<1> QED  BY <1>5, <1>6 DEF GroupBits, w

\* A byte behind the word path: its seven bits, at their place.
LEMMA ShiftedByte ==
  ASSUME NEW m \in Seq(ByteWord), NEW i \in 1..Len(m), NEW k \in 0..8, NEW e \in Nat
  PROVE  e \in Shl(m[i] \ {7}, 7 * k) <=> e \div 7 = k /\ e % 7 \in m[i]
<1> DEFINE b == m[i] \ {7}
<1>1. m[i] \subseteq 0..7
  BY ByteParts
<1>2. b \in Word
  <2>1. m[i] \in Word
    BY ByteParts
  <2> QED  BY <2>1 DEF Word
<1>3. 7 * k \in Nat /\ 7 * k <= 56
  OBVIOUS
<1>4. e \in Shl(b, 7 * k) <=> e < 64 /\ e - 7 * k \in b
  <2> DEFINE d == 7 * k
  <2> HIDE DEF b, d
  <2>1. d \in Nat
    BY <1>3 DEF d
  <2>2. \A f \in Int : f \in Shl(b, d) <=> f < 64 /\ f - d \in b
    BY <1>2, <2>1, Shifts
  <2> QED  BY <2>2 DEF d
<1>5. e - 7 * k \in b <=> e - 7 * k \in 0..6 /\ e - 7 * k \in m[i]
  BY <1>1
<1>6. e - 7 * k \in 0..6 <=> e \div 7 = k
  OBVIOUS
<1>7. e \div 7 = k => e - 7 * k = e % 7 /\ e < 64
  OBVIOUS
<1> QED  BY <1>4, <1>5, <1>6, <1>7

\* One byte.
LEMMA ReadFirst ==
  ASSUME NEW m \in Seq(ByteWord), NEW p \in 1..Len(m), NEW end \in p..Len(m), 7 \notin m[p]
  PROVE  ReadEnds(m, p, end, 1)
<1>1. m[p] \subseteq 0..7
  BY ByteParts
<1>2. ASSUME NEW e \in Nat
      PROVE  e \in m[p] <=> e \div 7 < 1 /\ e % 7 \in m[p + e \div 7]
  <2>1. CASE e \in 0..6
    <3>1. e \div 7 = 0 /\ e % 7 = e /\ p + 0 = p
      BY <2>1
    <3> QED  BY <3>1
  <2>2. CASE e \notin 0..6
    <3>1. ~(e \div 7 < 1)
      BY <2>2
    <3>2. e \notin m[p]
      BY <1>1, <2>2
    <3> QED  BY <3>1, <3>2
  <2> QED  BY <2>1, <2>2
<1>3. m[p] = GroupBits(m, p, 1)
  <2>1. m[p] \subseteq Nat
    BY <1>1
  <2> QED  BY <1>2, <2>1 DEF GroupBits
<1>4. read_varint(m, p, end) = ReadOk(m[p], 1)
  BY DEF read_varint
<1>5. Ends(m, p, 1)
  BY DEF Ends, Runs
<1> QED  BY <1>3, <1>4, <1>5 DEF ReadEnds

\* The word path and what follows it: ten bytes are readable.
LEMMA ReadWide ==
  ASSUME NEW m \in Seq(ByteWord), NEW p \in 1..Len(m), NEW end \in p..Len(m),
         end - p + 1 >= 10, 7 \in m[p]
  PROVE  (\E n \in 1..9 : ReadEnds(m, p, end, n)) \/ ReadTenth(m, p, end)
<1> DEFINE w == Load8(m, p)
           terminators == Not(w) \cap MSB
           least == Min(terminators)
           len == (least \div 8) + 1
           nine == compact7(w \cap LOW7) \cup Shl(m[p + 8] \ {7}, 56)
<1>1. p \in Nat \ {0} /\ p + 9 <= Len(m) /\ p + 7 <= Len(m)
  OBVIOUS
<1>2. read_varint(m, p, end) =
        IF terminators # {} THEN ReadOk(compact7(w \cap KEEP7(len)), len)
        ELSE IF 7 \notin m[p + 8] THEN ReadOk(nine, 9)
        ELSE read_tenth(nine, m[p + 9])
  BY DEF read_varint, read_varint_wide, MAX_VARINT_LEN
<1>3. \A e \in Int : e \in w <=> e \in 0..63 /\ e % 8 \in m[p + e \div 8]
  BY <1>1, LoadIs
<1>4. \A e \in Int : e \in terminators <=> e \in 0..63 /\ e % 8 = 7 /\ e % 8 \notin m[p + e \div 8]
  BY <1>3 DEF Not, MSB, Mask, Bit, BITS
<1>5. terminators \subseteq Nat
  BY DEF MSB, Mask, Bit
<1>6. \A k \in 0..7 : 7 \notin m[p + k] => 8 * k + 7 \in terminators
  <2> TAKE k \in 0..7
  <2> DEFINE e == 8 * k + 7
  <2>1. e \in 0..63 /\ e % 8 = 7 /\ e \div 8 = k
    OBVIOUS
  <2> HIDE DEF e
  <2> QED  BY <1>4, <2>1, SMTT(30) DEF e
<1>7. ASSUME terminators # {}
      PROVE  len \in 1..8 /\ ReadEnds(m, p, end, len)
  <2>1. least \in terminators /\ \A e \in terminators : least <= e
    BY <1>5, <1>7, MinIsLeast
  <2> HIDE DEF terminators
  <2>2. least \in 0..63 /\ least % 8 = 7 /\ 7 \notin m[p + least \div 8]
    <3>1. least \in Int
      BY <1>5, <2>1
    <3> QED  BY <1>4, <2>1, <3>1
  <2> HIDE DEF least
  <2>3. len \in 1..8 /\ p + len - 1 = p + least \div 8 /\ least = 8 * (len - 1) + 7
    BY <1>1, <2>2
  <2>4. ASSUME NEW i \in 0..(len - 1 - 1)
        PROVE  7 \in m[p + i]
    <3>1. i \in 0..7 /\ ~(least <= 8 * i + 7)
      BY <2>2, <2>3
    <3>2. 8 * i + 7 \notin terminators
      BY <2>1, <3>1
    <3> QED  BY <1>6, <3>1, <3>2
  <2>5. Ends(m, p, len)
    <3> HIDE DEF len
    <3> QED  BY <2>2, <2>3, <2>4 DEF Ends, Runs
  <2>6. compact7(w \cap KEEP7(len)) = GroupBits(m, p, len)
    <3> HIDE DEF len
    <3> QED  BY <1>1, <2>3, WordIsGroups
  <2> QED  BY <1>2, <1>7, <2>3, <2>5, <2>6 DEF ReadEnds
<1>8. ASSUME terminators = {}
      PROVE  ReadEnds(m, p, end, 9) \/ ReadTenth(m, p, end)
  <2>1. \A k \in 0..7 : 7 \in m[p + k]
    BY <1>6, <1>8
  <2>2. w \cap LOW7 = w \cap KEEP7(8)
    BY DEF KEEP7, LOW7, Mask, Bit, BITS
  <2>3. compact7(w \cap LOW7) = GroupBits(m, p, 8)
    <3>1. 8 \in 1..8
      OBVIOUS
    <3>2. compact7(w \cap KEEP7(8)) = GroupBits(m, p, 8)
      BY <1>1, <3>1, WordIsGroups
    <3> QED  BY <2>2, <3>2
  <2> DEFINE i == p + 8
  <2>4. i \in 1..Len(m)
    BY <1>1
  <2>5. \A e \in Nat : e \in Shl(m[i] \ {7}, 7 * 8) <=> e \div 7 = 8 /\ e % 7 \in m[i]
    <3>1. 8 \in 0..8
      OBVIOUS
    <3> HIDE DEF i
    <3>2. \A k \in 0..8, e \in Nat : e \in Shl(m[i] \ {7}, 7 * k) <=> e \div 7 = k /\ e % 7 \in m[i]
      BY <2>4, ShiftedByte
    <3> QED  BY <3>1, <3>2
  <2>6. \A e \in Nat : e \in nine <=> e \div 7 < 9 /\ e % 7 \in m[p + e \div 7]
    <3> TAKE e \in Nat
    <3>1. e \in nine <=> e \in GroupBits(m, p, 8) \/ e \in Shl(m[i] \ {7}, 7 * 8)
      BY <2>3
    <3>2. e \in GroupBits(m, p, 8) <=> e \div 7 < 8 /\ e % 7 \in m[p + e \div 7]
      BY DEF GroupBits
    <3>3. e \div 7 < 9 <=> e \div 7 < 8 \/ e \div 7 = 8
      OBVIOUS
    <3> QED  BY <2>5, <3>1, <3>2, <3>3
  <2>7. nine \subseteq Nat
    <3>1. m[i] \ {7} \in Word
      BY <2>4, ByteParts DEF Word
    <3>2. Shl(m[i] \ {7}, 56) \subseteq 0..63
      <4> DEFINE b == m[i] \ {7}
      <4> HIDE DEF b
      <4>1. Shl(b, 56) \in Word
        BY <3>1, Shifts DEF b
      <4> QED  BY <4>1, Parts DEF b
    <3>3. 0..63 \subseteq Nat
      OBVIOUS
    <3>4. GroupBits(m, p, 8) \subseteq Nat
      BY DEF GroupBits
    <3> QED  BY <2>3, <3>2, <3>3, <3>4
  <2>8. nine = GroupBits(m, p, 9)
    <3> HIDE DEF nine
    <3> QED  BY <2>6, <2>7 DEF GroupBits
  <2> HIDE DEF nine
  <2>9. CASE 7 \notin m[p + 8]
    <3>1. Ends(m, p, 9)
      BY <1>1, <2>1, <2>9 DEF Ends, Runs
    <3> QED  BY <1>2, <1>8, <2>8, <2>9, <3>1 DEF ReadEnds
  <2>10. CASE 7 \in m[p + 8]
    <3> DEFINE b == m[p + 9]
    <3>1. Runs(m, p, 9)
      BY <2>1, <2>10 DEF Runs
    <3>2. read_varint(m, p, end) = read_tenth(nine, b)
      BY <1>2, <1>8, <2>10
    <3>3. ASSUME b \in {{}, {0}}
          PROVE  nine \cup Shl(b, 63) = GroupBits(m, p, 10)
      <4> HIDE DEF b
      <4>1. b \in Word /\ b \subseteq {0}
        BY <3>3 DEF Word, Bit, BITS
      <4>2. \A e \in Int : e \in Shl(b, 63) <=> e < 64 /\ e - 63 \in b
        BY <4>1, Shifts
      <4>3. Shl(b, 63) \subseteq 0..63
        <5>1. Shl(b, 63) \in Word
          BY <4>1, Shifts
        <5> QED  BY <5>1, Parts
      <4>4. ASSUME NEW e \in Nat
            PROVE  e \in nine \cup Shl(b, 63) <=> e \div 7 < 10 /\ e % 7 \in m[p + e \div 7]
        <5>1. e \in nine <=> e \div 7 < 9 /\ e % 7 \in m[p + e \div 7]
          BY <2>8 DEF GroupBits
        <5>2. e \in Shl(b, 63) <=> e = 63 /\ 0 \in b
          <6>1. e \in Shl(b, 63) <=> e < 64 /\ e - 63 \in b
            BY <4>2
          <6>2. e - 63 \in b => e - 63 = 0 /\ e = 63
            BY <4>1
          <6>3. e = 63 => e < 64 /\ e - 63 = 0
            OBVIOUS
          <6> QED  BY <6>1, <6>2, <6>3
        <5>3. e \div 7 = 9 => (e % 7 = 0 <=> e = 63) /\ p + e \div 7 = p + 9
          OBVIOUS
        <5>4. e = 63 => e \div 7 = 9
          OBVIOUS
        <5>5. e \div 7 = 9 => (e % 7 \in m[p + e \div 7] <=> e = 63 /\ 0 \in b)
          BY <4>1, <5>3 DEF b
        <5>6. e \div 7 < 10 <=> e \div 7 < 9 \/ e \div 7 = 9
          OBVIOUS
        <5> QED  BY <5>1, <5>2, <5>4, <5>5, <5>6
      <4>5. nine \cup Shl(b, 63) \subseteq Nat
        <5>1. 0..63 \subseteq Nat
          OBVIOUS
        <5> QED  BY <2>7, <4>3, <5>1
      <4> QED  BY <4>4, <4>5 DEF GroupBits
    <3> QED  BY <3>1, <3>2, <3>3 DEF ReadTenth, read_tenth, MAX_VARINT_LEN
  <2> QED  BY <2>9, <2>10
<1> QED  BY <1>7, <1>8

\* The byte loop: fewer than ten bytes are readable.
LEMMA ReadTail ==
  ASSUME NEW m \in Seq(ByteWord), NEW p \in 1..Len(m), NEW end \in p..Len(m),
         end - p + 1 < 10, 7 \in m[p]
  PROVE  \/ \E n \in 1..(end - p + 1) : ReadEnds(m, p, end, n)
         \/ ReadRuns(m, p, end, end - p + 1)
<1> DEFINE ends == {i \in p..end : 7 \notin m[i]}
           least == Min(ends)
           n == least - p + 1
           value == UNION {Shl(m[p + i] \ {7}, 7 * i) : i \in 0..(n - 1)}
<1>1. read_varint(m, p, end) = IF ends = {} THEN ReadMore ELSE ReadOk(value, n)
  BY DEF read_varint, read_varint_tail, MAX_VARINT_LEN
<1>2. CASE ends = {}
  <2>1. Runs(m, p, end - p + 1)
    BY <1>2 DEF Runs
  <2> QED  BY <1>1, <1>2, <2>1 DEF ReadRuns
<1>3. CASE ends # {}
  <2>1. ends \subseteq Nat
    OBVIOUS
  <2>2. least \in ends /\ \A i \in ends : least <= i
    BY <1>3, <2>1, MinIsLeast
  <2> HIDE DEF least
  <2>3. n \in 1..(end - p + 1) /\ n \in 1..9 /\ p + n - 1 = least
    BY <2>2
  <2>4. Ends(m, p, n)
    <3>1. ASSUME NEW i \in 0..(n - 1 - 1)
          PROVE  7 \in m[p + i]
      <4>1. p + i \in p..end /\ ~(least <= p + i)
        BY <2>2
      <4>2. p + i \notin ends
        BY <2>2, <4>1
      <4> QED  BY <4>1, <4>2
    <3>2. 7 \notin m[least]
      BY <2>2
    <3> HIDE DEF n
    <3> QED  BY <2>3, <3>1, <3>2 DEF Ends, Runs
  <2> HIDE DEF n
  <2>5. \A i \in 0..(n - 1) : \A e \in Nat : e \in Shl(m[p + i] \ {7}, 7 * i) <=> e \div 7 = i /\ e % 7 \in m[p + i]
    <3> TAKE i \in 0..(n - 1)
    <3> DEFINE j == p + i
    <3>1. j \in 1..Len(m) /\ i \in 0..8
      BY <2>3
    <3> HIDE DEF j
    <3>2. \A e \in Nat : e \in Shl(m[j] \ {7}, 7 * i) <=> e \div 7 = i /\ e % 7 \in m[j]
      BY <3>1, ShiftedByte
    <3> QED  BY <3>2 DEF j
  <2>6. value \subseteq Nat
    <3>1. ASSUME NEW i \in 0..(n - 1)
          PROVE  Shl(m[p + i] \ {7}, 7 * i) \subseteq Nat
      <4> DEFINE j == p + i
                 b == m[j] \ {7}
                 d == 7 * i
      <4>1. j \in 1..Len(m) /\ d \in Nat
        BY <2>3
      <4>2. b \in Word
        <5> HIDE DEF j
        <5>1. m[j] \in Word
          BY <4>1, ByteParts
        <5> QED  BY <5>1 DEF Word
      <4> HIDE DEF b, d
      <4>3. Shl(b, d) \subseteq 0..63
        <5>1. Shl(b, d) \in Word
          BY <4>1, <4>2, Shifts
        <5> QED  BY <5>1, Parts
      <4>4. Shl(b, d) \subseteq Nat
        <5>1. 0..63 \subseteq Nat
          OBVIOUS
        <5> QED  BY <4>3, <5>1
      <4> QED  BY <4>4 DEF b, d
    <3> QED  BY <3>1
  <2>7. value = GroupBits(m, p, n)
    <3>1. ASSUME NEW e \in Nat
          PROVE  e \in value <=> e \div 7 < n /\ e % 7 \in m[p + e \div 7]
      <4>1. e \in value <=> \E i \in 0..(n - 1) : e \in Shl(m[p + i] \ {7}, 7 * i)
        OBVIOUS
      <4>2. e \in value <=> \E i \in 0..(n - 1) : e \div 7 = i /\ e % 7 \in m[p + i]
        BY <2>5, <4>1
      <4>3. e \div 7 \in 0..(n - 1) <=> e \div 7 < n
        BY <2>3
      <4> HIDE DEF value
      <4> QED  BY <4>2, <4>3
    <3> HIDE DEF value
    <3> QED  BY <2>6, <3>1 DEF GroupBits
  <2> QED  BY <1>1, <1>3, <2>3, <2>4, <2>7 DEF ReadEnds
<1> QED  BY <1>2, <1>3

\* Every read is one of these.
LEMMA ReadCases ==
  ASSUME NEW m \in Seq(ByteWord), NEW p \in 1..Len(m), NEW end \in p..Len(m)
  PROVE  \/ \E n \in 1..9 : n <= end - p + 1 /\ ReadEnds(m, p, end, n)
         \/ end - p + 1 < 10 /\ ReadRuns(m, p, end, end - p + 1)
         \/ end - p + 1 >= 10 /\ ReadTenth(m, p, end)
<1>1. CASE 7 \notin m[p]
  BY <1>1, ReadFirst
<1>2. CASE 7 \in m[p] /\ end - p + 1 >= 10
  BY <1>2, ReadWide
<1>3. CASE 7 \in m[p] /\ end - p + 1 < 10
  BY <1>3, ReadTail
<1> QED  BY <1>1, <1>2, <1>3

-----------------------------------------------------------------------------
(***************************************************************************)
(* Writing: every path leaves the groups of the value, and no more.        *)
(***************************************************************************)
\* n groups are what a value takes: no bit is beyond them, and none less would do.
Takes(v, n) == (\A e \in v : e \div 7 < n) /\ (n = 1 \/ \E e \in v : e \div 7 = n - 1)

\* Byte i, from 0, of a value in n groups.
GroupByte(v, n, i) == {b \in 0..6 : 7 * i + b \in v} \cup (IF i < n - 1 THEN {7} ELSE {})

\* The bytes of m from p are the groups of v.
Holds(m, p, v, n) == \A i \in 0..(n - 1) : m[p + i] = GroupByte(v, n, i)

\* A set of bits has a highest, which Max picks.
LEMMA MaxIsGreatest ==
  ASSUME NEW S \in SUBSET (0..63), S # {}
  PROVE  Max(S) \in S /\ \A n \in S : n <= Max(S)
<1> DEFINE T == {63 - n : n \in S}
           top == 63 - Min(T)
<1>1. T \in SUBSET Nat /\ T # {}
  <2>1. \A n \in S : 63 - n \in Nat
    OBVIOUS
  <2> QED  BY <2>1
<1>2. Min(T) \in T /\ \A n \in T : Min(T) <= n
  BY <1>1, MinIsLeast
<1>3. top \in S /\ \A n \in S : top >= n
  <2> DEFINE least == Min(T)
  <2>1. least \in T /\ \A n \in T : least <= n
    BY <1>2
  <2> HIDE DEF least
  <2>2. PICK k \in S : least = 63 - k
    BY <2>1
  <2>3. 63 - least = k
    BY <2>2
  <2>4. ASSUME NEW n \in S PROVE k >= n
    <3>1. 63 - n \in T
      OBVIOUS
    <3>2. least <= 63 - n
      BY <2>1, <3>1
    <3> QED  BY <2>2, <3>2
  <2>5. 63 - least \in S /\ \A n \in S : 63 - least >= n
    BY <2>3, <2>4
  <2> QED  BY <2>5 DEF least
<1> HIDE DEF top
<1>4. \A n \in S : n <= Max(S)
  BY <1>3 DEF Max
<1>5. Max(S) \in S
  BY <1>3 DEF Max
<1> QED  BY <1>4, <1>5

\* varint_len counts the groups a value takes.
LEMMA LenIs ==
  ASSUME NEW v \in Word
  PROVE  LET high == Max({0} \cup v)
         IN  /\ high \in {0} \cup v /\ \A e \in v : e <= high
             /\ high \in 0..63
             /\ varint_len(v) = (high \div 7) + 1 /\ varint_len(v) \in 1..MAX_VARINT_LEN
             /\ Takes(v, varint_len(v))
<1> DEFINE high == Max({0} \cup v)
           n == (high \div 7) + 1
<1>1. v \subseteq 0..63
  BY Parts
<1>2. high \in {0} \cup v /\ \A e \in {0} \cup v : e <= high
  <2>1. {0} \cup v \in SUBSET (0..63) /\ {0} \cup v # {}
    BY <1>1
  <2> QED  BY <2>1, MaxIsGreatest
<1>3. varint_len(v) = (high + 1 + 6) \div 7
  BY DEF varint_len
<1> HIDE DEF high
<1>4. high \in 0..63
  BY <1>1, <1>2
<1>5. (high + 1 + 6) \div 7 = n /\ n \in 1..10
  BY <1>4
<1>6. \A e \in v : e \div 7 < n
  <2> TAKE e \in v
  <2>1. e \in 0..63 /\ e <= high
    BY <1>1, <1>2
  <2>2. e \div 7 <= high \div 7
    BY <1>4, <2>1
  <2> QED  BY <1>4, <2>1, <2>2
<1>7. n = 1 \/ \E e \in v : e \div 7 = n - 1
  <2>1. CASE high = 0
    BY <2>1
  <2>2. CASE high # 0
    <3>1. high \in v /\ high \div 7 = n - 1
      BY <1>2, <1>4, <2>2
    <3> QED  BY <3>1
  <2> QED  BY <2>1, <2>2
<1>8. Takes(v, n)
  BY <1>6, <1>7 DEF Takes
<1>9. varint_len(v) = n
  BY <1>3, <1>5
<1> HIDE DEF n
<1>10. varint_len(v) \in 1..MAX_VARINT_LEN /\ Takes(v, varint_len(v))
  BY <1>5, <1>8, <1>9 DEF MAX_VARINT_LEN
<1> QED  BY <1>2, <1>4, <1>9, <1>10 DEF high, n

\* The shortest encoding is as long as varint_len says.
LEMMA EncodingIs ==
  ASSUME NEW v \in Word
  PROVE  LET n == varint_len(v)
         IN  /\ Encoding(v) \in Seq(ByteWord) /\ Len(Encoding(v)) = n
             /\ \A i \in 0..(n - 1) : Encoding(v)[i + 1] = GroupByte(v, n, i)
<1> DEFINE high == Max({0} \cup v)
           groups == {0} \cup {b \div 7 : b \in v}
           top == Max(groups)
           n == varint_len(v)
           byte(i) == {b \in 0..6 : 7 * (i - 1) + b \in v} \cup (IF i <= top THEN {7} ELSE {})
<1>1. v \subseteq 0..63
  BY Parts
<1>2. /\ high \in {0} \cup v /\ high \in 0..63 /\ n = (high \div 7) + 1 /\ n \in 1..10
      /\ Takes(v, n)
  BY LenIs DEF MAX_VARINT_LEN
<1>3. top \in groups /\ \A g \in groups : g <= top
  <2>1. groups \in SUBSET (0..63) /\ groups # {}
    BY <1>1
  <2> QED  BY <2>1, MaxIsGreatest
<1>4. Encoding(v) = [i \in 1..(top + 1) |-> byte(i)]
  BY DEF Encoding
<1> HIDE DEF top, n, high
<1>5. \A g \in groups : g \in 0..(n - 1)
  <2>1. \A b \in v : b \div 7 \in 0..(n - 1)
    <3> TAKE b \in v
    <3>1. b \in 0..63 /\ b \div 7 < n
      BY <1>1, <1>2 DEF Takes
    <3> QED  BY <1>2, <3>1
  <2> QED  BY <1>2, <2>1
<1>6. n - 1 \in groups
  BY <1>2 DEF Takes
<1>7. top \in 0..9 /\ top + 1 = n
  <2> HIDE DEF groups
  <2>1. top \in 0..(n - 1) /\ n - 1 <= top
    BY <1>3, <1>5, <1>6
  <2> QED  BY <1>2, <2>1
<1>8. \A i \in 1..n : byte(i) \in ByteWord
  <2> TAKE i \in 1..n
  <2>1. 0..6 \subseteq 0..7 /\ 7 \in 0..7
    OBVIOUS
  <2> QED  BY <2>1, Zenon DEF ByteWord, ByteBit
<1>9. ASSUME NEW i \in 0..(n - 1)
      PROVE  Encoding(v)[i + 1] = GroupByte(v, n, i)
  <2>1. i + 1 \in 1..(top + 1) /\ i + 1 - 1 = i /\ (i + 1 <= top <=> i < n - 1)
    BY <1>2, <1>7
  <2>2. Encoding(v)[i + 1] = byte(i + 1)
    BY <1>4, <2>1
  <2> QED  BY <2>1, <2>2 DEF GroupByte
<1>10. Encoding(v) \in Seq(ByteWord) /\ Len(Encoding(v)) = n
  <2>1. Encoding(v) = [i \in 1..n |-> byte(i)]
    BY <1>4, <1>7
  <2> HIDE DEF byte
  <2>2. Encoding(v) \in [1..n -> ByteWord]
    BY <1>8, <2>1
  <2>3. n \in Nat
    BY <1>2
  <2> QED  BY <2>1, <2>2, <2>3, SeqDef, LenProperties
<1> QED  BY <1>9, <1>10 DEF n

\* A store of eight bytes writes those and no other.
LEMMA StoreIs ==
  ASSUME NEW m \in Seq(ByteWord), NEW p \in Nat \ {0}, p + 7 <= Len(m), NEW w
  PROVE  LET s == Store8(m, p, w)
         IN  /\ s \in Seq(ByteWord) /\ Len(s) = Len(m)
             /\ \A j \in 1..(p - 1) : s[j] = m[j]
             /\ \A k \in 0..7 : s[p + k] = {b \in 0..7 : 8 * k + b \in w}
<1> DEFINE s == Store8(m, p, w)
           byte(i) == {b \in ByteBit : 8 * (i - p) + b \in w}
<1>1. Len(m) \in Nat /\ DOMAIN m = 1..Len(m) /\ \A i \in 1..Len(m) : m[i] \in ByteWord
  BY LenProperties, ElementOfSeq
<1>2. s = [i \in 1..Len(m) |-> IF i \in p..(p + 7) THEN byte(i) ELSE m[i]]
  BY <1>1 DEF Store8
<1>3. \A i : byte(i) \in ByteWord
  BY DEF ByteWord
<1>4. \A k \in 0..7 : s[p + k] = {b \in 0..7 : 8 * k + b \in w}
  <2> TAKE k \in 0..7
  <2>1. p + k \in 1..Len(m) /\ p + k \in p..(p + 7) /\ p + k - p = k
    BY <1>1
  <2>2. s[p + k] = byte(p + k)
    BY <1>2, <2>1
  <2> QED  BY <2>1, <2>2 DEF ByteBit
<1> HIDE DEF s, byte
<1>5. s \in [1..Len(m) -> ByteWord]
  BY <1>1, <1>2, <1>3
<1>6. s \in Seq(ByteWord) /\ Len(s) = Len(m)
  BY <1>1, <1>5, SeqDef, LenProperties
<1>7. \A j \in 1..(p - 1) : s[j] = m[j]
  BY <1>1, <1>2
<1> QED  BY <1>4, <1>6, <1>7 DEF s

\* Bits and continuation bits in one word: its bytes are the groups.
LEMMA StoredGroups ==
  ASSUME NEW m \in Seq(ByteWord), NEW p \in Nat \ {0}, p + 7 <= Len(m),
         NEW v \in Word, NEW n \in 1..9
  PROVE  LET s == Store8(m, p, spread7(v) \cup CONT(n))
         IN  \A i \in 0..7 : i < n => s[p + i] = GroupByte(v, n, i)
<1> DEFINE w == spread7(v) \cup CONT(n)
           s == Store8(m, p, w)
<1>1. \A e \in Int : e \in spread7(v) <=> e \in 0..63 /\ e % 8 <= 6 /\ e - e \div 8 \in v
  BY SpreadIs
<1>2. \A e \in Int : e \in CONT(n) <=> e \in 0..63 /\ e % 8 = 7 /\ e \in 0..(8 * (n - 1) - 1)
  BY DEF CONT, MSB, Mask, Bit, BITS
<1>3. \A i \in 0..7 : s[p + i] = {b \in 0..7 : 8 * i + b \in w}
  BY StoreIs
<1>4. ASSUME NEW i \in 0..7, NEW b \in 0..7
      PROVE  8 * i + b \in w <=> (b <= 6 /\ 7 * i + b \in v) \/ (b = 7 /\ i < n - 1)
  <2> DEFINE e == 8 * i + b
  <2>1. /\ e \in 0..63 /\ e % 8 = b /\ e - e \div 8 = 7 * i + b
        /\ (b = 7 => (e \in 0..(8 * (n - 1) - 1) <=> i < n - 1))
    OBVIOUS
  <2> HIDE DEF e
  <2>2. e \in spread7(v) <=> b <= 6 /\ 7 * i + b \in v
    BY <1>1, <2>1
  <2>3. e \in CONT(n) <=> b = 7 /\ i < n - 1
    BY <1>2, <2>1
  <2>4. e \in w <=> e \in spread7(v) \/ e \in CONT(n)
    OBVIOUS
  <2> QED  BY <2>2, <2>3, <2>4 DEF e
<1>5. ASSUME NEW i \in 0..7, i < n
      PROVE  s[p + i] = GroupByte(v, n, i)
  <2> DEFINE stored == {b \in 0..7 : 8 * i + b \in w}
  <2>1. s[p + i] = stored
    BY <1>3
  <2>2. ASSUME NEW b PROVE b \in stored <=> b \in GroupByte(v, n, i)
    <3> DEFINE more == IF i < n - 1 THEN {7} ELSE {}
    <3>1. b \in more <=> b = 7 /\ i < n - 1
      OBVIOUS
    <3>2. b \in GroupByte(v, n, i) <=> (b \in 0..6 /\ 7 * i + b \in v) \/ b \in more
      BY DEF GroupByte
    <3>3. b \in stored <=> b \in 0..7 /\ ((b <= 6 /\ 7 * i + b \in v) \/ (b = 7 /\ i < n - 1))
      BY <1>4
    <3> HIDE DEF more, stored
    <3> QED  BY <3>1, <3>2, <3>3
  <2> HIDE DEF stored
  <2> QED  BY <2>1, <2>2
<1> QED  BY <1>5
\* The ninth byte of a value that takes it: the bits from 56 on.
LEMMA UpperBits ==
  ASSUME NEW v \in Word
  PROVE  LET hi == Shr(v, 56)
         IN  /\ hi \in ByteWord /\ hi \cup {7} \in ByteWord
             /\ (hi = {} <=> varint_len(v) <= 8)
             /\ (63 \in v <=> varint_len(v) = 10)
             /\ (varint_len(v) = 9 => hi = GroupByte(v, 9, 8))
             /\ (varint_len(v) = 10 => /\ hi \cup {7} = GroupByte(v, 10, 8)
                                       /\ {0} = GroupByte(v, 10, 9))
<1> DEFINE hi == Shr(v, 56)
           n == varint_len(v)
<1>1. v \subseteq 0..63
  BY Parts
<1>2. hi \in Word /\ \A e \in Int : e \in hi <=> 0 <= e /\ e + 56 \in v
  BY Shifts
<1>3. n \in 1..10 /\ Takes(v, n)
  BY LenIs DEF MAX_VARINT_LEN
<1> HIDE DEF hi, n
<1>4. \A e \in v : e \in 0..63 /\ e \div 7 < n
  BY <1>1, <1>3 DEF Takes
<1>5. n # 1 => \E e \in v : e \in 0..63 /\ e \div 7 = n - 1
  BY <1>1, <1>3 DEF Takes
<1>6. hi \subseteq 0..63
  BY <1>2, Parts
<1>7. ASSUME NEW e, e \in hi
      PROVE  e \in 0..7 /\ e + 56 \in v
  <2>1. e \in 0..63
    BY <1>6, <1>7
  <2>2. e + 56 \in v
    BY <1>2, <1>7, <2>1
  <2>3. e + 56 \in 0..63
    BY <1>1, <2>2
  <2> QED  BY <2>1, <2>2, <2>3
<1>8. hi \in ByteWord /\ hi \cup {7} \in ByteWord
  <2>1. hi \subseteq 0..7 /\ 7 \in 0..7
    BY <1>7
  <2> QED  BY <2>1, Zenon DEF ByteWord, ByteBit
<1>9. hi = {} <=> n <= 8
  <2>1. CASE n <= 8
    <3>1. \A e \in hi : e \in 0..7 /\ (e + 56) \div 7 < 8
      BY <1>3, <1>4, <1>7, <2>1
    <3> QED  BY <2>1, <3>1
  <2>2. CASE ~(n <= 8)
    <3>1. PICK e \in v : e \in 0..63 /\ e \div 7 = n - 1
      BY <1>3, <1>5, <2>2
    <3>2. e - 56 \in Int /\ 0 <= e - 56 /\ e - 56 + 56 = e
      BY <1>3, <2>2, <3>1
    <3>3. e - 56 \in hi
      BY <1>2, <3>2
    <3> QED  BY <2>2, <3>3
  <2> QED  BY <2>1, <2>2
<1>10. 63 \in v <=> n = 10
  <2>1. 63 \in v => n = 10
    BY <1>3, <1>4
  <2>2. n = 10 => 63 \in v
    <3>1. \A e \in 0..63 : e \div 7 = 9 => e = 63
      OBVIOUS
    <3> QED  BY <1>5, <3>1
  <2> QED  BY <2>1, <2>2
<1>11. \A b \in 0..6 : b \in hi <=> 7 * 8 + b \in v
  <2> TAKE b \in 0..6
  <2>1. b \in Int /\ 0 <= b /\ b + 56 = 7 * 8 + b
    OBVIOUS
  <2> QED  BY <1>2, <2>1
<1>12. ASSUME n = 9
       PROVE  hi = GroupByte(v, 9, 8)
  <2>1. GroupByte(v, 9, 8) = {b \in 0..6 : 7 * 8 + b \in v}
    BY DEF GroupByte
  <2>2. 7 \notin hi
    BY <1>2, <1>10, <1>12
  <2>3. hi \subseteq 0..6
    BY <1>7, <2>2
  <2> QED  BY <1>11, <2>1, <2>3
<1>13. ASSUME n = 10
       PROVE  hi \cup {7} = GroupByte(v, 10, 8) /\ {0} = GroupByte(v, 10, 9)
  <2>1. GroupByte(v, 10, 8) = {b \in 0..6 : 7 * 8 + b \in v} \cup {7}
    BY DEF GroupByte
  <2>2. hi \cup {7} = {b \in 0..6 : 7 * 8 + b \in v} \cup {7}
    <3>1. \A b \in hi : b \in 0..6 \/ b = 7
      BY <1>7
    <3> QED  BY <1>11, <3>1
  <2>3. GroupByte(v, 10, 9) = {b \in 0..6 : 7 * 9 + b \in v}
    BY DEF GroupByte
  <2>4. \A b \in 0..6 : 7 * 9 + b \in v <=> b = 0
    <3> TAKE b \in 0..6
    <3>1. 7 * 9 + b \in v => b = 0
      BY <1>4
    <3>2. 7 * 9 + 0 = 63
      OBVIOUS
    <3> QED  BY <1>10, <1>13, <3>1, <3>2
  <2>5. 0 \in 0..6
    OBVIOUS
  <2> QED  BY <2>1, <2>2, <2>3, <2>4, <2>5
<1> QED  BY <1>8, <1>9, <1>10, <1>12, <1>13 DEF hi, n

\* What a write leaves: the groups of the value from p on, and the same before p.
LeavesGroups(m, p, v, result) ==
  /\ result.mem \in Seq(ByteWord) /\ Len(result.mem) = Len(m)
  /\ \A j \in 1..(p - 1) : result.mem[j] = m[j]
  /\ result.len = varint_len(v) /\ Holds(result.mem, p, v, varint_len(v))

LEMMA WriteIs ==
  ASSUME NEW m \in Seq(ByteWord), NEW p \in Nat \ {0}, p + 9 <= Len(m), NEW v \in Word
  PROVE  LeavesGroups(m, p, v, write_varint_unchecked(m, p, v))
<1> DEFINE n == varint_len(v)
           hi == Shr(v, 56)
           short == Store8(m, p, spread7(v) \cup CONT(n))
           eight == Store8(m, p, spread7(v) \cup MSB)
           nine == [eight EXCEPT ![p + 8] = hi]
           ten == [eight EXCEPT ![p + 8] = hi \cup {7}, ![p + 9] = {0}]
<1>1. write_varint_unchecked(m, p, v) =
        IF hi = {} THEN [mem |-> short, len |-> n]
        ELSE IF 63 \notin v THEN [mem |-> nine, len |-> 9] ELSE [mem |-> ten, len |-> 10]
  BY DEF write_varint_unchecked, MAX_VARINT_LEN
<1>2. n \in 1..10
  BY LenIs DEF MAX_VARINT_LEN
<1>3. /\ hi \in ByteWord /\ hi \cup {7} \in ByteWord
      /\ (hi = {} <=> n <= 8)
      /\ (63 \in v <=> n = 10)
      /\ (n = 9 => hi = GroupByte(v, 9, 8))
      /\ (n = 10 => hi \cup {7} = GroupByte(v, 10, 8) /\ {0} = GroupByte(v, 10, 9))
  BY UpperBits
<1>4. p + 7 <= Len(m) /\ Len(m) \in Nat
  BY LenProperties
<1>5. /\ short \in Seq(ByteWord) /\ Len(short) = Len(m)
      /\ \A j \in 1..(p - 1) : short[j] = m[j]
  BY <1>4, StoreIs
<1>6. /\ eight \in Seq(ByteWord) /\ Len(eight) = Len(m)
      /\ \A j \in 1..(p - 1) : eight[j] = m[j]
  BY <1>4, StoreIs
<1>7. n \in 1..9 => \A i \in 0..7 : i < n => short[p + i] = GroupByte(v, n, i)
  BY <1>4, StoredGroups
<1>8. \A i \in 0..7 : eight[p + i] = GroupByte(v, 9, i) /\ GroupByte(v, 10, i) = GroupByte(v, 9, i)
  <2>1. CONT(9) = MSB
    BY DEF CONT, MSB, Mask, Bit, BITS
  <2>2. 9 \in 1..9
    OBVIOUS
  <2>3. \A i \in 0..7 : i < 9 => Store8(m, p, spread7(v) \cup CONT(9))[p + i] = GroupByte(v, 9, i)
    BY <1>4, <2>2, StoredGroups
  <2>4. \A i \in 0..7 : eight[p + i] = GroupByte(v, 9, i)
    <3>1. \A i \in 0..7 : i < 9
      OBVIOUS
    <3> QED  BY <2>1, <2>3, <3>1
  <2>5. \A i \in 0..7 : GroupByte(v, 10, i) = GroupByte(v, 9, i)
    BY DEF GroupByte
  <2> QED  BY <2>4, <2>5
<1> HIDE DEF n, hi, short, eight
<1>9. CASE hi = {}
  <2>1. n \in 1..8
    BY <1>2, <1>3, <1>9
  <2>2. Holds(short, p, v, n)
    <3>1. \A i \in 0..(n - 1) : i \in 0..7 /\ i < n
      BY <2>1
    <3>2. n \in 1..9
      BY <2>1
    <3> QED  BY <1>7, <3>1, <3>2 DEF Holds
  <2>3. write_varint_unchecked(m, p, v) = [mem |-> short, len |-> n]
    BY <1>1, <1>9
  <2> QED  BY <1>5, <2>2, <2>3 DEF LeavesGroups, n
<1>10. CASE hi # {} /\ 63 \notin v
  <2>1. n = 9
    BY <1>2, <1>3, <1>10
  <2>2. p + 8 \in 1..Len(eight)
    BY <1>4, <1>6
  <2>3. nine \in Seq(ByteWord) /\ Len(nine) = Len(m)
    BY <1>3, <1>6, <2>2, ExceptSeq
  <2>4. \A j \in 1..(p - 1) : nine[j] = m[j]
    BY <1>4, <1>6
  <2>5. Holds(nine, p, v, 9)
    <3> HIDE DEF nine
    <3> SUFFICES ASSUME NEW i \in 0..(9 - 1)
                 PROVE  nine[p + i] = GroupByte(v, 9, i)
      BY DEF Holds
    <3> USE DEF nine
    <3>1. CASE i = 8
      BY <1>3, <2>1, <2>2, <1>6, <3>1, LenProperties
    <3>2. CASE i \in 0..7
      <4>1. nine[p + i] = eight[p + i]
        BY <1>4, <1>6, <3>2
      <4> QED  BY <1>8, <3>2, <4>1
    <3> QED  BY <3>1, <3>2
  <2>6. write_varint_unchecked(m, p, v) = [mem |-> nine, len |-> 9]
    BY <1>1, <1>10
  <2> HIDE DEF nine
  <2> QED  BY <2>1, <2>3, <2>4, <2>5, <2>6 DEF LeavesGroups, n
<1>11. CASE hi # {} /\ 63 \in v
  <2> DEFINE first == [eight EXCEPT ![p + 8] = hi \cup {7}]
  <2>1. n = 10
    BY <1>3, <1>11
  <2>2. p + 8 \in 1..Len(eight) /\ p + 9 \in 1..Len(eight)
    BY <1>4, <1>6
  <2>3. first \in Seq(ByteWord) /\ Len(first) = Len(m)
    BY <1>3, <1>6, <2>2, ExceptSeq
  <2>4. ten = [first EXCEPT ![p + 9] = {0}]
    OBVIOUS
  <2>5. {0} \in ByteWord
    BY DEF ByteWord, ByteBit
  <2>6. \A i \in 1..Len(m) : first[i] = IF i = p + 8 THEN hi \cup {7} ELSE eight[i]
    BY <1>6, LenProperties
  <2> HIDE DEF first, ten
  <2>7. ten \in Seq(ByteWord) /\ Len(ten) = Len(m)
    <3>1. p + 9 \in 1..Len(first)
      BY <1>4, <2>3
    <3> QED  BY <2>3, <2>4, <2>5, <3>1, ExceptSeq
  <2>8. \A i \in 1..Len(m) : ten[i] = IF i = p + 9 THEN {0} ELSE first[i]
    BY <2>3, <2>4, LenProperties
  <2>9. \A j \in 1..(p - 1) : ten[j] = m[j]
    BY <1>4, <1>6, <2>6, <2>8
  <2>10. Holds(ten, p, v, 10)
    <3> SUFFICES ASSUME NEW i \in 0..(10 - 1)
                 PROVE  ten[p + i] = GroupByte(v, 10, i)
      BY DEF Holds
    <3>1. p + i \in 1..Len(m)
      BY <1>4
    <3>2. CASE i = 9
      BY <1>3, <2>1, <2>8, <3>1, <3>2
    <3>3. CASE i = 8
      <4>1. ten[p + i] = hi \cup {7}
        BY <2>6, <2>8, <3>1, <3>3
      <4> QED  BY <1>3, <2>1, <3>3, <4>1
    <3>4. CASE i \in 0..7
      <4>1. ten[p + i] = eight[p + i]
        BY <2>6, <2>8, <3>1, <3>4
      <4> QED  BY <1>8, <3>4, <4>1
    <3> QED  BY <3>2, <3>3, <3>4
  <2>11. write_varint_unchecked(m, p, v) = [mem |-> ten, len |-> 10]
    BY <1>1, <1>11
  <2> QED  BY <2>1, <2>7, <2>9, <2>10, <2>11 DEF LeavesGroups, n
<1> QED  BY <1>9, <1>10, <1>11

\* The narrow write leaves one byte alone when that is what the value takes.
LEMMA NarrowIs ==
  ASSUME NEW m \in Seq(ByteWord), NEW p \in Nat \ {0}, p + 9 <= Len(m), NEW v \in Word
  PROVE  LeavesGroups(m, p, v, write_varint_unchecked_narrow(m, p, v))
<1>1. CASE v \subseteq 0..6
  <2> DEFINE one == [m EXCEPT ![p] = v]
             n == varint_len(v)
  <2>1. v \in ByteWord
    BY <1>1 DEF ByteWord, ByteBit
  <2>2. p \in 1..Len(m) /\ Len(m) \in Nat
    BY LenProperties
  <2>3. one \in Seq(ByteWord) /\ Len(one) = Len(m)
    BY <2>1, <2>2, ExceptSeq
  <2>4. \A j \in 1..(p - 1) : one[j] = m[j]
    BY <2>2
  <2>5. one[p] = v
    BY <2>2, LenProperties
  <2>6. n \in 1..10 /\ Takes(v, n)
    BY LenIs DEF MAX_VARINT_LEN
  <2> HIDE DEF one, n
  <2>7. n = 1
    <3>1. \A e \in v : e \in 0..6 /\ e \div 7 = 0
      BY <1>1
    <3> QED  BY <2>6, <3>1 DEF Takes
  <2>8. GroupByte(v, 1, 0) = v
    <3>1. GroupByte(v, 1, 0) = {b \in 0..6 : 7 * 0 + b \in v}
      BY DEF GroupByte
    <3>2. \A b \in 0..6 : 7 * 0 + b = b
      OBVIOUS
    <3> QED  BY <1>1, <3>1, <3>2
  <2>9. Holds(one, p, v, 1)
    BY <2>5, <2>8 DEF Holds
  <2>10. write_varint_unchecked_narrow(m, p, v) = [mem |-> one, len |-> 1]
    BY <1>1 DEF write_varint_unchecked_narrow, one
  <2> QED  BY <2>3, <2>4, <2>7, <2>9, <2>10 DEF LeavesGroups, n
<1>2. CASE ~(v \subseteq 0..6)
  BY <1>2, WriteIs DEF write_varint_unchecked_narrow
<1> QED  BY <1>1, <1>2

-----------------------------------------------------------------------------
(***************************************************************************)
(* What was written is read, and every read is the reference's.            *)
(***************************************************************************)
\* Only one byte can be the first that does not go on.
LEMMA OneEnd ==
  ASSUME NEW m, NEW p \in Nat, NEW n \in Nat \ {0}, NEW k \in Nat \ {0},
         Ends(m, p, n), Ends(m, p, k)
  PROVE  n = k
<1>1. \A i \in 0..(n - 1 - 1) : 7 \in m[p + i]
  BY DEF Ends, Runs
<1>2. \A i \in 0..(k - 1 - 1) : 7 \in m[p + i]
  BY DEF Ends, Runs
<1>3. 7 \notin m[p + n - 1] /\ 7 \notin m[p + k - 1]
  BY DEF Ends
<1>4. p + n - 1 = p + (n - 1) /\ p + k - 1 = p + (k - 1)
  OBVIOUS
<1>5. ~(n < k)
  <2> SUFFICES ASSUME n < k PROVE FALSE
    OBVIOUS
  <2>1. n - 1 \in 0..(k - 1 - 1)
    OBVIOUS
  <2> QED  BY <1>2, <1>3, <1>4, <2>1
<1>6. ~(k < n)
  <2> SUFFICES ASSUME k < n PROVE FALSE
    OBVIOUS
  <2>1. k - 1 \in 0..(n - 1 - 1)
    OBVIOUS
  <2> QED  BY <1>1, <1>3, <1>4, <2>1
<1> QED  BY <1>5, <1>6

\* The groups of a value put together are the value.
LEMMA HeldGroups ==
  ASSUME NEW m, NEW p \in Nat, NEW v \in Word, Holds(m, p, v, varint_len(v))
  PROVE  Ends(m, p, varint_len(v)) /\ GroupBits(m, p, varint_len(v)) = v
<1> DEFINE n == varint_len(v)
<1>1. v \subseteq 0..63
  BY Parts
<1>2. n \in 1..10 /\ Takes(v, n)
  BY LenIs DEF MAX_VARINT_LEN
<1> HIDE DEF n
<1>3. \A i \in 0..(n - 1) : m[p + i] = {b \in 0..6 : 7 * i + b \in v} \cup (IF i < n - 1 THEN {7} ELSE {})
  BY DEF Holds, GroupByte, n
<1>4. Ends(m, p, n)
  <2>1. ASSUME NEW i \in 0..(n - 1 - 1)
        PROVE  7 \in m[p + i]
    <3>1. i \in 0..(n - 1) /\ i < n - 1
      BY <1>2
    <3> QED  BY <1>3, <3>1
  <2>2. 7 \notin m[p + n - 1]
    <3> DEFINE i == n - 1
    <3>1. i \in 0..(n - 1) /\ ~(i < n - 1) /\ p + n - 1 = p + i
      BY <1>2
    <3> HIDE DEF i
    <3>2. m[p + i] = {b \in 0..6 : 7 * i + b \in v}
      BY <1>3, <3>1
    <3>3. 7 \notin 0..6
      OBVIOUS
    <3> QED  BY <3>1, <3>2, <3>3
  <2> QED  BY <2>1, <2>2 DEF Ends, Runs
<1>5. ASSUME NEW e \in Nat
      PROVE  (e \div 7 < n /\ e % 7 \in m[p + e \div 7]) <=> e \in v
  <2> DEFINE i == e \div 7
             b == e % 7
  <2>1. i \in Nat /\ b \in 0..6 /\ 7 * i + b = e
    OBVIOUS
  <2>2. e \in v => i < n
    BY <1>2 DEF Takes
  <2> HIDE DEF i, b
  <2>3. i < n => i \in 0..(n - 1)
    BY <1>2, <2>1
  <2>4. i < n => (b \in m[p + i] <=> 7 * i + b \in v)
    <3> SUFFICES ASSUME i < n PROVE b \in m[p + i] <=> 7 * i + b \in v
      OBVIOUS
    <3> DEFINE more == IF i < n - 1 THEN {7} ELSE {}
    <3>1. m[p + i] = {c \in 0..6 : 7 * i + c \in v} \cup more
      BY <1>3, <2>3
    <3>2. b \notin more
      BY <2>1
    <3> HIDE DEF more
    <3> QED  BY <2>1, <3>1, <3>2
  <2>5. (i < n /\ b \in m[p + i]) <=> e \in v
    BY <2>1, <2>2, <2>4
  <2> QED  BY <2>5 DEF i, b
<1>6. v \subseteq Nat
  BY <1>1
<1>7. GroupBits(m, p, n) = v
  BY <1>5, <1>6 DEF GroupBits
<1> QED  BY <1>4, <1>7 DEF n

\* Reading the groups of a value gives the value, whatever is behind them.
LEMMA ReadBack ==
  ASSUME NEW m \in Seq(ByteWord), NEW p \in 1..Len(m), NEW end \in p..Len(m),
         NEW v \in Word, Holds(m, p, v, varint_len(v)), p + varint_len(v) - 1 <= end
  PROVE  read_varint(m, p, end) = ReadOk(v, varint_len(v))
<1> DEFINE n == varint_len(v)
<1>1. n \in 1..10 /\ Takes(v, n)
  BY LenIs DEF MAX_VARINT_LEN
<1>2. Ends(m, p, n) /\ GroupBits(m, p, n) = v
  BY HeldGroups
<1>3. n = 10 => m[p + 9] \in {{}, {0}}
  <2> SUFFICES ASSUME n = 10 PROVE m[p + 9] \in {{}, {0}}
    OBVIOUS
  <2>1. m[p + 9] = GroupByte(v, 10, 9)
    <3>1. 9 \in 0..(10 - 1)
      OBVIOUS
    <3> QED  BY <3>1 DEF Holds
  <2>2. {0} = GroupByte(v, 10, 9)
    BY UpperBits
  <2> QED  BY <2>1, <2>2
<1> HIDE DEF n
<1>4. \A i \in 0..(n - 1 - 1) : 7 \in m[p + i]
  BY <1>2 DEF Ends, Runs
<1>5. 7 \notin m[p + n - 1]
  BY <1>2 DEF Ends
<1>6. p + n - 1 = p + (n - 1) /\ n - 1 \in Int /\ p + n - 1 <= end
  BY <1>1 DEF n
<1>7. ASSUME NEW k \in 1..9, ReadEnds(m, p, end, k)
      PROVE  read_varint(m, p, end) = ReadOk(v, n)
  <2>1. Ends(m, p, k) /\ read_varint(m, p, end) = ReadOk(GroupBits(m, p, k), k)
    BY <1>7 DEF ReadEnds
  <2>2. k = n
    BY <1>1, <1>2, <2>1, OneEnd
  <2> QED  BY <1>2, <2>1, <2>2
<1>8. ~ReadRuns(m, p, end, end - p + 1)
  <2> SUFFICES ASSUME Runs(m, p, end - p + 1) PROVE FALSE
    BY DEF ReadRuns
  <2>1. n - 1 \in 0..(end - p + 1 - 1)
    BY <1>1, <1>6
  <2>2. 7 \in m[p + (n - 1)]
    BY <2>1, SMTT(30) DEF Runs
  <2> QED  BY <1>5, <1>6, <2>2
<1>9. ASSUME ReadTenth(m, p, end)
      PROVE  read_varint(m, p, end) = ReadOk(v, n)
  <2>1. \A i \in 0..8 : 7 \in m[p + i]
    BY <1>9, SMTT(30) DEF ReadTenth, Runs
  <2>2. ~(n - 1 \in 0..8)
    BY <1>5, <1>6, <2>1
  <2>3. n = 10
    BY <1>1, <2>2
  <2> QED  BY <1>2, <1>3, <1>9, <2>3 DEF ReadTenth
<1>10. (\E k \in 1..9 : ReadEnds(m, p, end, k)) \/ ReadRuns(m, p, end, end - p + 1)
       \/ ReadTenth(m, p, end)
  BY ReadCases
<1> QED  BY <1>7, <1>8, <1>9, <1>10 DEF n

\* The reference's value is the groups put together.
LEMMA ReferenceBits ==
  ASSUME NEW m \in Seq(ByteWord), NEW p \in 1..Len(m), NEW end \in p..Len(m),
         NEW n \in 1..(end - p + 1)
  PROVE  LET s == SubSeq(m, p, end)
         IN  UNION {{7 * (i - 1) + b : b \in s[i] \ {7}} : i \in 1..n} = GroupBits(m, p, n)
<1> DEFINE s == SubSeq(m, p, end)
           bits(i) == {7 * (i - 1) + b : b \in s[i] \ {7}}
           value == UNION {bits(i) : i \in 1..n}
<1>1. \A i \in 1..n : s[i] = m[p + (i - 1)] /\ s[i] \subseteq 0..7
  <2> TAKE i \in 1..n
  <2> DEFINE j == p + (i - 1)
  <2>1. j \in 1..Len(m) /\ i \in 1..(end - p + 1) /\ p + i - 1 = j
    BY LenProperties
  <2>2. s[i] = m[p + i - 1]
    BY <2>1
  <2> HIDE DEF j, s
  <2>3. m[j] \subseteq 0..7
    BY <2>1, ByteParts
  <2> QED  BY <2>1, <2>2, <2>3 DEF j
<1> HIDE DEF s
<1>2. ASSUME NEW i \in 1..n, NEW e
      PROVE  e \in bits(i) <=> e \in Nat /\ e \div 7 = i - 1 /\ e % 7 \in s[i]
  <2>1. ASSUME e \in bits(i)
        PROVE  e \in Nat /\ e \div 7 = i - 1 /\ e % 7 \in s[i]
    <3>1. PICK b \in s[i] \ {7} : e = 7 * (i - 1) + b
      BY <2>1
    <3>2. b \in 0..6
      BY <1>1, <3>1
    <3>3. e \in Nat /\ e \div 7 = i - 1 /\ e % 7 = b
      BY <3>1, <3>2
    <3> QED  BY <3>1, <3>3
  <2>2. ASSUME e \in Nat, e \div 7 = i - 1, e % 7 \in s[i]
        PROVE  e \in bits(i)
    <3>1. e = 7 * (i - 1) + (e % 7) /\ e % 7 # 7
      BY <2>2
    <3> QED  BY <2>2, <3>1
  <2> QED  BY <2>1, <2>2
<1> HIDE DEF bits
<1>3. ASSUME NEW e
      PROVE  e \in value <=> e \in Nat /\ e \div 7 < n /\ e % 7 \in m[p + e \div 7]
  <2>1. e \in value <=> \E i \in 1..n : e \in bits(i)
    OBVIOUS
  <2>2. ASSUME NEW i \in 1..n, e \in bits(i)
        PROVE  e \in Nat /\ e \div 7 < n /\ e % 7 \in m[p + e \div 7]
    <3>1. e \in Nat /\ e \div 7 = i - 1 /\ e % 7 \in s[i]
      BY <1>2, <2>2
    <3>2. i - 1 < n
      OBVIOUS
    <3> QED  BY <1>1, <3>1, <3>2
  <2>3. ASSUME e \in Nat, e \div 7 < n, e % 7 \in m[p + e \div 7]
        PROVE  \E i \in 1..n : e \in bits(i)
    <3> DEFINE i == e \div 7 + 1
    <3>1. i \in 1..n /\ e \div 7 = i - 1
      BY <2>3
    <3> HIDE DEF i
    <3>2. e % 7 \in s[i]
      BY <1>1, <2>3, <3>1
    <3> QED  BY <1>2, <2>3, <3>1, <3>2
  <2> HIDE DEF value
  <2> QED  BY <2>1, <2>2, <2>3
<1>4. value = GroupBits(m, p, n)
  <2> HIDE DEF value
  <2> QED  BY <1>3 DEF GroupBits
<1> QED  BY <1>4 DEF bits, s

\* The reference's ends are the bytes that do not go on, the first of them the least.
LEMMA ReferenceEnd ==
  ASSUME NEW m \in Seq(ByteWord), NEW p \in 1..Len(m), NEW end \in p..Len(m)
  PROVE  LET s == SubSeq(m, p, end)
             ends == {i \in DOMAIN s : 7 \notin s[i]}
         IN  /\ Len(s) = end - p + 1
             /\ ends = {i \in 1..(end - p + 1) : 7 \notin m[p + (i - 1)]}
             /\ \A n \in 1..(end - p + 1) : Ends(m, p, n) => n \in ends /\ Min(ends) = n
<1> DEFINE s == SubSeq(m, p, end)
           ends == {i \in DOMAIN s : 7 \notin s[i]}
           stops == {i \in 1..(end - p + 1) : 7 \notin m[p + (i - 1)]}
<1>1. Len(s) = end - p + 1 /\ DOMAIN s = 1..(end - p + 1)
  BY LenProperties
<1>2. \A i \in 1..(end - p + 1) : s[i] = m[p + (i - 1)]
  <2> TAKE i \in 1..(end - p + 1)
  <2>1. s[i] = m[p + i - 1]
    BY LenProperties
  <2>2. p + i - 1 = p + (i - 1)
    OBVIOUS
  <2> QED  BY <2>1, <2>2
<1>3. ends = stops
  <2> HIDE DEF s
  <2> QED  BY <1>1, <1>2
<1>4. ASSUME NEW n \in 1..(end - p + 1), Ends(m, p, n)
      PROVE  n \in stops /\ Min(stops) = n
  <2>1. (\A i \in 0..(n - 1 - 1) : 7 \in m[p + i]) /\ 7 \notin m[p + n - 1]
    BY <1>4 DEF Ends, Runs
  <2>2. p + n - 1 = p + (n - 1)
    OBVIOUS
  <2>3. n \in stops
    BY <2>1, <2>2
  <2>4. stops \in SUBSET Nat
    OBVIOUS
  <2>5. Min(stops) \in stops /\ \A i \in stops : Min(stops) <= i
    BY <2>3, <2>4, MinIsLeast
  <2> DEFINE least == Min(stops)
  <2>6. least \in 1..(end - p + 1) /\ 7 \notin m[p + (least - 1)] /\ least <= n
    BY <2>3, <2>5
  <2> HIDE DEF least
  <2>7. ~(least - 1 \in 0..(n - 1 - 1))
    BY <2>1, <2>6
  <2>8. least = n
    BY <2>6, <2>7
  <2> QED  BY <2>3, <2>8 DEF least
<1> QED  BY <1>1, <1>3, <1>4

\* Every read answers what the reference does.
LEMMA ReadIsReference ==
  ASSUME NEW m \in Seq(ByteWord), NEW p \in 1..Len(m), NEW end \in p..Len(m)
  PROVE  read_varint(m, p, end) = Decoding(SubSeq(m, p, end))
<1> DEFINE s == SubSeq(m, p, end)
           ends == {i \in DOMAIN s : 7 \notin s[i]}
           n == Min(ends)
           value == UNION {{7 * (i - 1) + b : b \in s[i] \ {7}} : i \in 1..n}
           size == end - p + 1
           answer == Decoding(s)
<1>1. answer = IF Len(s) >= 10 /\ \A i \in ends : i > 10 THEN ReadInvalid
               ELSE IF ends = {} THEN ReadMore
               ELSE IF value \subseteq Bit THEN ReadOk(value, n)
               ELSE ReadInvalid
  BY DEF Decoding, MAX_VARINT_LEN
<1>2. /\ Len(s) = size
      /\ ends = {i \in 1..size : 7 \notin m[p + (i - 1)]}
      /\ \A k \in 1..size : Ends(m, p, k) => k \in ends /\ n = k
  BY ReferenceEnd
<1>3. n \in 1..size => value = GroupBits(m, p, n)
  BY ReferenceBits
<1> HIDE DEF s, ends, n, value, answer
<1>4. size \in Nat \ {0}
  OBVIOUS
<1>0. Bit = 0..63
  BY DEF Bit, BITS
<1>5. ASSUME NEW k \in 1..10, k <= size, Ends(m, p, k)
      PROVE  answer = IF GroupBits(m, p, k) \subseteq Bit THEN ReadOk(GroupBits(m, p, k), k)
                      ELSE ReadInvalid
  <2>1. k \in 1..size /\ ~(k > 10)
    BY <1>4, <1>5
  <2> HIDE DEF size
  <2>2. k \in ends /\ n = k
    BY <1>2, <1>5, <2>1
  <2>3. value = GroupBits(m, p, k)
    BY <1>3, <2>1, <2>2
  <2> QED  BY <1>1, <2>1, <2>2, <2>3
<1>6. ASSUME NEW k \in 1..9
      PROVE  GroupBits(m, p, k) \subseteq Bit
  <2>1. \A e \in Nat : e \div 7 < k => e \in 0..63
    OBVIOUS
  <2>2. GroupBits(m, p, k) \subseteq 0..63
    BY <2>1 DEF GroupBits
  <2> QED  BY <1>0, <2>2
<1>7. ASSUME NEW k \in 1..9, k <= size, ReadEnds(m, p, end, k)
      PROVE  read_varint(m, p, end) = answer
  <2>1. k \in 1..10
    OBVIOUS
  <2>2. Ends(m, p, k) /\ read_varint(m, p, end) = ReadOk(GroupBits(m, p, k), k)
    BY <1>7 DEF ReadEnds
  <2> QED  BY <1>5, <1>6, <1>7, <2>1, <2>2
<1>8. ASSUME size < 10, ReadRuns(m, p, end, size)
      PROVE  read_varint(m, p, end) = answer
  <2>1. Runs(m, p, size) /\ read_varint(m, p, end) = ReadMore
    BY <1>8 DEF ReadRuns
  <2> HIDE DEF size
  <2>2. \A i \in 1..size : i - 1 \in 0..(size - 1)
    BY <1>4
  <2>3. ends = {}
    BY <1>2, <2>1, <2>2 DEF Runs
  <2>4. ~(Len(s) >= 10)
    BY <1>2, <1>4, <1>8
  <2> QED  BY <1>1, <2>1, <2>3, <2>4
<1>9. ASSUME size >= 10, ReadTenth(m, p, end)
      PROVE  read_varint(m, p, end) = answer
  <2> DEFINE b == m[p + 9]
  <2>1. /\ \A i \in 0..8 : 7 \in m[p + i]
        /\ read_varint(m, p, end) = IF b \notin {{}, {0}} THEN ReadInvalid
                                    ELSE ReadOk(GroupBits(m, p, 10), 10)
    BY <1>9 DEF ReadTenth, Runs
  <2>2. b \subseteq 0..7
    <3> DEFINE j == p + 9
    <3>1. j \in 1..Len(m)
      BY <1>9
    <3> HIDE DEF j
    <3> QED  BY <3>1, ByteParts DEF j
  <2>3. CASE 7 \in b
    <3>1. b \notin {{}, {0}}
      BY <2>3
    <3>2. \A i \in 1..10 : i \notin ends
      <4> TAKE i \in 1..10
      <4>1. i - 1 \in 0..8 \/ i - 1 = 9
        OBVIOUS
      <4>2. 7 \in m[p + (i - 1)]
        BY <2>1, <2>3, <4>1
      <4> QED  BY <1>2, <4>2
    <3>3. \A i \in ends : i \in 1..size
      BY <1>2
    <3> HIDE DEF size
    <3>4. \A i \in ends : i > 10
      BY <1>4, <3>2, <3>3
    <3>5. Len(s) >= 10
      BY <1>2, <1>9
    <3> QED  BY <1>1, <2>1, <3>1, <3>4, <3>5
  <2>4. CASE 7 \notin b
    <3>1. Ends(m, p, 10)
      <4>1. p + 10 - 1 = p + 9 /\ 10 - 1 - 1 = 8
        OBVIOUS
      <4> QED  BY <2>1, <2>4, <4>1 DEF Ends, Runs
    <3>2. answer = IF GroupBits(m, p, 10) \subseteq Bit THEN ReadOk(GroupBits(m, p, 10), 10)
                   ELSE ReadInvalid
      <4>1. 10 \in 1..10 /\ 10 <= size
        BY <1>9
      <4> QED  BY <1>5, <3>1, <4>1
    <3>3. b \subseteq {0} => GroupBits(m, p, 10) \subseteq Bit
      <4> SUFFICES ASSUME b \subseteq {0}, NEW e \in GroupBits(m, p, 10)
                   PROVE  e \in 0..63
        BY <1>0
      <4>1. e \in Nat /\ e \div 7 < 10 /\ e % 7 \in m[p + e \div 7]
        BY DEF GroupBits
      <4>2. e \div 7 = 9 => e % 7 = 0
        BY <4>1
      <4> QED  BY <4>1, <4>2
    <3>4. GroupBits(m, p, 10) \subseteq Bit => b \subseteq {0}
      <4> SUFFICES ASSUME GroupBits(m, p, 10) \subseteq Bit, NEW c \in b
                   PROVE  c = 0
        OBVIOUS
      <4> DEFINE e == 63 + c
      <4>1. c \in 0..7 /\ c # 7
        BY <2>2, <2>4
      <4>2. e \in Nat /\ e \div 7 = 9 /\ e % 7 = c
        BY <4>1
      <4> HIDE DEF e
      <4>3. e \in GroupBits(m, p, 10)
        <5>1. e % 7 \in m[p + e \div 7] /\ e \div 7 < 10
          BY <4>2
        <5> QED  BY <4>2, <5>1 DEF GroupBits
      <4>4. e \in 0..63
        <5>1. e \in Bit
          BY <4>3
        <5> QED  BY <1>0, <5>1
      <4>5. 63 + c \in 0..63
        BY <4>4 DEF e
      <4> HIDE DEF b, size
      <4> QED  BY <4>1, <4>5
    <3>5. b \subseteq {0} <=> b \in {{}, {0}}
      OBVIOUS
    <3> HIDE DEF b
    <3> QED  BY <2>1, <3>2, <3>3, <3>4, <3>5
  <2> QED  BY <2>3, <2>4
<1>10. \/ \E k \in 1..9 : k <= size /\ ReadEnds(m, p, end, k)
       \/ size < 10 /\ ReadRuns(m, p, end, size)
       \/ size >= 10 /\ ReadTenth(m, p, end)
  BY ReadCases
<1> HIDE DEF size
<1>11. read_varint(m, p, end) = answer
  BY <1>7, <1>8, <1>9, <1>10
<1> QED  BY <1>11 DEF answer, s

-----------------------------------------------------------------------------
(***************************************************************************)
(* Signed values.                                                          *)
(***************************************************************************)
\* A bit of either but not of both.
LEMMA XorIs ==
  ASSUME NEW x \in Word, NEW y \in Word
  PROVE  Xor(x, y) \in Word /\ \A e : e \in Xor(x, y) <=> (e \in x /\ e \notin y) \/ (e \in y /\ e \notin x)
BY DEF Xor, Word

\* The bits of a signed value's code, and of the value of a code.
LEMMA ZigZagBits ==
  ASSUME NEW v \in Word
  PROVE  /\ zigzag_encode(v) \in Word
         /\ \A e \in 0..63 : e \in zigzag_encode(v) <=> ~(e - 1 \in v <=> 63 \in v)
         /\ zigzag_decode(v) \in Word
         /\ \A e \in 0..63 : e \in zigzag_decode(v) <=> ~(e + 1 \in v <=> 0 \in v)
<1> DEFINE sign == IF 63 \in v THEN Bit ELSE {}
           odd == IF 0 \in v THEN Bit ELSE {}
<1>1. Bit = 0..63
  BY DEF Bit, BITS
<1>2. 1 \in Nat
  OBVIOUS
<1>3. /\ Shl(v, 1) \in Word /\ Shr(v, 1) \in Word
      /\ \A e \in Int : /\ e \in Shl(v, 1) <=> e < 64 /\ e - 1 \in v
                        /\ e \in Shr(v, 1) <=> 0 <= e /\ e + 1 \in v
  BY <1>2, Shifts
<1>4. sign \in Word /\ odd \in Word
  BY DEF Word
<1>5. \A e \in 0..63 : (e \in sign <=> 63 \in v) /\ (e \in odd <=> 0 \in v)
  BY <1>1
<1>6. zigzag_encode(v) = Xor(Shl(v, 1), sign) /\ zigzag_decode(v) = Xor(Shr(v, 1), odd)
  BY DEF zigzag_encode, zigzag_decode
<1> HIDE DEF sign, odd
<1>7. zigzag_encode(v) \in Word /\ zigzag_decode(v) \in Word
  BY <1>3, <1>4, <1>6, XorIs
<1>8. ASSUME NEW e \in 0..63
      PROVE  e \in zigzag_encode(v) <=> ~(e - 1 \in v <=> 63 \in v)
  <2>1. e \in Shl(v, 1) <=> e - 1 \in v
    BY <1>3
  <2>2. e \in sign <=> 63 \in v
    BY <1>5
  <2>3. e \in Xor(Shl(v, 1), sign) <=>
          (e \in Shl(v, 1) /\ e \notin sign) \/ (e \in sign /\ e \notin Shl(v, 1))
    BY DEF Xor
  <2> QED  BY <1>6, <2>1, <2>2, <2>3
<1>9. ASSUME NEW e \in 0..63
      PROVE  e \in zigzag_decode(v) <=> ~(e + 1 \in v <=> 0 \in v)
  <2>1. e \in Shr(v, 1) <=> e + 1 \in v
    BY <1>3
  <2>2. e \in odd <=> 0 \in v
    BY <1>5
  <2>3. e \in Xor(Shr(v, 1), odd) <=>
          (e \in Shr(v, 1) /\ e \notin odd) \/ (e \in odd /\ e \notin Shr(v, 1))
    BY DEF Xor
  <2> QED  BY <1>6, <2>1, <2>2, <2>3
<1> QED  BY <1>7, <1>8, <1>9

\* Decoding takes a signed value's code back to it.
LEMMA ZigZagBack ==
  ASSUME NEW v \in Word
  PROVE  zigzag_decode(zigzag_encode(v)) = v
<1> DEFINE u == zigzag_encode(v)
           w == zigzag_decode(u)
<1>1. v \subseteq 0..63
  BY Parts
<1>2. u \in Word /\ \A e \in 0..63 : e \in u <=> ~(e - 1 \in v <=> 63 \in v)
  BY ZigZagBits
<1> HIDE DEF u
<1>3. w \in Word /\ \A e \in 0..63 : e \in w <=> ~(e + 1 \in u <=> 0 \in u)
  BY <1>2, ZigZagBits
<1> HIDE DEF w
<1>4. u \subseteq 0..63 /\ w \subseteq 0..63
  BY <1>2, <1>3, Parts
<1>5. 0 \in u <=> 63 \in v
  <2>1. 0 - 1 \notin v /\ 0 \in 0..63
    BY <1>1
  <2> QED  BY <1>2, <2>1
<1>6. ASSUME NEW e \in 0..63
      PROVE  e \in w <=> e \in v
  <2>1. CASE e = 63
    <3>1. e + 1 \notin u
      BY <1>4, <2>1
    <3> QED  BY <1>3, <1>5, <2>1, <3>1
  <2>2. CASE e # 63
    <3>1. e + 1 \in 0..63 /\ e + 1 - 1 = e
      BY <2>2
    <3>2. e + 1 \in u <=> ~(e \in v <=> 63 \in v)
      BY <1>2, <3>1
    <3> QED  BY <1>3, <1>5, <3>2
  <2> QED  BY <2>1, <2>2
<1>7. w = v
  BY <1>1, <1>4, <1>6
<1> QED  BY <1>7 DEF u, w

\* Twice the value, or for a negative one twice its complement and one.
LEMMA ZigZagForm ==
  ASSUME NEW v \in Word
  PROVE  zigzag_encode(v) = IF 63 \in v THEN {0} \cup {b + 1 : b \in Not(v)} ELSE {b + 1 : b \in v}
<1> DEFINE u == zigzag_encode(v)
<1>1. v \subseteq 0..63
  BY Parts
<1>2. u \in Word /\ \A e \in 0..63 : e \in u <=> ~(e - 1 \in v <=> 63 \in v)
  BY ZigZagBits
<1> HIDE DEF u
<1>3. u \subseteq 0..63
  BY <1>2, Parts
<1>4. \A e \in 0..63 : e - 1 + 1 = e
  OBVIOUS
<1>5. CASE 63 \notin v
  <2>2. ASSUME NEW b \in v PROVE b + 1 \in u
    <3> DEFINE e == b + 1
    <3>0. b \in 0..62
      BY <1>1, <1>5
    <3>1. e \in 0..63 /\ e - 1 = b
      BY <3>0
    <3> HIDE DEF e
    <3>2. e \in u
      BY <1>2, <1>5, <3>1
    <3> QED  BY <3>2 DEF e
  <2>3. \A e \in u : e - 1 \in v /\ e - 1 + 1 = e
    BY <1>2, <1>3, <1>4, <1>5
  <2>4. u = {b + 1 : b \in v}
    BY <2>2, <2>3
  <2> QED  BY <1>5, <2>4 DEF u
<1>6. CASE 63 \in v
  <2>1. Not(v) = 0..63 \ v
    BY DEF Not, Bit, BITS
  <2>3. ASSUME NEW b \in Not(v) PROVE b + 1 \in u
    <3> DEFINE e == b + 1
    <3>0. b \in 0..62 /\ b \notin v
      BY <1>6, <2>1
    <3>1. e \in 0..63 /\ e - 1 = b
      BY <3>0
    <3> HIDE DEF e
    <3>2. e \in u
      BY <1>2, <1>6, <3>0, <3>1
    <3> QED  BY <3>2 DEF e
  <2>4. 0 \in u
    <3>1. 0 - 1 \notin v /\ 0 \in 0..63
      BY <1>1
    <3> QED  BY <1>2, <1>6, <3>1
  <2>5. \A e \in u : e = 0 \/ (e - 1 \in Not(v) /\ e - 1 + 1 = e)
    <3> TAKE e \in u
    <3>1. e \in 0..63 /\ e - 1 \notin v
      BY <1>2, <1>3, <1>6
    <3>2. e = 0 \/ e - 1 \in 0..63
      BY <3>1
    <3> QED  BY <1>4, <2>1, <3>1, <3>2
  <2>6. u = {0} \cup {b + 1 : b \in Not(v)}
    BY <2>3, <2>4, <2>5
  <2> QED  BY <1>6, <2>6 DEF u
<1> QED  BY <1>5, <1>6

-----------------------------------------------------------------------------
(***************************************************************************)
(* The invariant.                                                          *)
(***************************************************************************)
\* Value i is written behind the i-1 before it: o holds where each of them ends.
Cuts(o) ==
  /\ o \in [0..Len(written) -> 0..at] /\ o[0] = 0 /\ o[Len(written)] = at
  /\ \A i \in 1..Len(written) :
       /\ o[i] = o[i - 1] + varint_len(written[i])
       /\ Holds(mem, o[i - 1] + 1, written[i], varint_len(written[i]))

\* The cursors are in the buffer, and the last read was one of what is in it.
CursorInv ==
  /\ mem \in Seq(ByteWord) /\ at \in 0..Len(mem) /\ rd \in 0..at
  /\ last.from \in Nat
  /\ last.from > 0 => last.from <= at /\ last.read = read_varint(mem, last.from, at)

\* A signed value is written as its code.
SignedInv ==
  /\ written \in Seq(Word) /\ signed \in Seq(Seq(Word)) /\ Len(signed) = Len(written)
  /\ \A i \in 1..Len(written) :
       signed[i] # <<>> => signed[i][1] \in Word /\ written[i] = zigzag_encode(signed[i][1])

\* The buffer was blank: what it holds is what was written, what was read the first of it.
Own ==
  /\ \E m \in Blank : Len(m) = Len(mem)
  /\ rd = 0 => last.from = 0
  /\ last.read.status # "invalid"
  /\ back \in Seq(Word) /\ Len(back) <= Len(written)
  /\ \A i \in 1..Len(back) : back[i] = written[i]
  /\ \E o : Cuts(o) /\ rd = o[Len(back)]

\* The buffer came from elsewhere and is full: nothing is written.
Alien == written = <<>> /\ at = Len(mem)

IInv == CursorInv /\ SignedInv /\ (Own \/ Alien)

\* A write behind all that is written keeps the invariant.
LEMMA WriteKeeps ==
  ASSUME IInv, HasRoom, NEW v \in Word, NEW s \in Seq(Word), NEW result, Own,
         LeavesGroups(mem, at + 1, v, result), Written(result, v, s),
         s # <<>> => s[1] \in Word /\ v = zigzag_encode(s[1])
  PROVE  IInv'
<1> DEFINE n == varint_len(v)
           count == Len(written)
<1>1. CursorInv /\ SignedInv
  BY DEF IInv
<1>2. /\ result.mem \in Seq(ByteWord) /\ Len(result.mem) = Len(mem)
      /\ \A j \in 1..((at + 1) - 1) : result.mem[j] = mem[j]
      /\ result.len = n /\ Holds(result.mem, at + 1, v, n)
  BY DEF LeavesGroups
<1>3. /\ rd = 0 /\ mem' = result.mem /\ at' = at + result.len
      /\ written' = Append(written, v) /\ signed' = Append(signed, s)
      /\ rd' = rd /\ last' = last /\ back' = back
  BY DEF Written
<1>4. n \in 1..10
  BY LenIs DEF MAX_VARINT_LEN
<1> HIDE DEF n
<1>5. Len(mem) \in Nat /\ at \in 0..Len(mem) /\ at + 10 <= Len(mem)
  BY <1>1, LenProperties DEF CursorInv, HasRoom, MAX_VARINT_LEN
<1>6. last.from = 0
  BY <1>3 DEF Own
<1>7. CursorInv'
  <2>1. mem' \in Seq(ByteWord) /\ Len(mem') = Len(mem)
    BY <1>2, <1>3
  <2>2. at' \in 0..Len(mem') /\ rd' \in 0..at'
    BY <1>2, <1>3, <1>4, <1>5, <2>1
  <2> QED  BY <1>3, <1>6, <2>1, <2>2 DEF CursorInv
<1>8. written \in Seq(Word) /\ signed \in Seq(Seq(Word)) /\ Len(signed) = count /\ count \in Nat
  BY <1>1, LenProperties DEF SignedInv
<1>9. /\ written' \in Seq(Word) /\ Len(written') = count + 1 /\ written'[count + 1] = v
      /\ \A i \in 1..count : written'[i] = written[i]
  <2>1. \A i \in 1..(count + 1) : written'[i] = IF i = count + 1 THEN v ELSE written[i]
    BY <1>3, <1>8, AppendProperties
  <2>2. written' \in Seq(Word) /\ Len(written') = count + 1
    BY <1>3, <1>8, AppendProperties
  <2>3. \A i \in 1..count : i \in 1..(count + 1) /\ i # count + 1
    BY <1>8
  <2> QED  BY <1>8, <2>1, <2>2, <2>3
<1>10. /\ signed' \in Seq(Seq(Word)) /\ Len(signed') = count + 1 /\ signed'[count + 1] = s
       /\ \A i \in 1..count : signed'[i] = signed[i]
  <2>1. \A i \in 1..(count + 1) : signed'[i] = IF i = count + 1 THEN s ELSE signed[i]
    BY <1>3, <1>8, AppendProperties
  <2>2. signed' \in Seq(Seq(Word)) /\ Len(signed') = count + 1
    BY <1>3, <1>8, AppendProperties
  <2>3. \A i \in 1..count : i \in 1..(count + 1) /\ i # count + 1
    BY <1>8
  <2> QED  BY <1>8, <2>1, <2>2, <2>3, SMTT(30)
<1>11. SignedInv'
  <2>1. ASSUME NEW i \in 1..(count + 1), signed'[i] # <<>>
        PROVE  signed'[i][1] \in Word /\ written'[i] = zigzag_encode(signed'[i][1])
    <3>1. CASE i = count + 1
      BY <1>9, <1>10, <2>1, <3>1
    <3>2. CASE i \in 1..count
      BY <1>1, <1>9, <1>10, <2>1, <3>2 DEF SignedInv
    <3> QED  BY <1>8, <3>1, <3>2
  <2> HIDE DEF count
  <2> QED  BY <1>9, <1>10, <2>1 DEF SignedInv
<1>12. Own'
  <2>1. PICK o : Cuts(o) /\ rd = o[Len(back)]
    BY DEF Own
  <2>2. /\ o \in [0..count -> 0..at] /\ o[0] = 0 /\ o[count] = at
        /\ \A i \in 1..count : /\ o[i] = o[i - 1] + varint_len(written[i])
                               /\ Holds(mem, o[i - 1] + 1, written[i], varint_len(written[i]))
    BY <2>1 DEF Cuts
  <2>3. at' = at + n
    BY <1>2, <1>3
  <2> HIDE DEF count
  <2> PICK q : q = [i \in 0..(count + 1) |-> IF i = count + 1 THEN at + n ELSE o[i]]
    OBVIOUS
  <2>4. /\ \A i \in 0..count : q[i] = o[i] /\ o[i] \in 0..at
        /\ q[count + 1] = at + n
    BY <1>8, <2>2
  <2>5. q \in [0..(count + 1) -> 0..at']
    BY <1>4, <1>5, <1>8, <2>2, <2>3, SMTT(30)
  <2>6. ASSUME NEW i \in 1..count
        PROVE  q[i] = q[i - 1] + varint_len(written'[i]) /\ Holds(mem', q[i - 1] + 1, written'[i], varint_len(written'[i]))
    <3> DEFINE p == o[i - 1] + 1
               w == written[i]
               k == varint_len(w)
    <3>1. i \in 0..count /\ i - 1 \in 0..count
      BY <1>8
    <3>2. q[i] = o[i] /\ q[i - 1] = o[i - 1] /\ o[i] \in 0..at /\ o[i - 1] \in 0..at
      BY <2>4, <3>1
    <3>3. o[i] = o[i - 1] + k /\ Holds(mem, p, w, k) /\ written'[i] = w
      BY <1>9, <2>2
    <3>4. w \in Word
      BY <1>8, ElementOfSeq DEF count
    <3>5. k \in 1..10
      BY <3>4, LenIs DEF MAX_VARINT_LEN
    <3> HIDE DEF k, w
    <3>6. \A j \in 0..(k - 1) : p + j \in 1..((at + 1) - 1)
      <4> DEFINE a == o[i - 1]
      <4>1. a \in 0..at /\ a + k <= at /\ at \in Nat
        BY <1>5, <3>2, <3>3
      <4>2. p = a + 1
        OBVIOUS
      <4> HIDE DEF a, p
      <4> QED  BY <3>5, <4>1, <4>2
    <3> HIDE DEF p
    <3>7. Holds(mem', p, w, k)
      BY <1>2, <1>3, <3>3, <3>6 DEF Holds
    <3> QED  BY <3>2, <3>3, <3>7 DEF p, k
  <2>7. q[count + 1] = q[count] + n /\ Holds(mem', q[count] + 1, v, n)
    <3>1. count \in 0..count
      BY <1>8
    <3> QED  BY <1>2, <1>3, <2>2, <2>4, <3>1
  <2>8. \A i \in 1..(count + 1) : q[i] = q[i - 1] + varint_len(written'[i]) /\ Holds(mem', q[i - 1] + 1, written'[i], varint_len(written'[i]))
    <3> TAKE i \in 1..(count + 1)
    <3>1. CASE i = count + 1
      <4>1. i - 1 = count /\ written'[i] = v /\ varint_len(written'[i]) = n
        BY <1>8, <1>9, <3>1 DEF n
      <4> QED  BY <2>7, <3>1, <4>1
    <3>2. CASE i \in 1..count
      BY <2>6, <3>2
    <3> QED  BY <1>8, <3>1, <3>2
  <2>9. q[0] = 0 /\ q[count + 1] = at'
    BY <1>8, <2>2, <2>3, <2>4
  <2>10. Cuts(q)'
    BY <1>9, <2>5, <2>8, <2>9 DEF Cuts
  <2>11. /\ \E m \in Blank : Len(m) = Len(mem)
         /\ last.read.status # "invalid"
         /\ back \in Seq(Word) /\ Len(back) <= count
         /\ \A i \in 1..Len(back) : back[i] = written[i]
    BY DEF Own, count
  <2>12. Len(back) \in 0..count
    BY <1>8, <2>11, LenProperties
  <2>13. rd' = q[Len(back')]
    BY <1>3, <2>1, <2>4, <2>12
  <2>14. /\ back' \in Seq(Word) /\ Len(back') <= Len(written')
         /\ \A i \in 1..Len(back') : back'[i] = written'[i]
    <3>1. \A i \in 1..Len(back) : i \in 1..count
      BY <1>8, <2>12
    <3>2. Len(back) <= count + 1
      BY <1>8, <2>12
    <3> QED  BY <1>3, <1>9, <2>11, <3>1, <3>2
  <2>15. \E m \in Blank : Len(m) = Len(mem')
    BY <1>2, <1>3, <2>11
  <2>16. last'.from = 0 /\ last'.read.status # "invalid"
    BY <1>3, <1>6, <2>11
  <2> QED  BY <2>10, <2>13, <2>14, <2>15, <2>16 DEF Own
<1> QED  BY <1>7, <1>11, <1>12 DEF IInv

\* A read that takes bytes takes no more than there are.
LEMMA ReadFits ==
  ASSUME NEW m \in Seq(ByteWord), NEW p \in 1..Len(m), NEW end \in p..Len(m),
         read_varint(m, p, end).status = "ok"
  PROVE  read_varint(m, p, end).len \in 1..(end - p + 1)
<1>1. ASSUME NEW n \in 1..9, n <= end - p + 1, ReadEnds(m, p, end, n)
      PROVE  read_varint(m, p, end).len \in 1..(end - p + 1)
  BY <1>1 DEF ReadEnds, ReadOk
<1>2. ~ReadRuns(m, p, end, end - p + 1)
  BY DEF ReadRuns, ReadMore
<1>3. ASSUME end - p + 1 >= 10, ReadTenth(m, p, end)
      PROVE  read_varint(m, p, end).len \in 1..(end - p + 1)
  <2>1. read_varint(m, p, end) = IF m[p + 9] \notin {{}, {0}} THEN ReadInvalid
                                 ELSE ReadOk(GroupBits(m, p, 10), 10)
    BY <1>3 DEF ReadTenth
  <2>2. read_varint(m, p, end) = ReadOk(GroupBits(m, p, 10), 10)
    BY <2>1 DEF ReadInvalid
  <2> QED  BY <1>3, <2>2 DEF ReadOk
<1> QED  BY <1>1, <1>2, <1>3, ReadCases

\* A read keeps it.
LEMMA ReadKeeps ==
  ASSUME IInv, Read
  PROVE  IInv'
<1> DEFINE r == read_varint(mem, rd + 1, at)
           p == rd + 1
<1>1. CursorInv /\ SignedInv /\ (Own \/ Alien)
  BY DEF IInv
<1>2. /\ rd < at /\ last' = [from |-> rd + 1, read |-> r]
      /\ IF r.status = "ok" THEN rd' = rd + r.len /\ back' = Append(back, r.value)
                            ELSE rd' = rd /\ back' = back
      /\ mem' = mem /\ at' = at /\ written' = written /\ signed' = signed
  BY DEF Read
<1>3. /\ mem \in Seq(ByteWord) /\ Len(mem) \in Nat /\ at \in 0..Len(mem) /\ rd \in 0..at
      /\ p \in 1..Len(mem) /\ at \in p..Len(mem) /\ at - p + 1 = at - rd
  BY <1>1, <1>2, LenProperties DEF CursorInv
<1>4. r.status = "ok" => r.len \in 1..(at - rd)
  <2> HIDE DEF p
  <2>1. read_varint(mem, p, at).status = "ok" => read_varint(mem, p, at).len \in 1..(at - p + 1)
    BY <1>3, ReadFits
  <2> QED  BY <1>3, <2>1 DEF p
<1> HIDE DEF r
<1>5. rd' \in 0..at
  BY <1>2, <1>3, <1>4
<1>6. CursorInv'
  <2>1. last'.from = p /\ last'.read = r
    BY <1>2
  <2> QED  BY <1>2, <1>3, <1>5, <2>1 DEF CursorInv, r
<1>7. SignedInv'
  BY <1>1, <1>2 DEF SignedInv
<1>8. CASE Alien
  <2>1. Alien'
    BY <1>2, <1>8 DEF Alien
  <2> QED  BY <1>6, <1>7, <2>1 DEF IInv
<1>9. CASE Own
  <2> DEFINE k == Len(back) + 1
             v == written[k]
             n == varint_len(v)
  <2>1. PICK o : Cuts(o) /\ rd = o[Len(back)]
    BY <1>9 DEF Own
  <2>2. /\ \E m \in Blank : Len(m) = Len(mem)
        /\ back \in Seq(Word) /\ Len(back) <= Len(written)
        /\ \A i \in 1..Len(back) : back[i] = written[i]
    BY <1>9 DEF Own
  <2>3. written \in Seq(Word) /\ Len(written) \in Nat /\ Len(back) \in Nat
    BY <1>1, <2>2, LenProperties DEF SignedInv
  <2>4. /\ o \in [0..Len(written) -> 0..at] /\ o[Len(written)] = at
        /\ \A i \in 1..Len(written) : /\ o[i] = o[i - 1] + varint_len(written[i])
                                      /\ Holds(mem, o[i - 1] + 1, written[i], varint_len(written[i]))
    BY <2>1 DEF Cuts
  <2>5. k \in 1..Len(written) /\ k - 1 = Len(back)
    <3>1. Len(back) # Len(written)
      BY <1>2, <1>3, <2>1, <2>4
    <3> QED  BY <2>2, <2>3, <3>1
  <2>6. v \in Word
    BY <2>3, <2>5, ElementOfSeq
  <2>7. n \in 1..10
    BY <2>6, LenIs DEF MAX_VARINT_LEN
  <2>8. o[k] = rd + n /\ Holds(mem, p, v, n) /\ o[k] \in 0..at
    <3> HIDE DEF k
    <3>1. k \in 0..Len(written)
      BY <2>3, <2>5
    <3> QED  BY <2>1, <2>4, <2>5, <3>1
  <2>9. p + n - 1 <= at
    <3> HIDE DEF n
    <3> QED  BY <1>3, <2>7, <2>8
  <2>10. r = ReadOk(v, n)
    <3> HIDE DEF v, p
    <3> QED  BY <1>3, <2>6, <2>8, <2>9, ReadBack DEF r, p
  <2>11. r.status = "ok" /\ r.len = n /\ r.value = v
    BY <2>10 DEF ReadOk
  <2>12. rd' = o[k] /\ back' = Append(back, v) /\ last'.read.status # "invalid" /\ rd' # 0
    <3> HIDE DEF v, n, k
    <3>1. rd' = rd + n /\ back' = Append(back, v) /\ last'.read = r
      BY <1>2, <2>11
    <3> QED  BY <1>3, <2>7, <2>8, <2>11, <3>1
  <2>13. /\ back' \in Seq(Word) /\ Len(back') = k
         /\ \A i \in 1..k : back'[i] = written[i]
    <3>1. \A i \in 1..k : back'[i] = IF i = k THEN v ELSE back[i]
      BY <2>2, <2>6, <2>12, AppendProperties
    <3>2. back' \in Seq(Word) /\ Len(back') = k
      BY <2>2, <2>6, <2>12, AppendProperties
    <3>3. \A i \in 1..k : i = k \/ i \in 1..Len(back)
      BY <2>3
    <3> QED  BY <2>2, <3>1, <3>2, <3>3
  <2> HIDE DEF k
  <2>14. Cuts(o)'
    BY <1>2, <2>1 DEF Cuts
  <2>15. \E q : Cuts(q)' /\ rd' = q[Len(back')]
    BY <2>12, <2>13, <2>14
  <2>16. Len(back') <= Len(written') /\ \A i \in 1..Len(back') : back'[i] = written'[i]
    BY <1>2, <2>3, <2>5, <2>13
  <2>17. \E m \in Blank : Len(m) = Len(mem')
    BY <1>2, <2>2
  <2>18. Own'
    BY <2>12, <2>13, <2>15, <2>16, <2>17 DEF Own
  <2> QED  BY <1>6, <1>7, <2>18 DEF IInv
<1> QED  BY <1>1, <1>8, <1>9

\* The invariant holds at the start.
LEMMA InitIInv == Init => IInv
<1> SUFFICES ASSUME Init PROVE IInv
  OBVIOUS
<1>1. /\ rd = 0 /\ last = [from |-> 0, read |-> ReadMore]
      /\ written = <<>> /\ signed = <<>> /\ back = <<>>
  BY DEF Init
<1>2. (mem \in Blank /\ at = 0) \/ (mem \in Foreign /\ at = Len(mem))
  BY DEF Init
<1>3. mem \in Seq(ByteWord) /\ Len(mem) \in Nat
  BY <1>2, WordsAssumption, LenProperties
<1>4. CursorInv
  <2>1. last.from = 0
    BY <1>1
  <2> QED  BY <1>1, <1>2, <1>3, <2>1 DEF CursorInv
<1>5. SignedInv
  <2>1. written \in Seq(Word) /\ signed \in Seq(Seq(Word)) /\ Len(written) = 0 /\ Len(signed) = 0
    BY <1>1, EmptySeq
  <2> QED  BY <2>1 DEF SignedInv
<1>6. CASE mem \in Foreign /\ at = Len(mem)
  BY <1>1, <1>4, <1>5, <1>6 DEF IInv, Alien
<1>7. CASE mem \in Blank /\ at = 0
  <2> DEFINE o == [i \in 0..0 |-> 0]
  <2>1. Len(written) = 0 /\ Len(back) = 0 /\ back \in Seq(Word)
    BY <1>1, EmptySeq
  <2>2. o \in [0..0 -> 0..at] /\ o[0] = 0
    BY <1>7
  <2> HIDE DEF o
  <2>3. Cuts(o)
    BY <1>7, <2>1, <2>2 DEF Cuts
  <2>4. \E q : Cuts(q) /\ rd = q[Len(back)]
    BY <1>1, <2>1, <2>2, <2>3
  <2>5. last.from = 0 /\ last.read.status # "invalid"
    BY <1>1 DEF ReadMore
  <2>6. \E m \in Blank : Len(m) = Len(mem)
    BY <1>7
  <2>7. Own
    BY <2>1, <2>4, <2>5, <2>6 DEF Own
  <2> QED  BY <1>4, <1>5, <2>7 DEF IInv
<1> QED  BY <1>2, <1>6, <1>7

\* And every step keeps it.
LEMMA NextIInv == IInv /\ [Next]_vars => IInv'
<1> SUFFICES ASSUME IInv, [Next]_vars PROVE IInv'
  OBVIOUS
<1>1. CursorInv /\ SignedInv /\ (Own \/ Alien)
  BY DEF IInv
<1>2. ASSUME NEW v \in Values(Len(mem)), Write(v) \/ WriteNarrow(v) \/ WriteSigned(v)
      PROVE  IInv'
  <2> DEFINE p == at + 1
             u == zigzag_encode(v)
  <2>1. HasRoom
    BY <1>2 DEF Write, WriteNarrow, WriteSigned
  <2>2. mem \in Seq(ByteWord) /\ Len(mem) \in Nat /\ at \in 0..Len(mem) /\ Len(mem) - at >= 10
    BY <1>1, <2>1, LenProperties DEF CursorInv, HasRoom, MAX_VARINT_LEN
  <2>3. Own
    BY <1>1, <2>2 DEF Alien
  <2>4. v \in Word
    <3>1. PICK m \in Blank : Len(m) = Len(mem)
      BY <2>3 DEF Own
    <3> QED  BY <1>2, <3>1, WordsAssumption
  <2>5. p \in Nat \ {0} /\ p + 9 <= Len(mem)
    BY <2>2
  <2>6. <<>> \in Seq(Word) /\ <<v>> \in Seq(Word) /\ <<v>>[1] = v
    BY <2>4, EmptySeq
  <2> HIDE DEF p
  <2>7. CASE Write(v)
    <3> DEFINE result == write_varint_unchecked(mem, p, v)
    <3>1. LeavesGroups(mem, p, v, result)
      BY <2>2, <2>4, <2>5, WriteIs
    <3>2. Written(result, v, <<>>)
      BY <2>7 DEF Write, p
    <3> HIDE DEF result
    <3>3. LeavesGroups(mem, at + 1, v, result)
      BY <3>1 DEF p
    <3> QED  BY <2>1, <2>3, <2>4, <2>6, <3>2, <3>3, WriteKeeps
  <2>8. CASE WriteNarrow(v)
    <3> DEFINE result == write_varint_unchecked_narrow(mem, p, v)
    <3>1. LeavesGroups(mem, p, v, result)
      BY <2>2, <2>4, <2>5, NarrowIs
    <3>2. Written(result, v, <<>>)
      BY <2>8 DEF WriteNarrow, p
    <3> HIDE DEF result
    <3>3. LeavesGroups(mem, at + 1, v, result)
      BY <3>1 DEF p
    <3> QED  BY <2>1, <2>3, <2>4, <2>6, <3>2, <3>3, WriteKeeps
  <2>9. CASE WriteSigned(v)
    <3> DEFINE result == write_varint_unchecked(mem, p, u)
               s == <<v>>
    <3>1. u \in Word
      BY <2>4, ZigZagBits
    <3>2. Written(result, u, s)
      BY <2>9 DEF WriteSigned, p
    <3> HIDE DEF u
    <3>3. LeavesGroups(mem, p, u, result)
      BY <2>2, <2>5, <3>1, WriteIs
    <3>4. s \in Seq(Word) /\ s[1] \in Word /\ u = zigzag_encode(s[1])
      BY <2>4, <2>6 DEF u
    <3> HIDE DEF result, s
    <3>5. LeavesGroups(mem, at + 1, u, result)
      BY <3>3 DEF p
    <3> QED  BY <2>1, <2>3, <3>1, <3>2, <3>4, <3>5, WriteKeeps
  <2> QED  BY <1>2, <2>7, <2>8, <2>9
<1>3. CASE Read
  BY <1>3, ReadKeeps
<1>4. CASE UNCHANGED vars
  BY <1>1, <1>4 DEF vars, IInv, CursorInv, SignedInv, Own, Alien, Cuts
<1> QED  BY <1>2, <1>3, <1>4 DEF Next

-----------------------------------------------------------------------------
(***************************************************************************)
(* The properties.                                                         *)
(***************************************************************************)
\* The encodings of the first values, joined up one at a time.
Pieces == [i \in DOMAIN written |-> Encoding(written[i])]
IsJoin(f) == f = [i \in 1..Len(Pieces) |-> IF i = 1 THEN Pieces[i] ELSE f[i - 1] \o Pieces[i]]

\* There is one way to join them up.
LEMMA OneJoin ==
  ASSUME NEW f, NEW g, IsJoin(f), IsJoin(g), NEW n \in 1..Len(Pieces), Len(Pieces) \in Nat
  PROVE  f[n] = g[n]
<1> DEFINE count == Len(Pieces)
           S == {i \in 1..count : f[i] # g[i]}
           least == Min(S)
<1>0. count \in Nat
  OBVIOUS
<1>1. \A i \in 1..count : /\ f[i] = IF i = 1 THEN Pieces[i] ELSE f[i - 1] \o Pieces[i]
                          /\ g[i] = IF i = 1 THEN Pieces[i] ELSE g[i - 1] \o Pieces[i]
  BY DEF IsJoin
<1> HIDE DEF count
<1>2. ASSUME S # {} PROVE FALSE
  <2>1. S \in SUBSET Nat
    OBVIOUS
  <2>2. least \in S /\ \A i \in S : least <= i
    BY <1>2, <2>1, MinIsLeast
  <2> HIDE DEF least
  <2>3. least \in 1..count /\ f[least] # g[least]
    BY <2>2
  <2>4. least # 1
    BY <1>1, <2>3
  <2>5. least - 1 \in 1..count /\ ~(least <= least - 1)
    BY <1>0, <2>3, <2>4
  <2>6. f[least - 1] = g[least - 1]
    BY <2>2, <2>5
  <2> QED  BY <1>1, <2>3, <2>4, <2>6
<1> QED  BY <1>2 DEF count

\* One piece more of the buffer.
LEMMA NextPiece ==
  ASSUME NEW m \in Seq(ByteWord), NEW k \in Nat, NEW v \in Word,
         k + varint_len(v) <= Len(m), Holds(m, k + 1, v, varint_len(v))
  PROVE  SubSeq(m, 1, k + varint_len(v)) = SubSeq(m, 1, k) \o Encoding(v)
<1> DEFINE n == varint_len(v)
           e == Encoding(v)
           s == SubSeq(m, 1, k)
           t == SubSeq(m, 1, k + n)
<1>1. n \in 1..10
  BY LenIs DEF MAX_VARINT_LEN
<1>2. e \in Seq(ByteWord) /\ Len(e) = n /\ \A i \in 0..(n - 1) : e[i + 1] = GroupByte(v, n, i)
  BY EncodingIs
<1>3. \A i \in 0..(n - 1) : m[(k + 1) + i] = GroupByte(v, n, i)
  BY DEF Holds
<1> HIDE DEF n, e
<1>4. Len(m) \in Nat /\ k + n <= Len(m)
  BY LenProperties DEF n
<1>5. s \in Seq(ByteWord) /\ Len(s) = k /\ \A i \in 1..k : s[i] = m[i]
  BY <1>1, <1>4, SubSeqProperties
<1>6. t \in Seq(ByteWord) /\ Len(t) = k + n /\ \A i \in 1..(k + n) : t[i] = m[i]
  BY <1>1, <1>4, SubSeqProperties
<1> HIDE DEF s, t
<1>7. /\ s \o e \in Seq(ByteWord) /\ Len(s \o e) = k + n
      /\ \A i \in 1..(k + n) : (s \o e)[i] = IF i <= k THEN s[i] ELSE e[i - k]
  BY <1>2, <1>5, ConcatProperties, ZenonT(30)
<1>8. ASSUME NEW i \in 1..(k + n)
      PROVE  t[i] = (s \o e)[i]
  <2>1. CASE i <= k
    BY <1>5, <1>6, <1>7, <2>1
  <2>2. CASE ~(i <= k)
    <3> DEFINE j == i - k - 1
    <3>1. j \in 0..(n - 1) /\ i - k = j + 1 /\ i = (k + 1) + j
      BY <1>1, <2>2
    <3> HIDE DEF j
    <3>2. e[j + 1] = m[(k + 1) + j]
      BY <1>2, <1>3, <3>1
    <3>3. t[i] = m[i] /\ (s \o e)[i] = e[i - k]
      BY <1>6, <1>7, <2>2
    <3> QED  BY <3>1, <3>2, <3>3
  <2> QED  BY <2>1, <2>2
<1>9. t = s \o e
  BY <1>6, <1>7, <1>8, SeqEqual
<1> QED  BY <1>9 DEF t, s, e, n

\* What counts in the buffer is the encodings joined up.
LEMMA BufferIsPieces ==
  ASSUME CursorInv, SignedInv, Own, written # <<>>
  PROVE  SubSeq(mem, 1, at) = FlattenSeq(Pieces)
<1> DEFINE count == Len(written)
<1>1. PICK o : Cuts(o) /\ rd = o[Len(back)]
  BY DEF Own
<1>2. /\ o \in [0..count -> 0..at] /\ o[0] = 0 /\ o[count] = at
      /\ \A i \in 1..count : /\ o[i] = o[i - 1] + varint_len(written[i])
                             /\ Holds(mem, o[i - 1] + 1, written[i], varint_len(written[i]))
  BY <1>1 DEF Cuts
<1>3. mem \in Seq(ByteWord) /\ Len(mem) \in Nat /\ at \in 0..Len(mem)
  BY LenProperties DEF CursorInv
<1>4. written \in Seq(Word) /\ count \in Nat /\ DOMAIN written = 1..count
  BY LenProperties DEF SignedInv
<1>5. count # 0
  BY <1>4, EmptySeq
<1>6. \A i \in 1..count : written[i] \in Word
  BY <1>4, ElementOfSeq
<1> HIDE DEF count
<1>7. Pieces = [i \in 1..count |-> Encoding(written[i])]
  BY <1>4 DEF Pieces
<1>8. Len(Pieces) = count
  BY <1>4, <1>7
<1>9. \A i \in 1..count : Pieces[i] = Encoding(written[i]) /\ Pieces[i] \in Seq(ByteWord)
  BY <1>6, <1>7, EncodingIs
<1> DEFINE f == [i \in 1..count |-> SubSeq(mem, 1, o[i])]
<1>10. ASSUME NEW i \in 1..count
       PROVE  f[i] = IF i = 1 THEN Pieces[i] ELSE f[i - 1] \o Pieces[i]
  <2> DEFINE k == o[i - 1]
             v == written[i]
  <2>1. i \in 0..count /\ i - 1 \in 0..count
    BY <1>4
  <2>2. k \in Nat /\ o[i] = k + varint_len(v) /\ o[i] <= Len(mem)
    BY <1>2, <1>3, <2>1
  <2>3. Holds(mem, k + 1, v, varint_len(v)) /\ v \in Word
    BY <1>2, <1>6
  <2>4. f[i] = SubSeq(mem, 1, k) \o Pieces[i]
    <3>1. SubSeq(mem, 1, k + varint_len(v)) = SubSeq(mem, 1, k) \o Encoding(v)
      <4> HIDE DEF k, v
      <4> QED  BY <1>3, <2>2, <2>3, NextPiece
    <3> QED  BY <1>9, <2>2, <3>1
  <2>5. CASE i = 1
    <3>1. k = 0
      BY <1>2, <2>5
    <3>2. SubSeq(mem, 1, 0) = <<>>
      BY <1>3, SubSeqEmpty
    <3> QED  BY <1>9, <2>4, <2>5, <3>1, <3>2, ConcatEmptySeq
  <2>6. CASE i # 1
    <3>1. i - 1 \in 1..count
      BY <1>4, <2>6
    <3>2. f[i - 1] = SubSeq(mem, 1, k)
      BY <3>1
    <3> HIDE DEF f
    <3> QED  BY <2>4, <2>6, <3>2
  <2> QED  BY <2>5, <2>6
<1>11. IsJoin(f)
  <2>1. f = [i \in 1..count |-> IF i = 1 THEN Pieces[i] ELSE f[i - 1] \o Pieces[i]]
    BY <1>10
  <2> HIDE DEF f
  <2> QED  BY <1>8, <2>1 DEF IsJoin
<1>12. f[count] = SubSeq(mem, 1, at)
  BY <1>2, <1>4, <1>5, SMTT(30)
<1> HIDE DEF f
<1> DEFINE flatten == CHOOSE g : IsJoin(g)
<1>13. IsJoin(flatten)
  BY <1>11
<1>14. FlattenSeq(Pieces) = flatten[count]
  BY <1>5, <1>8 DEF FlattenSeq, IsJoin
<1> HIDE DEF flatten
<1>15. count \in 1..Len(Pieces)
  BY <1>4, <1>5, <1>8
<1> QED  BY <1>4, <1>8, <1>11, <1>12, <1>13, <1>14, <1>15, OneJoin

\* The invariant holds in every state.
LEMMA SpecIInv == Spec => []IInv
<1> QED  BY InitIInv, NextIInv, PTL DEF Spec

\* The formula of varint_len counts the groups of the shortest encoding, for every word of
\* 64 bits, and so the MAX_VARINT_LEN bytes that the fast paths of the encoder ask room for
\* are enough for any value.
THEOREM VarintLenCorrect ==
  ASSUME NEW v \in Word
  PROVE  Len(Encoding(v)) = varint_len(v) /\ varint_len(v) \in 1..MAX_VARINT_LEN
<1>1. varint_len(v) \in 1..MAX_VARINT_LEN
  BY LenIs
<1>2. Len(Encoding(v)) = varint_len(v)
  BY EncodingIs
<1> QED  BY <1>1, <1>2

\* A run of unchecked writes leaves the shortest encodings one behind the other, for any
\* words, buffers and run lengths (write_varint_unchecked).
THEOREM WritesAreShortestCorrect == Spec => []WritesAreShortest
<1>1. IInv => WritesAreShortest
  <2> SUFFICES ASSUME IInv, written # <<>>
               PROVE  SubSeq(mem, 1, at) = FlattenSeq(Pieces)
    BY DEF WritesAreShortest, Pieces
  <2>1. CursorInv /\ SignedInv /\ Own
    BY DEF IInv, Alien
  <2> QED  BY <2>1, BufferIsPieces
<1> QED  BY <1>1, SpecIInv, PTL

\* Every read, by word, by byte or at the tenth byte, of bytes from anywhere, answers what
\* the groups say (read_varint).
THEOREM ReadsAreGroupsCorrect == Spec => []ReadsAreGroups
<1>1. IInv => ReadsAreGroups
  <2> SUFFICES ASSUME IInv, last.from > 0
               PROVE  last.read = Decoding(SubSeq(mem, last.from, at))
    BY DEF ReadsAreGroups
  <2> DEFINE p == last.from
  <2>1. /\ mem \in Seq(ByteWord) /\ at \in 0..Len(mem) /\ p \in Nat /\ p > 0 /\ p <= at
        /\ last.read = read_varint(mem, p, at)
    BY DEF IInv, CursorInv
  <2>2. Len(mem) \in Nat
    BY <2>1, LenProperties
  <2> HIDE DEF p
  <2>3. p \in 1..Len(mem) /\ at \in p..Len(mem)
    BY <2>1, <2>2
  <2>4. last.read = Decoding(SubSeq(mem, p, at))
    BY <2>1, <2>3, ReadIsReference
  <2> QED  BY <2>4 DEF p
<1> QED  BY <1>1, SpecIInv, PTL

\* What was written is read back in order, and a signed value decodes to itself.
THEOREM RoundTripCorrect == Spec => []RoundTrip
<1>1. IInv => RoundTrip
  <2> SUFFICES ASSUME IInv, written # <<>>
               PROVE  /\ last.read.status # "invalid" /\ IsPrefix(back, written)
                      /\ \A i \in DOMAIN back : signed[i] # <<>> => zigzag_decode(back[i]) = signed[i][1]
    BY DEF RoundTrip
  <2>1. SignedInv /\ Own
    BY DEF IInv, Alien
  <2>2. /\ last.read.status # "invalid"
        /\ back \in Seq(Word) /\ Len(back) <= Len(written)
        /\ \A i \in 1..Len(back) : back[i] = written[i]
    BY <2>1 DEF Own
  <2>3. /\ written \in Seq(Word)
        /\ \A i \in 1..Len(written) :
             signed[i] # <<>> => signed[i][1] \in Word /\ written[i] = zigzag_encode(signed[i][1])
    BY <2>1 DEF SignedInv
  <2>4. Len(written) \in Nat /\ Len(back) \in Nat /\ DOMAIN back = 1..Len(back)
    BY <2>2, <2>3, LenProperties
  <2>5. IsPrefix(back, written)
    <3> DEFINE n == Len(back)
               s == SubSeq(back, 1, n)
               t == SubSeq(written, 1, n)
    <3>1. s \in Seq(Word) /\ Len(s) = n /\ \A i \in 1..n : s[i] = back[i]
      BY <2>2, <2>4, SubSeqProperties
    <3>2. t \in Seq(Word) /\ Len(t) = n /\ \A i \in 1..n : t[i] = written[i]
      BY <2>2, <2>3, <2>4, SubSeqProperties
    <3> HIDE DEF s, t, n
    <3>3. \A i \in 1..n : s[i] = t[i]
      BY <2>2, <3>1, <3>2 DEF n
    <3>4. s = t
      BY <3>1, <3>2, <3>3, SeqEqual
    <3> QED  BY <2>2, <3>4 DEF IsPrefix, s, t, n
  <2>6. ASSUME NEW i \in DOMAIN back, signed[i] # <<>>
        PROVE  zigzag_decode(back[i]) = signed[i][1]
    <3>1. i \in 1..Len(back) /\ i \in 1..Len(written)
      BY <2>2, <2>4
    <3>2. back[i] = zigzag_encode(signed[i][1]) /\ signed[i][1] \in Word
      BY <2>2, <2>3, <2>6, <3>1
    <3> QED  BY <3>2, ZigZagBack
  <2> QED  BY <2>2, <2>5, <2>6
<1> QED  BY <1>1, SpecIInv, PTL

\* A signed value is written as twice itself, or for a negative one twice its complement
\* and one (zigzag_encode).
THEOREM ZigZagIsSmallCorrect == Spec => []ZigZagIsSmall
<1>1. IInv => ZigZagIsSmall
  <2> SUFFICES ASSUME IInv, NEW i \in DOMAIN written, signed[i] # <<>>
               PROVE  LET v == signed[i][1]
                      IN  written[i] = IF 63 \in v THEN {0} \cup {b + 1 : b \in Not(v)} ELSE {b + 1 : b \in v}
    BY DEF ZigZagIsSmall
  <2>1. SignedInv
    BY DEF IInv
  <2>2. i \in 1..Len(written)
    BY <2>1, LenProperties DEF SignedInv
  <2>3. signed[i][1] \in Word /\ written[i] = zigzag_encode(signed[i][1])
    BY <2>1, <2>2 DEF SignedInv
  <2> QED  BY <2>3, ZigZagForm
<1> QED  BY <1>1, SpecIInv, PTL
=============================================================================
