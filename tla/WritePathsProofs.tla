-------------------------- MODULE WritePathsProofs --------------------------
(***************************************************************************)
(* What holds of the encoder's write paths for every length of varints,    *)
(* buffer, sink and caller.                                                *)
(*                                                                         *)
(* An unchecked store is safe when the bytes it takes are the varints it   *)
(* believes they are.  So the invariant follows, through every hand-over   *)
(* from one routine to another, the shape of what is left to be written:   *)
(* how many varints, and whether a payload is behind them.  The capacity   *)
(* test then bounds what the store reaches, and the division that measures *)
(* a run of elements keeps a varint's room for each of them.               *)
(*                                                                         *)
(* The second part maps every step to OStream's: bytes that are stored are *)
(* pushed when the piece or the buffer ends.                               *)
(***************************************************************************)
EXTENDS WritePaths, OStreamProofs

-----------------------------------------------------------------------------
(***************************************************************************)
(* What a call leaves to be written.                                       *)
(***************************************************************************)
\* The first n bytes of s are one varint; what is behind them.
Leads(s, n) == n <= MaxVarintLen /\ Ends(s, 1, n)
Behind(s, n) == SubSeq(s, n + 1, Len(s))

\* s begins with one, two or three varints; nothing follows, or a payload may.
One(s, payload) == \E n \in 1..Len(s) : Leads(s, n) /\ (payload \/ Behind(s, n) = <<>>)
Two(s, payload) == \E n \in 1..Len(s) : Leads(s, n) /\ One(Behind(s, n), payload)
Three(s, payload) == \E n \in 1..Len(s) : Leads(s, n) /\ Two(Behind(s, n), payload)

\* s is two varints and a payload of `size' bytes.
FixlenField(s, size) ==
  /\ size \in Nat
  /\ \E n \in 1..Len(s) : Leads(s, n) /\
       \E m \in 1..Len(Behind(s, n)) : Leads(Behind(s, n), m) /\ Len(s) = n + m + size

\* What a call leaves to be written, by the field it was asked to write.
AsAsked(c) ==
  /\ \A i \in 1..Len(c.elements) : One(c.elements[i], FALSE)
  /\ c.kind # "content" => One(c.body, FALSE)
  /\ c.kind = "content" =>
       IF c.asked[1] = "fixlen" THEN FixlenField(c.body, Len(c.asked[4]))
       ELSE IF c.asked[1] = "array" /\ c.asked[3] \in {KindFp32, KindFp64}
         THEN Three(c.body, TRUE)
       ELSE Two(c.body, FALSE)

\* s is what these routines write.
Piece(s, rs, size) ==
  \/ rs = <<Raw>>
  \/ rs \in {<<"write_varint">>, <<Split>>} /\ One(s, FALSE)
  \/ rs \in {<<"write_varint", Raw>>, <<Split, Raw>>} /\ One(s, TRUE)
  \/ rs \in {<<"write_field_varint">>, <<Split, Split>>} /\ Two(s, FALSE)
  \/ rs \in {<<Split, Split, Raw>>, <<Split, "write_varint", Raw>>} /\ Two(s, TRUE)
  \/ rs = <<"write_fixlen">> /\ FixlenField(s, size)
  \/ rs \in {<<"write_field_varint", "write_varint", Raw>>,
             <<Split, Split, "write_varint", Raw>>} /\ Three(s, TRUE)

CallInv == pc # "idle" => AsAsked(call)

\* The routines that run write what is left.
TodoInv ==
  /\ todo = <<>> => routines = <<>>
  /\ todo # <<>> =>
       \/ Piece(todo, Writers, Len(call.asked[4]))
       \/ Writers = <<"write_varint_run">> /\ routines = <<>> /\ One(todo, FALSE)

\* A run was measured in an array of integers and does not pass its last element.
RunInv ==
  /\ run \in Nat /\ reach \in Nat
  /\ run > 0 =>
       /\ pc = "body" /\ call.kind = "content" /\ written > 0 /\ routines = <<>>
       /\ run <= Len(call.elements) - written + (IF todo = <<>> THEN 0 ELSE 1)

\* OStream's Push is finished where the buffer or the piece is.
AheadInv ==
  /\ ahead \in 0..Len(mem)
  /\ ahead > 0 => todo # <<>> /\ offset < end

PInv == IInv /\ CallInv /\ TodoInv /\ RunInv /\ AheadInv /\ StoresInBuffer

-----------------------------------------------------------------------------
(***************************************************************************)
(* Varints in front of other bytes.                                        *)
(***************************************************************************)
\* The bytes of a varint end it where it ends and nowhere before.
LEMMA VarintEnds ==
  ASSUME NEW v \in Nat
  PROVE  /\ Varint(v) \in Seq(Byte) /\ Len(Varint(v)) \in 1..MaxVarintLen
         /\ Ends(Varint(v), 1, Len(Varint(v)))
<1> DEFINE s == Varint(v)
           l == VarintLen(v)
<1>1. s \in Seq(Byte) /\ l \in 1..MaxVarintLen
  BY VarintType, VarintLenBounds
<1>2. Len(s) = l
  BY <1>1, MaxVarintLenAssumption DEF Varint
<1>3. \A i \in 1..l : s[i] = VarintByte(v, i)
  BY DEF Varint
<1>4. ASSUME NEW i \in 1..l PROVE (s[i] < 128) <=> (i = l)
  <2> DEFINE w == Continue^(i - 1)
             q == v \div w
             group == q % Continue
  <2>1. w \in Nat \ {0}
    BY <1>1, WeightType, MaxVarintLenAssumption
  <2>2. q \in Nat
    <3> HIDE DEF w
    <3> QED  BY <2>1
  <2>3. group \in 0..127
    <3> HIDE DEF q
    <3> QED  BY <2>2 DEF Continue
  <2>4. s[i] = IF i < l THEN group + 128 ELSE group
    BY <1>3 DEF VarintByte, Continue
  <2> HIDE DEF group, s, l
  <2> QED  BY <1>1, <2>3, <2>4, MaxVarintLenAssumption
<1> HIDE DEF s, l
<1>5. Ends(s, 1, l)
  <2>1. \A i \in 1..l : 1 + i - 1 = i
    BY <1>1, MaxVarintLenAssumption
  <2> QED  BY <1>1, <1>4, <2>1, MaxVarintLenAssumption DEF Ends, Stops, Continue
<1> QED  BY <1>1, <1>2, <1>5 DEF s

\* Such a sequence of bytes in front of another.
IsVarint(s) == s \in Seq(Byte) /\ Len(s) \in 1..MaxVarintLen /\ Ends(s, 1, Len(s))

\* A varint in front of other bytes is the first varint, and they are what is behind it.
LEMMA VarintInFront ==
  ASSUME NEW h, IsVarint(h), NEW t \in Seq(Byte)
  PROVE  /\ h \o t \in Seq(Byte) /\ Len(h) \in 1..Len(h \o t)
         /\ Leads(h \o t, Len(h)) /\ Behind(h \o t, Len(h)) = t
<1> DEFINE s == h \o t
           n == Len(h)
<1>1. h \in Seq(Byte) /\ n \in 1..MaxVarintLen /\ Ends(h, 1, n)
  BY DEF IsVarint
<1>2. n \in Nat \ {0} /\ Len(t) \in Nat
  BY <1>1, MaxVarintLenAssumption, LenProperties
<1>3. /\ s \in Seq(Byte) /\ Len(s) = n + Len(t)
      /\ \A i \in 1..n : s[i] = h[i]
  BY <1>1, <1>2, ConcatProperties
<1>4. Behind(s, n) = t
  BY <1>1, SubSeqOfConcat2 DEF Behind
<1> HIDE DEF s
<1>5. Ends(s, 1, n)
  <2> HIDE DEF n
  <2>1. \A i \in 1..n : s[1 + i - 1] = h[1 + i - 1]
    BY <1>2, <1>3
  <2> QED  BY <1>1, <1>2, <2>1 DEF Ends, Stops
<1>6. Leads(s, n)
  BY <1>1, <1>5, MaxVarintLenAssumption DEF Leads
<1> QED  BY <1>2, <1>3, <1>4, <1>6 DEF s

\* A varint by itself.
LEMMA OneVarint ==
  ASSUME NEW h, IsVarint(h)
  PROVE  One(h, FALSE)
<1>1. h \in Seq(Byte) /\ Len(h) \in 1..MaxVarintLen
  BY DEF IsVarint
<1>2. <<>> \in Seq(Byte) /\ h \o <<>> = h
  BY <1>1, ConcatEmptySeq
<1>3. Len(h) \in 1..Len(h) /\ Leads(h, Len(h)) /\ Behind(h, Len(h)) = <<>>
  BY <1>2, VarintInFront
<1> QED  BY <1>3 DEF One

\* Two varints in a row.
LEMMA TwoVarints ==
  ASSUME NEW h, IsVarint(h), NEW g, IsVarint(g)
  PROVE  Two(h \o g, FALSE)
<1>1. g \in Seq(Byte) /\ One(g, FALSE)
  BY OneVarint DEF IsVarint
<1>2. Len(h) \in 1..Len(h \o g) /\ Leads(h \o g, Len(h)) /\ Behind(h \o g, Len(h)) = g
  BY <1>1, VarintInFront
<1> QED  BY <1>1, <1>2 DEF Two

\* Two varints in front of a payload: what a fixlen field is.
LEMMA VarintsAndPayload ==
  ASSUME NEW h, IsVarint(h), NEW g, IsVarint(g), NEW data \in Seq(Byte)
  PROVE  /\ h \o g \o data \in Seq(Byte)
         /\ Two(h \o g \o data, TRUE) /\ FixlenField(h \o g \o data, Len(data))
<1> DEFINE t == g \o data
           s == h \o t
<1>1. h \in Seq(Byte) /\ g \in Seq(Byte)
  BY DEF IsVarint
<1>2. s = h \o g \o data
  BY SMTT(30), <1>1, ConcatAssociative
<1>3. t \in Seq(Byte) /\ Len(g) \in 1..Len(t) /\ Leads(t, Len(g)) /\ Len(t) = Len(g) + Len(data)
  BY <1>1, VarintInFront, ConcatProperties
<1> HIDE DEF t
<1>4. s \in Seq(Byte) /\ Len(h) \in 1..Len(s) /\ Leads(s, Len(h)) /\ Behind(s, Len(h)) = t
  BY <1>3, VarintInFront
<1>5. Len(s) = Len(h) + Len(t)
  BY <1>1, <1>3, ConcatProperties
<1> HIDE DEF s
<1>6. One(t, TRUE)
  BY <1>3 DEF One
<1>7. Two(s, TRUE)
  BY <1>4, <1>6 DEF Two
<1>8. Len(s) = Len(h) + Len(g) + Len(data)
  BY <1>1, <1>3, <1>5, LenProperties
<1>9. FixlenField(s, Len(data))
  BY <1>3, <1>4, <1>8, LenProperties DEF FixlenField
<1> QED  BY <1>2, <1>4, <1>7, <1>9

\* Three varints in front of a payload: what a float array is.
LEMMA ThreeVarintsAndPayload ==
  ASSUME NEW h, IsVarint(h), NEW g, IsVarint(g), NEW w, IsVarint(w), NEW data \in Seq(Byte)
  PROVE  Three((h \o g) \o w \o data, TRUE)
<1> DEFINE t == g \o w \o data
           s == h \o t
<1>1. h \in Seq(Byte) /\ g \in Seq(Byte) /\ w \in Seq(Byte)
  BY DEF IsVarint
<1>2. t \in Seq(Byte) /\ Two(t, TRUE)
  BY VarintsAndPayload
<1>3. s = (h \o g) \o w \o data
  <2>1. h \o ((g \o w) \o data) = (h \o (g \o w)) \o data
    BY SMTT(30), <1>1, ConcatAssociative, ConcatProperties
  <2>2. h \o (g \o w) = (h \o g) \o w
    BY SMTT(30), <1>1, ConcatAssociative
  <2> QED  BY <2>1, <2>2
<1> HIDE DEF t
<1>4. Len(h) \in 1..Len(s) /\ Leads(s, Len(h)) /\ Behind(s, Len(h)) = t
  BY <1>2, VarintInFront
<1> HIDE DEF s
<1> QED  BY <1>2, <1>3, <1>4 DEF Three

-----------------------------------------------------------------------------
(***************************************************************************)
(* Taking bytes off what is to be written.                                 *)
(***************************************************************************)
\* A sequence begins with at most one varint.
LEMMA LeadsUnique ==
  ASSUME NEW s, NEW n \in Nat \ {0}, NEW k \in Nat \ {0}, Leads(s, n), Leads(s, k)
  PROVE  n = k
BY DEF Leads, Ends

\* What is behind the first n bytes.
LEMMA BehindType ==
  ASSUME NEW s \in Seq(Byte), NEW n \in 1..Len(s)
  PROVE  /\ Behind(s, n) \in Seq(Byte) /\ Len(Behind(s, n)) = Len(s) - n
         /\ \A i \in 1..(Len(s) - n) : Behind(s, n)[i] = s[n + i]
         /\ (Behind(s, n) = <<>>) <=> (n = Len(s))
<1>1. n + 1 \in 1..(Len(s) + 1) /\ Len(s) \in n..Len(s) /\ n \in Nat /\ Len(s) \in Nat
  OBVIOUS
<1>2. \A i \in (n + 1)..Len(s) : s[i] \in Byte
  BY <1>1, ElementOfSeq
<1>3. /\ SubSeq(s, n + 1, Len(s)) \in Seq(Byte)
      /\ Len(SubSeq(s, n + 1, Len(s))) = Len(s) - n
  BY <1>1
<1>4. \A i \in 1..(Len(s) - n) : SubSeq(s, n + 1, Len(s))[i] = s[n + i]
  <2> TAKE i \in 1..(Len(s) - n)
  <2>1. SubSeq(s, n + 1, Len(s))[i] = s[(n + 1) + i - 1] /\ (n + 1) + i - 1 = n + i
    BY <1>1
  <2> QED  BY <2>1
<1> DEFINE t == SubSeq(s, n + 1, Len(s))
<1>5. t \in Seq(Byte) /\ Len(t) = Len(s) - n
  BY <1>3
<1>6. (t = <<>>) <=> (n = Len(s))
  <2> HIDE DEF t
  <2> QED  BY <1>1, <1>5, EmptySeq
<1> QED  BY <1>4, <1>5, <1>6 DEF Behind

\* What is behind the first n bytes, and m of those behind them.
LEMMA BehindBehind ==
  ASSUME NEW s \in Seq(Byte), NEW n \in 1..Len(s), NEW m \in 1..(Len(s) - n)
  PROVE  Behind(Behind(s, n), m) = Behind(s, n + m)
<1> DEFINE t == Behind(s, n)
           u == Behind(t, m)
           v == Behind(s, n + m)
<1>1. /\ t \in Seq(Byte) /\ Len(t) = Len(s) - n /\ m \in 1..Len(t) /\ n + m \in 1..Len(s)
      /\ \A i \in 1..(Len(s) - n) : t[i] = s[n + i]
  BY BehindType
<1> HIDE DEF t
<1>2. /\ u \in Seq(Byte) /\ Len(u) = Len(s) - (n + m)
      /\ \A i \in 1..(Len(s) - (n + m)) : u[i] = s[n + m + i]
  <2>1. /\ u \in Seq(Byte) /\ Len(u) = Len(t) - m
        /\ \A i \in 1..(Len(t) - m) : u[i] = t[m + i]
    BY <1>1, BehindType
  <2>2. n \in Nat /\ m \in Nat /\ Len(s) \in Nat
    OBVIOUS
  <2>3. Len(t) - m = Len(s) - (n + m)
    BY <1>1, <2>2
  <2>4. ASSUME NEW i \in 1..(Len(s) - (n + m)) PROVE u[i] = s[n + m + i]
    <3>1. u[i] = t[m + i]
      BY <2>1, <2>3
    <3>2. m + i \in 1..(Len(s) - n) /\ n + (m + i) = n + m + i
      BY <2>2
    <3>3. t[m + i] = s[n + (m + i)]
      BY <1>1, <3>2
    <3> QED  BY <3>1, <3>2, <3>3
  <2> QED  BY <2>1, <2>3, <2>4
<1>3. /\ v \in Seq(Byte) /\ Len(v) = Len(s) - (n + m)
      /\ \A i \in 1..(Len(s) - (n + m)) : v[i] = s[n + m + i]
  BY <1>1, BehindType
<1> HIDE DEF u, v
<1>4. \A i \in 1..(Len(s) - (n + m)) : u[i] = v[i]
  BY <1>1, <1>2, <1>3
<1>5. Len(u) = Len(v) /\ \A i \in 1..Len(u) : u[i] = v[i]
  BY <1>2, <1>3, <1>4
<1>6. u = v
  BY <1>2, <1>3, <1>5, SeqEqual
<1> QED  BY <1>6 DEF u, v, t

\* The first varint goes out at once.
LEMMA VarintOff ==
  ASSUME NEW s \in Seq(Byte), NEW n \in 1..Len(s), Leads(s, n), NEW payload \in BOOLEAN
  PROVE  /\ One(s, payload) => payload \/ Behind(s, n) = <<>>
         /\ Two(s, payload) => One(Behind(s, n), payload)
         /\ Three(s, payload) => Two(Behind(s, n), payload)
<1>1. \A k \in 1..Len(s) : Leads(s, k) => k = n
  BY LeadsUnique
<1> QED  BY <1>1 DEF One, Two, Three

\* Its first byte goes out, and more of it is there.
LEMMA ByteOff ==
  ASSUME NEW s \in Seq(Byte), NEW n \in 1..Len(s), Leads(s, n), ~(s[1] < 128)
  PROVE  /\ 1 < Len(s) /\ n - 1 \in 1..Len(Behind(s, 1)) /\ Leads(Behind(s, 1), n - 1)
         /\ Behind(Behind(s, 1), n - 1) = Behind(s, n)
<1> DEFINE t == Behind(s, 1)
<1>1. n \in Nat /\ n <= MaxVarintLen /\ s[n] < 128 /\ \A i \in 1..(n - 1) : ~(s[i] < 128)
  BY DEF Leads, Ends, Stops, Continue
<1>2. n # 1 /\ 1 \in 1..Len(s)
  BY <1>1
<1>3. t \in Seq(Byte) /\ Len(t) = Len(s) - 1 /\ \A i \in 1..(Len(s) - 1) : t[i] = s[1 + i]
  BY <1>2, BehindType
<1>4. n - 1 \in 1..(Len(s) - 1)
  BY <1>1, <1>2
<1>5. Behind(t, n - 1) = Behind(s, 1 + (n - 1))
  BY <1>2, <1>4, BehindBehind
<1> HIDE DEF t
<1>6. Leads(t, n - 1)
  <2>1. t[n - 1] = s[n] /\ \A i \in 1..((n - 1) - 1) : t[i] = s[i + 1]
    BY <1>3, <1>4
  <2>2. \A i \in 1..((n - 1) - 1) : i + 1 \in 1..(n - 1) /\ 1 + i - 1 = i
    BY <1>1
  <2>3. 1 + (n - 1) - 1 = n - 1 /\ n - 1 <= MaxVarintLen
    BY <1>1, MaxVarintLenAssumption
  <2>4. t[n - 1] < 128 /\ \A i \in 1..((n - 1) - 1) : ~(t[1 + i - 1] < 128)
    BY <1>1, <2>1, <2>2
  <2> QED  BY <2>3, <2>4 DEF Leads, Ends, Stops, Continue
<1>7. 1 + (n - 1) = n
  BY <1>1
<1> QED  BY <1>2, <1>3, <1>4, <1>5, <1>6, <1>7 DEF t

\* A byte goes out: of a varint that goes on, or the last of one.
LEMMA ByteOffPieces ==
  ASSUME NEW s \in Seq(Byte), NEW payload \in BOOLEAN
  PROVE  /\ ~(s[1] < 128) =>
              /\ One(s, payload) => 1 < Len(s) /\ One(Behind(s, 1), payload)
              /\ Two(s, payload) => 1 < Len(s) /\ Two(Behind(s, 1), payload)
              /\ Three(s, payload) => 1 < Len(s) /\ Three(Behind(s, 1), payload)
         /\ s[1] < 128 =>
              /\ One(s, payload) => payload \/ Behind(s, 1) = <<>>
              /\ Two(s, payload) => One(Behind(s, 1), payload)
              /\ Three(s, payload) => Two(Behind(s, 1), payload)
<1>1. ASSUME ~(s[1] < 128), NEW n \in 1..Len(s), Leads(s, n)
      PROVE  /\ 1 < Len(s) /\ n - 1 \in 1..Len(Behind(s, 1)) /\ Leads(Behind(s, 1), n - 1)
             /\ Behind(Behind(s, 1), n - 1) = Behind(s, n)
  BY <1>1, ByteOff
<1>2. ASSUME s[1] < 128, NEW n \in 1..Len(s), Leads(s, n)
      PROVE  n = 1
  BY <1>2 DEF Leads, Ends, Stops, Continue
<1>3. ASSUME ~(s[1] < 128), One(s, payload)
      PROVE  1 < Len(s) /\ One(Behind(s, 1), payload)
  BY <1>1, <1>3 DEF One
<1>4. ASSUME ~(s[1] < 128), Two(s, payload)
      PROVE  1 < Len(s) /\ Two(Behind(s, 1), payload)
  BY <1>1, <1>4 DEF Two
<1>5. ASSUME ~(s[1] < 128), Three(s, payload)
      PROVE  1 < Len(s) /\ Three(Behind(s, 1), payload)
  BY <1>1, <1>5 DEF Three
<1>6. ASSUME s[1] < 128
      PROVE  /\ One(s, payload) => payload \/ Behind(s, 1) = <<>>
             /\ Two(s, payload) => One(Behind(s, 1), payload)
             /\ Three(s, payload) => Two(Behind(s, 1), payload)
  BY <1>2, <1>6 DEF One, Two, Three
<1> QED  BY <1>3, <1>4, <1>5, <1>6

\* The lengths that the unchecked stores compute.
LEMMA FirstLenIs ==
  ASSUME todo \in Seq(Byte), NEW n \in 1..Len(todo), Leads(todo, n)
  PROVE  FirstLen = n
<1>1. DOMAIN todo = 1..Len(todo) /\ n \in Nat
  OBVIOUS
<1>2. todo[n] < 128 /\ \A i \in 1..(n - 1) : ~(todo[i] < 128)
  BY <1>1 DEF Leads, Ends, Stops, Continue
<1>3. n \in DOMAIN todo /\ LastByte(n) /\ \A i \in 1..(n - 1) : ~LastByte(i)
  BY <1>1, <1>2 DEF LastByte
<1>4. ASSUME NEW k \in DOMAIN todo, LastByte(k), \A i \in 1..(k - 1) : ~LastByte(i)
      PROVE  k = n
  <2>1. k \in Nat \ {0} /\ n \in Nat \ {0}
    BY <1>1
  <2>2. ~(k < n)
    BY <1>3, <1>4, <2>1
  <2>3. ~(n < k)
    BY <1>3, <1>4, <2>1
  <2> QED  BY <2>1, <2>2, <2>3
<1> QED  BY <1>3, <1>4 DEF FirstLen

\* The two varints that a store of two takes.
LEMMA SecondEndIs ==
  ASSUME todo \in Seq(Byte), NEW n \in 1..Len(todo), Leads(todo, n),
         NEW m \in 1..Len(Behind(todo, n)), Leads(Behind(todo, n), m)
  PROVE  SecondEnd = n + m /\ n + m \in 1..Len(todo)
<1> DEFINE t == Behind(todo, n)
<1>1. DOMAIN todo = 1..Len(todo) /\ n \in Nat /\ FirstLen = n
  BY FirstLenIs
<1>2. t \in Seq(Byte) /\ Len(t) = Len(todo) - n /\ \A i \in 1..(Len(todo) - n) : t[i] = todo[n + i]
  BY BehindType
<1> HIDE DEF t
<1>3. m \in 1..(Len(todo) - n)
  BY <1>2 DEF t
<1>4. t[m] < 128 /\ \A i \in 1..(m - 1) : ~(t[i] < 128)
  BY <1>3 DEF Leads, Ends, Stops, Continue, t
<1>5. ASSUME NEW i \in 1..m PROVE todo[n + i] = t[i]
  <2>1. i \in 1..(Len(todo) - n)
    BY <1>1, <1>3
  <2> QED  BY <1>2, <2>1
<1>6. LastByte(n + m) /\ \A i \in (n + 1)..(n + m - 1) : ~LastByte(i)
  <2>1. ASSUME NEW i \in (n + 1)..(n + m - 1) PROVE ~LastByte(i)
    <3>1. i - n \in 1..(m - 1) /\ i - n \in 1..m /\ n + (i - n) = i
      BY <1>1, <1>3
    <3>2. todo[n + (i - n)] = t[i - n] /\ ~(t[i - n] < 128)
      BY <1>4, <1>5, <3>1
    <3> QED  BY <3>1, <3>2 DEF LastByte
  <2>2. m \in 1..m
    BY <1>3
  <2> QED  BY <1>4, <1>5, <2>1, <2>2 DEF LastByte
<1>7. n + m \in DOMAIN todo /\ n + m > n
  BY <1>1, <1>3
<1>8. ASSUME NEW k \in DOMAIN todo, LastByte(k), k > n, \A i \in (n + 1)..(k - 1) : ~LastByte(i)
      PROVE  k = n + m
  <2>1. k \in Nat /\ n + m \in Nat
    BY <1>1, <1>3
  <2>2. ~(k < n + m)
    BY <1>1, <1>3, <1>6, <1>8, <2>1
  <2>3. ~(n + m < k)
    BY <1>1, <1>3, <1>6, <1>7, <1>8, <2>1
  <2> QED  BY <2>1, <2>2, <2>3
<1>9. SecondEnd = n + m
  BY <1>1, <1>6, <1>7, <1>8 DEF SecondEnd
<1> QED  BY <1>1, <1>7, <1>9

-----------------------------------------------------------------------------
(***************************************************************************)
(* Storing bytes.                                                          *)
(***************************************************************************)
\* The kinds of the cursor, of the bytes and of the measures.
LEMMA Numbers ==
  ASSUME PInv
  PROVE  /\ end \in Nat /\ offset \in Nat /\ offset <= end /\ Room = end - offset /\ Room \in Nat
         /\ todo \in Seq(Byte) /\ mem \in Seq(Byte) /\ Len(todo) \in Nat /\ Len(mem) \in Nat
         /\ run \in Nat /\ reach \in Nat /\ ahead \in 0..Len(mem) /\ written \in Nat
         /\ call.elements \in Seq(Seq(Byte)) /\ Len(call.elements) \in Nat
BY LenProperties DEF PInv, IInv, TypeOK, RunInv, AheadInv, StoresInBuffer, Room

\* n bytes go out: the cursor advances by as many.
LEMMA PutKeepsBytes ==
  ASSUME PInv, NEW n \in 1..Len(todo), n <= Room, NEW following, Put(n, following)
  PROVE  IInv'
<1>1. /\ end \in Nat /\ offset \in Nat /\ offset + n <= end
      /\ todo \in Seq(Byte) /\ mem \in Seq(Byte) /\ Len(mem) \in Nat /\ n \in Nat
  BY Numbers
<1>2. /\ mem' = mem \o SubSeq(todo, 1, n)
      /\ todo' = SubSeq(todo, n + 1, Len(todo))
      /\ offset' = offset + n
      /\ UNCHANGED <<end, depth, pending, hasSink, dead, room, out, pc, call, written, result>>
  BY DEF Put, Rest
<1>3. SubSeq(todo, 1, n) \in Seq(Byte) /\ Len(SubSeq(todo, 1, n)) = n
  BY <1>1
<1>4. mem' \in Seq(Byte) /\ Len(mem') = Len(mem) + n
  BY <1>1, <1>2, <1>3, ConcatProperties
<1>5. todo' \in Seq(Byte)
  BY <1>1, <1>2
<1>6. pc # "idle"
  <2>1. todo # <<>>
    BY <1>1
  <2> QED  BY <2>1 DEF PInv, IInv, IdleIsClean
<1>7. TypeOK'
  BY <1>1, <1>2, <1>4, <1>5 DEF PInv, IInv, TypeOK
<1>8. CursorInBuffer'
  BY <1>1, <1>2, <1>4 DEF PInv, IInv, TypeOK, CursorInBuffer
<1>9. HeldBackAreOpen' /\ IdleIsClean'
  BY <1>2, <1>6 DEF PInv, IInv, TypeOK, HeldBackAreOpen, IdleIsClean
<1> QED
  BY <1>7, <1>8, <1>9 DEF IInv

\* What a step of a write path does: it stores what fits, or hands the piece over.
Moves ==
  \/ \E n \in 1..Len(todo) : \E following : n <= Room /\ Put(n, following)
  \/ \E following : Divert(following)

\* Of the piece either nothing is left, or what the routines that follow write.
LEMMA PutKeeps ==
  ASSUME PInv, NEW n \in 1..Len(todo), n <= Room, NEW following, Put(n, following),
         n < Len(todo) =>
           following # <<>> /\ Piece(Behind(todo, n), following, Len(call.asked[4]))
  PROVE  /\ IInv' /\ CallInv' /\ TodoInv' /\ AheadInv'
         /\ offset' = offset + n /\ end' = end /\ offset' <= end'
         /\ UNCHANGED <<pc, call, written>> /\ pc # "idle"
         /\ (todo' = <<>>) <=> (n = Len(todo))
<1>1. /\ end \in Nat /\ offset \in Nat /\ offset + n <= end
      /\ todo \in Seq(Byte) /\ mem \in Seq(Byte) /\ Len(mem) \in Nat /\ n \in Nat
      /\ ahead \in 0..Len(mem) /\ Len(todo) \in Nat
  BY Numbers
<1>2. /\ mem' = mem \o SubSeq(todo, 1, n)
      /\ todo' = Behind(todo, n)
      /\ offset' = offset + n
      /\ routines' = IF n = Len(todo) THEN <<>> ELSE following
      /\ ahead' = IF n = Len(todo) \/ offset + n = end THEN 0 ELSE ahead + n
      /\ UNCHANGED <<end, depth, pending, hasSink, dead, room, out, pc, call, written, result>>
  BY DEF Put, Rest, Behind
<1>3. (todo' = <<>>) <=> (n = Len(todo))
  BY <1>1, <1>2, BehindType
<1>4. Len(mem') = Len(mem) + n
  <2>1. SubSeq(todo, 1, n) \in Seq(Byte) /\ Len(SubSeq(todo, 1, n)) = n
    BY <1>1
  <2> QED  BY <1>1, <1>2, <2>1, ConcatProperties
<1>5. pc # "idle"
  <2>1. todo # <<>>
    BY <1>1
  <2> QED  BY <2>1 DEF PInv, IInv, IdleIsClean
<1>6. CallInv'
  BY <1>2 DEF PInv, CallInv
<1>7. AheadInv'
  <2>1. ahead' \in 0..Len(mem')
    BY <1>1, <1>2, <1>4
  <2>2. ahead' > 0 => todo' # <<>> /\ offset' < end'
    BY <1>1, <1>2, <1>3
  <2> QED  BY <2>1, <2>2 DEF AheadInv
<1>8. TodoInv'
  <2>1. CASE n = Len(todo)
    BY <1>2, <1>3, <2>1 DEF TodoInv
  <2>2. CASE n < Len(todo)
    <3>1. todo' # <<>> /\ routines' = following /\ following # <<>>
      BY <1>2, <1>3, <2>2
    <3>2. Writers' = following
      BY <3>1 DEF Writers
    <3>3. Piece(todo', Writers', Len(call'.asked[4]))
      BY <1>2, <2>2, <3>2
    <3> QED  BY <3>1, <3>3 DEF TodoInv
  <2> QED  BY <1>1, <2>1, <2>2
<1>9. offset' <= end'
  BY <1>1, <1>2
<1> QED
  BY <1>2, <1>3, <1>5, <1>6, <1>7, <1>8, <1>9, PutKeepsBytes

\* A store that is no part of a run.
LEMMA SingleKeeps ==
  ASSUME PInv, run = 0, NEW n \in 1..Len(todo), n <= Room, NEW following, Put(n, following),
         n < Len(todo) =>
           following # <<>> /\ Piece(Behind(todo, n), following, Len(call.asked[4])),
         run' = run, reach' \in Nat, reach' <= end
  PROVE  PInv' /\ Moves
<1>1. /\ IInv' /\ CallInv' /\ TodoInv' /\ AheadInv' /\ end' = end /\ offset' <= end'
  BY PutKeeps
<1>2. end' \in Nat /\ offset' \in Nat
  BY <1>1 DEF IInv, TypeOK
<1>3. RunInv'
  BY DEF RunInv
<1>4. run' * MaxVarintLen = 0
  BY MaxVarintLenAssumption
<1>5. StoresInBuffer'
  BY <1>1, <1>2, <1>4 DEF StoresInBuffer, Room
<1>6. Moves
  BY DEF Moves
<1> QED  BY <1>1, <1>3, <1>5, <1>6 DEF PInv

\* The room is too short, and routines that can stop in the middle take over.
LEMMA DivertKeeps ==
  ASSUME PInv, run = 0, todo # <<>>, NEW following, Divert(following), following # <<>>,
         Piece(todo, following, Len(call.asked[4]))
  PROVE  PInv' /\ Moves
<1>1. routines' = following /\ UNCHANGED <<vars, run, reach, ahead>>
  BY DEF Divert
<1>2. IInv' /\ CallInv' /\ RunInv' /\ AheadInv'
  BY <1>1 DEF PInv, vars, IInv, TypeOK, CursorInBuffer, HeldBackAreOpen, IdleIsClean,
              CallInv, RunInv, AheadInv
<1>3. StoresInBuffer'
  BY <1>1 DEF PInv, StoresInBuffer, Room, vars
<1>4. Writers' = following
  BY <1>1 DEF Writers
<1>5. TodoInv'
  BY <1>1, <1>4 DEF TodoInv, vars
<1>6. Moves
  BY DEF Moves
<1> QED  BY <1>2, <1>3, <1>5, <1>6 DEF PInv

\* Routines in a row.
LEMMA RoutinesInARow ==
  ASSUME NEW a, NEW b, NEW c, NEW d
  PROVE  /\ <<a>> # <<>> /\ <<a, b>> # <<>> /\ <<a, b, c>> # <<>> /\ <<a, b, c, d>> # <<>>
         /\ Head(<<a>>) = a /\ Head(<<a, b>>) = a /\ Head(<<a, b, c>>) = a
         /\ Head(<<a, b, c, d>>) = a
         /\ Tail(<<a>>) = <<>> /\ Tail(<<a, b>>) = <<b>> /\ Tail(<<a, b, c>>) = <<b, c>>
         /\ Tail(<<a, b, c, d>>) = <<b, c, d>>
         /\ <<a>> \o <<>> = <<a>> /\ <<a, b>> \o <<>> = <<a, b>>
OBVIOUS

\* One routine in front of another.
LEMMA JoinTwo ==
  ASSUME NEW a, NEW b
  PROVE  <<a>> \o <<b>> = <<a, b>>
<1> DEFINE S == {a, b}
           s == <<a>>
           t == <<b>>
           u == <<a, b>>
<1>1. s \in Seq(S) /\ t \in Seq(S) /\ u \in Seq(S) /\ Len(s) = 1 /\ Len(t) = 1 /\ Len(u) = 2
      /\ s[1] = a /\ t[1] = b /\ u[1] = a /\ u[2] = b
  OBVIOUS
<1> HIDE DEF s, t, u, S
<1>2. s \o t \in Seq(S) /\ Len(s \o t) = 2 /\ (s \o t)[1] = a /\ (s \o t)[2] = b
  BY <1>1, ConcatProperties
<1>3. s \o t = u
  <2> DEFINE v == s \o t
  <2>1. v \in Seq(S) /\ Len(v) = Len(u) /\ \A i \in 1..Len(v) : v[i] = u[i]
    BY <1>1, <1>2
  <2> HIDE DEF v
  <2>2. v = u
    BY <2>1, <1>1, SeqEqual
  <2> QED  BY <2>2 DEF v
<1> QED  BY <1>3 DEF s, t, u

\* Two routines in front of two others.
LEMMA JoinFour ==
  ASSUME NEW a, NEW b, NEW c, NEW d
  PROVE  <<a, b>> \o <<c, d>> = <<a, b, c, d>>
<1> DEFINE S == {a, b, c, d}
           s == <<a, b>>
           t == <<c, d>>
           u == <<a, b, c, d>>
<1>1. s \in Seq(S) /\ t \in Seq(S) /\ u \in Seq(S) /\ Len(s) = 2 /\ Len(t) = 2 /\ Len(u) = 4
      /\ s[1] = a /\ s[2] = b /\ t[1] = c /\ t[2] = d
      /\ u[1] = a /\ u[2] = b /\ u[3] = c /\ u[4] = d
  OBVIOUS
<1> HIDE DEF s, t, u, S
<1>2. s \o t \in Seq(S) /\ Len(s \o t) = 4 /\ (s \o t)[1] = a /\ (s \o t)[2] = b
      /\ (s \o t)[3] = c /\ (s \o t)[4] = d
  <2>1. /\ s \o t \in Seq(S) /\ Len(s \o t) = 4
        /\ \A i \in 1..4 : (s \o t)[i] = IF i <= 2 THEN s[i] ELSE t[i - 2]
    <3>1. /\ s \o t \in Seq(S) /\ Len(s \o t) = Len(s) + Len(t)
          /\ \A i \in 1..(Len(s) + Len(t)) : (s \o t)[i] = IF i <= Len(s) THEN s[i] ELSE t[i - Len(s)]
      BY <1>1, ConcatProperties
    <3>2. Len(s) + Len(t) = 4
      BY <1>1
    <3> QED  BY <1>1, <3>1, <3>2
  <2> DEFINE v == s \o t
  <2> HIDE DEF v
  <2>2. v[1] = s[1] /\ v[2] = s[2] /\ v[3] = t[1] /\ v[4] = t[2]
    BY <2>1 DEF v
  <2> QED  BY <1>1, <2>1, <2>2 DEF v
<1>3. s \o t = u
  <2> DEFINE v == s \o t
  <2>1. v \in Seq(S) /\ Len(v) = Len(u) /\ \A i \in 1..Len(v) : v[i] = u[i]
    BY <1>1, <1>2
  <2> HIDE DEF v
  <2>2. v = u
    BY <2>1, <1>1, SeqEqual
  <2> QED  BY <2>2 DEF v
<1> QED  BY <1>3 DEF s, t, u

\* No run is under way when another routine writes.
LEMMA NoRun ==
  ASSUME PInv, Head(Writers) # "write_varint_run"
  PROVE  run = 0
<1>1. ASSUME run > 0 PROVE FALSE
  <2>1. Writers = <<"write_varint_run">>
    BY <1>1 DEF PInv, RunInv, Writers
  <2> QED  BY <2>1, RoutinesInARow
<1> QED  BY <1>1, Numbers

\* The piece that a routine finds, and what is behind it.
LEMMA WhatIsWritten ==
  ASSUME PInv, NEW routine, Writing(routine)
  PROVE  /\ todo # <<>> /\ pc # "idle"
         /\ routine = "write_varint" =>
              \/ Writers = <<"write_varint">> /\ One(todo, FALSE)
              \/ Writers = <<"write_varint", Raw>> /\ One(todo, TRUE)
         /\ routine = "write_varint_run" =>
              Writers = <<"write_varint_run">> /\ routines = <<>> /\ One(todo, FALSE)
         /\ routine = "write_field_varint" =>
              \/ Writers = <<"write_field_varint">> /\ Two(todo, FALSE)
              \/ Writers = <<"write_field_varint", "write_varint", Raw>> /\ Three(todo, TRUE)
         /\ routine = "write_fixlen" =>
              Writers = <<"write_fixlen">> /\ FixlenField(todo, Len(call.asked[4]))
         /\ routine = Raw => Writers = <<Raw>>
         /\ routine = Split =>
              \/ Writers = <<Split>> /\ One(todo, FALSE)
              \/ Writers = <<Split, Raw>> /\ One(todo, TRUE)
              \/ Writers = <<Split, Split>> /\ Two(todo, FALSE)
              \/ Writers = <<Split, Split, Raw>> /\ Two(todo, TRUE)
              \/ Writers = <<Split, "write_varint", Raw>> /\ Two(todo, TRUE)
              \/ Writers = <<Split, Split, "write_varint", Raw>> /\ Three(todo, TRUE)
<1> DEFINE size == Len(call.asked[4])
           rs == Writers
<1>1. /\ todo # <<>> /\ Head(rs) = routine
      /\ \/ Piece(todo, rs, size)
         \/ rs = <<"write_varint_run">> /\ routines = <<>> /\ One(todo, FALSE)
  BY DEF Writing, PInv, TodoInv
<1>2. pc # "idle"
  BY <1>1 DEF PInv, IInv, IdleIsClean
<1> HIDE DEF size, rs
<1>3. \/ rs = <<Raw>> /\ routine = Raw
      \/ rs = <<"write_varint">> /\ routine = "write_varint" /\ One(todo, FALSE)
      \/ /\ rs = <<"write_varint_run">> /\ routine = "write_varint_run"
         /\ routines = <<>> /\ One(todo, FALSE)
      \/ rs = <<Split>> /\ routine = Split /\ One(todo, FALSE)
      \/ rs = <<"write_varint", Raw>> /\ routine = "write_varint" /\ One(todo, TRUE)
      \/ rs = <<Split, Raw>> /\ routine = Split /\ One(todo, TRUE)
      \/ rs = <<"write_field_varint">> /\ routine = "write_field_varint" /\ Two(todo, FALSE)
      \/ rs = <<Split, Split>> /\ routine = Split /\ Two(todo, FALSE)
      \/ rs = <<Split, Split, Raw>> /\ routine = Split /\ Two(todo, TRUE)
      \/ rs = <<Split, "write_varint", Raw>> /\ routine = Split /\ Two(todo, TRUE)
      \/ rs = <<"write_fixlen">> /\ routine = "write_fixlen" /\ FixlenField(todo, size)
      \/ /\ rs = <<"write_field_varint", "write_varint", Raw>>
         /\ routine = "write_field_varint" /\ Three(todo, TRUE)
      \/ rs = <<Split, Split, "write_varint", Raw>> /\ routine = Split /\ Three(todo, TRUE)
  <2>1. /\ Head(<<Raw>>) = Raw
        /\ Head(<<"write_varint">>) = "write_varint"
        /\ Head(<<"write_varint_run">>) = "write_varint_run"
        /\ Head(<<Split>>) = Split
        /\ Head(<<"write_varint", Raw>>) = "write_varint"
        /\ Head(<<Split, Raw>>) = Split
        /\ Head(<<"write_field_varint">>) = "write_field_varint"
        /\ Head(<<Split, Split>>) = Split
        /\ Head(<<Split, Split, Raw>>) = Split
        /\ Head(<<Split, "write_varint", Raw>>) = Split
        /\ Head(<<"write_fixlen">>) = "write_fixlen"
        /\ Head(<<"write_field_varint", "write_varint", Raw>>) = "write_field_varint"
        /\ Head(<<Split, Split, "write_varint", Raw>>) = Split
    BY RoutinesInARow
  <2>2. CASE rs = <<Raw>>
    BY <1>1, <2>2, <2>1, Zenon
  <2>3. CASE rs = <<"write_varint_run">> /\ routines = <<>> /\ One(todo, FALSE)
    BY <1>1, <2>3, <2>1, Zenon
  <2>4. CASE rs \in {<<"write_varint">>, <<Split>>} /\ One(todo, FALSE)
    BY <1>1, <2>4, <2>1, Zenon
  <2>5. CASE rs \in {<<"write_varint", Raw>>, <<Split, Raw>>} /\ One(todo, TRUE)
    BY <1>1, <2>5, <2>1, Zenon
  <2>6. CASE rs \in {<<"write_field_varint">>, <<Split, Split>>} /\ Two(todo, FALSE)
    BY <1>1, <2>6, <2>1, Zenon
  <2>7. CASE rs \in {<<Split, Split, Raw>>, <<Split, "write_varint", Raw>>} /\ Two(todo, TRUE)
    BY <1>1, <2>7, <2>1, Zenon
  <2>8. CASE rs = <<"write_fixlen">> /\ FixlenField(todo, size)
    BY <1>1, <2>8, <2>1, Zenon
  <2>9. CASE rs \in {<<"write_field_varint", "write_varint", Raw>>,
                     <<Split, Split, "write_varint", Raw>>} /\ Three(todo, TRUE)
    BY <1>1, <2>9, <2>1, Zenon
  <2> QED  BY <1>1, <2>2, <2>4, <2>5, <2>6, <2>7, <2>8, <2>9, <2>3 DEF Piece
<1>4. \A a \in {"write_varint", "write_varint_run", "write_field_varint", "write_fixlen"} :
        a # Split /\ a # Raw
  BY DEF Split, Raw
<1>5. Split # Raw
  BY DEF Split, Raw
<1> QED  BY <1>1, <1>2, <1>3, <1>4, <1>5 DEF rs, size

\* A varint by itself: its reach is the room that was asked for.
LEMMA WriteVarintKeeps ==
  ASSUME PInv, WriteVarint
  PROVE  PInv' /\ Moves
<1>1. Writing("write_varint")
  BY DEF WriteVarint
<1>2. /\ todo # <<>>
      /\ \/ Writers = <<"write_varint">> /\ One(todo, FALSE)
         \/ Writers = <<"write_varint", Raw>> /\ One(todo, TRUE)
  BY <1>1, WhatIsWritten
<1>3. run = 0
  BY <1>1, NoRun DEF Writing
<1>4. CASE Room >= MaxVarintLen
  <2>1. PICK n \in 1..Len(todo) : Leads(todo, n)
    BY <1>2 DEF One
  <2>2. FirstLen = n /\ n <= MaxVarintLen
    BY <2>1, FirstLenIs, Numbers DEF Leads
  <2>3. Put(n, Tail(Writers)) /\ reach' = offset + MaxVarintLen /\ run' = run
    BY <1>4, <2>2, Numbers, MaxVarintLenAssumption DEF WriteVarint, Store
  <2>4. n <= Room /\ reach' \in Nat /\ reach' <= end
    BY SMTT(30), <1>4, <2>2, <2>3, Numbers, MaxVarintLenAssumption
  <2>5. ASSUME n < Len(todo)
        PROVE  Tail(Writers) # <<>> /\ Piece(Behind(todo, n), Tail(Writers), Len(call.asked[4]))
    <3>1. Behind(todo, n) # <<>>
      BY <2>5, Numbers, BehindType
    <3>2. Writers = <<"write_varint", Raw>>
      BY <1>2, <2>1, <3>1, Numbers, VarintOff
    <3>3. Tail(Writers) = <<Raw>> /\ <<Raw>> # <<>>
      BY <3>2, RoutinesInARow
    <3> QED  BY <3>3 DEF Piece
  <2> QED  BY <1>3, <2>3, <2>4, <2>5, SingleKeeps
<1>5. CASE ~(Room >= MaxVarintLen)
  <2>1. Divert(<<Split>> \o Tail(Writers))
    BY <1>5 DEF WriteVarint
  <2>2. CASE Writers = <<"write_varint">> /\ One(todo, FALSE)
    <3>1. <<Split>> \o Tail(Writers) = <<Split>> /\ <<Split>> # <<>>
      BY <2>2, RoutinesInARow
    <3>2. Piece(todo, <<Split>>, Len(call.asked[4]))
      BY <2>2 DEF Piece
    <3> QED  BY <1>2, <1>3, <2>1, <3>1, <3>2, DivertKeeps
  <2>3. CASE Writers = <<"write_varint", Raw>> /\ One(todo, TRUE)
    <3>1. <<Split>> \o Tail(Writers) = <<Split, Raw>> /\ <<Split, Raw>> # <<>>
      BY <2>3, RoutinesInARow, JoinTwo
    <3>2. Piece(todo, <<Split, Raw>>, Len(call.asked[4]))
      BY <2>3 DEF Piece
    <3> QED  BY <1>2, <1>3, <2>1, <3>1, <3>2, DivertKeeps
  <2> QED  BY <1>2, <2>2, <2>3
<1> QED  BY <1>4, <1>5

\* Two varints take at most the room that was asked for, and the second reaches no
\* further than it.
LEMMA TwoStored ==
  ASSUME PInv, NEW n \in 1..Len(todo), Leads(todo, n),
         NEW m \in 1..Len(Behind(todo, n)), Leads(Behind(todo, n), m)
  PROVE  /\ FirstLen = n /\ SecondEnd = n + m /\ n + m \in 1..Len(todo)
         /\ n \in Nat /\ m \in Nat /\ n <= MaxVarintLen /\ m <= MaxVarintLen
         /\ Behind(Behind(todo, n), m) = Behind(todo, n + m)
<1>1. todo \in Seq(Byte) /\ n \in Nat /\ Len(todo) \in Nat
  BY Numbers
<1>2. FirstLen = n /\ SecondEnd = n + m /\ n + m \in 1..Len(todo)
  BY <1>1, FirstLenIs, SecondEndIs
<1>3. Len(Behind(todo, n)) = Len(todo) - n
  BY <1>1, BehindType
<1>4. m \in 1..(Len(todo) - n)
  BY <1>3
<1>5. Behind(Behind(todo, n), m) = Behind(todo, n + m)
  BY <1>1, <1>4, BehindBehind
<1> QED  BY <1>1, <1>2, <1>4, <1>5 DEF Leads

\* Two varints under one test: the second reaches to the end of the room of two.
LEMMA WriteFieldVarintKeeps ==
  ASSUME PInv, WriteFieldVarint
  PROVE  PInv' /\ Moves
<1>1. Writing("write_field_varint")
  BY DEF WriteFieldVarint
<1>2. /\ todo # <<>>
      /\ \/ Writers = <<"write_field_varint">> /\ Two(todo, FALSE)
         \/ Writers = <<"write_field_varint", "write_varint", Raw>> /\ Three(todo, TRUE)
  BY <1>1, WhatIsWritten
<1>3. run = 0
  BY <1>1, NoRun DEF Writing
<1>4. CASE TwoFit
  <2>1. PICK n \in 1..Len(todo) :
          /\ Leads(todo, n)
          /\ One(Behind(todo, n), FALSE) \/ Two(Behind(todo, n), TRUE)
    BY <1>2 DEF Two, Three
  <2>2. Leads(todo, n)
    BY <2>1
  <2>3. PICK m \in 1..Len(Behind(todo, n)) : Leads(Behind(todo, n), m)
    BY <2>1 DEF One, Two
  <2>4. /\ FirstLen = n /\ SecondEnd = n + m /\ n + m \in 1..Len(todo)
        /\ n \in Nat /\ m \in Nat /\ n <= MaxVarintLen /\ m <= MaxVarintLen
        /\ Behind(Behind(todo, n), m) = Behind(todo, n + m)
    BY <2>2, <2>3, TwoStored
  <2>5. Room >= 2 * MaxVarintLen
    BY <1>4 DEF TwoFit
  <2>6. Put(n + m, Tail(Writers)) /\ reach' = offset + n + MaxVarintLen /\ run' = run
    BY <1>4, <2>4 DEF WriteFieldVarint, Store
  <2>7. n + m <= Room /\ reach' \in Nat /\ reach' <= end
    <3>1. MaxVarintLen \in Nat /\ offset \in Nat /\ end \in Nat /\ Room = end - offset
      BY Numbers, MaxVarintLenAssumption
    <3> QED  BY <2>4, <2>5, <2>6, <3>1
  <2>8. ASSUME n + m < Len(todo)
        PROVE  /\ Tail(Writers) # <<>>
               /\ Piece(Behind(todo, n + m), Tail(Writers), Len(call.asked[4]))
    <3>1. Behind(todo, n + m) # <<>>
      BY <2>4, <2>8, Numbers, BehindType
    <3>2. Writers # <<"write_field_varint">>
      <4>1. ASSUME Two(todo, FALSE) PROVE FALSE
        <5>1. One(Behind(todo, n), FALSE)
          BY <2>2, <4>1, Numbers, VarintOff
        <5>2. Behind(todo, n) \in Seq(Byte)
          BY Numbers, BehindType
        <5>3. Behind(Behind(todo, n), m) = <<>>
          BY <2>3, <5>1, <5>2, VarintOff
        <5> QED  BY <2>4, <3>1, <5>3
      <4>2. <<"write_field_varint">> # <<"write_field_varint", "write_varint", Raw>>
        OBVIOUS
      <4> QED  BY <1>2, <4>1, <4>2
    <3>3. Writers = <<"write_field_varint", "write_varint", Raw>> /\ Three(todo, TRUE)
      BY <1>2, <3>2
    <3>4. Two(Behind(todo, n), TRUE)
      BY <2>1, <3>3, Numbers, VarintOff
    <3>5. One(Behind(Behind(todo, n), m), TRUE)
      <4>1. Behind(todo, n) \in Seq(Byte)
        BY Numbers, BehindType
      <4> QED  BY <2>3, <3>4, <4>1, VarintOff
    <3>6. Tail(Writers) = <<"write_varint", Raw>> /\ <<"write_varint", Raw>> # <<>>
      BY <3>3, RoutinesInARow
    <3> QED  BY <2>4, <3>5, <3>6 DEF Piece
  <2> QED  BY <1>3, <2>4, <2>6, <2>7, <2>8, SingleKeeps
<1>5. CASE ~TwoFit
  <2>1. Divert(<<Split, Split>> \o Tail(Writers))
    BY <1>5 DEF WriteFieldVarint
  <2>2. CASE Writers = <<"write_field_varint">> /\ Two(todo, FALSE)
    <3>1. <<Split, Split>> \o Tail(Writers) = <<Split, Split>> /\ <<Split, Split>> # <<>>
      BY <2>2, RoutinesInARow
    <3>2. Piece(todo, <<Split, Split>>, Len(call.asked[4]))
      BY <2>2 DEF Piece
    <3> QED  BY <1>2, <1>3, <2>1, <3>1, <3>2, DivertKeeps
  <2>3. CASE Writers = <<"write_field_varint", "write_varint", Raw>> /\ Three(todo, TRUE)
    <3> DEFINE rs == <<Split, Split, "write_varint", Raw>>
    <3>1. Tail(Writers) = <<"write_varint", Raw>>
      BY <2>3, RoutinesInARow
    <3>2. <<Split, Split>> \o Tail(Writers) = rs
      BY <3>1, JoinFour
    <3>4. rs # <<>>
      BY RoutinesInARow
    <3>3. Piece(todo, rs, Len(call.asked[4]))
      BY <2>3 DEF Piece
    <3> QED  BY <1>2, <1>3, <2>1, <3>2, <3>3, <3>4, DivertKeeps
  <2> QED  BY <1>2, <2>2, <2>3
<1> QED  BY <1>4, <1>5

\* A fixlen field under one test, its two varints, or neither.
LEMMA WriteFixlenFieldKeeps ==
  ASSUME PInv, WriteFixlenField
  PROVE  PInv' /\ Moves
<1> DEFINE size == Len(call.asked[4])
           whole == Room >= 2 * MaxVarintLen + size
<1>1. Writing("write_fixlen")
  BY DEF WriteFixlenField
<1>2. todo # <<>> /\ Writers = <<"write_fixlen">> /\ FixlenField(todo, size)
  BY <1>1, WhatIsWritten
<1>3. run = 0
  BY <1>1, NoRun DEF Writing
<1>4. PICK n \in 1..Len(todo) :
        /\ Leads(todo, n)
        /\ \E m \in 1..Len(Behind(todo, n)) : Leads(Behind(todo, n), m) /\ Len(todo) = n + m + size
  BY <1>2 DEF FixlenField
<1>5. size \in Nat
  BY <1>2 DEF FixlenField
<1>6. PICK m \in 1..Len(Behind(todo, n)) : Leads(Behind(todo, n), m) /\ Len(todo) = n + m + size
  BY <1>4
<1>7. /\ FirstLen = n /\ SecondEnd = n + m /\ n + m \in 1..Len(todo)
      /\ n \in Nat /\ m \in Nat /\ n <= MaxVarintLen /\ m <= MaxVarintLen
      /\ Behind(Behind(todo, n), m) = Behind(todo, n + m)
  BY <1>4, <1>6, TwoStored
<1> HIDE DEF size
<1>8. \/ whole /\ Store(Len(todo), FirstLen, <<>>) /\ run' = run
      \/ TwoFit /\ Store(SecondEnd, FirstLen, <<Raw>>) /\ run' = run
      \/ Divert(<<Split, Split, Raw>>)
  <2>1. CASE whole
    BY <2>1 DEF WriteFixlenField, size
  <2>2. CASE ~whole /\ TwoFit
    <3>1. Room < 2 * MaxVarintLen + size
      BY <1>5, <2>2, Numbers, MaxVarintLenAssumption
    <3> QED  BY <2>2, <3>1 DEF WriteFixlenField, size
  <2>3. CASE ~whole /\ ~TwoFit
    BY <2>3 DEF WriteFixlenField, size
  <2> QED  BY <2>1, <2>2, <2>3
<1>9. CASE whole /\ Store(Len(todo), FirstLen, <<>>) /\ run' = run
  <2>1. Put(Len(todo), <<>>) /\ reach' = offset + n + MaxVarintLen
    BY <1>7, <1>9 DEF Store
  <2>2. Len(todo) \in 1..Len(todo) /\ ~(Len(todo) < Len(todo))
    BY <1>7, Numbers
  <2>3. Len(todo) <= Room /\ reach' \in Nat /\ reach' <= end
    <3>1. Room >= 2 * MaxVarintLen + size /\ Len(todo) = n + m + size
      BY <1>6, <1>9
    <3>2. /\ MaxVarintLen \in Nat /\ offset \in Nat /\ end \in Nat /\ Room = end - offset
          /\ size \in Nat
      BY <1>5, Numbers, MaxVarintLenAssumption
    <3>3. Len(todo) <= Room
      BY <1>7, <3>1, <3>2
    <3> QED  BY <1>7, <2>1, <3>1, <3>2, <3>3
  <2> QED  BY <1>3, <1>9, <2>1, <2>2, <2>3, SingleKeeps
<1>10. CASE TwoFit /\ Store(SecondEnd, FirstLen, <<Raw>>) /\ run' = run
  <2>1. Put(n + m, <<Raw>>) /\ reach' = offset + n + MaxVarintLen
    BY <1>7, <1>10 DEF Store
  <2>2. Room >= 2 * MaxVarintLen
    BY <1>10 DEF TwoFit
  <2>3. n + m <= Room /\ reach' \in Nat /\ reach' <= end
    <3>1. MaxVarintLen \in Nat /\ offset \in Nat /\ end \in Nat /\ Room = end - offset
      BY Numbers, MaxVarintLenAssumption
    <3> QED  BY <1>7, <2>1, <2>2, <3>1
  <2>4. <<Raw>> # <<>> /\ Piece(Behind(todo, n + m), <<Raw>>, Len(call.asked[4]))
    BY DEF Piece
  <2> QED  BY <1>3, <1>7, <1>10, <2>1, <2>3, <2>4, SingleKeeps
<1>11. CASE Divert(<<Split, Split, Raw>>)
  <2>1. One(Behind(todo, n), TRUE)
    BY <1>6 DEF One
  <2>2. Two(todo, TRUE)
    BY <1>4, <2>1 DEF Two
  <2>3. <<Split, Split, Raw>> # <<>> /\ Piece(todo, <<Split, Split, Raw>>, Len(call.asked[4]))
    BY <2>2 DEF Piece
  <2> QED  BY <1>2, <1>3, <1>11, <2>3, DivertKeeps
<1> QED  BY <1>8, <1>9, <1>10, <1>11

\* The division that measures a run.
LEMMA RunRoomFits ==
  ASSUME Room \in Nat
  PROVE  RunRoom \in Nat /\ RunRoom * MaxVarintLen <= Room
<1> DEFINE q == Room \div MaxVarintLen
<1>1. MaxVarintLen \in Nat \ {0}
  BY MaxVarintLenAssumption
<1>2. q \in Nat /\ MaxVarintLen * q <= Room
  <2> DEFINE r == Room
             M == MaxVarintLen
  <2>1. r \in Nat /\ M \in Nat \ {0}
    BY <1>1
  <2> HIDE DEF r, M
  <2>2. r \div M \in Nat /\ M * (r \div M) <= r
    BY <2>1
  <2> QED  BY <2>2 DEF r, M
<1>3. q * MaxVarintLen = MaxVarintLen * q
  <2> HIDE DEF q
  <2> QED  BY <1>1, <1>2
<1> QED  BY <1>2, <1>3 DEF RunRoom

\* An element of a run that is still to come keeps its room.
LEMMA WriteElementKeeps ==
  ASSUME PInv, WriteElement
  PROVE  PInv' /\ Moves
<1> DEFINE left == Len(call.elements) - written + 1
           fit == IF RunRoom <= left THEN RunRoom ELSE left
           measured == IF run > 0 THEN run ELSE fit
<1>1. Writing("write_varint_run")
  BY DEF WriteElement
<1>2. /\ todo # <<>> /\ pc # "idle" /\ routines = <<>>
      /\ Writers = <<"write_varint_run">> /\ One(todo, FALSE)
  BY <1>1, WhatIsWritten
<1>3. pc = "body" /\ call.kind = "content" /\ written > 0
  <2>1. pc # "commit" /\ call.kind = "content" /\ written > 0
    BY <1>2 DEF Writers
  <2> QED  BY <1>2, <2>1 DEF PInv, IInv, TypeOK
<1>4. PICK n \in 1..Len(todo) : Leads(todo, n) /\ Behind(todo, n) = <<>>
  BY <1>2 DEF One
<1>5. FirstLen = n /\ n = Len(todo) /\ n <= MaxVarintLen /\ n \in Nat
  BY <1>4, FirstLenIs, BehindType, Numbers DEF Leads
<1>6. measured > 0 => Put(n, <<>>) /\ reach' = offset + 0 + MaxVarintLen /\ run' = measured - 1
  BY <1>5 DEF WriteElement, Store
<1>7. ~(measured > 0) => Divert(<<Split>>)
  BY DEF WriteElement
<1>8. left \in Int /\ RunRoom \in Nat /\ fit \in Int /\ measured \in Int
  BY SMTT(30), RunRoomFits, Numbers
<1>9. measured <= left
  BY SMTT(30), <1>2, <1>8, Numbers DEF PInv, RunInv
<1>10. CASE measured > 0
  <2> DEFINE size == measured * MaxVarintLen
             kept == (measured - 1) * MaxVarintLen
  <2>1. measured \in Nat /\ MaxVarintLen \in Nat
    BY <1>8, <1>10, MaxVarintLenAssumption
  <2>2. size <= Room
    <3>1. CASE run > 0
      BY <3>1 DEF PInv, StoresInBuffer
    <3>2. CASE ~(run > 0)
      <4>1. measured <= RunRoom /\ RunRoom * MaxVarintLen <= Room
        BY SMTT(30), <1>8, <3>2, RunRoomFits, Numbers
      <4>2. measured * MaxVarintLen <= RunRoom * MaxVarintLen
        <5> HIDE DEF measured
        <5> QED  BY <1>8, <2>1, <4>1
      <4>3. RunRoom * MaxVarintLen \in Int /\ size \in Int
        <5> HIDE DEF measured
        <5> QED  BY <1>8, <2>1
      <4> QED  BY SMTT(30), <4>1, <4>2, <4>3, Numbers
    <3> QED  BY <3>1, <3>2
  <2>3. size = kept + MaxVarintLen /\ size \in Nat /\ kept \in Nat
    <3> HIDE DEF measured
    <3> QED  BY <1>10, <2>1
  <2> HIDE DEF size, measured, kept
  <2>4. MaxVarintLen <= Room /\ n <= Room
    <3>1. Room \in Nat
      BY Numbers
    <3> QED  BY <1>5, <2>1, <2>2, <2>3, <3>1
  <2>5. ~(n < Len(todo)) /\ n \in 1..Len(todo)
    BY <1>5
  <2>6. Put(n, <<>>) /\ reach' = offset + MaxVarintLen /\ run' = measured - 1
    BY <1>6, <1>10, Numbers, MaxVarintLenAssumption
  <2>7. /\ IInv' /\ CallInv' /\ TodoInv' /\ AheadInv'
        /\ offset' = offset + n /\ end' = end /\ offset' <= end'
        /\ UNCHANGED <<pc, call, written>> /\ todo' = <<>>
    BY <1>5, <2>4, <2>5, <2>6, PutKeeps
  <2>8. routines' = <<>>
    BY <2>7 DEF TodoInv
  <2>9. RunInv'
    <3>1. run' \in Nat /\ reach' \in Nat
      BY <1>10, <2>1, <2>6, Numbers
    <3>2. run' <= Len(call.elements) - written + 0
      <4>1. Len(call.elements) \in Nat /\ written \in Nat
        BY Numbers
      <4> QED  BY <1>9, <2>1, <2>6, <4>1
    <3> QED  BY <1>3, <2>7, <2>8, <3>1, <3>2 DEF RunInv
  <2>10. StoresInBuffer'
    <3>1. run' * MaxVarintLen = kept
      BY <2>6 DEF kept
    <3>2. kept <= Room - n
      <4>1. Room \in Nat
        BY Numbers
      <4> QED  BY <1>5, <2>1, <2>2, <2>3, <4>1
    <3>3. Room' = Room - n
      BY <1>5, <2>7, Numbers DEF Room
    <3>4. reach' <= end'
      BY SMTT(30), <2>1, <2>4, <2>6, <2>7, Numbers
    <3> QED  BY <2>7, <3>1, <3>2, <3>3, <3>4 DEF StoresInBuffer
  <2>11. Moves
    BY <2>4, <2>5, <2>6 DEF Moves
  <2> QED  BY <2>7, <2>9, <2>10, <2>11 DEF PInv
<1>11. CASE ~(measured > 0)
  <2>1. run = 0 /\ Divert(<<Split>>)
    BY <1>7, <1>11, Numbers
  <2>2. <<Split>> # <<>> /\ Piece(todo, <<Split>>, Len(call.asked[4]))
    BY <1>2 DEF Piece
  <2> QED  BY <1>2, <2>1, <2>2, DivertKeeps
<1> QED  BY <1>10, <1>11

\* Only routines that took over from another split a piece.
LEMMA SplittersTookOver ==
  ASSUME Head(Writers) \in {Split, Raw}
  PROVE  Writers = routines /\ routines # <<>>
<1>1. ASSUME routines = <<>> PROVE FALSE
  <2>1. Writers \in {<<"write_varint">>, <<"write_varint_run">>, <<"write_fixlen">>,
                     <<"write_field_varint", "write_varint", Raw>>, <<"write_field_varint">>}
    BY <1>1 DEF Writers
  <2>2. /\ Head(<<"write_varint">>) = "write_varint"
        /\ Head(<<"write_varint_run">>) = "write_varint_run"
        /\ Head(<<"write_fixlen">>) = "write_fixlen"
        /\ Head(<<"write_field_varint", "write_varint", Raw>>) = "write_field_varint"
        /\ Head(<<"write_field_varint">>) = "write_field_varint"
    BY RoutinesInARow
  <2>3. Head(Writers) \in {"write_varint", "write_varint_run", "write_fixlen", "write_field_varint"}
    BY <2>1, <2>2, Zenon
  <2> QED  BY <2>3 DEF Split, Raw
<1> QED  BY <1>1 DEF Writers

\* A byte of a varint, wherever it is in it.
LEMMA WriteSplitKeeps ==
  ASSUME PInv, WriteSplit
  PROVE  PInv' /\ Moves
<1> DEFINE following == IF LastByte(1) THEN Tail(routines) ELSE routines
           size == Len(call.asked[4])
<1>1. /\ Writing(Split) /\ offset < end /\ Put(1, following) /\ reach' = 0 /\ run' = run
  BY DEF WriteSplit
<1>2. todo # <<>> /\ Head(Writers) = Split
  BY <1>1 DEF Writing
<1>3. routines = Writers /\ run = 0
  <2>1. Split # "write_varint_run"
    BY DEF Split
  <2> QED  BY <1>2, <2>1, SplittersTookOver, NoRun
<1>4. 1 \in 1..Len(todo) /\ 1 <= Room /\ reach' \in Nat /\ reach' <= end
  <2>1. Len(todo) # 0
    BY <1>2, Numbers
  <2> QED  BY <1>1, <2>1, Numbers
<1>5. ASSUME 1 < Len(todo)
      PROVE  following # <<>> /\ Piece(Behind(todo, 1), following, size)
  <2> HIDE DEF size
  <2>1. todo \in Seq(Byte) /\ Behind(todo, 1) # <<>>
    BY <1>4, <1>5, BehindType, Numbers
  <2>2. \/ routines = <<Split>> /\ One(todo, FALSE)
        \/ routines = <<Split, Raw>> /\ One(todo, TRUE)
        \/ routines = <<Split, Split>> /\ Two(todo, FALSE)
        \/ routines = <<Split, Split, Raw>> /\ Two(todo, TRUE)
        \/ routines = <<Split, "write_varint", Raw>> /\ Two(todo, TRUE)
        \/ routines = <<Split, Split, "write_varint", Raw>> /\ Three(todo, TRUE)
    BY <1>1, <1>3, WhatIsWritten
  <2>3. CASE ~(todo[1] < 128)
    <3>1. following = routines /\ routines # <<>>
      BY <1>2, <1>3, <2>3, SplittersTookOver DEF LastByte
    <3>2. \A payload \in BOOLEAN :
            /\ One(todo, payload) => One(Behind(todo, 1), payload)
            /\ Two(todo, payload) => Two(Behind(todo, 1), payload)
            /\ Three(todo, payload) => Three(Behind(todo, 1), payload)
      BY <2>1, <2>3, ByteOffPieces
    <3>3. Piece(Behind(todo, 1), routines, size)
      BY <2>2, <3>2 DEF Piece
    <3> QED  BY <3>1, <3>3
  <2>4. CASE todo[1] < 128
    <3>1. following = Tail(routines)
      BY <2>4 DEF LastByte
    <3>2. \A payload \in BOOLEAN :
            /\ One(todo, payload) => payload
            /\ Two(todo, payload) => One(Behind(todo, 1), payload)
            /\ Three(todo, payload) => Two(Behind(todo, 1), payload)
      BY <2>1, <2>4, ByteOffPieces
    <3>3. \/ following = <<Raw>>
          \/ following = <<Split>> /\ One(Behind(todo, 1), FALSE)
          \/ following = <<Split, Raw>> /\ One(Behind(todo, 1), TRUE)
          \/ following = <<"write_varint", Raw>> /\ One(Behind(todo, 1), TRUE)
          \/ following = <<Split, "write_varint", Raw>> /\ Two(Behind(todo, 1), TRUE)
      <4>1. /\ Tail(<<Split, Raw>>) = <<Raw>> /\ Tail(<<Split, Split>>) = <<Split>>
            /\ Tail(<<Split, Split, Raw>>) = <<Split, Raw>>
            /\ Tail(<<Split, "write_varint", Raw>>) = <<"write_varint", Raw>>
            /\ Tail(<<Split, Split, "write_varint", Raw>>) = <<Split, "write_varint", Raw>>
        BY RoutinesInARow
      <4> HIDE DEF following
      <4> QED  BY <2>2, <3>1, <3>2, <4>1, Zenon
    <3>4. following # <<>>
      <4>1. /\ <<Raw>> # <<>> /\ <<Split>> # <<>> /\ <<Split, Raw>> # <<>>
            /\ <<"write_varint", Raw>> # <<>> /\ <<Split, "write_varint", Raw>> # <<>>
        BY RoutinesInARow
      <4> HIDE DEF following
      <4> QED  BY <3>3, <4>1, Zenon
    <3>5. Piece(Behind(todo, 1), following, size)
      <4> HIDE DEF following
      <4> QED  BY <3>3 DEF Piece
    <3> QED  BY <3>4, <3>5
  <2> QED  BY <2>3, <2>4
<1> HIDE DEF following
<1> QED  BY <1>1, <1>3, <1>4, <1>5, SingleKeeps

\* What fits of a payload.
LEMMA PushRawKeeps ==
  ASSUME PInv, PushRaw
  PROVE  PInv' /\ Moves
<1> DEFINE n == IF Len(todo) <= Room THEN Len(todo) ELSE Room
<1>1. Writing(Raw) /\ offset < end /\ Put(n, routines) /\ reach' = 0 /\ run' = run
  BY DEF PushRaw
<1>2. todo # <<>> /\ Head(Writers) = Raw
  BY <1>1 DEF Writing
<1>3. routines = <<Raw>> /\ routines # <<>> /\ run = 0
  <2>1. Raw # "write_varint_run"
    BY DEF Raw
  <2> QED  BY <1>1, <1>2, <2>1, SplittersTookOver, NoRun, WhatIsWritten
<1>4. n \in 1..Len(todo) /\ n <= Room /\ reach' \in Nat /\ reach' <= end
  <2>1. Len(todo) # 0
    BY <1>2, Numbers
  <2> QED  BY <1>1, <2>1, Numbers
<1> HIDE DEF n
<1>5. Piece(Behind(todo, n), routines, Len(call.asked[4]))
  BY <1>3 DEF Piece
<1> QED  BY <1>1, <1>3, <1>4, <1>5, SingleKeeps

-----------------------------------------------------------------------------
(***************************************************************************)
(* The steps between pieces, and the calls.                                *)
(***************************************************************************)
\* Outside a run, and where OStream has nothing left to push.
LEMMA QuietKeeps ==
  ASSUME IInv', run = 0, run' = run, reach' = 0, ahead' = 0
  PROVE  RunInv' /\ AheadInv' /\ StoresInBuffer'
<1>1. /\ end' \in Nat /\ offset' \in Nat /\ offset' <= end' /\ Len(mem') \in Nat
  BY LenProperties DEF IInv, TypeOK, CursorInBuffer
<1>2. run' * MaxVarintLen = 0
  BY MaxVarintLenAssumption
<1>3. StoresInBuffer'
  BY <1>1, <1>2 DEF StoresInBuffer, Room
<1> QED  BY <1>1, <1>3 DEF RunInv, AheadInv

\* A full buffer is drained in the middle of a piece, which the same routines go on
\* with; or the call fails.
LEMMA DrainKeeps ==
  ASSUME PInv, Drain
  PROVE  PInv'
<1>1. /\ todo # <<>> /\ Head(Writers) \in {Split, Raw}
      /\ DrainFails \/ \E reply \in Replies : DrainToSink(reply)
      /\ routines' = (IF pc' = "idle" THEN <<>> ELSE routines)
      /\ reach' = 0 /\ run' = run /\ ahead' = ahead
  BY DEF Drain
<1>2. Writers = routines /\ routines # <<>>
  BY <1>1, SplittersTookOver
<1>3. run = 0
  <2>1. Split # "write_varint_run" /\ Raw # "write_varint_run"
    BY DEF Split, Raw
  <2> QED  BY <1>1, <2>1, NoRun
<1>4. offset >= end
  BY <1>1 DEF DrainFails, DrainToSink
<1>5. ahead = 0
  BY <1>4, Numbers DEF PInv, AheadInv
<1>6. IInv'
  BY <1>1, DrainFailsKeeps, DrainToSinkKeeps DEF PInv
<1>7. RunInv' /\ AheadInv' /\ StoresInBuffer'
  BY <1>1, <1>3, <1>5, <1>6, QuietKeeps
<1>8. \/ pc' = "idle" /\ todo' = <<>>
      \/ UNCHANGED callVars
  BY <1>1 DEF DrainFails, DrainToSink, Fail, Finish
<1>9. CASE pc' = "idle" /\ todo' = <<>>
  <2>1. CallInv' /\ TodoInv'
    BY <1>1, <1>9 DEF CallInv, TodoInv
  <2> QED  BY <1>6, <1>7, <2>1 DEF PInv
<1>10. CASE UNCHANGED callVars
  <2>1. pc' = pc /\ pc # "idle" /\ call' = call /\ todo' = todo
    BY <1>1, <1>10 DEF callVars, PInv, IInv, IdleIsClean
  <2>2. routines' = routines
    BY <1>1, <2>1
  <2>3. Writers' = Writers
    BY <1>2, <2>2 DEF Writers
  <2>4. CallInv' /\ TodoInv'
    BY <2>1, <2>2, <2>3 DEF CallInv, TodoInv, PInv
  <2> QED  BY <1>6, <1>7, <2>4 DEF PInv
<1> QED  BY <1>8, <1>9, <1>10

\* A call of a kind leaves a piece that the routines of that kind write.
FirstPiece ==
  routines = <<>> /\ pc = "body" /\ written = 0 /\ todo = call.body /\ AsAsked(call) =>
    Piece(todo, Writers, Len(call.asked[4]))

\* The content writers and an end marker alike.
LEMMA FirstPieceFits == FirstPiece
<1> SUFFICES ASSUME routines = <<>>, pc = "body", written = 0, todo = call.body, AsAsked(call)
             PROVE  Piece(todo, Writers, Len(call.asked[4]))
  BY DEF FirstPiece
<1>1. ~(written > 0) /\ pc # "commit"
  OBVIOUS
<1>2. CASE call.kind # "content"
  <2>1. Writers = <<"write_varint">> /\ One(todo, FALSE)
    BY <1>2 DEF Writers, AsAsked
  <2> QED  BY <2>1 DEF Piece
<1>3. CASE call.kind = "content" /\ call.asked[1] = "fixlen"
  <2>1. Writers = <<"write_fixlen">> /\ FixlenField(todo, Len(call.asked[4]))
    BY <1>3 DEF Writers, AsAsked
  <2> QED  BY <2>1 DEF Piece
<1>4. CASE /\ call.kind = "content" /\ call.asked[1] = "array"
           /\ call.asked[3] \in {KindFp32, KindFp64}
  <2>1. call.asked[1] # "fixlen"
    BY <1>4
  <2>2. Three(todo, TRUE)
    BY <1>4, <2>1, Zenon DEF AsAsked
  <2>3. Writers = <<"write_field_varint", "write_varint", Raw>>
    BY <1>1, <1>4, <2>1, Zenon DEF Writers
  <2> QED  BY <2>2, <2>3 DEF Piece
<1>5. CASE /\ call.kind = "content" /\ call.asked[1] # "fixlen"
           /\ ~(call.asked[1] = "array" /\ call.asked[3] \in {KindFp32, KindFp64})
  <2>1. Two(todo, FALSE)
    BY <1>5, Zenon DEF AsAsked
  <2>2. Writers = <<"write_field_varint">>
    BY <1>1, <1>5, Zenon DEF Writers
  <2> QED  BY <2>1, <2>2 DEF Piece
<1> QED  BY <1>2, <1>3, <1>4, <1>5

\* A header is one varint.
LEMMA HeaderIsVarint ==
  ASSUME NEW id \in Nat, NEW wireType \in 0..7
  PROVE  IsVarint(Header(id, wireType))
<1> DEFINE word == 8 * id + wireType
<1>1. word \in Nat
  OBVIOUS
<1> HIDE DEF word
<1>2. IsVarint(Varint(word))
  BY <1>1, VarintEnds DEF IsVarint
<1> QED  BY <1>2 DEF Header, word

\* So is a value.
LEMMA VarintIsVarint ==
  ASSUME NEW v \in Nat
  PROVE  IsVarint(Varint(v))
BY VarintEnds DEF IsVarint

\* So is the word of a fixlen field.
LEMMA FixlenWordIsVarint ==
  ASSUME NEW len \in Nat, NEW subtype \in FixlenTypes
  PROVE  IsVarint(FixlenWord(len, subtype))
<1>1. 8 * len + subtype \in Nat
  BY DEF FixlenTypes, Fp32, Fp64, Str, Blob
<1> QED  BY <1>1, VarintIsVarint DEF FixlenWord

\* The header of a held-back sequence is one piece.
LEMMA HeldBackHeader ==
  ASSUME IInv, NEW i \in 1..Len(pending)
  PROVE  One(SequenceHeader(pending[i]), FALSE)
<1>1. pending[i] \in 0..IdMax
  BY ElementOfSeq DEF IInv, TypeOK
<1>2. pending[i] \in Nat
  BY <1>1, FormatAssumption
<1>3. IsVarint(SequenceHeader(pending[i]))
  BY <1>2, HeaderIsVarint DEF SequenceHeader, T_SEQUENCE_START
<1> QED  BY <1>3, OneVarint

\* A varint has a byte.
LEMMA OneNotEmpty ==
  ASSUME NEW s, NEW payload, One(s, payload)
  PROVE  s # <<>>
BY DEF One

\* The next header of the held-back run, or the call's body, is a piece of its own.
LEMMA HeaderWrittenKeepsPaths ==
  ASSUME PInv, HeaderWritten, reach' = 0, UNCHANGED <<routines, run, ahead>>
  PROVE  PInv'
<1>1. IInv' /\ pc = "commit" /\ todo = <<>> /\ call' = call
  BY HeaderWrittenKeeps DEF PInv, HeaderWritten
<1>2. routines' = <<>> /\ run = 0 /\ ahead = 0 /\ AsAsked(call)
  BY <1>1, Numbers DEF PInv, TodoInv, RunInv, AheadInv, CallInv
<1>3. RunInv' /\ AheadInv' /\ StoresInBuffer'
  BY <1>1, <1>2, QuietKeeps
<1>4. CallInv'
  BY <1>1, <1>2 DEF CallInv
<1>5. TodoInv'
  <2>1. CASE written + 1 < Len(pending)
    <3>1. written + 2 \in 1..Len(pending)
      BY <2>1, LenProperties DEF PInv, IInv, TypeOK
    <3>2. One(todo', FALSE) /\ pc' = "commit"
      BY <1>1, <2>1, <3>1, HeldBackHeader DEF HeaderWritten, PInv
    <3>3. Writers' = <<"write_varint">>
      BY <1>2, <3>2 DEF Writers
    <3>4. Piece(todo', Writers', Len(call'.asked[4]))
      BY <3>2, <3>3 DEF Piece
    <3> QED  BY <1>2, <3>4 DEF TodoInv
  <2>2. CASE ~(written + 1 < Len(pending))
    <3>1. pc' = "body" /\ written' = 0 /\ todo' = call'.body /\ AsAsked(call')
      BY <1>1, <1>2, <2>2 DEF HeaderWritten
    <3>2. FirstPiece'
      BY FirstPieceFits, PTL
    <3>3. Piece(todo', Writers', Len(call'.asked[4]))
      BY <1>2, <3>1, <3>2 DEF FirstPiece
    <3> QED  BY <1>2, <3>3 DEF TodoInv
  <2> QED  BY <2>1, <2>2
<1> QED  BY <1>1, <1>3, <1>4, <1>5 DEF PInv

\* A run goes on with the next element.
LEMMA NextElementKeepsPaths ==
  ASSUME PInv, NextElement, reach' = 0, UNCHANGED <<routines, run, ahead>>
  PROVE  PInv'
<1>1. /\ IInv' /\ pc = "body" /\ todo = <<>> /\ written < Len(call.elements)
      /\ todo' = call.elements[written + 1] /\ written' = written + 1
      /\ UNCHANGED <<pc, call, end, offset, mem>>
  BY NextElementKeeps DEF PInv, NextElement, bufferVars
<1>2. routines = <<>> /\ ahead = 0 /\ AsAsked(call)
  BY <1>1, Numbers DEF PInv, TodoInv, AheadInv, CallInv
<1>3. CallInv'
  BY <1>1, <1>2 DEF CallInv
<1>4. One(todo', FALSE) /\ todo' # <<>>
  <2>1. written + 1 \in 1..Len(call.elements)
    BY SMTT(30), <1>1, Numbers
  <2> QED  BY <1>1, <1>2, <2>1, OneNotEmpty DEF AsAsked
<1>5. TodoInv'
  <2>1. CASE call.kind # "content"
    <3>1. Writers' = <<"write_varint">>
      BY <1>1, <1>2, <2>1 DEF Writers
    <3>2. Piece(todo', Writers', Len(call'.asked[4]))
      BY <1>4, <3>1 DEF Piece
    <3> QED  BY <1>2, <1>4, <3>2 DEF TodoInv
  <2>2. CASE call.kind = "content"
    <3>1. written' > 0 /\ pc' # "commit"
      BY <1>1, Numbers
    <3>2. Writers' = <<"write_varint_run">>
      BY <1>1, <1>2, <2>2, <3>1 DEF Writers
    <3> QED  BY <1>2, <1>4, <3>2 DEF TodoInv
  <2> QED  BY <2>1, <2>2
<1>6. RunInv'
  <2>1. run' \in Nat /\ reach' \in Nat
    BY Numbers
  <2>2. ASSUME run > 0
        PROVE  /\ pc' = "body" /\ call'.kind = "content" /\ written' > 0 /\ routines' = <<>>
               /\ run <= Len(call.elements) - (written + 1) + 1
    BY SMTT(30), <1>1, <1>2, <2>2, Numbers DEF PInv, RunInv
  <2> QED  BY <1>1, <1>4, <2>1, <2>2 DEF RunInv
<1>7. AheadInv'
  BY <1>1, <1>2, Numbers DEF AheadInv
<1>8. StoresInBuffer'
  BY <1>1, Numbers DEF PInv, StoresInBuffer, Room
<1> QED  BY <1>1, <1>3, <1>5, <1>6, <1>7, <1>8 DEF PInv

\* A run ends with the last element.
LEMMA ReturnKeepsPaths ==
  ASSUME PInv, Return, reach' = 0, UNCHANGED <<routines, run, ahead>>
  PROVE  PInv'
<1>1. /\ IInv' /\ todo = <<>> /\ written = Len(call.elements)
      /\ pc' = "idle" /\ todo' = <<>>
  BY ReturnKeeps DEF PInv, Return, Finish
<1>2. routines = <<>> /\ ahead = 0 /\ run = 0
  BY <1>1, Numbers DEF PInv, TodoInv, AheadInv, RunInv
<1>3. RunInv' /\ AheadInv' /\ StoresInBuffer'
  BY <1>1, <1>2, QuietKeeps
<1>4. CallInv' /\ TodoInv'
  BY <1>1, <1>2 DEF CallInv, TodoInv
<1> QED  BY <1>1, <1>3, <1>4 DEF PInv

\* What a call that writes begins with.
Begun ==
  /\ AsAsked(call') /\ written' = 0
  /\ \/ pending # <<>> /\ pc' = "commit" /\ todo' = SequenceHeader(Head(pending))
     \/ pc' = "body" /\ todo' = call'.body

\* The held-back run's first header, or the body, is the first piece.
LEMMA BeginBegun ==
  ASSUME NEW kind, NEW body, NEW elements, NEW asked, NEW commits,
         Begin(kind, body, elements, asked, commits),
         AsAsked([kind |-> kind, body |-> body, elements |-> elements, asked |-> asked])
  PROVE  Begun
BY DEF Begin, Begun

\* The elements of an array are varints, one each.
LEMMA RunIsVarints ==
  ASSUME NEW vs \in Seq(Nat)
  PROVE  \A i \in 1..Len(VarintRun(vs)) : One(VarintRun(vs)[i], FALSE)
<1>1. DOMAIN vs = 1..Len(vs) /\ Len(vs) \in Nat
  BY LenProperties
<1>2. Len(VarintRun(vs)) = Len(vs) /\ \A i \in 1..Len(vs) : VarintRun(vs)[i] = Varint(vs[i])
  BY <1>1 DEF VarintRun
<1>3. ASSUME NEW i \in 1..Len(vs) PROVE One(Varint(vs[i]), FALSE)
  <2>1. vs[i] \in Nat
    BY ElementOfSeq
  <2> QED  BY <2>1, VarintIsVarint, OneVarint
<1> QED  BY <1>2, <1>3

\* A field of two varints.
LEMMA FieldVarintIsTwo ==
  ASSUME NEW id \in Nat, NEW wireType \in 0..7, NEW v \in Nat
  PROVE  Two(FieldVarint(id, wireType, v), FALSE)
BY HeaderIsVarint, VarintIsVarint, TwoVarints DEF FieldVarint

\* Scalars and arrays of integers.
LEMMA TwoAsAsked ==
  ASSUME NEW body, Two(body, FALSE), NEW elements,
         \A i \in 1..Len(elements) : One(elements[i], FALSE),
         NEW asked, asked[1] # "fixlen", ~(asked[1] = "array" /\ asked[3] \in {KindFp32, KindFp64})
  PROVE  AsAsked([kind |-> "content", body |-> body, elements |-> elements, asked |-> asked])
<1> DEFINE c == [kind |-> "content", body |-> body, elements |-> elements, asked |-> asked]
<1>1. c.kind = "content" /\ c.body = body /\ c.elements = elements /\ c.asked = asked
  OBVIOUS
<1> HIDE DEF c
<1>2. \A i \in 1..Len(c.elements) : One(c.elements[i], FALSE)
  BY <1>1
<1>3. /\ c.asked[1] # "fixlen" /\ ~(c.asked[1] = "array" /\ c.asked[3] \in {KindFp32, KindFp64})
      /\ Two(c.body, FALSE)
  BY <1>1
<1>4. AsAsked(c)
  BY <1>1, <1>2, <1>3, Zenon DEF AsAsked
<1> QED  BY <1>4 DEF c

\* The payload of a fixlen field behind its two varints.
LEMMA FixlenAsAsked ==
  ASSUME NEW body, NEW asked, asked[1] = "fixlen", FixlenField(body, Len(asked[4]))
  PROVE  AsAsked([kind |-> "content", body |-> body, elements |-> <<>>, asked |-> asked])
<1> DEFINE c == [kind |-> "content", body |-> body, elements |-> <<>>, asked |-> asked]
<1>1. c.kind = "content" /\ c.body = body /\ c.elements = <<>> /\ c.asked = asked
  OBVIOUS
<1> HIDE DEF c
<1>2. \A i \in 1..Len(c.elements) : One(c.elements[i], FALSE)
  BY <1>1
<1>3. c.asked[1] = "fixlen" /\ FixlenField(c.body, Len(c.asked[4]))
  BY <1>1
<1>4. AsAsked(c)
  BY <1>1, <1>2, <1>3, Zenon DEF AsAsked
<1> QED  BY <1>4 DEF c

\* The images of a float array behind its three varints.
LEMMA FloatsAsAsked ==
  ASSUME NEW body, NEW asked, asked[1] = "array", asked[3] \in {KindFp32, KindFp64},
         Three(body, TRUE)
  PROVE  AsAsked([kind |-> "content", body |-> body, elements |-> <<>>, asked |-> asked])
<1> DEFINE c == [kind |-> "content", body |-> body, elements |-> <<>>, asked |-> asked]
<1>1. c.kind = "content" /\ c.body = body /\ c.elements = <<>> /\ c.asked = asked
  OBVIOUS
<1> HIDE DEF c
<1>2. \A i \in 1..Len(c.elements) : One(c.elements[i], FALSE)
  BY <1>1
<1>3. /\ c.asked[1] = "array" /\ c.asked[3] \in {KindFp32, KindFp64} /\ Three(c.body, TRUE)
      /\ c.asked[1] # "fixlen"
  BY <1>1
<1>4. AsAsked(c)
  BY <1>1, <1>2, <1>3, Zenon DEF AsAsked
<1> QED  BY <1>4 DEF c

\* An end marker is one varint.
LEMMA EndAsAsked ==
  ASSUME NEW kind \in {"end", "keep"}
  PROVE  AsAsked([kind |-> kind, body |-> EndMarker, elements |-> <<>>, asked |-> <<>>])
<1> DEFINE c == [kind |-> kind, body |-> EndMarker, elements |-> <<>>, asked |-> <<>>]
<1>1. c.kind # "content" /\ c.body = EndMarker /\ c.elements = <<>>
  OBVIOUS
<1> HIDE DEF c
<1>2. \A i \in 1..Len(c.elements) : One(c.elements[i], FALSE)
  BY <1>1
<1>3. One(EndMarker, FALSE)
  BY VarintIsVarint, OneVarint DEF EndMarker, T_SEQUENCE_END
<1>4. AsAsked(c)
  BY <1>1, <1>2, <1>3 DEF AsAsked
<1> QED  BY <1>4 DEF c

\* Every writer of a field refuses, or begins with what its routines write.
LEMMA WritersBegin ==
  ASSUME NEW id \in Ids, WriteField(id)
  PROVE  UNCHANGED callVars \/ Begun
<1> USE CallerAssumption
<1>1. id \in Nat /\ Unsigned \subseteq Nat /\ Signed \subseteq Int
  BY DEF Unsigned, Signed
<1>2. \A i \in 1..Len(<<>>) : One(<<>>[i], FALSE)
  OBVIOUS
<1>3. ASSUME NEW accepted, NEW body, NEW elements, NEW asked,
             Content(id, accepted, body, elements, asked),
             AsAsked([kind |-> "content", body |-> body, elements |-> elements, asked |-> asked])
      PROVE  UNCHANGED callVars \/ Begun
  BY <1>3, BeginBegun DEF Content, Refuse, Answer
<1>4. ASSUME NEW v \in UnsignedValues, WriteUnsigned(id, v)
      PROVE  UNCHANGED callVars \/ Begun
  <2> DEFINE asked == Scalar(id, KindUnsigned, v)
             body == FieldVarint(id, T_VARINT_UNSIGNED, v)
  <2>1. asked[1] # "fixlen" /\ asked[1] # "array"
    BY DEF Scalar
  <2>2. Two(body, FALSE)
    <3>1. T_VARINT_UNSIGNED \in 0..7
      BY DEF T_VARINT_UNSIGNED
    <3> QED  BY <1>1, <3>1, FieldVarintIsTwo
  <2>3. Content(id, TRUE, body, <<>>, asked)
    BY <1>4 DEF WriteUnsigned
  <2> HIDE DEF asked, body
  <2> QED  BY <1>2, <1>3, <2>1, <2>2, <2>3, TwoAsAsked
<1>5. ASSUME NEW v \in SignedValues, WriteSigned(id, v)
      PROVE  UNCHANGED callVars \/ Begun
  <2> DEFINE asked == Scalar(id, KindSigned, v)
             body == FieldVarint(id, T_VARINT_SIGNED, ZigZag(v))
  <2>1. asked[1] # "fixlen" /\ asked[1] # "array"
    BY DEF Scalar
  <2>2. Two(body, FALSE)
    <3>1. T_VARINT_SIGNED \in 0..7
      BY DEF T_VARINT_SIGNED
    <3> QED  BY <1>1, ZigZagType, <3>1, FieldVarintIsTwo
  <2>3. Content(id, TRUE, body, <<>>, asked)
    BY <1>5 DEF WriteSigned
  <2> HIDE DEF asked, body
  <2> QED  BY <1>2, <1>3, <2>1, <2>2, <2>3, TwoAsAsked
<1>6. ASSUME NEW data \in Payloads, NEW subtype \in FixlenTypes, WriteFixlen(id, data, subtype)
      PROVE  UNCHANGED callVars \/ Begun
  <2> DEFINE asked == Fixlen(id, subtype, data)
             body == Header(id, T_FIXLEN) \o FixlenWord(Len(data), subtype) \o data
             accepted == FixlenAgrees(data, subtype)
  <2>1. asked[1] = "fixlen" /\ asked[4] = data
    BY DEF Fixlen
  <2>2. FixlenField(body, Len(data))
    <3>1. data \in Seq(Byte) /\ Len(data) \in Nat
      BY LenProperties
    <3>2. IsVarint(Header(id, T_FIXLEN))
      BY <1>1, HeaderIsVarint DEF T_FIXLEN
    <3>3. IsVarint(FixlenWord(Len(data), subtype))
      BY <3>1, FixlenWordIsVarint
    <3> QED  BY <3>1, <3>2, <3>3, VarintsAndPayload
  <2>3. Content(id, accepted, body, <<>>, asked)
    BY <1>6 DEF WriteFixlen
  <2> HIDE DEF asked, body, accepted
  <2> QED  BY <1>3, <2>1, <2>2, <2>3, FixlenAsAsked
<1>7. ASSUME NEW vs \in UnsignedArrays, WriteArrayUnsigned(id, vs)
      PROVE  UNCHANGED callVars \/ Begun
  <2> DEFINE asked == Array(id, KindUnsigned, vs)
             body == FieldVarint(id, T_VARINTARRAY_UNSIGNED, Len(vs))
             accepted == Len(vs) <= ArrayMax
             elements == VarintRun(vs)
  <2>1. asked[1] # "fixlen" /\ asked[3] \notin {KindFp32, KindFp64}
    BY DEF Array, KindUnsigned, KindFp32, KindFp64
  <2>2. vs \in Seq(Nat) /\ Len(vs) \in Nat
    BY <1>1, SeqMonotonic, LenProperties
  <2>3. Two(body, FALSE)
    <3>1. T_VARINTARRAY_UNSIGNED \in 0..7
      BY DEF T_VARINTARRAY_UNSIGNED
    <3> QED  BY <1>1, <2>2, <3>1, FieldVarintIsTwo
  <2>4. \A i \in 1..Len(elements) : One(elements[i], FALSE)
    BY <2>2, RunIsVarints
  <2>5. Content(id, accepted, body, elements, asked)
    BY <1>7 DEF WriteArrayUnsigned
  <2> HIDE DEF asked, body, accepted, elements
  <2> QED  BY <1>3, <2>1, <2>3, <2>4, <2>5, TwoAsAsked
<1>8. ASSUME NEW vs \in SignedArrays, WriteArraySigned(id, vs)
      PROVE  UNCHANGED callVars \/ Begun
  <2> DEFINE asked == Array(id, KindSigned, vs)
             body == FieldVarint(id, T_VARINTARRAY_SIGNED, Len(vs))
             accepted == Len(vs) <= ArrayMax
             us == [i \in DOMAIN vs |-> ZigZag(vs[i])]
             elements == VarintRun(us)
  <2>1. asked[1] # "fixlen" /\ asked[3] \notin {KindFp32, KindFp64}
    BY DEF Array, KindSigned, KindFp32, KindFp64
  <2>2. vs \in Seq(Int) /\ Len(vs) \in Nat /\ DOMAIN vs = 1..Len(vs)
    BY <1>1, SeqMonotonic, LenProperties
  <2>3. us \in [1..Len(vs) -> Nat]
    BY <2>2, ElementOfSeq, ZigZagType
  <2>4. us \in Seq(Nat)
    BY <2>2, <2>3
  <2>5. Two(body, FALSE)
    <3>1. T_VARINTARRAY_SIGNED \in 0..7
      BY DEF T_VARINTARRAY_SIGNED
    <3> QED  BY <1>1, <2>2, <3>1, FieldVarintIsTwo
  <2>6. \A i \in 1..Len(elements) : One(elements[i], FALSE)
    <3> HIDE DEF us
    <3> QED  BY <2>4, RunIsVarints
  <2>7. Content(id, accepted, body, elements, asked)
    BY <1>8 DEF WriteArraySigned
  <2> HIDE DEF asked, body, accepted, elements
  <2> QED  BY <1>3, <2>1, <2>5, <2>6, <2>7, TwoAsAsked
<1>9. ASSUME NEW data \in FloatArrays, NEW subtype \in {Fp32, Fp64},
             WriteArrayFloat(id, data, subtype)
      PROVE  UNCHANGED callVars \/ Begun
  <2> DEFINE width == FloatLen(subtype)
             count == Len(data) \div width
             asked == Array(id, IF subtype = Fp32 THEN KindFp32 ELSE KindFp64, data)
             body == FieldVarint(id, T_FIXLENARRAY, count) \o FixlenWord(width, subtype) \o data
             accepted == count <= ArrayMax
  <2>1. asked[1] = "array" /\ asked[3] \in {KindFp32, KindFp64}
    BY DEF Array
  <2>2. Three(body, TRUE)
    <3>1. data \in Seq(Byte) /\ Len(data) \in Nat
      BY LenProperties
    <3>2. width \in Nat \ {0} /\ subtype \in FixlenTypes
      BY FormatAssumption DEF FloatLen, FixlenTypes
    <3>3. count \in Nat
      <4> HIDE DEF width
      <4> QED  BY <3>1, <3>2
    <3>4. IsVarint(Header(id, T_FIXLENARRAY))
      BY <1>1, HeaderIsVarint DEF T_FIXLENARRAY
    <3>5. IsVarint(Varint(count)) /\ IsVarint(FixlenWord(width, subtype))
      <4> HIDE DEF count, width
      <4> QED  BY <3>2, <3>3, VarintIsVarint, FixlenWordIsVarint
    <3> HIDE DEF count, width
    <3>6. Three((Header(id, T_FIXLENARRAY) \o Varint(count)) \o FixlenWord(width, subtype) \o data,
                TRUE)
      BY <3>1, <3>4, <3>5, ThreeVarintsAndPayload
    <3> QED  BY <3>6 DEF FieldVarint
  <2>3. Content(id, accepted, body, <<>>, asked)
    BY <1>9 DEF WriteArrayFloat
  <2> HIDE DEF asked, body, accepted
  <2> QED  BY <1>3, <2>1, <2>2, <2>3, FloatsAsAsked
<1> QED
  BY <1>4, <1>5, <1>6, <1>7, <1>8, <1>9 DEF WriteField

\* Each call is made when nothing is left of the last one, and answers or begins.
LEMMA CallsBegin ==
  ASSUME Calls
  PROVE  pc = "idle" /\ (UNCHANGED callVars \/ Begun)
<1>1. ASSUME NEW id \in Ids, WriteField(id)
      PROVE  pc = "idle" /\ (UNCHANGED callVars \/ Begun)
  <2>1. pc = "idle"
    BY <1>1 DEF WriteField, WriteUnsigned, WriteSigned, WriteFixlen, WriteArrayUnsigned,
                WriteArraySigned, WriteArrayFloat, Content, CanWrite, CanCall
  <2> QED  BY <1>1, <2>1, WritersBegin
<1>2. ASSUME NEW id \in Ids, WriteSequenceBeginLazy(id)
      PROVE  pc = "idle" /\ UNCHANGED callVars
  BY <1>2 DEF WriteSequenceBeginLazy, CanCall, Refuse, Answer
<1>3. ASSUME WriteSequenceEnd
      PROVE  pc = "idle" /\ (UNCHANGED callVars \/ Begun)
  <2>1. pc = "idle" /\ (UNCHANGED callVars \/ Begin("end", EndMarker, <<>>, <<>>, FALSE))
    BY <1>3 DEF WriteSequenceEnd, CanWrite, CanCall, Refuse, Answer
  <2> QED  BY <2>1, EndAsAsked, BeginBegun
<1>4. ASSUME WriteSequenceEndKeep
      PROVE  pc = "idle" /\ (UNCHANGED callVars \/ Begun)
  <2>1. pc = "idle" /\ (UNCHANGED callVars \/ Begin("keep", EndMarker, <<>>, <<>>, TRUE))
    BY <1>4 DEF WriteSequenceEndKeep, CanWrite, CanCall, Refuse, Answer
  <2> QED  BY <2>1, EndAsAsked, BeginBegun
<1>5. ASSUME NEW reply \in Replies, Flush(reply)
      PROVE  pc = "idle" /\ UNCHANGED callVars
  BY <1>5 DEF Flush, FlushRefused, CanCall, Refuse, Answer
<1>6. ASSUME NEW b \in Buffers, BufferSet(b)
      PROVE  pc = "idle" /\ UNCHANGED callVars
  BY <1>6 DEF BufferSet, CanCall, Refuse, Answer
<1> QED
  BY <1>1, <1>2, <1>3, <1>4, <1>5, <1>6 DEF Calls

\* A call finds no piece left over, and leaves one that its routines write.
LEMMA CallsKeepPaths ==
  ASSUME PInv, Calls, reach' = 0, UNCHANGED <<routines, run, ahead>>
  PROVE  PInv'
<1>1. pc = "idle" /\ (UNCHANGED callVars \/ Begun) /\ IInv'
  BY CallsBegin, NextInductive DEF PInv, Next
<1>2. todo = <<>> /\ routines = <<>> /\ run = 0 /\ ahead = 0
  BY <1>1, Numbers DEF PInv, IInv, IdleIsClean, TodoInv, RunInv, AheadInv
<1>3. RunInv' /\ AheadInv' /\ StoresInBuffer'
  BY <1>1, <1>2, QuietKeeps
<1>4. CASE UNCHANGED callVars
  <2>1. CallInv' /\ TodoInv'
    BY <1>1, <1>2, <1>4 DEF callVars, CallInv, TodoInv
  <2> QED  BY <1>1, <1>3, <2>1 DEF PInv
<1>5. CASE Begun
  <2>1. CallInv'
    BY <1>5 DEF Begun, CallInv
  <2>2. TodoInv'
    <3>1. CASE pending # <<>> /\ pc' = "commit" /\ todo' = SequenceHeader(Head(pending))
      <4>1. pending \in Seq(0..IdMax) /\ Len(pending) # 0
        BY <3>1 DEF PInv, IInv, TypeOK
      <4>2. Head(pending) = pending[1] /\ 1 \in 1..Len(pending)
        BY <3>1, <4>1, HeadTailProperties, LenProperties
      <4>3. One(todo', FALSE)
        BY <3>1, <4>2, HeldBackHeader DEF PInv
      <4>4. Writers' = <<"write_varint">>
        BY <1>2, <3>1 DEF Writers
      <4>5. Piece(todo', Writers', Len(call'.asked[4]))
        BY <4>3, <4>4 DEF Piece
      <4> QED  BY <1>2, <4>5 DEF TodoInv
    <3>2. CASE pc' = "body" /\ todo' = call'.body
      <4>1. FirstPiece'
        BY FirstPieceFits, PTL
      <4>2. Piece(todo', Writers', Len(call'.asked[4]))
        BY <1>2, <1>5, <3>2, <4>1 DEF Begun, FirstPiece
      <4> QED  BY <1>2, <4>2 DEF TodoInv
    <3> QED  BY <1>5, <3>1, <3>2 DEF Begun
  <2> QED  BY <1>1, <1>3, <2>1, <2>2 DEF PInv
<1> QED  BY <1>1, <1>4, <1>5

-----------------------------------------------------------------------------
(***************************************************************************)
(* The invariants.                                                         *)
(***************************************************************************)
\* A stream that was just made has no piece and no run.
LEMMA PathInitInductive == PathInit => PInv
<1> SUFFICES ASSUME PathInit PROVE PInv
  OBVIOUS
<1>1. IInv /\ routines = <<>> /\ run = 0 /\ reach = 0 /\ ahead = 0
  BY InitInductive DEF PathInit
<1>2. pc = "idle" /\ todo = <<>>
  BY DEF PathInit, Init
<1>3. /\ end \in Nat /\ offset \in Nat /\ offset <= end /\ Len(mem) \in Nat
  BY <1>1, LenProperties DEF IInv, TypeOK, CursorInBuffer
<1>4. run * MaxVarintLen = 0
  BY <1>1, MaxVarintLenAssumption
<1>5. StoresInBuffer
  BY <1>1, <1>3, <1>4 DEF StoresInBuffer, Room
<1> QED  BY <1>1, <1>2, <1>3, <1>5 DEF PInv, CallInv, TodoInv, RunInv, AheadInv

\* Every step keeps the invariant.
LEMMA PathNextInductive == PInv /\ [PathNext]_allVars => PInv'
<1> SUFFICES ASSUME PInv, [PathNext]_allVars PROVE PInv'
  OBVIOUS
<1>1. CASE PathSteps
  <2>1. CASE HeaderWritten /\ reach' = 0 /\ UNCHANGED <<routines, run, ahead>>
    BY <2>1, HeaderWrittenKeepsPaths
  <2>2. CASE NextElement /\ reach' = 0 /\ UNCHANGED <<routines, run, ahead>>
    BY <2>2, NextElementKeepsPaths
  <2>3. CASE Return /\ reach' = 0 /\ UNCHANGED <<routines, run, ahead>>
    BY <2>3, ReturnKeepsPaths
  <2> QED
    BY <1>1, <2>1, <2>2, <2>3, WriteVarintKeeps, WriteFieldVarintKeeps, WriteFixlenFieldKeeps,
       WriteElementKeeps, WriteSplitKeeps, PushRawKeeps, DrainKeeps DEF PathSteps, Between
<1>2. CASE Calls /\ reach' = 0 /\ UNCHANGED <<routines, run, ahead>>
  BY <1>2, CallsKeepPaths
<1>3. CASE UNCHANGED allVars
  <2>1. UNCHANGED <<vars, routines, run, reach, ahead>>
    BY <1>3 DEF allVars, pathVars
  <2>2. IInv' /\ CallInv' /\ RunInv' /\ AheadInv'
    BY <2>1 DEF PInv, vars, IInv, TypeOK, CursorInBuffer, HeldBackAreOpen, IdleIsClean,
                CallInv, RunInv, AheadInv
  <2>3. StoresInBuffer'
    BY <2>1 DEF PInv, StoresInBuffer, Room, vars
  <2>4. Writers' = Writers
    BY <2>1 DEF Writers, vars
  <2>5. TodoInv'
    BY <2>1, <2>4 DEF PInv, TodoInv, vars
  <2> QED  BY <2>2, <2>3, <2>5 DEF PInv
<1> QED
  BY <1>1, <1>2, <1>3 DEF PathNext

\* The invariant holds throughout.
LEMMA PathInvariant == PathSpec => []PInv
BY PathInitInductive, PathNextInductive, PTL DEF PathSpec

\* No unchecked store of any writer reaches past the end of the buffer, and a run
\* that was measured has its room until its last element (ostream.rs:597-1049).
THEOREM StoresCorrect == PathSpec => []StoresInBuffer
<1>1. PInv => StoresInBuffer
  BY DEF PInv
<1> QED  BY <1>1, PathInvariant, PTL

\* The cursor's invariant, for the code's own write paths.
THEOREM PathCursorCorrect == PathSpec => []CursorInBuffer
<1>1. PInv => CursorInBuffer
  BY DEF PInv, IInv
<1> QED  BY <1>1, PathInvariant, PTL

-----------------------------------------------------------------------------
(***************************************************************************)
(* The write paths implement OStream.                                      *)
(***************************************************************************)
\* The varints, headers and checks of the abstract encoder are this one's.
LEMMA PushesVarint == \A v : Pushes!Varint(v) = Varint(v)
<1>1. \A v : Pushes!VarintLen(v) = VarintLen(v)
  BY DEF Pushes!VarintLen, VarintLen, Pushes!Continue, Continue
<1> QED  BY <1>1 DEF Pushes!Varint, Varint, Pushes!VarintByte, VarintByte, Pushes!Continue, Continue

\* So are the headers.
LEMMA PushesHeader == \A id, t : Pushes!Header(id, t) = Header(id, t)
BY PushesVarint DEF Pushes!Header, Header

\* OStream has finished its Push.
Finished ==
  /\ SubSeq(mem, 1, Len(mem) - ahead) = mem
  /\ SubSeq(mem, Len(mem) - ahead + 1, Len(mem)) \o todo = todo
  /\ offset - ahead = offset

\* With nothing ahead the bytes and the cursor are OStream's.
LEMMA NothingAhead == PInv /\ ahead = 0 => Finished
<1> SUFFICES ASSUME PInv, ahead = 0 PROVE Finished
  OBVIOUS
<1>1. mem \in Seq(Byte) /\ todo \in Seq(Byte) /\ offset \in Nat
  BY DEF PInv, IInv, TypeOK
<1>2. Len(mem) \in Nat
  BY <1>1, LenProperties
<1>3. SubSeq(mem, Len(mem) + 1, Len(mem)) = <<>>
  BY <1>1, <1>2, SubSeqProperties
<1>4. SubSeq(mem, 1, Len(mem)) = mem
  BY <1>1, SubSeqFull
<1>5. <<>> \o todo = todo
  BY <1>1, ConcatEmptySeq
<1>6. Len(mem) - ahead = Len(mem) /\ offset - ahead = offset
  BY <1>1, <1>2
<1> QED  BY <1>3, <1>4, <1>5, <1>6 DEF Finished

\* A call that is refused.
LEMMA RefuseMaps == Finished /\ Finished' /\ Refuse => Pushes!Refuse
BY DEF Finished, Refuse, Pushes!Refuse, Answer, Pushes!Answer, callVars, Pushes!callVars,
       bufferVars, Pushes!bufferVars

\* A call that begins to write.
LEMMA BeginMaps ==
  ASSUME NEW kind, NEW body, NEW elements, NEW asked, NEW commits,
         Finished, Finished', Begin(kind, body, elements, asked, commits)
  PROVE  Pushes!Begin(kind, body, elements, asked, commits)
BY PushesHeader DEF Finished, Begin, Pushes!Begin, SequenceHeader, Pushes!SequenceHeader,
       Pushes!T_SEQUENCE_START, T_SEQUENCE_START,
       bufferVars, Pushes!bufferVars

\* A content writer that accepts its arguments or refuses them.
LEMMA ContentMaps ==
  ASSUME NEW id, NEW accepted, NEW body, NEW elements, NEW asked,
         Finished, Finished', Content(id, accepted, body, elements, asked)
  PROVE  Pushes!Content(id, accepted, body, elements, asked)
<1>1. Pushes!CanWrite
  BY DEF Content, Finished, CanWrite, Pushes!CanWrite, CanCall, Pushes!CanCall, Wire, Pushes!Wire
<1> QED  BY <1>1, RefuseMaps, BeginMaps DEF Content, Pushes!Content

\* Every writer of a field, with the same bytes for it.
LEMMA WriteFieldMaps ==
  ASSUME NEW id, Finished, Finished', WriteField(id)
  PROVE  Pushes!WriteField(id)
<1>1. /\ \A t, v : Pushes!FieldVarint(id, t, v) = FieldVarint(id, t, v)
      /\ \A len, subtype : Pushes!FixlenWord(len, subtype) = FixlenWord(len, subtype)
      /\ \A vs : Pushes!VarintRun(vs) = VarintRun(vs)
  BY PushesHeader, PushesVarint DEF Pushes!FieldVarint, FieldVarint, Pushes!FixlenWord, FixlenWord,
     Pushes!VarintRun, VarintRun
<1>2. /\ \A v : Pushes!ZigZag(v) = ZigZag(v)
      /\ \A subtype : Pushes!FloatLen(subtype) = FloatLen(subtype)
      /\ \A data, subtype : Pushes!FixlenAgrees(data, subtype) <=> FixlenAgrees(data, subtype)
  BY DEF Pushes!ZigZag, ZigZag, Pushes!FloatLen, FloatLen, Pushes!FixlenAgrees, FixlenAgrees,
     Pushes!Fp32, Fp32, Pushes!Fp64, Fp64, Pushes!Str, Str
<1>3. ASSUME NEW v \in UnsignedValues, WriteUnsigned(id, v)
      PROVE  Pushes!WriteUnsigned(id, v)
  BY <1>1, <1>3, ContentMaps DEF WriteUnsigned, Pushes!WriteUnsigned, Pushes!Scalar, Scalar,
     Pushes!T_VARINT_UNSIGNED, T_VARINT_UNSIGNED, Pushes!KindUnsigned, KindUnsigned
<1>4. ASSUME NEW v \in SignedValues, WriteSigned(id, v)
      PROVE  Pushes!WriteSigned(id, v)
  BY <1>1, <1>2, <1>4, ContentMaps DEF WriteSigned, Pushes!WriteSigned, Pushes!Scalar, Scalar,
     Pushes!T_VARINT_SIGNED, T_VARINT_SIGNED, Pushes!KindSigned, KindSigned
<1>5. ASSUME NEW data \in Payloads, NEW subtype \in FixlenTypes, WriteFixlen(id, data, subtype)
      PROVE  Pushes!WriteFixlen(id, data, subtype)
  BY <1>1, <1>2, <1>5, PushesHeader, ContentMaps DEF WriteFixlen, Pushes!WriteFixlen,
     Pushes!Fixlen, Fixlen, Pushes!T_FIXLEN, T_FIXLEN
<1>6. ASSUME NEW vs \in UnsignedArrays, WriteArrayUnsigned(id, vs)
      PROVE  Pushes!WriteArrayUnsigned(id, vs)
  BY <1>1, <1>6, ContentMaps DEF WriteArrayUnsigned, Pushes!WriteArrayUnsigned, Pushes!Array, Array,
     Pushes!T_VARINTARRAY_UNSIGNED, T_VARINTARRAY_UNSIGNED, Pushes!KindUnsigned, KindUnsigned
<1>7. ASSUME NEW vs \in SignedArrays, WriteArraySigned(id, vs)
      PROVE  Pushes!WriteArraySigned(id, vs)
  BY <1>1, <1>2, <1>7, ContentMaps DEF WriteArraySigned, Pushes!WriteArraySigned, Pushes!Array,
     Array, Pushes!T_VARINTARRAY_SIGNED, T_VARINTARRAY_SIGNED, Pushes!KindSigned, KindSigned
<1>8. ASSUME NEW data \in FloatArrays, NEW subtype \in {Fp32, Fp64},
             WriteArrayFloat(id, data, subtype)
      PROVE  Pushes!WriteArrayFloat(id, data, subtype)
  BY <1>1, <1>2, <1>8, ContentMaps DEF WriteArrayFloat, Pushes!WriteArrayFloat, Pushes!Array,
     Array, Pushes!T_FIXLENARRAY, T_FIXLENARRAY, Pushes!KindFp32, KindFp32, Pushes!KindFp64,
     KindFp64, Pushes!Fp32, Fp32
<1>9. Pushes!FixlenTypes = FixlenTypes /\ Pushes!Fp32 = Fp32 /\ Pushes!Fp64 = Fp64
  BY DEF Pushes!FixlenTypes, FixlenTypes, Pushes!Fp32, Fp32, Pushes!Fp64, Fp64,
     Pushes!Str, Str, Pushes!Blob, Blob
<1> QED
  BY <1>3, <1>4, <1>5, <1>6, <1>7, <1>8, <1>9 DEF WriteField, Pushes!WriteField

\* A buffer that is installed.
LEMMA InstallMaps ==
  ASSUME NEW b, Finished, Finished', Install(b)
  PROVE  Pushes!Install(b)
BY DEF Finished, Install, Pushes!Install

\* A sink that is given the same bytes.
LEMMA HandOverMaps ==
  ASSUME NEW reply, Finished, Finished', HandOver(reply)
  PROVE  Pushes!HandOver(reply)
BY InstallMaps DEF Finished, HandOver, Pushes!HandOver, Handed, Pushes!Handed,
     Streamable, Pushes!Streamable

\* The calls that open and close a sequence.
LEMMA SequencesMap ==
  ASSUME Finished, Finished'
  PROVE  /\ \A id \in Ids : WriteSequenceBeginLazy(id) => Pushes!WriteSequenceBeginLazy(id)
         /\ WriteSequenceEnd => Pushes!WriteSequenceEnd
         /\ WriteSequenceEndKeep => Pushes!WriteSequenceEndKeep
<1>1. CanCall => Pushes!CanCall
  BY DEF CanCall, Pushes!CanCall
<1>2. CanWrite => Pushes!CanWrite
  BY DEF Finished, CanWrite, Pushes!CanWrite, CanCall, Pushes!CanCall, Wire, Pushes!Wire
<1>3. Answer("Ok") => Pushes!Answer("Ok")
  BY DEF Finished, Answer, Pushes!Answer, callVars, Pushes!callVars
<1>4. UNCHANGED bufferVars => UNCHANGED Pushes!bufferVars
  BY DEF Finished, bufferVars, Pushes!bufferVars
<1>5. Pushes!EndMarker = EndMarker
  BY PushesVarint DEF Pushes!EndMarker, EndMarker, Pushes!T_SEQUENCE_END, T_SEQUENCE_END
<1>6. ASSUME NEW id \in Ids, WriteSequenceBeginLazy(id)
      PROVE  Pushes!WriteSequenceBeginLazy(id)
  BY <1>1, <1>3, <1>4, <1>6, RefuseMaps DEF WriteSequenceBeginLazy, Pushes!WriteSequenceBeginLazy,
     BeginRefused, Pushes!BeginRefused
<1>7. ASSUME WriteSequenceEnd
      PROVE  Pushes!WriteSequenceEnd
  BY <1>2, <1>3, <1>4, <1>5, <1>7, RefuseMaps, BeginMaps DEF WriteSequenceEnd,
     Pushes!WriteSequenceEnd, Popped, Pushes!Popped
<1>8. ASSUME WriteSequenceEndKeep
      PROVE  Pushes!WriteSequenceEndKeep
  BY <1>2, <1>5, <1>8, RefuseMaps, BeginMaps DEF WriteSequenceEndKeep, Pushes!WriteSequenceEndKeep
<1> QED  BY <1>6, <1>7, <1>8

\* The calls on the buffer.
LEMMA BufferCallsMap ==
  ASSUME Finished, Finished'
  PROVE  /\ \A reply \in Replies : Flush(reply) => Pushes!Flush(reply)
         /\ \A b \in Buffers : BufferSet(b) => Pushes!BufferSet(b)
<1>1. CanCall => Pushes!CanCall
  BY DEF CanCall, Pushes!CanCall
<1>2. \A r : Answer(r) => Pushes!Answer(r)
  BY DEF Finished, Answer, Pushes!Answer, callVars, Pushes!callVars
<1>3. UNCHANGED bufferVars => UNCHANGED Pushes!bufferVars
  BY DEF Finished, bufferVars, Pushes!bufferVars
<1>4. ASSUME NEW reply \in Replies, Flush(reply)
      PROVE  Pushes!Flush(reply)
  <2>1. offset > 0 => offset - ahead > 0
    BY DEF Finished
  <2>2. offset - ahead > 0 => offset > 0
    BY DEF Finished
  <2> QED
    BY <1>1, <1>2, <1>3, <1>4, <2>1, <2>2, RefuseMaps, HandOverMaps DEF Flush, FlushRefused, Pushes!Flush,
       Pushes!FlushRefused,
       Streamable, Pushes!Streamable
<1>5. ASSUME NEW b \in Buffers, BufferSet(b)
      PROVE  Pushes!BufferSet(b)
  <2>1. Pushes!SetRefused(b) <=> SetRefused(b)
    BY DEF Pushes!SetRefused, SetRefused, Pushes!InRange, InRange, Pushes!Streamable, Streamable
  <2>2. Pushes!Handed = Handed
    BY DEF Finished, Pushes!Handed, Handed
  <2> QED
    BY <1>1, <1>2, <1>5, <2>1, <2>2, RefuseMaps, InstallMaps DEF BufferSet, Pushes!BufferSet
<1> QED  BY <1>4, <1>5

\* All of the calls.
LEMMA CallsMap ==
  ASSUME Finished, Finished', Calls
  PROVE  Pushes!Calls
<1>1. Pushes!Replies = Replies
  BY DEF Pushes!Replies, Replies
<1> QED
  BY <1>1, WriteFieldMaps, SequencesMap, BufferCallsMap DEF Calls, Pushes!Calls

\* The steps between two pieces of a call.
LEMMA BetweenMaps ==
  ASSUME PInv, Finished, Finished', Between
  PROVE  Pushes!Next
<1>1. UNCHANGED bufferVars => UNCHANGED Pushes!bufferVars
  BY DEF Finished, bufferVars, Pushes!bufferVars
<1>2. CASE HeaderWritten
  <2>1. Pushes!HeaderWritten
    BY <1>1, <1>2, PushesHeader DEF Finished, HeaderWritten, Pushes!HeaderWritten,
       SequenceHeader, Pushes!SequenceHeader, T_SEQUENCE_START, Pushes!T_SEQUENCE_START
  <2> QED  BY <2>1 DEF Pushes!Next, Pushes!Steps
<1>3. CASE NextElement
  <2>1. Pushes!NextElement
    BY <1>1, <1>3 DEF Finished, NextElement, Pushes!NextElement
  <2> QED  BY <2>1 DEF Pushes!Next, Pushes!Steps
<1>4. CASE Return
  <2>1. Pushes!Return
    BY <1>1, <1>4 DEF Finished, Return, Pushes!Return, Finish, Pushes!Finish, NoCall, Pushes!NoCall
  <2> QED  BY <2>1 DEF Pushes!Next, Pushes!Steps
<1> QED  BY <1>2, <1>3, <1>4 DEF Between

\* A drain, and one that fails, is OStream's: its buffer is full, too.
LEMMA DrainMaps ==
  ASSUME PInv, Finished, Finished', Drain
  PROVE  Pushes!Next
<1>1. UNCHANGED bufferVars => UNCHANGED Pushes!bufferVars
  BY DEF Finished, bufferVars, Pushes!bufferVars
<1>2. UNCHANGED callVars => UNCHANGED Pushes!callVars
  BY DEF Finished, callVars, Pushes!callVars
<1>3. ASSUME NEW error, Fail(error)
      PROVE  Pushes!Fail(error)
  BY <1>3 DEF Finished, Fail, Pushes!Fail, Finish, Pushes!Finish, NoCall, Pushes!NoCall,
     DropWritten, Pushes!DropWritten
<1>4. todo # <<>> /\ offset >= end =>
        /\ SubSeq(mem, Len(mem) - ahead + 1, Len(mem)) \o todo # <<>>
        /\ offset - ahead >= end
  BY DEF Finished
<1>5. CASE DrainFails
  <2>1. Pushes!DrainFails
    BY <1>1, <1>3, <1>4, <1>5 DEF DrainFails, Pushes!DrainFails
  <2> QED  BY <2>1 DEF Pushes!Next, Pushes!Steps
<1>6. ASSUME NEW reply \in Replies, DrainToSink(reply)
      PROVE  Pushes!Next
  <2>1. Pushes!Replies = Replies
    BY DEF Pushes!Replies, Replies
  <2>2. Pushes!DrainToSink(reply)
    BY <1>2, <1>3, <1>4, <1>6, HandOverMaps DEF DrainToSink, Pushes!DrainToSink,
       Streamable, Pushes!Streamable
  <2> QED  BY <2>1, <2>2 DEF Pushes!Next, Pushes!Steps
<1> QED  BY <1>5, <1>6 DEF Drain

\* A sequence is what is in front of a place in it and what is behind.
LEMMA FrontAndBack ==
  ASSUME NEW s \in Seq(Byte), NEW k \in 0..Len(s)
  PROVE  /\ SubSeq(s, 1, k) \in Seq(Byte) /\ Len(SubSeq(s, 1, k)) = k
         /\ SubSeq(s, k + 1, Len(s)) \in Seq(Byte) /\ Len(SubSeq(s, k + 1, Len(s))) = Len(s) - k
         /\ SubSeq(s, 1, k) \o SubSeq(s, k + 1, Len(s)) = s
<1>1. Len(s) \in Nat /\ k \in Nat
  BY LenProperties
<1>2. SubSeq(s, 1, k) \in Seq(Byte) /\ Len(SubSeq(s, 1, k)) = k
  BY <1>1, SubSeqProperties
<1>3. SubSeq(s, k + 1, Len(s)) \in Seq(Byte) /\ Len(SubSeq(s, k + 1, Len(s))) = Len(s) - k
  BY <1>1, SubSeqProperties
<1>4. SubSeq(s, 1, k) \o SubSeq(s, k + 1, Len(s)) = SubSeq(s, 1, Len(s))
  <2>1. 1 \in 1..(Len(s) + 1) /\ k \in (1 - 1)..Len(s) /\ Len(s) \in k..Len(s)
    BY <1>1
  <2> QED  BY <2>1, ConcatAdjacentSubSeq
<1>5. SubSeq(s, 1, Len(s)) = s
  BY SubSeqFull
<1> QED  BY <1>2, <1>3, <1>4, <1>5

\* The two parts of a concatenation.
LEMMA PartsOfConcat ==
  ASSUME NEW s \in Seq(Byte), NEW t \in Seq(Byte)
  PROVE  /\ s \o t \in Seq(Byte) /\ Len(s \o t) = Len(s) + Len(t)
         /\ SubSeq(s \o t, 1, Len(s)) = s
         /\ SubSeq(s \o t, Len(s) + 1, Len(s \o t)) = t
<1>1. s \o t \in Seq(Byte) /\ Len(s \o t) = Len(s) + Len(t) /\ Len(s) \in Nat /\ Len(t) \in Nat
  BY ConcatProperties, LenProperties
<1>2. SubSeq(s \o t, 1, Len(s)) = SubSeq(s, 1, Len(s))
  BY <1>1, SubSeqOfConcat1
<1>3. SubSeq(s \o t, Len(s) + 1, Len(s) + Len(t)) = SubSeq(t, 1, Len(t))
  BY <1>1, SubSeqOfConcat2
<1> QED  BY <1>1, <1>2, <1>3, SubSeqFull

\* Bytes in a row.
LEMMA InARow ==
  ASSUME NEW s \in Seq(Byte), NEW t \in Seq(Byte), NEW u \in Seq(Byte)
  PROVE  (s \o t) \o u = s \o (t \o u)
BY ConcatAssociative

\* Bytes that go out move from what is to be pushed to what was pushed ahead; OStream
\* pushes all of them with the last ones that the buffer takes.
LEMMA PutMaps ==
  ASSUME PInv, PInv', NEW n \in 1..Len(todo), NEW following, n <= Room, Put(n, following)
  PROVE  Pushes!Push \/ UNCHANGED Pushes!vars
<1> DEFINE k == Len(mem) - ahead
           a == SubSeq(mem, 1, k)
           b == SubSeq(mem, k + 1, Len(mem))
           c == SubSeq(todo, 1, n)
           d == SubSeq(todo, n + 1, Len(todo))
           left == b \o todo
<1>1. /\ mem' = mem \o c /\ todo' = d /\ offset' = offset + n
      /\ ahead' = IF n = Len(todo) \/ offset + n = end THEN 0 ELSE ahead + n
      /\ UNCHANGED <<end, depth, pending, hasSink, dead, room, out, pc, call, written, result>>
  BY DEF Put, Rest
<1>2. /\ todo \in Seq(Byte) /\ mem \in Seq(Byte) /\ Len(todo) \in Nat /\ Len(mem) \in Nat
      /\ ahead \in Nat /\ k \in 0..Len(mem) /\ n \in Nat \ {0} /\ n \in 0..Len(todo)
      /\ offset \in Nat /\ end \in Nat /\ offset + n <= end
  BY SMTT(30), Numbers
<1>3. a \in Seq(Byte) /\ Len(a) = k /\ b \in Seq(Byte) /\ Len(b) = Len(mem) - k /\ a \o b = mem
  BY <1>2, FrontAndBack
<1>4. c \in Seq(Byte) /\ Len(c) = n /\ d \in Seq(Byte) /\ Len(d) = Len(todo) - n /\ c \o d = todo
  BY <1>2, FrontAndBack
<1>5. Len(b) = ahead
  BY <1>2, <1>3
<1> HIDE DEF a, b, c, d
<1>6. /\ mem' = a \o (b \o c) /\ left = (b \o c) \o d
      /\ b \o c \in Seq(Byte) /\ Len(b \o c) = ahead + n
  <2>1. mem' = a \o (b \o c)
    <3>1. (a \o b) \o c = a \o (b \o c)
      BY <1>3, <1>4, InARow
    <3> QED  BY <1>1, <1>3, <3>1
  <2>2. left = (b \o c) \o d
    <3>1. b \o (c \o d) = (b \o c) \o d
      BY <1>3, <1>4, InARow
    <3> QED  BY <1>4, <3>1
  <2>3. b \o c \in Seq(Byte) /\ Len(b \o c) = ahead + n
    BY <1>3, <1>4, <1>5, PartsOfConcat
  <2> QED  BY <2>1, <2>2, <2>3
<1>7. CASE ~(n = Len(todo) \/ offset + n = end)
  <2>1. ahead' = ahead + n
    BY <1>1, <1>7
  <2>2. /\ Len(mem') = k + (ahead + n)
        /\ SubSeq(mem', 1, k) = a /\ SubSeq(mem', k + 1, Len(mem')) = b \o c
    <3>1. Len(a \o (b \o c)) = k + (ahead + n)
      BY <1>3, <1>6, PartsOfConcat
    <3>2. /\ SubSeq(a \o (b \o c), 1, Len(a)) = a
          /\ SubSeq(a \o (b \o c), Len(a) + 1, Len(a \o (b \o c))) = b \o c
      BY <1>3, <1>6, PartsOfConcat
    <3> HIDE DEF k
    <3> QED  BY <1>3, <1>6, <3>1, <3>2
  <2>3. Len(mem') - ahead' = k /\ offset' - ahead' = offset - ahead
    <3> HIDE DEF k
    <3> QED  BY <1>1, <1>2, <2>1, <2>2
  <2>4. SubSeq(mem', 1, Len(mem') - ahead') = SubSeq(mem, 1, Len(mem) - ahead)
    BY <2>2, <2>3 DEF a
  <2>5. SubSeq(mem', Len(mem') - ahead' + 1, Len(mem')) \o todo'
        = SubSeq(mem, Len(mem) - ahead + 1, Len(mem)) \o todo
    <3>1. (b \o c) \o todo' = b \o todo
      BY <1>1, <1>6
    <3> QED  BY <2>2, <2>3, <3>1 DEF b
  <2> QED  BY <1>1, <2>3, <2>4, <2>5 DEF Pushes!vars
<1>8. CASE n = Len(todo) \/ offset + n = end
  <2>1. ahead' = 0
    BY <1>1, <1>8
  <2>2. Finished'
    <3>1. (PInv /\ ahead = 0 => Finished)'
      BY NothingAhead, PTL
    <3> QED  BY <2>1, <3>1
  <2>3. /\ left \in Seq(Byte) /\ Len(left) = ahead + n + (Len(todo) - n)
        /\ SubSeq(left, 1, ahead + n) = b \o c
        /\ SubSeq(left, ahead + n + 1, Len(left)) = d
    <3> DEFINE e == b \o c
    <3>1. e \in Seq(Byte) /\ Len(e) = ahead + n /\ left = e \o d
      BY <1>6
    <3> HIDE DEF e, left
    <3>2. /\ e \o d \in Seq(Byte) /\ Len(e \o d) = Len(e) + Len(d)
          /\ SubSeq(e \o d, 1, Len(e)) = e /\ SubSeq(e \o d, Len(e) + 1, Len(e \o d)) = d
      BY <1>4, <3>1, PartsOfConcat
    <3> QED  BY <1>4, <3>1, <3>2 DEF e
  <2>4. Len(left) = ahead + Len(todo)
    BY <1>2, <2>3
  <2> HIDE DEF left, k
  <2> DEFINE m == IF Len(left) <= end - (offset - ahead) THEN Len(left) ELSE end - (offset - ahead)
  <2>5. m = ahead + n
    BY <1>2, <1>8, <2>4
  <2>6. left # <<>> /\ offset - ahead < end
    <3>1. Len(left) # 0
      BY <1>2, <2>4
    <3> QED  BY <1>2, <3>1
  <2>7. offset' - ahead' = (offset - ahead) + m
    <3> HIDE DEF m
    <3> QED  BY <1>1, <1>2, <2>1, <2>5
  <2>8. SubSeq(mem', 1, Len(mem') - ahead') = a \o SubSeq(left, 1, m)
    BY <1>6, <2>2, <2>3, <2>5 DEF Finished
  <2>9. SubSeq(mem', Len(mem') - ahead' + 1, Len(mem')) \o todo' = SubSeq(left, m + 1, Len(left))
    BY <1>1, <2>2, <2>3, <2>5 DEF Finished
  <2> HIDE DEF m
  <2>10. Pushes!Push
    <3>1. /\ a = SubSeq(mem, 1, Len(mem) - ahead)
          /\ left = SubSeq(mem, Len(mem) - ahead + 1, Len(mem)) \o todo
      BY DEF a, b, left, k
    <3> QED  BY <1>1, <2>6, <2>7, <2>8, <2>9, <3>1 DEF Pushes!Push, m
  <2> QED  BY <2>10
<1> QED  BY <1>7, <1>8

\* Handing a piece over to other routines is nothing that OStream sees.
LEMMA MovesMap ==
  ASSUME PInv, PInv', Moves
  PROVE  Pushes!Next \/ UNCHANGED Pushes!vars
<1>1. CASE \E n \in 1..Len(todo) : \E following : n <= Room /\ Put(n, following)
  BY <1>1, PutMaps DEF Pushes!Next, Pushes!Steps
<1>2. CASE \E following : Divert(following)
  <2>1. UNCHANGED <<vars, ahead>>
    BY <1>2 DEF Divert
  <2> QED  BY <2>1 DEF vars, Pushes!vars
<1> QED  BY <1>1, <1>2 DEF Moves

\* Nothing is ahead when a call begins or goes on, and when a buffer is drained.
LEMMA NothingAheadBetween ==
  ASSUME PInv, PInv', ahead' = ahead, todo = <<>> \/ offset >= end
  PROVE  Finished /\ Finished'
<1>1. ahead = 0
  BY Numbers DEF PInv, AheadInv
<1>2. (PInv /\ ahead = 0 => Finished)'
  BY NothingAhead, PTL
<1> QED  BY <1>1, <1>2, NothingAhead

\* Every step of the write paths is one of OStream, or none.
LEMMA StepMaps ==
  ASSUME PInv, [PathNext]_allVars
  PROVE  [Pushes!Next]_(Pushes!vars)
<1>1. PInv'
  BY PathNextInductive
<1>2. CASE WriteVarint \/ WriteFieldVarint \/ WriteFixlenField \/ WriteElement
           \/ WriteSplit \/ PushRaw
  <2>1. Moves
    BY <1>2, WriteVarintKeeps, WriteFieldVarintKeeps, WriteFixlenFieldKeeps, WriteElementKeeps,
       WriteSplitKeeps, PushRawKeeps
  <2> QED  BY <1>1, <2>1, MovesMap
<1>3. CASE Drain
  <2>1. offset >= end /\ ahead' = ahead
    BY <1>3 DEF Drain, DrainFails, DrainToSink
  <2> QED  BY <1>1, <1>3, <2>1, NothingAheadBetween, DrainMaps
<1>4. CASE Between /\ UNCHANGED ahead
  <2>1. todo = <<>>
    BY <1>4 DEF Between, HeaderWritten, NextElement, Return
  <2> QED  BY <1>1, <1>4, <2>1, NothingAheadBetween, BetweenMaps
<1>5. CASE Calls /\ UNCHANGED ahead
  <2>1. todo = <<>>
    BY <1>5, CallsBegin DEF PInv, IInv, IdleIsClean
  <2> QED  BY <1>1, <1>5, <2>1, NothingAheadBetween, CallsMap DEF Pushes!Next
<1>6. CASE UNCHANGED allVars
  BY <1>6 DEF allVars, pathVars, vars, Pushes!vars
<1> QED
  BY <1>2, <1>3, <1>4, <1>5, <1>6 DEF PathNext, PathSteps

\* The code's write paths, with one capacity test for several bytes, write the bytes
\* that OStream pushes, in its order, and drain only a buffer that is full to its last
\* byte (ostream.rs:597-1049): the part of ImplementsOStream that is no fairness.
THEOREM WritePathsPush == PathSpec => Pushes!Init /\ [][Pushes!Next]_(Pushes!vars)
<1>1. PathInit => Pushes!Init
  <2> SUFFICES ASSUME PathInit PROVE Pushes!Init
    OBVIOUS
  <2>1. Finished
    BY PathInitInductive, NothingAhead DEF PathInit
  <2> QED
    BY <2>1 DEF PathInit, Init, Pushes!Init, Finished, Streamable, Pushes!Streamable,
       InRange, Pushes!InRange, NoCall, Pushes!NoCall
<1>2. PInv /\ [PathNext]_allVars => [Pushes!Next]_(Pushes!vars)
  BY StepMaps
<1> QED  BY <1>1, <1>2, PathInvariant, PTL DEF PathSpec
=============================================================================
