---------------------------- MODULE PayloadProofs ---------------------------
(***************************************************************************)
(* What holds of the payload accumulator for any payloads, cuts, extras    *)
(* and strays.                                                             *)
(*                                                                         *)
(* As long as nothing was handed back, the buffer is what arrived; what is *)
(* handed back is cut from that.  The payload is whole because, as long as *)
(* its chunks come alone, what arrived agrees with it.                     *)
(***************************************************************************)
EXTENDS PayloadSource, TLAPS, SequenceTheorems
LOCAL INSTANCE SequencesExt

\* What was handed back, or else what is held, is what arrived.
HeldArrived ==
  /\ ~complete => buf = arrived /\ given = <<>>
  /\ complete => NothingStale

\* What arrived agrees with the payload as far as both go.
Agrees(bytes, p) == \A i \in 1..Len(bytes) : i <= Len(p) => bytes[i] = p[i]

\* A payload whose chunks come alone is offered from its start without a gap.
AloneAgrees ==
  alone => /\ at = Len(arrived) /\ Agrees(arrived, payload)
           /\ complete <=> at >= Len(payload)
           /\ given = IF at >= Len(payload) THEN <<payload>> ELSE <<>>

IInv == TypeOK /\ HeldArrived /\ AloneAgrees

-----------------------------------------------------------------------------
(***************************************************************************)
(* Pieces and prefixes.                                                    *)
(***************************************************************************)
LEMMA PieceType ==
  ASSUME NEW p \in Seq(Bytes), NEW from \in 0..Len(p), NEW n \in from..Len(p),
         NEW extra \in Seq(Bytes)
  PROVE  /\ Piece(p, from, n, extra) \in Seq(Bytes)
         /\ n < Len(p) => Len(Piece(p, from, n, extra)) = n - from
         /\ n = Len(p) => Len(Piece(p, from, n, extra)) >= n - from
         /\ \A i \in 1..Len(Piece(p, from, n, extra)) :
              from + i <= Len(p) => Piece(p, from, n, extra)[i] = p[from + i]
<1> DEFINE s == SubSeq(p, from + 1, n)
           e == IF n = Len(p) THEN extra ELSE <<>>
<1>1. from \in Nat /\ n \in Nat /\ Len(p) \in Nat
  BY LenProperties
<1>2. \A i \in (from + 1)..n : p[i] \in Bytes
  BY <1>1, ElementOfSeq
<1>3. s \in Seq(Bytes) /\ Len(s) = n - from /\ \A i \in 1..(n - from) : s[i] = p[from + i]
  BY <1>1, <1>2, SubSeqProperties
<1>4. e \in Seq(Bytes) /\ Len(e) \in Nat /\ (n < Len(p) => Len(e) = 0)
  <2>1. e \in Seq(Bytes)
    BY EmptySeq
  <2> QED  BY <1>1, <2>1, LenProperties, EmptySeq
<1> HIDE DEF s, e
<1>5. /\ s \o e \in Seq(Bytes) /\ Len(s \o e) = n - from + Len(e)
      /\ \A i \in 1..(n - from) : (s \o e)[i] = p[from + i]
  <2>1. /\ s \o e \in Seq(Bytes) /\ Len(s \o e) = Len(s) + Len(e)
        /\ \A i \in 1..(Len(s) + Len(e)) :
             (s \o e)[i] = IF i <= Len(s) THEN s[i] ELSE e[i - Len(s)]
    BY <1>3, <1>4, ConcatProperties
  <2> QED  BY <1>1, <1>3, <1>4, <2>1
<1>6. Piece(p, from, n, extra) = s \o e
  BY DEF Piece, s, e
<1>7. n = Len(p) => \A i \in 1..Len(s \o e) : from + i <= Len(p) => i \in 1..(n - from)
  BY <1>1, <1>4, <1>5
<1>8. n < Len(p) => Len(s \o e) = n - from
  BY <1>1, <1>4, <1>5
<1> QED  BY <1>1, <1>4, <1>5, <1>6, <1>7, <1>8

LEMMA FrontIsPrefix ==
  ASSUME NEW s \in Seq(Bytes), NEW n \in 0..Len(s)
  PROVE  SubSeq(s, 1, n) \in Seq(Bytes) /\ Len(SubSeq(s, 1, n)) = n /\ IsPrefix(SubSeq(s, 1, n), s)
<1>1. n \in Nat /\ Len(s) \in Nat /\ \A i \in 1..n : s[i] \in Bytes
  BY LenProperties, ElementOfSeq
<1> DEFINE f == SubSeq(s, 1, n)
<1>2. f \in Seq(Bytes) /\ Len(f) = n /\ \A i \in 1..n : f[i] = s[i]
  BY <1>1, SubSeqProperties
<1>3. SubSeq(f, 1, n) \in Seq(Bytes) /\ Len(SubSeq(f, 1, n)) = n /\ \A i \in 1..n : SubSeq(f, 1, n)[i] = f[i]
  <2> HIDE DEF f
  <2>1. \A i \in 1..n : f[i] \in Bytes
    BY <1>2, ElementOfSeq
  <2> QED  BY <1>1, <2>1, SubSeqProperties
<1>4. SubSeq(f, 1, n) = f
  <2> HIDE DEF f
  <2> QED  BY <1>2, <1>3, SeqEqual
<1> QED  BY <1>1, <1>2, <1>4 DEF IsPrefix

LEMMA PrefixOfLonger ==
  ASSUME NEW p, NEW s \in Seq(Bytes), NEW c \in Seq(Bytes), IsPrefix(p, s)
  PROVE  IsPrefix(p, s \o c)
<1>1. /\ Len(s) \in Nat /\ Len(c) \in Nat /\ s \o c \in Seq(Bytes) /\ Len(s \o c) = Len(s) + Len(c)
      /\ \A i \in 1..Len(s) : (s \o c)[i] = s[i]
  BY LenProperties, ConcatProperties
<1> QED  BY <1>1 DEF IsPrefix

-----------------------------------------------------------------------------
(***************************************************************************)
(* What a feed does.                                                       *)
(***************************************************************************)
LEMMA FeedEffect ==
  ASSUME buf \in Seq(Bytes), complete \in BOOLEAN, NEW total \in Nat, NEW offset \in Nat,
         NEW chunk \in Seq(Bytes), Feed(total, offset, chunk)
  PROVE  LET all == IF offset = 0 THEN chunk ELSE buf \o chunk
         IN  /\ buf' \in Seq(Bytes) /\ complete' \in BOOLEAN
             /\ offset # 0 /\ complete =>
                  buf' = buf /\ complete' /\ returned' = <<>>
             /\ offset = 0 \/ ~complete =>
                  /\ Len(buf') <= Len(all)
                  /\ complete' <=> Len(all) >= total
                  /\ ~complete' => buf' = all /\ returned' = <<>>
                  /\ complete' => returned' = <<SubSeq(all, 1, total)>>
<1> DEFINE all == IF offset = 0 THEN chunk ELSE buf \o chunk
<1>1. all \in Seq(Bytes) /\ Len(all) \in Nat
  BY ConcatProperties, LenProperties
<1>2. CASE offset # 0 /\ complete
  BY <1>2 DEF Feed, FeedWhole, FeedIgnored, FeedMore, Ignores
<1>3. CASE offset = 0 \/ ~complete
  <2>1. all = Kept(offset, chunk)
    <3>1. CASE offset = 0
      BY <3>1, ConcatEmptySeq DEF Kept
    <3>2. CASE offset # 0
      BY <3>2 DEF Kept
    <3> QED  BY <3>1, <3>2
  <2>2. CASE offset = 0 /\ Len(chunk) >= total
    <3>1. FeedWhole(total, offset, chunk)
      BY <2>2, LenProperties DEF Feed, FeedIgnored, FeedMore, Ignores
    <3>2. buf' = <<>> /\ complete' = TRUE /\ returned' = <<SubSeq(all, 1, total)>> /\ all = chunk
      BY <2>2, <3>1 DEF FeedWhole, Cut
    <3>3. buf' \in Seq(Bytes) /\ Len(buf') = 0
      BY <3>2, EmptySeq
    <3> HIDE DEF all
    <3> QED  BY <1>1, <1>3, <2>2, <3>2, <3>3 DEF all
  <2>3. CASE ~(offset = 0 /\ Len(chunk) >= total)
    <3>1. FeedMore(total, offset, chunk)
      BY <1>3, <2>3 DEF Feed, FeedWhole, FeedIgnored, Ignores
    <3> HIDE DEF all
    <3>2. buf' = all
      BY <2>1, <3>1 DEF FeedMore
    <3>3. complete' = (Len(all) >= total)
      BY <3>1, <3>2 DEF FeedMore
    <3>4. returned' = IF Len(all) >= total THEN <<SubSeq(all, 1, total)>> ELSE <<>>
      BY <3>1, <3>2 DEF FeedMore, Cut
    <3>5. complete' \in BOOLEAN /\ (complete' <=> Len(all) >= total)
      <4> DEFINE enough == Len(all) >= total
      <4>1. enough \in BOOLEAN /\ complete' = enough
        BY <3>3
      <4> HIDE DEF enough
      <4>2. complete' \in BOOLEAN /\ (complete' <=> enough)
        BY <4>1
      <4> QED  BY <4>2 DEF enough
    <3>6. /\ buf' \in Seq(Bytes) /\ Len(buf') <= Len(all)
          /\ ~complete' => returned' = <<>>
          /\ complete' => returned' = <<SubSeq(all, 1, total)>>
      BY <1>1, <3>2, <3>4, <3>5
    <3> QED  BY <1>3, <3>2, <3>5, <3>6 DEF all
  <2> QED  BY <2>2, <2>3
<1> QED  BY <1>2, <1>3

\* A feed that completes nothing keeps what has come; one that completes hands its front back.
LEMMA FirstChunk ==
  ASSUME TypeOK, NEW total \in Nat, NEW chunk \in Seq(Bytes), Feed(total, 0, chunk),
         arrived' = chunk, given' = returned'
  PROVE  /\ HeldArrived'
         /\ buf' \in Seq(Bytes) /\ Len(buf') <= Len(arrived')
         /\ complete' \in BOOLEAN /\ (complete' <=> Len(chunk) >= total)
         /\ returned' \in Seq(Seq(Bytes)) /\ given' \in Seq(Seq(Bytes))
         /\ complete' => given' = <<SubSeq(chunk, 1, total)>>
         /\ ~complete' => given' = <<>>
<1>1. /\ buf' \in Seq(Bytes) /\ complete' \in BOOLEAN /\ Len(buf') <= Len(chunk)
      /\ complete' <=> Len(chunk) >= total
      /\ ~complete' => buf' = chunk /\ returned' = <<>>
      /\ complete' => returned' = <<SubSeq(chunk, 1, total)>>
  BY FeedEffect DEF TypeOK
<1>2. CASE complete'
  <2> DEFINE f == SubSeq(chunk, 1, total)
  <2>1. f \in Seq(Bytes) /\ IsPrefix(f, chunk)
    BY <1>1, <1>2, LenProperties, FrontIsPrefix
  <2>2. given' = <<f>> /\ returned' = <<f>>
    BY <1>1, <1>2
  <2> HIDE DEF f
  <2>3. Len(given') = 1 /\ DOMAIN given' = 1..1 /\ given'[1] = f
    BY <2>2
  <2>4. NothingStale'
    BY <2>1, <2>3 DEF NothingStale
  <2>5. returned' \in Seq(Seq(Bytes)) /\ given' \in Seq(Seq(Bytes))
    BY <2>1, <2>2
  <2>6. HeldArrived'
    BY <1>2, <2>4 DEF HeldArrived
  <2> QED  BY <1>1, <1>2, <2>5, <2>6
<1>3. CASE ~complete'
  <2>1. HeldArrived'
    BY <1>1, <1>3 DEF HeldArrived
  <2>2. returned' \in Seq(Seq(Bytes)) /\ given' \in Seq(Seq(Bytes))
    BY <1>1, <1>3, EmptySeq
  <2> QED  BY <1>1, <1>3, <2>1, <2>2
<1> QED  BY <1>1, <1>2, <1>3

LEMMA FurtherChunk ==
  ASSUME TypeOK, HeldArrived, NEW total \in Nat, NEW offset \in Nat \ {0},
         NEW chunk \in Seq(Bytes), Feed(total, offset, chunk),
         arrived' = arrived \o chunk, given' = given \o returned'
  PROVE  /\ HeldArrived'
         /\ buf' \in Seq(Bytes) /\ arrived' \in Seq(Bytes) /\ Len(buf') <= Len(arrived')
         /\ complete' \in BOOLEAN /\ (complete' <=> complete \/ Len(arrived') >= total)
         /\ returned' \in Seq(Seq(Bytes)) /\ given' \in Seq(Seq(Bytes))
         /\ complete => given' = given
         /\ ~complete /\ complete' => given' = <<SubSeq(arrived', 1, total)>>
         /\ ~complete' => given' = <<>>
<1>1. /\ buf \in Seq(Bytes) /\ arrived \in Seq(Bytes) /\ given \in Seq(Seq(Bytes))
      /\ arrived' \in Seq(Bytes) /\ Len(arrived) \in Nat /\ Len(arrived') \in Nat
      /\ Len(arrived') >= Len(arrived) /\ Len(buf) <= Len(arrived)
  BY ConcatProperties, LenProperties DEF TypeOK
<1>2. CASE complete
  <2>1. buf' = buf /\ complete' /\ complete' \in BOOLEAN /\ returned' = <<>>
    BY <1>2, FeedEffect DEF TypeOK
  <2>2. given' = given /\ returned' \in Seq(Seq(Bytes))
    BY <1>1, <2>1, ConcatEmptySeq, EmptySeq
  <2>3. NothingStale'
    <3>1. NothingStale
      BY <1>2 DEF HeldArrived
    <3>2. ASSUME NEW i \in DOMAIN given PROVE IsPrefix(given[i], arrived')
      BY <1>1, <3>1, <3>2, PrefixOfLonger DEF NothingStale
    <3> QED  BY <2>2, <3>1, <3>2 DEF NothingStale
  <2> QED  BY <1>1, <1>2, <2>1, <2>2, <2>3 DEF HeldArrived
<1>3. CASE ~complete
  <2>1. buf = arrived /\ given = <<>>
    BY <1>3 DEF HeldArrived
  <2>2. /\ buf' \in Seq(Bytes) /\ complete' \in BOOLEAN /\ Len(buf') <= Len(arrived')
        /\ complete' <=> Len(arrived') >= total
        /\ ~complete' => buf' = arrived' /\ returned' = <<>>
        /\ complete' => returned' = <<SubSeq(arrived', 1, total)>>
    BY <1>3, <2>1, FeedEffect DEF TypeOK
  <2>3. CASE complete'
    <3> DEFINE f == SubSeq(arrived', 1, total)
    <3>1. f \in Seq(Bytes) /\ IsPrefix(f, arrived')
      <4> DEFINE a == arrived'
      <4>1. a \in Seq(Bytes) /\ total \in 0..Len(a)
        BY <1>1, <2>2, <2>3
      <4> HIDE DEF a
      <4>2. SubSeq(a, 1, total) \in Seq(Bytes) /\ IsPrefix(SubSeq(a, 1, total), a)
        BY <4>1, FrontIsPrefix
      <4> QED  BY <4>2 DEF a
    <3>2. returned' = <<f>>
      BY <2>2, <2>3
    <3> HIDE DEF f
    <3>3. returned' \in Seq(Seq(Bytes)) /\ given' = <<f>>
      <4>1. <<f>> \in Seq(Seq(Bytes))
        BY <3>1
      <4> QED  BY <2>1, <3>2, <4>1, ConcatEmptySeq
    <3>4. Len(given') = 1 /\ DOMAIN given' = 1..1 /\ given'[1] = f /\ given' \in Seq(Seq(Bytes))
      BY <3>1, <3>3
    <3>5. NothingStale'
      BY <3>1, <3>4 DEF NothingStale
    <3>6. HeldArrived'
      BY <2>3, <3>5 DEF HeldArrived
    <3> QED  BY <1>1, <1>3, <2>2, <2>3, <3>3, <3>4, <3>6 DEF f
  <2>4. CASE ~complete'
    <3>1. returned' = <<>> /\ returned' \in Seq(Seq(Bytes))
      BY <2>2, <2>4, EmptySeq
    <3>2. given' = <<>>
      BY <2>1, <3>1, ConcatEmptySeq
    <3>3. HeldArrived'
      BY <2>2, <2>4, <3>2 DEF HeldArrived
    <3> QED  BY <1>1, <1>3, <2>2, <2>4, <3>1, <3>2, <3>3
  <2> QED  BY <2>2, <2>3, <2>4
<1> QED  BY <1>2, <1>3 DEF TypeOK

-----------------------------------------------------------------------------
(***************************************************************************)
(* The invariant is inductive.                                             *)
(***************************************************************************)
\* What agrees with the whole payload, cut to its length, is the payload.
LEMMA AgreesIsWhole ==
  ASSUME NEW p \in Seq(Bytes), NEW s \in Seq(Bytes), Agrees(s, p), Len(s) >= Len(p)
  PROVE  SubSeq(s, 1, Len(p)) = p
<1>1. Len(p) \in Nat /\ Len(s) \in Nat /\ Len(p) \in 0..Len(s)
  BY LenProperties
<1> DEFINE n == Len(p)
           f == SubSeq(s, 1, n)
<1>2. \A i \in 1..n : s[i] \in Bytes
  BY <1>1, ElementOfSeq
<1>3. f \in Seq(Bytes) /\ Len(f) = n /\ \A i \in 1..n : f[i] = s[i]
  BY <1>1, <1>2, SubSeqProperties
<1>4. \A i \in 1..n : f[i] = p[i]
  BY <1>1, <1>3 DEF Agrees
<1> HIDE DEF f
<1> QED  BY <1>3, <1>4, SeqEqual DEF f

LEMMA InitInv == Init => IInv
<1> SUFFICES ASSUME Init PROVE IInv
  OBVIOUS
<1> USE DEF Init, AccInit
<1>1. <<>> \in Seq(Bytes) /\ Len(<<>>) = 0 /\ <<>> \in Seq(Seq(Bytes))
  BY EmptySeq
<1>2. TypeOK
  <2>1. complete \in BOOLEAN /\ alone \in BOOLEAN
    OBVIOUS
  <2> QED  BY <1>1, <2>1 DEF TypeOK
<1> QED  BY <1>2 DEF IInv, HeldArrived, AloneAgrees

LEMMA StartInv ==
  ASSUME IInv, NEW p \in Payloads, NEW extra \in Extras, NEW n \in 0..Len(p), Start(p, n, extra)
  PROVE  IInv'
<1> DEFINE chunk == Piece(p, 0, n, extra)
<1>1. p \in Seq(Bytes) /\ extra \in Seq(Bytes) /\ Len(p) \in Nat /\ n \in Nat /\ n <= Len(p)
  BY LenProperties, SourceAssumption
<1>2. /\ chunk \in Seq(Bytes) /\ Len(chunk) \in Nat
      /\ n < Len(p) => Len(chunk) = n
      /\ n = Len(p) => Len(chunk) >= n
      /\ \A i \in 1..Len(chunk) : i <= Len(p) => chunk[i] = p[i]
  <2>1. 0 \in 0..Len(p) /\ n \in 0..Len(p) /\ \A i \in Nat : 0 + i = i
    BY <1>1
  <2> HIDE DEF chunk
  <2>2. /\ chunk \in Seq(Bytes)
        /\ n < Len(p) => Len(chunk) = n - 0
        /\ n = Len(p) => Len(chunk) >= n - 0
        /\ \A i \in 1..Len(chunk) : 0 + i <= Len(p) => chunk[i] = p[0 + i]
    BY <1>1, <2>1, PieceType DEF chunk
  <2> QED  BY <1>1, <2>1, <2>2, LenProperties
<1>3. /\ Feed(Len(p), 0, chunk) /\ payload' = p /\ at' = Len(chunk) /\ alone' = TRUE
      /\ arrived' = chunk /\ given' = returned'
  BY DEF Start
<1> HIDE DEF chunk
<1>4. /\ HeldArrived'
      /\ buf' \in Seq(Bytes) /\ Len(buf') <= Len(arrived')
      /\ complete' \in BOOLEAN /\ (complete' <=> Len(chunk) >= Len(p))
      /\ returned' \in Seq(Seq(Bytes)) /\ given' \in Seq(Seq(Bytes))
      /\ complete' => given' = <<SubSeq(chunk, 1, Len(p))>>
      /\ ~complete' => given' = <<>>
  BY <1>1, <1>2, <1>3, FirstChunk DEF IInv
<1>5. TypeOK'
  <2>1. alone' \in BOOLEAN
    BY <1>3
  <2> QED  BY <1>1, <1>2, <1>3, <1>4, <2>1 DEF TypeOK
<1>6. AloneAgrees'
  <2>1. Agrees(chunk, p)
    BY <1>2 DEF Agrees
  <2>2. given' = IF Len(chunk) >= Len(p) THEN <<p>> ELSE <<>>
    BY <1>1, <1>2, <1>4, <2>1, AgreesIsWhole
  <2> QED  BY <1>3, <1>4, <2>1, <2>2 DEF AloneAgrees
<1> QED  BY <1>4, <1>5, <1>6 DEF IInv

LEMMA ContinueInv ==
  ASSUME IInv, NEW extra \in Extras, NEW n \in at..Len(payload) \cup {Len(payload)},
         Continue(n, extra)
  PROVE  IInv'
<1> DEFINE chunk == IF at < Len(payload) THEN Piece(payload, at, n, extra) ELSE extra
<1>1. /\ payload \in Seq(Bytes) /\ Len(payload) \in Nat /\ extra \in Seq(Bytes)
      /\ at \in Nat \ {0} /\ arrived \in Seq(Bytes) /\ Len(arrived) \in Nat
  BY LenProperties, SourceAssumption DEF IInv, TypeOK, Continue
<1>2. /\ chunk \in Seq(Bytes) /\ Len(chunk) \in Nat
      /\ \A i \in 1..Len(chunk) : at + i <= Len(payload) => chunk[i] = payload[at + i]
  <2>1. CASE at < Len(payload)
    <3>1. at \in 0..Len(payload) /\ n \in at..Len(payload)
      BY <1>1, <2>1
    <3> QED  BY <1>1, <2>1, <3>1, PieceType, LenProperties
  <2>2. CASE ~(at < Len(payload))
    BY <1>1, <2>2, LenProperties
  <2> QED  BY <2>1, <2>2
<1>3. /\ Feed(Len(payload), at, chunk) /\ at' = at + Len(chunk)
      /\ arrived' = arrived \o chunk /\ given' = given \o returned'
      /\ payload' = payload /\ alone' = alone
  BY DEF Continue
<1> HIDE DEF chunk
<1>4. /\ HeldArrived'
      /\ buf' \in Seq(Bytes) /\ arrived' \in Seq(Bytes) /\ Len(buf') <= Len(arrived')
      /\ complete' \in BOOLEAN /\ (complete' <=> complete \/ Len(arrived') >= Len(payload))
      /\ returned' \in Seq(Seq(Bytes)) /\ given' \in Seq(Seq(Bytes))
      /\ complete => given' = given
      /\ ~complete /\ complete' => given' = <<SubSeq(arrived', 1, Len(payload))>>
      /\ ~complete' => given' = <<>>
  BY <1>1, <1>2, <1>3, FurtherChunk DEF IInv
<1>5. TypeOK'
  <2>1. alone' \in BOOLEAN
    BY <1>3 DEF IInv, TypeOK
  <2> QED  BY <1>1, <1>2, <1>3, <1>4, <2>1 DEF TypeOK
<1>6. ASSUME alone PROVE AloneAgrees'
  <2>1. /\ at = Len(arrived) /\ Agrees(arrived, payload) /\ (complete <=> at >= Len(payload))
        /\ given = IF at >= Len(payload) THEN <<payload>> ELSE <<>>
    BY <1>6 DEF IInv, AloneAgrees
  <2>2. /\ Len(arrived') = Len(arrived) + Len(chunk)
        /\ \A i \in 1..(Len(arrived) + Len(chunk)) :
             arrived'[i] = IF i <= Len(arrived) THEN arrived[i] ELSE chunk[i - Len(arrived)]
    BY <1>1, <1>2, <1>3, ConcatProperties
  <2>3. Agrees(arrived', payload)
    <3> SUFFICES ASSUME NEW i \in 1..Len(arrived'), i <= Len(payload)
                 PROVE  arrived'[i] = payload[i]
      BY DEF Agrees
    <3>1. CASE i <= Len(arrived)
      BY <1>1, <1>2, <2>1, <2>2, <3>1 DEF Agrees
    <3>2. CASE ~(i <= Len(arrived))
      <4>1. i - Len(arrived) \in 1..Len(chunk) /\ at + (i - Len(arrived)) = i
        BY <1>1, <1>2, <2>1, <2>2, <3>2
      <4> QED  BY <1>1, <1>2, <2>2, <3>2, <4>1
    <3> QED  BY <3>1, <3>2
  <2>4. at' = Len(arrived') /\ at' >= at /\ (complete' <=> at' >= Len(payload))
    BY <1>1, <1>2, <1>3, <1>4, <2>1, <2>2
  <2>5. given' = IF at' >= Len(payload) THEN <<payload>> ELSE <<>>
    <3>1. CASE complete
      BY <1>1, <1>2, <1>3, <1>4, <2>1, <2>4, <3>1
    <3>2. CASE ~complete /\ complete'
      <4> DEFINE a == arrived'
      <4>1. a \in Seq(Bytes) /\ Agrees(a, payload) /\ Len(a) >= Len(payload)
        BY <1>4, <2>3, <2>4, <3>2
      <4> HIDE DEF a
      <4>2. SubSeq(a, 1, Len(payload)) = payload
        BY <1>1, <4>1, AgreesIsWhole
      <4> QED  BY <1>4, <2>4, <3>2, <4>2 DEF a
    <3>3. CASE ~complete'
      BY <1>4, <2>4, <3>3
    <3> QED  BY <3>1, <3>2, <3>3
  <2> QED  BY <1>3, <2>3, <2>4, <2>5 DEF AloneAgrees
<1>7. ASSUME ~alone PROVE AloneAgrees'
  BY <1>3, <1>7 DEF AloneAgrees
<1> QED  BY <1>4, <1>5, <1>6, <1>7 DEF IInv

LEMMA StrayInv ==
  ASSUME IInv, NEW s \in Strays, Stray(s)
  PROVE  IInv'
<1>1. /\ s.total \in Nat /\ s.offset \in Nat \ {0} /\ s.chunk \in Seq(Bytes)
  BY SourceAssumption
<1>2. /\ HeldArrived'
      /\ buf' \in Seq(Bytes) /\ arrived' \in Seq(Bytes) /\ Len(buf') <= Len(arrived')
      /\ complete' \in BOOLEAN
      /\ returned' \in Seq(Seq(Bytes)) /\ given' \in Seq(Seq(Bytes))
  BY <1>1, FurtherChunk DEF IInv, Stray
<1>3. TypeOK'
  <2>1. alone' \in BOOLEAN
    BY DEF Stray
  <2> QED  BY <1>2, <2>1 DEF TypeOK, IInv, Stray
<1>4. AloneAgrees'
  BY DEF AloneAgrees, Stray
<1> QED  BY <1>2, <1>3, <1>4 DEF IInv

LEMMA ResetInv ==
  ASSUME IInv, ResetCall
  PROVE  IInv'
<1> USE DEF ResetCall, Reset
<1>1. <<>> \in Seq(Bytes) /\ Len(<<>>) = 0 /\ <<>> \in Seq(Seq(Bytes))
  BY EmptySeq
<1>2. TypeOK'
  <2>1. complete' \in BOOLEAN /\ alone' \in BOOLEAN
    OBVIOUS
  <2> QED  BY <1>1, <2>1 DEF IInv, TypeOK
<1> QED  BY <1>2 DEF IInv, HeldArrived, AloneAgrees

LEMMA NextInv ==
  ASSUME IInv, [Next]_vars
  PROVE  IInv'
<1>1. CASE UNCHANGED vars
  <2> USE DEF vars, accVars, sourceVars
  <2>1. TypeOK' /\ HeldArrived' /\ AloneAgrees'
    BY <1>1 DEF IInv, TypeOK, HeldArrived, AloneAgrees, NothingStale
  <2> QED  BY <2>1 DEF IInv
<1> QED  BY <1>1, StartInv, ContinueInv, StrayInv, ResetInv DEF Next

\* What was handed back and what is held come from what arrived, at every step.
THEOREM PayloadInvariant == Spec => []IInv
BY InitInv, NextInv, PTL DEF Spec

\* The accumulator's state is well typed, and never holds more than has arrived.
THEOREM PayloadTypeCorrect == Spec => []TypeOK
BY PayloadInvariant, PTL DEF IInv

\* However a payload is cut, whatever was abandoned before it and is over-delivered
\* behind it, feed hands it back whole and once.
THEOREM PayloadComesWhole == Spec => []PayloadHandedBack
<1>1. IInv => PayloadHandedBack
  BY DEF IInv, AloneAgrees, PayloadHandedBack
<1> QED  BY <1>1, PayloadInvariant, PTL

\* Whatever is fed, in any order, no byte that arrived before the last start or reset
\* is handed back, and nothing is handed back twice.
THEOREM PayloadNothingStale == Spec => []NothingStale
<1>1. IInv => NothingStale
  BY DEF IInv, HeldArrived, NothingStale
<1> QED  BY <1>1, PayloadInvariant, PTL
=============================================================================
