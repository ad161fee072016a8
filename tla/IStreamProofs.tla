---------------------------- MODULE IStreamProofs ---------------------------
(***************************************************************************)
(* What holds of the streaming decoder for any message, cut anywhere, and  *)
(* for any limits: its type invariant, what is carried between two feeds,  *)
(* the order of the callbacks, that a malformed verdict stays, and that    *)
(* where the message was cut does not matter.                              *)
(*                                                                         *)
(* Five invariants are inductive, each given the ones before it.  TypeInv  *)
(* says which items can be suspended and that INVALID is latched.  CarryInv*)
(* says that the carry is short: it is too short to be the item it begins, *)
(* whatever the suspended item is, so that the bytes stitched to it either *)
(* leave it short as well or complete an item that ends behind it.  This   *)
(* rests on what a read of more bytes answers (ReadLocal of FormatProofs). *)
(* OrderInv says what the callbacks made so far still wait for, and that   *)
(* the item at the cursor is just that.  PlaceInv says where among the     *)
(* bytes fed those are that the decoder keeps, and MeaningInv that the     *)
(* reference decoder, run on the bytes fed, passes through the place where *)
(* the streaming one is, with the same callbacks: both take the same steps,*)
(* since a step depends only on the bytes behind the cursor (StepAgrees of *)
(* FormatProofs), and that they are in two pieces matters to neither.      *)
(*                                                                         *)
(* Above it, the same is shown of the receiver, for any bounds: what its   *)
(* destination holds and which verdict it gives. Its steps leave the       *)
(* decoder's invariants, since each is a step of the decoder or none       *)
(* (ReceiverIsDecoder). ReceiverInv says that the visitor is where the     *)
(* callbacks it has handled say, put together (Told), and which part of    *)
(* them the consumer has passed on. What those callbacks say is followed   *)
(* one by one: one more callback changes the first breach                  *)
(* (FirstBreachNext), the name and the tags (NameNext, TagsNext) as the    *)
(* visitor's handlers do; that its own chunks come in pieces makes no      *)
(* difference, since an unfinished payload says nothing. Behind a verdict  *)
(* it takes chunks like any other, and all that is needed of them is that  *)
(* they leave the verdict.                                                 *)
(***************************************************************************)
EXTENDS Receiver, FormatProofs
LOCAL INSTANCE FiniteSetsExt
LOCAL INSTANCE SequencesExt

(***************************************************************************)
(* Definitions: the type invariant.                                        *)
(***************************************************************************)
\* An item suspends only in a state from which it can go on.
ItemsWellFormed ==
  /\ message \in Seq(Byte)
  /\ resume.kind = "none" => resume = NoResume
  /\ resume.kind = "payload" => resume.remaining \in 1..resume.total /\ resume.type \in {Str, Blob}
  /\ resume.kind = "fix" => resume.type \in Floats
  /\ resume.kind = "int" => resume.type \in {KindUnsigned, KindSigned}
  /\ pc \in {"field", "elements"} => resume = NoResume
  /\ pc = "elements" =>
       \/ item.kind = "fix" /\ item.type \in Floats
       \/ item.kind = "int" /\ item.type \in {KindUnsigned, KindSigned}

\* A feed in progress was not refused, and a malformed verdict is remembered.
Latched ==
  /\ pc # "idle" => ~invalid
  /\ pc = "idle" /\ result = "InvalidMsg" => invalid

\* Neither the carry nor what is stitched to it is longer than its array.
CarryFits == Len(carry) <= CarryCap /\ (held > 0 => Len(buf) <= CarryCap)

\* The type invariant, made inductive.
TypeInv == TypeOK /\ ItemsWellFormed /\ CarryFits /\ Latched /\ events \in Seq(Events)

(***************************************************************************)
(* Definitions: bytes too short for the item they begin.                   *)
(***************************************************************************)
\* Behind p, the bytes s end inside an element of the array it.
ElementShortIn(it, s, p) ==
  /\ it.remaining > 0
  /\ \/ it.kind = "int" /\ ReadVarint(s, p + 1).status = "more"
     \/ it.kind = "fix" /\ Len(s) - p < FloatLen(it.type)

\* Behind p, the bytes s end inside the next item when it is suspended.
ShortIn(it, s, p) ==
  \/ it = NoResume /\ HeadShortIn(s, p)
  \/ it.kind \in {"int", "fix"} /\ ElementShortIn(it, s, p)

\* Between feeds, what is carried is short.
CarryShortIn ==
  /\ Len(carry) < CarryCap
  /\ pc = "idle" /\ ~invalid /\ carry # <<>> => ShortIn(resume, carry, 0)

\* The bytes that are parsed begin with the carry.
Stitched ==
  pc # "idle" =>
    /\ held = Len(carry)
    /\ held > 0 => /\ Len(buf) = held + Smaller(CarryCap - held, Len(chunk))
                   /\ \A i \in 1..held : buf[i] = carry[i]

\* While the cursor is inside the carry it is at its start, and the carry is short of
\* the item that is being read.
Untouched ==
  pc # "idle" /\ pos < held =>
    /\ pos = 0
    /\ pc = "resume" => ShortIn(resume, carry, 0)
    /\ pc = "field" => HeadShortIn(carry, 0)
    /\ pc = "elements" => ElementShortIn(item, carry, 0)

\* Parsing ends behind the last byte, or at an item that is short.
TailShort == pc = "parsed" => pos = Len(buf) \/ ShortIn(resume, buf, pos)

CarryInv == CarryShortIn /\ Stitched /\ Untouched /\ TailShort

-----------------------------------------------------------------------------
(***************************************************************************)
(* Reads, callbacks and items.                                             *)
(***************************************************************************)
\* The limits are numbers, and every float fits a carry.
LEMMA LimitFacts ==
  /\ MaxVarintLen \in Nat /\ MaxVarintLen >= 2 /\ CarryCap = 3 * MaxVarintLen
  /\ IdMax \in Nat /\ ArrayMax \in Nat /\ FixlenMax \in Nat /\ MaxDepth \in Nat
  /\ \A type : FloatLen(type) \in Nat \ {0} /\ FloatLen(type) <= CarryCap
BY MaxVarintLenAssumption, FormatAssumption, FloatAssumption DEF CarryCap, FloatLen

\* NoResume is a well-typed item.
LEMMA NoResumeType == NoResume \in Items
BY LimitFacts DEF NoResume, Resume, Items

\* What a read at the cursor answers.
LEMMA CursorReads ==
  ASSUME TypeOK, NEW at \in 0..Len(buf)
  PROVE  LET r == ReadVarint(buf, at + 1)
         IN  /\ r.status \in {"ok", "more", "invalid"}
             /\ r.value \in Nat /\ r.len \in 0..MaxVarintLen
             /\ r.status = "ok" => at + r.len \in (at + 1)..Len(buf)
             /\ r.status = "more" => Len(buf) - at < MaxVarintLen
<1>1. buf \in Seq(Byte) /\ at + 1 \in 1..(Len(buf) + 1)
  BY DEF TypeOK
<1> DEFINE r == ReadVarint(buf, at + 1)
<1>2. /\ r.status \in {"ok", "more", "invalid"}
      /\ r.value \in Nat /\ r.len \in 0..MaxVarintLen
      /\ r.status = "ok" => r.len >= 1 /\ (at + 1) + r.len - 1 <= Len(buf)
      /\ r.status = "more" => Len(buf) - (at + 1) + 1 < MaxVarintLen
  BY <1>1, ReadOutcome
<1> HIDE DEF r
<1>3. r.len \in Nat /\ Len(buf) \in Nat
  BY <1>1, <1>2, LimitFacts
<1>4. /\ r.status = "ok" => at + r.len \in (at + 1)..Len(buf)
      /\ r.status = "more" => Len(buf) - at < MaxVarintLen
  BY <1>2, <1>3, LimitFacts
<1> QED  BY <1>2, <1>4 DEF r

\* A header splits into an id and a type, a fixlen word into a length and a subtype.
LEMMA WordParts ==
  ASSUME NEW v \in Nat
  PROVE  v \div 8 \in Nat /\ v % 8 \in 0..7
OBVIOUS

\* The varints at the head of a field lie one behind the other.
LEMMA HeadFacts ==
  ASSUME TypeOK
  PROVE  /\ header.status \in {"ok", "more", "invalid"}
         /\ id \in Nat /\ wire \in 0..7
         /\ header.len \in 0..MaxVarintLen
         /\ header.status = "more" => Len(buf) - pos < MaxVarintLen
         /\ header.status = "ok" =>
              /\ atWord \in (pos + 1)..Len(buf)
              /\ word.status \in {"ok", "more", "invalid"}
              /\ word.value \in Nat /\ length \in Nat /\ subtype \in 0..7
              /\ word.len \in 0..MaxVarintLen
              /\ word.status = "more" => Len(buf) - atWord < MaxVarintLen
              /\ word.status = "ok" =>
                   /\ atElem \in (atWord + 1)..Len(buf)
                   /\ elem.status \in {"ok", "more", "invalid"}
                   /\ elem.value \in Nat /\ elemSubtype \in 0..7
                   /\ elem.status = "more" => Len(buf) - atElem < MaxVarintLen
                   /\ elem.status = "ok" => atElem + elem.len \in (atElem + 1)..Len(buf)
<1>1. pos \in 0..Len(buf) /\ Len(buf) \in Nat
  BY DEF TypeOK
<1>2. /\ header.status \in {"ok", "more", "invalid"}
      /\ header.value \in Nat /\ header.len \in 0..MaxVarintLen
      /\ header.status = "ok" => pos + header.len \in (pos + 1)..Len(buf)
      /\ header.status = "more" => Len(buf) - pos < MaxVarintLen
  BY <1>1, CursorReads DEF header
<1>3. id \in Nat /\ wire \in 0..7
  BY <1>2, WordParts DEF id, wire
<1>4. ASSUME header.status = "ok"
      PROVE  /\ atWord \in (pos + 1)..Len(buf)
             /\ word.status \in {"ok", "more", "invalid"}
             /\ word.value \in Nat /\ word.len \in 0..MaxVarintLen
             /\ word.status = "ok" => atWord + word.len \in (atWord + 1)..Len(buf)
             /\ word.status = "more" => Len(buf) - atWord < MaxVarintLen
  <2>1. atWord \in (pos + 1)..Len(buf)
    BY <1>2, <1>4 DEF atWord
  <2>2. atWord \in 0..Len(buf)
    BY <1>1, <2>1
  <2> QED  BY <2>1, <2>2, CursorReads DEF word
<1>5. ASSUME header.status = "ok" PROVE length \in Nat /\ subtype \in 0..7
  BY <1>4, <1>5, WordParts DEF length, subtype
<1>6. ASSUME header.status = "ok", word.status = "ok"
      PROVE  /\ atElem \in (atWord + 1)..Len(buf)
             /\ elem.status \in {"ok", "more", "invalid"}
             /\ elem.value \in Nat
             /\ elem.status = "ok" => atElem + elem.len \in (atElem + 1)..Len(buf)
             /\ elem.status = "more" => Len(buf) - atElem < MaxVarintLen
  <2>1. atElem \in (atWord + 1)..Len(buf)
    BY <1>4, <1>6 DEF atElem
  <2>2. atElem \in 0..Len(buf)
    BY <1>1, <1>4, <1>6, <2>1
  <2> QED  BY <2>1, <2>2, CursorReads DEF elem
<1>7. ASSUME header.status = "ok", word.status = "ok" PROVE elemSubtype \in 0..7
  BY <1>6, <1>7, WordParts DEF elemSubtype
<1> QED  BY <1>2, <1>3, <1>4, <1>5, <1>6, <1>7

\* An element that is there lies within the bytes.
LEMMA ElementFacts ==
  ASSUME TypeInv, pc = "elements"
  PROVE  /\ element.status \in {"ok", "more", "invalid"}
         /\ element.value \in Nat
         /\ element.status = "ok" => pos + element.len \in (pos + 1)..Len(buf)
         /\ element.status = "more" => Len(buf) - pos < CarryCap
<1>1. pos \in 0..Len(buf) /\ Len(buf) \in Nat /\ TypeOK
  BY DEF TypeInv, TypeOK
<1>2. item.kind \in {"int", "fix"}
  BY DEF TypeInv, ItemsWellFormed
<1>3. CASE item.kind = "int"
  <2>1. element = ReadVarint(buf, pos + 1)
    BY <1>3 DEF element
  <2>2. /\ element.status \in {"ok", "more", "invalid"}
        /\ element.value \in Nat
        /\ element.status = "ok" => pos + element.len \in (pos + 1)..Len(buf)
        /\ element.status = "more" => Len(buf) - pos < MaxVarintLen
    BY <1>1, <2>1, CursorReads
  <2> QED  BY <1>1, <2>2, LimitFacts
<1>4. CASE item.kind = "fix"
  <2> DEFINE n == FloatLen(item.type)
  <2>1. n \in Nat \ {0} /\ n <= CarryCap
    BY LimitFacts
  <2>2. element = IF Len(buf) - pos < n THEN ReadMore ELSE ReadOk(0, n)
    BY <1>4 DEF element
  <2> HIDE DEF n
  <2>3. CASE Len(buf) - pos < n
    BY <1>1, <2>1, <2>2, <2>3, LimitFacts DEF ReadMore
  <2>4. CASE ~(Len(buf) - pos < n)
    <3>1. element.status = "ok" /\ element.value = 0 /\ element.len = n
      BY <2>2, <2>4 DEF ReadOk
    <3> QED  BY <1>1, <2>1, <2>4, <3>1
  <2> QED  BY <2>3, <2>4
<1> QED  BY <1>2, <1>3, <1>4

\* The callback of an element, case by case.
LEMMA OnElementIs ==
  ASSUME pc = "elements", TypeInv, NEW e
  PROVE  /\ item.kind = "fix" =>
              OnElement(e) = OnFloat(item.id, item.type, SubSeq(buf, pos + 1, pos + e.len))
         /\ item.kind = "int" /\ item.type = KindSigned =>
              OnElement(e) = OnSigned(item.id, ZigZagDecode(e.value))
         /\ item.kind = "int" /\ item.type # KindSigned =>
              OnElement(e) = OnUnsigned(item.id, e.value)
BY Zenon DEF OnElement

-----------------------------------------------------------------------------
(***************************************************************************)
(* The type invariant.                                                     *)
(***************************************************************************)
USE DEF Floats, Fp32, Fp64, Str, Blob, KindUnsigned, KindSigned

\* The type invariant holds at first, and each of the lemmas that follow says that an
\* action keeps it.
LEMMA TypeInit == Init => TypeInv
<1> SUFFICES ASSUME Init PROVE TypeInv
  OBVIOUS
<1>1. NoResume \in Items /\ 0 \in 0..MaxDepth /\ MaxDepth \in Nat
  BY NoResumeType, LimitFacts
<1>2. message \in Seq(Byte)
  BY InputsAssumption DEF Init
<1>3. TypeOK
  <2>1. invalid \in BOOLEAN
    BY DEF Init
  <2> QED  BY <1>1, <2>1 DEF Init, TypeOK
<1>4. ItemsWellFormed
  BY <1>2 DEF Init, ItemsWellFormed, NoResume, Resume
<1>5. Latched
  BY DEF Init, Latched
<1>6. CarryFits
  BY LimitFacts DEF Init, CarryFits
<1> QED  BY <1>3, <1>4, <1>5, <1>6 DEF Init, TypeInv

LEMMA TypeReset ==
  ASSUME TypeInv, Reset
  PROVE  TypeInv'
<1> USE DEF TypeInv, Reset, feedVars
<1>1. NoResume \in Items /\ 0 \in 0..MaxDepth /\ MaxDepth \in Nat
  BY NoResumeType, LimitFacts
<1>2. TypeOK'
  <2>1. invalid' \in BOOLEAN
    OBVIOUS
  <2> QED  BY <1>1, <2>1 DEF TypeOK
<1>3. ItemsWellFormed'
  BY DEF ItemsWellFormed, NoResume, Resume
<1>4. Latched'
  BY DEF Latched
<1>5. CarryFits'
  BY LimitFacts DEF CarryFits, TypeOK
<1> QED  BY <1>2, <1>3, <1>4, <1>5

LEMMA TypeFeed ==
  ASSUME TypeInv, NEW c \in Seq(Byte), Feed(c)
  PROVE  TypeInv'
<1> USE DEF TypeInv, Feed
<1>1. CASE invalid
  BY <1>1 DEF feedVars, TypeOK, ItemsWellFormed, Latched, CarryFits
<1>2. CASE ~invalid
  <2> DEFINE take == IF carry = <<>> THEN Len(c) ELSE Smaller(CarryCap - Len(carry), Len(c))
             front == SubSeq(c, 1, take)
  <2>1. fed \in Seq(Byte) /\ carry \in Seq(Byte)
    BY DEF TypeOK
  <2>2. take \in 0..Len(c) /\ (carry # <<>> => Len(carry) + take <= CarryCap)
    <3>1. Len(carry) \in Nat /\ Len(c) \in Nat /\ Len(carry) <= CarryCap
      BY <2>1 DEF CarryFits
    <3> QED  BY <3>1, LimitFacts DEF Smaller
  <2>3. front \in Seq(Byte) /\ Len(front) = take
    <3> HIDE DEF take
    <3>1. 1 \in 1..(Len(c) + 1) /\ take \in (1 - 1)..Len(c)
      BY <2>2
    <3> QED  BY <2>2, <3>1, SubSeqProperties
  <2>4. buf' = carry \o front /\ held' = Len(carry)
    BY <1>2 DEF Stitch
  <2> HIDE DEF front, take
  <2>5. buf' \in Seq(Byte) /\ held' \in 0..Len(buf')
    BY <2>1, <2>3, <2>4, ConcatProperties
  <2>6. fed' \in Seq(Byte)
    BY <1>2, <2>1, ConcatProperties
  <2>7. /\ pc' = "resume" /\ chunk' = c /\ pos' = 0
        /\ UNCHANGED <<carry, resume, depth, invalid, message, events, item, result>>
    BY <1>2
  <2>8. TypeOK'
    BY <2>5, <2>6, <2>7 DEF TypeOK
  <2>9. ItemsWellFormed' /\ Latched'
    BY <1>2, <2>7 DEF ItemsWellFormed, Latched
  <2>10. CarryFits'
    <3>1. carry # <<>> => Len(buf') = Len(carry) + take
      BY <2>1, <2>3, <2>4, ConcatProperties
    <3>2. held' > 0 => carry # <<>>
      BY <2>1, <2>4
    <3>3. carry' = carry
      BY <2>7
    <3> QED  BY <2>2, <3>1, <3>2, <3>3 DEF CarryFits
  <2> QED  BY <2>7, <2>8, <2>9, <2>10
<1> QED  BY <1>1, <1>2

LEMMA TypeReject ==
  ASSUME TypeInv, Reject
  PROVE  TypeInv'
<1> USE DEF TypeInv, Reject, Latch, Leave
<1>1. TypeOK'
  BY NoResumeType DEF TypeOK
<1>2. ItemsWellFormed' /\ Latched' /\ CarryFits'
  BY DEF ItemsWellFormed, Latched, CarryFits
<1> QED  BY <1>1, <1>2

LEMMA TypeResumeNothing ==
  ASSUME TypeInv, ResumeNothing
  PROVE  TypeInv'
BY DEF TypeInv, ResumeNothing, feedVars, TypeOK, ItemsWellFormed, Latched, CarryFits

\* What deliver_payload takes.
LEMMA Available ==
  ASSUME TypeInv, pc = "resume", resume.kind = "payload"
  PROVE  LET avail == Smaller(Len(buf) - pos, resume.remaining)
         IN  /\ avail \in Nat /\ pos + avail \in pos..Len(buf)
             /\ resume.remaining - avail \in Nat
             /\ resume.remaining - avail > 0 => pos + avail = Len(buf)
             /\ Delivered \in Nat
             /\ SubSeq(buf, pos + 1, pos + avail) \in Seq(Byte)
             /\ Len(SubSeq(buf, pos + 1, pos + avail)) = avail
<1> DEFINE avail == Smaller(Len(buf) - pos, resume.remaining)
<1>1. pos \in 0..Len(buf) /\ Len(buf) \in Nat /\ buf \in Seq(Byte) /\ resume \in Items
  BY DEF TypeInv, TypeOK
<1>2. resume.remaining \in 1..resume.total /\ resume.total \in Nat
  BY <1>1, LimitFacts DEF TypeInv, ItemsWellFormed, Items
<1>3. /\ avail \in Nat /\ pos + avail \in pos..Len(buf)
      /\ resume.remaining - avail \in Nat
      /\ resume.remaining - avail > 0 => pos + avail = Len(buf)
  BY <1>1, <1>2 DEF Smaller
<1>4. Delivered \in Nat
  BY <1>2 DEF Delivered
<1> HIDE DEF avail
<1>5. pos + 1 \in 1..(Len(buf) + 1) /\ pos + avail \in pos..Len(buf)
  BY <1>1, <1>3
<1>6. SubSeq(buf, pos + 1, pos + avail) \in Seq(Byte)
      /\ Len(SubSeq(buf, pos + 1, pos + avail)) = avail
  BY <1>1, <1>3, <1>5, SubSeqProperties
<1> QED  BY <1>3, <1>4, <1>6 DEF avail

LEMMA TypeResumePayload ==
  ASSUME TypeInv, ResumePayload
  PROVE  TypeInv'
<1> DEFINE avail == Smaller(Len(buf) - pos, resume.remaining)
           left == resume.remaining - avail
           data == SubSeq(buf, pos + 1, pos + avail)
           call == OnChunk(resume.id, resume.type, resume.total, Delivered, data)
<1>1. /\ avail \in Nat /\ pos + avail \in pos..Len(buf) /\ left \in Nat
      /\ Delivered \in Nat /\ data \in Seq(Byte)
  BY Available DEF ResumePayload
<1>2. /\ pos' = pos + avail
      /\ events' = IF avail = 0 THEN events ELSE Append(events, call)
      /\ resume' = IF left = 0 THEN NoResume ELSE [resume EXCEPT !.remaining = left]
      /\ pc' = IF left = 0 THEN "field" ELSE "parsed"
      /\ pc = "resume" /\ resume.kind = "payload"
      /\ UNCHANGED <<carry, depth, invalid, chunk, buf, held, item, result, message, fed>>
  BY DEF ResumePayload
<1>3. /\ resume \in Items /\ resume.id \in Nat /\ resume.type \in {Str, Blob} /\ resume.total \in Nat
      /\ resume.remaining \in 1..resume.total
  BY <1>2, LimitFacts DEF TypeInv, TypeOK, ItemsWellFormed, Items
<1>4. call \in Events
  <2> HIDE DEF data
  <2>1. resume.type \in Nat /\ resume.total \in Int
    BY <1>3
  <2>2. "chunk" \in CallbackNames
    BY DEF CallbackNames
  <2> QED  BY <1>1, <1>3, <2>1, <2>2, CallbackType DEF OnChunk
<1> HIDE DEF call, data
<1>5. events' \in Seq(Events)
  BY <1>2, <1>4, AppendProperties DEF TypeInv
<1>6. pos' \in 0..Len(buf')
  <2>1. pos \in 0..Len(buf) /\ Len(buf) \in Nat
    BY DEF TypeInv, TypeOK
  <2> HIDE DEF avail
  <2> QED  BY <1>1, <1>2, <2>1
<1>7. left <= resume.remaining
  <2> HIDE DEF avail
  <2> QED  BY <1>1, <1>3
<1> HIDE DEF left, avail
<1>8. resume' \in Items
  BY <1>1, <1>2, <1>3, NoResumeType DEF Items
<1>9. TypeOK'
  BY <1>2, <1>6, <1>8 DEF TypeInv, TypeOK
<1>10. ItemsWellFormed'
  <2>1. CASE left = 0
    BY <1>2, <2>1 DEF TypeInv, ItemsWellFormed, NoResume, Resume
  <2>2. CASE left # 0
    <3>1. /\ resume'.kind = "payload" /\ resume'.remaining = left
          /\ resume'.total = resume.total /\ resume'.type = resume.type /\ pc' = "parsed"
      BY <1>2, <1>3, <2>2 DEF Items
    <3>2. left \in 1..resume.total
      BY <1>1, <1>3, <1>7, <2>2
    <3> QED  BY <1>2, <1>3, <3>1, <3>2 DEF TypeInv, ItemsWellFormed
  <2> QED  BY <2>1, <2>2
<1>11. Latched' /\ CarryFits'
  BY <1>2 DEF TypeInv, Latched, CarryFits
<1> QED  BY <1>5, <1>9, <1>10, <1>11 DEF TypeInv

LEMMA TypeResumeArray ==
  ASSUME TypeInv, ResumeArray
  PROVE  TypeInv'
<1> USE DEF TypeInv, ResumeArray
<1>1. TypeOK'
  BY NoResumeType DEF TypeOK
<1>2. ItemsWellFormed'
  BY DEF ItemsWellFormed, NoResume, Resume
<1>3. Latched' /\ CarryFits'
  BY DEF Latched, CarryFits
<1> QED  BY <1>1, <1>2, <1>3

LEMMA TypeElementRead ==
  ASSUME TypeInv, ElementRead
  PROVE  TypeInv'
<1> DEFINE data == SubSeq(buf, pos + 1, pos + element.len)
           call == OnElement(element)
<1>1. /\ pc = "elements" /\ item.remaining > 0 /\ element.status = "ok"
      /\ events' = Append(events, call)
      /\ pos' = pos + element.len
      /\ item' = [item EXCEPT !.remaining = @ - 1]
      /\ UNCHANGED <<carry, resume, depth, invalid, pc, chunk, buf, held, result, message, fed>>
  BY DEF ElementRead
<1>2. /\ pos \in 0..Len(buf) /\ Len(buf) \in Nat /\ buf \in Seq(Byte)
      /\ pos' \in (pos + 1)..Len(buf) /\ element.value \in Nat
  BY <1>1, ElementFacts DEF TypeInv, TypeOK
<1>3. data \in Seq(Byte)
  <2> DEFINE end == pos + element.len
  <2>1. pos + 1 \in 1..(Len(buf) + 1) /\ end \in (pos + 1 - 1)..Len(buf)
    BY <1>1, <1>2
  <2> HIDE DEF end
  <2>2. SubSeq(buf, pos + 1, end) \in Seq(Byte)
    BY <1>2, <2>1, SubSeqProperties
  <2> QED  BY <2>2 DEF end
<1>4. /\ item \in Items /\ item.id \in Nat /\ item.type \in Nat /\ item.remaining \in Nat
      /\ item.kind \in {"int", "fix"}
  <2>1. item \in Items
    BY DEF TypeInv, TypeOK
  <2>2. item.kind \in {"int", "fix"}
    BY <1>1 DEF TypeInv, ItemsWellFormed
  <2> QED  BY <2>1, <2>2, LimitFacts DEF Items
<1>5. call \in Events
  <2> HIDE DEF data
  <2>1. /\ item.kind = "fix" => call = OnFloat(item.id, item.type, data)
        /\ item.kind = "int" /\ item.type = KindSigned =>
             call = OnSigned(item.id, ZigZagDecode(element.value))
        /\ item.kind = "int" /\ item.type # KindSigned => call = OnUnsigned(item.id, element.value)
    BY <1>1, OnElementIs DEF data
  <2>2. ZigZagDecode(element.value) \in Int
    BY <1>2, ZigZagDecodeType
  <2> HIDE DEF call
  <2>3. <<>> \in Seq(Byte) /\ 0 \in Nat /\ 0 \in Int /\ element.value \in Int
    BY <1>2
  <2>4. "float" \in CallbackNames /\ "signed" \in CallbackNames /\ "unsigned" \in CallbackNames
    BY DEF CallbackNames
  <2>5. OnFloat(item.id, item.type, data) \in Events
    BY <1>3, <1>4, <2>3, <2>4, CallbackType DEF OnFloat
  <2>6. OnSigned(item.id, ZigZagDecode(element.value)) \in Events
    BY <1>4, <2>2, <2>3, <2>4, CallbackType DEF OnSigned
  <2>7. OnUnsigned(item.id, element.value) \in Events
    BY <1>4, <2>3, <2>4, CallbackType DEF OnUnsigned
  <2> QED  BY <1>4, <2>1, <2>5, <2>6, <2>7
<1> HIDE DEF call, data
<1>6. events' \in Seq(Events)
  BY <1>1, <1>5, AppendProperties DEF TypeInv
<1>7. item' \in Items /\ item'.kind = item.kind /\ item'.type = item.type
  <2> DEFINE left == item.remaining - 1
  <2>1. left \in Nat /\ item' = [item EXCEPT !.remaining = left]
    BY <1>1, <1>4
  <2> HIDE DEF left
  <2> QED  BY <1>4, <2>1 DEF Items
<1>8. pos' \in 0..Len(buf')
  BY <1>1, <1>2
<1>9. TypeOK'
  BY <1>1, <1>7, <1>8 DEF TypeInv, TypeOK
<1>10. ItemsWellFormed' /\ Latched' /\ CarryFits'
  BY <1>1, <1>7 DEF TypeInv, ItemsWellFormed, Latched, CarryFits
<1> QED  BY <1>6, <1>9, <1>10 DEF TypeInv

LEMMA TypeElementShort ==
  ASSUME TypeInv, ElementShort
  PROVE  TypeInv'
<1> USE DEF TypeInv, ElementShort, feedVars
<1>1. TypeOK' /\ Latched' /\ CarryFits'
  BY DEF TypeOK, Latched, CarryFits
<1>2. ItemsWellFormed'
  BY DEF ItemsWellFormed
<1> QED  BY <1>1, <1>2

LEMMA TypeElementsRead ==
  ASSUME TypeInv, ElementsRead
  PROVE  TypeInv'
<1> USE DEF TypeInv, ElementsRead
<1>1. TypeOK' /\ Latched' /\ CarryFits'
  BY NoResumeType DEF TypeOK, Latched, CarryFits
<1>2. ItemsWellFormed'
  BY DEF ItemsWellFormed
<1> QED  BY <1>1, <1>2

LEMMA TypeNoMoreBytes ==
  ASSUME TypeInv, FieldShort \/ NoMoreFields
  PROVE  TypeInv'
BY DEF TypeInv, FieldShort, NoMoreFields, AtField, feedVars, TypeOK, ItemsWellFormed, Latched, CarryFits

LEMMA TypeScalar ==
  ASSUME TypeInv, Scalar
  PROVE  TypeInv'
<1> DEFINE call == IF wire = T_VARINT_SIGNED THEN OnSigned(id, ZigZagDecode(word.value))
                    ELSE OnUnsigned(id, word.value)
<1>1. /\ pc = "field" /\ header.status = "ok" /\ word.status = "ok"
      /\ events' = Append(events, call)
      /\ pos' = atElem
      /\ UNCHANGED <<carry, resume, depth, invalid, pc, chunk, buf, held, item, result, message, fed>>
  BY DEF Scalar, WordRead, HeaderRead, AtField
<1>2. /\ pos \in 0..Len(buf) /\ Len(buf) \in Nat
      /\ atWord \in (pos + 1)..Len(buf) /\ atElem \in (atWord + 1)..Len(buf)
      /\ id \in Nat /\ word.value \in Nat
  BY <1>1, HeadFacts DEF TypeInv, TypeOK
<1>3. call \in Events
  <2>1. ZigZagDecode(word.value) \in Int /\ word.value \in Int /\ 0 \in Nat /\ <<>> \in Seq(Byte)
    BY <1>2, ZigZagDecodeType
  <2>2. "signed" \in CallbackNames /\ "unsigned" \in CallbackNames
    BY DEF CallbackNames
  <2>3. OnSigned(id, ZigZagDecode(word.value)) \in Events /\ OnUnsigned(id, word.value) \in Events
    BY <1>2, <2>1, <2>2, CallbackType DEF OnSigned, OnUnsigned
  <2> QED  BY <2>3
<1> HIDE DEF call
<1>4. events' \in Seq(Events)
  BY <1>1, <1>3, AppendProperties DEF TypeInv
<1>5. pos' \in 0..Len(buf')
  BY <1>1, <1>2
<1>6. TypeOK' /\ ItemsWellFormed' /\ Latched' /\ CarryFits'
  BY <1>1, <1>5 DEF TypeInv, TypeOK, ItemsWellFormed, Latched, CarryFits
<1> QED  BY <1>4, <1>6 DEF TypeInv

\* What of a payload is there when its head has been read.
LEMMA AvailableNow ==
  ASSUME TypeInv, FixlenPayload
  PROVE  LET avail == Smaller(Len(buf) - atElem, length)
         IN  /\ avail \in Nat /\ avail <= length
             /\ atElem + avail \in (pos + 1)..Len(buf)
             /\ avail # length => atElem + avail = Len(buf)
             /\ SubSeq(buf, atElem + 1, atElem + avail) \in Seq(Byte)
             /\ Len(SubSeq(buf, atElem + 1, atElem + avail)) = avail
             /\ length \in 0..FixlenMax /\ id \in 0..IdMax /\ subtype \in {Str, Blob}
<1> DEFINE avail == Smaller(Len(buf) - atElem, length)
<1>1. /\ header.status = "ok" /\ word.status = "ok" /\ id <= IdMax
      /\ subtype \in {Str, Blob} /\ length <= FixlenMax
  BY DEF FixlenPayload, WordRead, HeaderRead
<1>2. /\ pos \in 0..Len(buf) /\ Len(buf) \in Nat /\ buf \in Seq(Byte)
      /\ atWord \in (pos + 1)..Len(buf) /\ atElem \in (atWord + 1)..Len(buf)
      /\ id \in Nat /\ length \in Nat
  BY <1>1, HeadFacts DEF TypeInv, TypeOK
<1>3. /\ avail \in Nat /\ avail <= length /\ atElem + avail \in (pos + 1)..Len(buf)
      /\ avail # length => atElem + avail = Len(buf)
  BY <1>2 DEF Smaller
<1> HIDE DEF avail
<1>4. atElem + 1 \in 1..(Len(buf) + 1) /\ atElem + avail \in (atElem + 1 - 1)..Len(buf)
  BY <1>2, <1>3
<1>5. SubSeq(buf, atElem + 1, atElem + avail) \in Seq(Byte)
      /\ Len(SubSeq(buf, atElem + 1, atElem + avail)) = avail
  BY <1>2, <1>3, <1>4, SubSeqProperties
<1>6. length \in 0..FixlenMax /\ id \in 0..IdMax
  BY <1>1, <1>2, LimitFacts
<1> QED  BY <1>1, <1>3, <1>5, <1>6 DEF avail

LEMMA TypeFixlenPayload ==
  ASSUME TypeInv, FixlenPayload
  PROVE  TypeInv'
<1> DEFINE avail == Smaller(Len(buf) - atElem, length)
           begin == OnFixlenBegin(id, subtype, length)
           data == SubSeq(buf, atElem + 1, atElem + avail)
           piece == OnChunk(id, subtype, length, 0, data)
<1>1. /\ avail \in Nat /\ avail <= length
      /\ atElem + avail \in (pos + 1)..Len(buf)
      /\ data \in Seq(Byte)
      /\ length \in 0..FixlenMax /\ id \in 0..IdMax /\ subtype \in {Str, Blob}
  BY AvailableNow
<1>2. /\ pc = "field"
      /\ events' = IF avail = 0 /\ length > 0 THEN Append(events, begin)
                   ELSE Append(Append(events, begin), piece)
      /\ pos' = atElem + avail
      /\ IF avail = length
           THEN UNCHANGED <<pc, resume>>
           ELSE /\ resume' = Resume("payload", id, subtype, length, length - avail)
                /\ pc' = "parsed"
      /\ UNCHANGED <<carry, depth, invalid, chunk, buf, held, item, result, message, fed>>
  BY DEF FixlenPayload, WordRead, HeaderRead, AtField
<1>3. id \in Nat /\ length \in Nat /\ length \in Int /\ subtype \in Nat
  BY <1>1, LimitFacts
<1>4. begin \in Events /\ piece \in Events
  <2> HIDE DEF data
  <2>1. "fixlen_begin" \in CallbackNames /\ "chunk" \in CallbackNames
    BY DEF CallbackNames
  <2>2. <<>> \in Seq(Byte) /\ 0 \in Nat
    OBVIOUS
  <2> QED  BY <1>1, <1>3, <2>1, <2>2, CallbackType DEF OnFixlenBegin, OnChunk
<1> HIDE DEF begin, piece
<1>5. events' \in Seq(Events)
  <2>1. Append(events, begin) \in Seq(Events)
    BY <1>4, AppendProperties DEF TypeInv
  <2>2. Append(Append(events, begin), piece) \in Seq(Events)
    BY <1>4, <2>1, AppendProperties
  <2> QED  BY <1>2, <2>1, <2>2
<1>6. pos \in 0..Len(buf) /\ Len(buf) \in Nat
  BY DEF TypeInv, TypeOK
<1>7. pos' \in 0..Len(buf')
  <2> HIDE DEF avail
  <2> QED  BY <1>1, <1>2, <1>6
<1>8. avail = length \/ length - avail \in 1..length
  <2> HIDE DEF avail
  <2> QED  BY <1>1, <1>3
<1> HIDE DEF avail
<1>9. CASE avail = length
  <2>1. UNCHANGED <<pc, resume>>
    BY <1>2, <1>9
  <2>2. TypeOK' /\ ItemsWellFormed' /\ Latched' /\ CarryFits'
    BY <1>2, <1>7, <2>1 DEF TypeInv, TypeOK, ItemsWellFormed, Latched, CarryFits
  <2> QED  BY <1>5, <2>2 DEF TypeInv
<1>10. CASE avail # length
  <2> DEFINE left == length - avail
  <2>1. /\ resume' = [kind |-> "payload", id |-> id, type |-> subtype, total |-> length,
                      remaining |-> left]
        /\ pc' = "parsed"
    BY <1>2, <1>10 DEF Resume
  <2>2. left \in 1..length /\ left \in Nat
    BY <1>8, <1>10
  <2> HIDE DEF left
  <2>3. resume' \in Items
    BY <1>1, <2>1, <2>2 DEF Items
  <2>4. TypeOK'
    BY <1>2, <1>7, <2>1, <2>3 DEF TypeInv, TypeOK
  <2>5. ItemsWellFormed'
    BY <1>1, <1>2, <2>1, <2>2 DEF TypeInv, ItemsWellFormed
  <2>6. Latched' /\ CarryFits'
    BY <1>2, <2>1 DEF TypeInv, Latched, CarryFits
  <2> QED  BY <1>5, <2>4, <2>5, <2>6 DEF TypeInv
<1> QED  BY <1>9, <1>10

\* What is announced is an item with the id of the field, and the cursor is behind the head.
LEMMA TypeAnnounce ==
  ASSUME TypeInv, pc = "field",
         NEW call \in Events, NEW at \in (pos + 1)..Len(buf), NEW elements \in Items,
         \/ elements.kind = "fix" /\ elements.type \in Floats
         \/ elements.kind = "int" /\ elements.type \in {KindUnsigned, KindSigned},
         Announce(call, at, elements)
  PROVE  TypeInv'
<1>1. /\ events' = Append(events, call) /\ pos' = at /\ item' = elements /\ pc' = "elements"
      /\ UNCHANGED <<carry, resume, depth, invalid, chunk, buf, held, result, message, fed>>
  BY DEF Announce
<1>2. events' \in Seq(Events)
  BY <1>1, AppendProperties DEF TypeInv
<1>3. pos' \in 0..Len(buf')
  <2>1. pos \in 0..Len(buf) /\ Len(buf) \in Nat
    BY DEF TypeInv, TypeOK
  <2> QED  BY <1>1, <2>1
<1>4. TypeOK'
  BY <1>1, <1>3 DEF TypeInv, TypeOK
<1>5. ItemsWellFormed' /\ Latched' /\ CarryFits'
  BY <1>1 DEF TypeInv, ItemsWellFormed, Latched, CarryFits
<1> QED  BY <1>2, <1>4, <1>5 DEF TypeInv

LEMMA FloatAnnounced ==
  ASSUME TypeInv, FixlenFloat
  PROVE  /\ pc = "field" /\ atElem \in (pos + 1)..Len(buf)
         /\ OnFixlenBegin(id, subtype, length) \in Events
         /\ Resume("fix", id, subtype, 0, 1) \in Items
         /\ subtype \in Floats
         /\ Announce(OnFixlenBegin(id, subtype, length), atElem, Resume("fix", id, subtype, 0, 1))
<1>1. /\ pc = "field" /\ header.status = "ok" /\ word.status = "ok" /\ id <= IdMax
      /\ subtype \in Floats
      /\ Announce(OnFixlenBegin(id, subtype, length), atElem, Resume("fix", id, subtype, 0, 1))
  BY DEF FixlenFloat, WordRead, HeaderRead, AtField
<1>2. /\ pos \in 0..Len(buf) /\ Len(buf) \in Nat
      /\ atWord \in (pos + 1)..Len(buf) /\ atElem \in (atWord + 1)..Len(buf)
      /\ id \in Nat /\ length \in Nat /\ subtype \in 0..7
  BY <1>1, HeadFacts DEF TypeInv, TypeOK
<1>3. atElem \in (pos + 1)..Len(buf) /\ subtype \in Nat /\ length \in Int /\ id \in 0..IdMax
  BY <1>1, <1>2, LimitFacts
<1>4. "fixlen_begin" \in CallbackNames /\ <<>> \in Seq(Byte) /\ 0 \in Nat
  BY DEF CallbackNames
<1>5. OnFixlenBegin(id, subtype, length) \in Events
  BY <1>2, <1>3, <1>4, CallbackType DEF OnFixlenBegin
<1>6. Resume("fix", id, subtype, 0, 1) \in Items
  BY <1>1, <1>3, LimitFacts DEF Resume, Items
<1> QED  BY <1>1, <1>3, <1>5, <1>6

LEMMA IntArrayAnnounced ==
  ASSUME TypeInv, IntArray
  PROVE  LET kind == IF wire = T_VARINTARRAY_SIGNED THEN KindSigned ELSE KindUnsigned
         IN  /\ pc = "field" /\ atElem \in (pos + 1)..Len(buf)
             /\ OnArrayBegin(id, kind, word.value) \in Events
             /\ Resume("int", id, kind, 0, word.value) \in Items
             /\ kind \in {KindUnsigned, KindSigned}
             /\ Announce(OnArrayBegin(id, kind, word.value), atElem,
                         Resume("int", id, kind, 0, word.value))
<1> DEFINE kind == IF wire = T_VARINTARRAY_SIGNED THEN KindSigned ELSE KindUnsigned
<1>1. /\ pc = "field" /\ header.status = "ok" /\ word.status = "ok" /\ id <= IdMax
      /\ Announce(OnArrayBegin(id, kind, word.value), atElem,
                  Resume("int", id, kind, 0, word.value))
  BY DEF IntArray, CountRead, WordRead, HeaderRead, AtField
<1>2. /\ pos \in 0..Len(buf) /\ Len(buf) \in Nat
      /\ atWord \in (pos + 1)..Len(buf) /\ atElem \in (atWord + 1)..Len(buf)
      /\ id \in Nat /\ word.value \in Nat
  BY <1>1, HeadFacts DEF TypeInv, TypeOK
<1>3. atElem \in (pos + 1)..Len(buf) /\ word.value \in Int /\ id \in 0..IdMax
  BY <1>1, <1>2, LimitFacts
<1>4. kind \in {KindUnsigned, KindSigned} /\ kind \in Nat /\ kind \in 0..3
  OBVIOUS
<1> HIDE DEF kind
<1>5. "array_begin" \in CallbackNames /\ <<>> \in Seq(Byte) /\ 0 \in Nat
  BY DEF CallbackNames
<1>6. OnArrayBegin(id, kind, word.value) \in Events
  BY <1>2, <1>3, <1>4, <1>5, CallbackType DEF OnArrayBegin
<1>7. Resume("int", id, kind, 0, word.value) \in Items
  BY <1>2, <1>3, <1>4, LimitFacts DEF Resume, Items
<1> QED  BY <1>1, <1>3, <1>4, <1>6, <1>7 DEF kind

LEMMA FloatArrayAnnounced ==
  ASSUME TypeInv, FloatArray
  PROVE  LET kind == IF elemSubtype = Fp64 THEN KindFp64 ELSE KindFp32
         IN  /\ pc = "field" /\ atElem + elem.len \in (pos + 1)..Len(buf)
             /\ OnArrayBegin(id, kind, word.value) \in Events
             /\ Resume("fix", id, elemSubtype, 0, word.value) \in Items
             /\ elemSubtype \in Floats
             /\ Announce(OnArrayBegin(id, kind, word.value), atElem + elem.len,
                         Resume("fix", id, elemSubtype, 0, word.value))
<1> DEFINE kind == IF elemSubtype = Fp64 THEN KindFp64 ELSE KindFp32
<1>1. /\ pc = "field" /\ header.status = "ok" /\ word.status = "ok" /\ elem.status = "ok"
      /\ id <= IdMax /\ elemSubtype \in Floats
      /\ Announce(OnArrayBegin(id, kind, word.value), atElem + elem.len,
                  Resume("fix", id, elemSubtype, 0, word.value))
  BY DEF FloatArray, BadElem, ElemRead, CountRead, WordRead, HeaderRead, AtField
<1>2. /\ pos \in 0..Len(buf) /\ Len(buf) \in Nat
      /\ atWord \in (pos + 1)..Len(buf) /\ atElem \in (atWord + 1)..Len(buf)
      /\ atElem + elem.len \in (atElem + 1)..Len(buf)
      /\ id \in Nat /\ word.value \in Nat
  BY <1>1, HeadFacts DEF TypeInv, TypeOK
<1>3. atElem + elem.len \in (pos + 1)..Len(buf) /\ word.value \in Int /\ id \in 0..IdMax
  <2> DEFINE end == atElem + elem.len
  <2> HIDE DEF end
  <2>1. end \in (pos + 1)..Len(buf)
    BY <1>2 DEF end
  <2> QED  BY <1>1, <1>2, <2>1, LimitFacts DEF end
<1>4. kind \in Nat
  BY DEF KindFp32, KindFp64
<1> HIDE DEF kind
<1>5. "array_begin" \in CallbackNames /\ <<>> \in Seq(Byte) /\ 0 \in Nat
  BY DEF CallbackNames
<1>6. OnArrayBegin(id, kind, word.value) \in Events
  BY <1>2, <1>3, <1>4, <1>5, CallbackType DEF OnArrayBegin
<1>7. Resume("fix", id, elemSubtype, 0, word.value) \in Items
  BY <1>1, <1>2, <1>3, LimitFacts DEF Resume, Items
<1> QED  BY <1>1, <1>3, <1>6, <1>7 DEF kind

LEMMA TypeAnnounced ==
  ASSUME TypeInv, FixlenFloat \/ IntArray \/ FloatArray
  PROVE  TypeInv'
<1>1. CASE FixlenFloat
  <2> DEFINE elements == Resume("fix", id, subtype, 0, 1)
             call == OnFixlenBegin(id, subtype, length)
  <2>1. elements.kind = "fix" /\ elements.type = subtype
    BY DEF Resume
  <2>2. /\ pc = "field" /\ atElem \in (pos + 1)..Len(buf)
        /\ call \in Events /\ elements \in Items /\ subtype \in Floats
        /\ Announce(call, atElem, elements)
    BY <1>1, FloatAnnounced
  <2> HIDE DEF elements, call
  <2> QED  BY <2>1, <2>2, TypeAnnounce
<1>2. CASE IntArray
  <2> DEFINE kind == IF wire = T_VARINTARRAY_SIGNED THEN KindSigned ELSE KindUnsigned
             elements == Resume("int", id, kind, 0, word.value)
             call == OnArrayBegin(id, kind, word.value)
  <2>1. elements.kind = "int" /\ elements.type = kind
    BY DEF Resume
  <2>2. /\ pc = "field" /\ atElem \in (pos + 1)..Len(buf)
        /\ call \in Events /\ elements \in Items /\ kind \in {KindUnsigned, KindSigned}
        /\ Announce(call, atElem, elements)
    BY <1>2, IntArrayAnnounced
  <2> HIDE DEF elements, call, kind
  <2> QED  BY <2>1, <2>2, TypeAnnounce
<1>3. CASE FloatArray
  <2> DEFINE kind == IF elemSubtype = Fp64 THEN KindFp64 ELSE KindFp32
             elements == Resume("fix", id, elemSubtype, 0, word.value)
             call == OnArrayBegin(id, kind, word.value)
             end == atElem + elem.len
  <2>1. elements.kind = "fix" /\ elements.type = elemSubtype
    BY DEF Resume
  <2>2. /\ pc = "field" /\ end \in (pos + 1)..Len(buf)
        /\ call \in Events /\ elements \in Items /\ elemSubtype \in Floats
        /\ Announce(call, end, elements)
    BY <1>3, FloatArrayAnnounced
  <2> HIDE DEF elements, call, end
  <2> QED  BY <2>1, <2>2, TypeAnnounce
<1> QED  BY <1>1, <1>2, <1>3

LEMMA TypeSequence ==
  ASSUME TypeInv, SequenceBegin \/ SequenceEnd
  PROVE  TypeInv'
<1> DEFINE call == IF wire = T_SEQUENCE_START THEN OnSequenceBegin(id) ELSE OnSequenceEnd
<1>1. /\ pc = "field" /\ header.status = "ok"
      /\ events' = Append(events, call) /\ pos' = atWord
      /\ UNCHANGED <<carry, resume, invalid, pc, chunk, buf, held, item, result, message, fed>>
  BY DEF SequenceBegin, SequenceEnd, HeaderRead, AtField, T_SEQUENCE_START, T_SEQUENCE_END
<1>2. pos \in 0..Len(buf) /\ Len(buf) \in Nat /\ atWord \in (pos + 1)..Len(buf) /\ id \in Nat
  BY <1>1, HeadFacts DEF TypeInv, TypeOK
<1>3. call \in Events
  <2>1. "sequence_begin" \in CallbackNames /\ "sequence_end" \in CallbackNames
    BY DEF CallbackNames
  <2>2. <<>> \in Seq(Byte) /\ 0 \in Nat /\ 0 \in Int
    OBVIOUS
  <2>3. OnSequenceBegin(id) \in Events /\ OnSequenceEnd \in Events
    BY <1>2, <2>1, <2>2, CallbackType DEF OnSequenceBegin, OnSequenceEnd
  <2> QED  BY <2>3
<1> HIDE DEF call
<1>4. events' \in Seq(Events)
  BY <1>1, <1>3, AppendProperties DEF TypeInv
<1>5. pos' \in 0..Len(buf')
  BY <1>1, <1>2
<1>6. depth' \in 0..MaxDepth
  <2>1. depth \in 0..MaxDepth /\ MaxDepth \in Nat
    BY LimitFacts DEF TypeInv, TypeOK
  <2>2. (depth < MaxDepth /\ depth' = depth + 1) \/ (depth > 0 /\ depth' = depth - 1)
    BY <2>1 DEF SequenceBegin, SequenceEnd, TooDeep
  <2> QED  BY <2>1, <2>2
<1>7. TypeOK' /\ ItemsWellFormed' /\ Latched' /\ CarryFits'
  BY <1>1, <1>5, <1>6 DEF TypeInv, TypeOK, ItemsWellFormed, Latched, CarryFits
<1> QED  BY <1>4, <1>7 DEF TypeInv

\* What is left of the bytes.
LEMMA TailFacts ==
  ASSUME TypeInv
  PROVE  /\ tail \in Seq(Byte) /\ Len(tail) = Len(buf) - pos
         /\ \A i \in 1..Len(tail) : tail[i] = buf[pos + i]
<1>1. pos \in 0..Len(buf) /\ Len(buf) \in Nat /\ buf \in Seq(Byte)
  BY DEF TypeInv, TypeOK
<1>2. pos + 1 \in 1..(Len(buf) + 1) /\ Len(buf) \in (pos + 1 - 1)..Len(buf)
  BY <1>1
<1>3. /\ tail \in Seq(Byte) /\ Len(tail) = Len(buf) - (pos + 1) + 1
      /\ \A i \in 1..(Len(buf) - (pos + 1) + 1) : tail[i] = buf[(pos + 1) + i - 1]
  BY <1>1, <1>2, SubSeqProperties DEF tail
<1>4. \A i \in 1..Len(tail) : (pos + 1) + i - 1 = pos + i
  BY <1>1, <1>3
<1> QED  BY <1>1, <1>3, <1>4

LEMMA TypeCarryConsumed ==
  ASSUME TypeInv, CarryConsumed
  PROVE  TypeInv'
<1>1. /\ pc = "parsed" /\ pos >= held /\ carry' = <<>> /\ buf' = RestOfChunk
      /\ pos' = 0 /\ held' = 0 /\ pc' = "resume"
      /\ UNCHANGED <<resume, depth, invalid, chunk, item, result, message, fed, events>>
  BY DEF CarryConsumed
<1>2. pos \in Nat /\ held \in Nat /\ chunk \in Seq(Byte) /\ Len(chunk) \in Nat
  BY DEF TypeInv, TypeOK
<1>3. buf' \in Seq(Byte)
  <2> DEFINE first == pos - held + 1
  <2>1. first \in Nat \ {0} /\ buf' = SubSeq(chunk, first, Len(chunk))
    BY <1>1, <1>2 DEF RestOfChunk
  <2> HIDE DEF first
  <2>2. CASE first <= Len(chunk)
    <3>1. first \in 1..(Len(chunk) + 1) /\ Len(chunk) \in (first - 1)..Len(chunk)
      BY <1>2, <2>1, <2>2
    <3> QED  BY <1>2, <2>1, <3>1, SubSeqProperties
  <2>3. CASE first > Len(chunk)
    BY <1>2, <2>1, <2>3, SubSeqEmpty
  <2> QED  BY <1>2, <2>1, <2>2, <2>3
<1>4. TypeOK'
  BY <1>1, <1>3 DEF TypeInv, TypeOK
<1>5. ItemsWellFormed' /\ Latched'
  BY <1>1 DEF TypeInv, ItemsWellFormed, Latched
<1>6. CarryFits'
  BY <1>1, LimitFacts DEF CarryFits
<1> QED  BY <1>1, <1>4, <1>5, <1>6 DEF TypeInv

LEMMA TypeFeedEnds ==
  ASSUME TypeInv, CarryShort \/ Stash
  PROVE  TypeInv'
<1>1. /\ pc = "parsed" /\ pc' = "idle" /\ chunk' = <<>> /\ buf' = <<>> /\ pos' = 0 /\ held' = 0
      /\ item' = NoResume
      /\ UNCHANGED <<resume, depth, message, fed, events>>
  BY DEF CarryShort, Stash, Latch, Leave
<1>2. /\ result' \in {"Complete", "Incomplete", "InvalidMsg"}
      /\ result' = "InvalidMsg" => invalid'
  BY DEF CarryShort, Stash, Latch, Leave, Verdict
<1>3. invalid' \in BOOLEAN
  BY DEF CarryShort, Stash, Latch, TypeInv, TypeOK
<1>4. carry' \in Seq(Byte) /\ Len(carry') <= CarryCap
  <2>1. tail \in Seq(Byte) /\ Len(tail) = Len(buf) - pos /\ pos \in Nat /\ Len(buf) \in Nat
    BY TailFacts DEF TypeInv, TypeOK
  <2>2. carry \in Seq(Byte) /\ Len(carry) <= CarryCap
    BY DEF TypeInv, TypeOK, CarryFits
  <2>3. CASE CarryShort
    <3>1. carry' = tail /\ Len(buf) <= CarryCap
      BY <2>3 DEF CarryShort, TypeInv, CarryFits
    <3> QED  BY <2>1, <3>1, LimitFacts
  <2>4. CASE Stash
    <3>1. \/ carry' = carry
          \/ carry' = tail /\ ~(Len(tail) > CarryCap)
      BY <2>4 DEF Stash
    <3> QED  BY <2>1, <2>2, <3>1, LimitFacts
  <2> QED  BY <2>3, <2>4
<1>5. TypeOK'
  BY <1>1, <1>2, <1>3, <1>4, NoResumeType DEF TypeInv, TypeOK
<1>6. ItemsWellFormed' /\ CarryFits'
  BY <1>1, <1>4 DEF TypeInv, ItemsWellFormed, CarryFits
<1>7. Latched'
  BY <1>1, <1>2 DEF Latched
<1> QED  BY <1>1, <1>5, <1>6, <1>7 DEF TypeInv

\* What is fed are bytes.
LEMMA FedBytes ==
  ASSUME TypeInv, NEW n \in Len(fed)..Len(message)
  PROVE  SubSeq(message, Len(fed) + 1, n) \in Seq(Byte)
<1>1. message \in Seq(Byte) /\ Len(message) \in Nat /\ Len(fed) \in Nat
  BY DEF TypeInv, TypeOK, ItemsWellFormed
<1>2. Len(fed) + 1 \in 1..(Len(message) + 1) /\ n \in (Len(fed) + 1 - 1)..Len(message)
  BY <1>1
<1> QED  BY <1>1, <1>2, SubSeqProperties

LEMMA TypeNext ==
  ASSUME TypeInv, [Next]_vars
  PROVE  TypeInv'
<1>1. CASE Calls
  <2>1. ASSUME NEW n \in Len(fed)..Len(message), Feed(SubSeq(message, Len(fed) + 1, n))
        PROVE  TypeInv'
    <3> DEFINE c == SubSeq(message, Len(fed) + 1, n)
    <3>1. c \in Seq(Byte) /\ Feed(c)
      BY <2>1, FedBytes
    <3> HIDE DEF c
    <3> QED  BY <3>1, TypeFeed
  <2> QED  BY <1>1, <2>1, TypeReset DEF Calls
<1>2. CASE Steps
  BY <1>2, TypeReject, TypeResumeNothing, TypeResumePayload, TypeResumeArray, TypeElementRead,
     TypeElementShort, TypeElementsRead, TypeNoMoreBytes, TypeScalar, TypeFixlenPayload,
     TypeAnnounced, TypeSequence, TypeCarryConsumed, TypeFeedEnds
  DEF Steps, ElementMalformed, FieldMalformed
<1>3. CASE UNCHANGED vars
  BY <1>3 DEF vars, TypeInv, TypeOK, ItemsWellFormed, Latched, CarryFits
<1> QED  BY <1>1, <1>2, <1>3 DEF Next

-----------------------------------------------------------------------------
(***************************************************************************)
(* The head of a field in bytes that begin with the same bytes.            *)
(***************************************************************************)
\* The head that is short stays so until bytes come, and then ends behind those it had.
LEMMA AgreeHeads ==
  ASSUME NEW s \in Seq(Byte), NEW p \in 0..Len(s), NEW t \in Seq(Byte), NEW q \in 0..Len(t),
         Agree(s, p, t, q), HeadShortIn(s, p)
  PROVE  /\ Len(s) - p = Len(t) - q => HeadShortIn(t, q)
         /\ \/ HeadIn(t, q).status = "ok" => HeadIn(t, q).len > Len(s) - p
            \/ /\ HeadReadIn(t, q)
               /\ WordIn(t, q).status = "ok" => AtElemIn(t, q) - q > Len(s) - p
            \/ /\ CountReadIn(t, q)
               /\ ElemIn(t, q).status = "ok" => (AtElemIn(t, q) + ElemIn(t, q).len) - q > Len(s) - p
<1> DEFINE room == Len(s) - p
<1>1. Len(s) \in Nat /\ Len(t) \in Nat /\ room \in Nat
  OBVIOUS
<1>2. /\ HeadIn(s, p).status # "more" => HeadIn(t, q) = HeadIn(s, p)
      /\ HeadIn(s, p).status = "more" /\ HeadIn(t, q).status = "ok" => HeadIn(t, q).len > room
      /\ HeadIn(s, p).status = "more" /\ Len(s) - p = Len(t) - q => HeadIn(t, q) = HeadIn(s, p)
      /\ HeadIn(s, p).status = "ok" => HeadIn(s, p).len \in 0..room
  BY AgreeReads DEF HeadIn
<1>3. CASE HeadIn(s, p).status = "more"
  BY <1>2, <1>3 DEF HeadShortIn
<1>4. CASE HeadIn(s, p).status = "ok"
  <2> DEFINE k == HeadIn(s, p).len
  <2>1. HeadIn(t, q) = HeadIn(s, p) /\ k \in 0..room
    BY <1>2, <1>4
  <2>2. AtWordIn(s, p) = p + k /\ AtWordIn(t, q) = q + k
    BY <2>1 DEF AtWordIn
  <2> HIDE DEF k
  <2>3. Agree(s, p + k, t, q + k) /\ p + k \in 0..Len(s) /\ q + k \in 0..Len(t)
    BY <2>1, AgreeBehind
  <2>4. /\ WordIn(s, p).status # "more" => WordIn(t, q) = WordIn(s, p)
        /\ WordIn(s, p).status = "more" /\ WordIn(t, q).status = "ok" =>
             WordIn(t, q).len > Len(s) - (p + k)
        /\ WordIn(s, p).status = "more" /\ Len(s) - (p + k) = Len(t) - (q + k) =>
             WordIn(t, q) = WordIn(s, p)
        /\ WordIn(s, p).status = "ok" => WordIn(s, p).len \in 0..(Len(s) - (p + k))
    <3> DEFINE from == p + k
               to == q + k
    <3>1. WordIn(s, p) = ReadVarint(s, from + 1) /\ WordIn(t, q) = ReadVarint(t, to + 1)
      BY <2>2 DEF WordIn
    <3>2. Agree(s, from, t, to) /\ from \in 0..Len(s) /\ to \in 0..Len(t)
      BY <2>3
    <3> HIDE DEF from, to
    <3>3. /\ WordIn(s, p).status # "more" => WordIn(t, q) = WordIn(s, p)
          /\ WordIn(s, p).status = "more" /\ WordIn(t, q).status = "ok" =>
               WordIn(t, q).len > Len(s) - from
          /\ WordIn(s, p).status = "more" /\ Len(s) - from = Len(t) - to =>
               WordIn(t, q) = WordIn(s, p)
          /\ WordIn(s, p).status = "ok" => WordIn(s, p).len \in 0..(Len(s) - from)
      BY <3>1, <3>2, AgreeReads
    <3> QED  BY <3>3 DEF from, to
  <2>5. k \in Nat /\ Len(s) - (p + k) = room - k
    BY <1>1, <2>1
  <2>6. Len(s) - p = Len(t) - q => Len(s) - (p + k) = Len(t) - (q + k)
    BY <1>1, <2>5
  <2>7. HeadReadIn(s, p) <=> HeadReadIn(t, q)
    BY <2>1 DEF HeadReadIn
  <2>8. CASE HeadReadIn(s, p) /\ WordIn(s, p).status = "more"
    <3>1. WordIn(t, q).len \in 0..MaxVarintLen
      <4> DEFINE at == q + k + 1
      <4>1. at \in 1..(Len(t) + 1)
        BY <1>1, <2>3
      <4> HIDE DEF at
      <4>2. ReadVarint(t, at).len \in 0..MaxVarintLen
        BY <4>1, ReadOutcome
      <4> QED  BY <2>2, <4>2 DEF at, WordIn
    <3>2. WordIn(t, q).status = "ok" => AtElemIn(t, q) - q > room
      <4> DEFINE n == WordIn(t, q).len
      <4>1. n \in Nat /\ AtElemIn(t, q) = (q + k) + n
        BY <2>2, <3>1, LimitFacts DEF AtElemIn
      <4>2. WordIn(t, q).status = "ok" => n > room - k
        BY <2>4, <2>5, <2>8
      <4> HIDE DEF n
      <4> QED  BY <1>1, <2>5, <4>1, <4>2
    <3>3. Len(s) - p = Len(t) - q => HeadShortIn(t, q)
      BY <2>4, <2>6, <2>7, <2>8 DEF HeadShortIn
    <3> QED  BY <2>7, <2>8, <3>2, <3>3
  <2>9. CASE CountReadIn(s, p) /\ ElemIn(s, p).status = "more"
    <3> DEFINE n == WordIn(s, p).len
    <3>1. WordIn(t, q) = WordIn(s, p) /\ n \in 0..(Len(s) - (p + k))
      BY <2>4, <2>9 DEF CountReadIn
    <3>2. AtElemIn(s, p) = (p + k) + n /\ AtElemIn(t, q) = (q + k) + n
      BY <2>2, <3>1 DEF AtElemIn
    <3> HIDE DEF n
    <3>3. Agree(s, (p + k) + n, t, (q + k) + n) /\ (p + k) + n \in 0..Len(s)
          /\ (q + k) + n \in 0..Len(t)
      BY <2>3, <3>1, AgreeBehind
    <3>4. /\ ElemIn(t, q).status = "ok" => ElemIn(t, q).len > Len(s) - ((p + k) + n)
          /\ Len(s) - ((p + k) + n) = Len(t) - ((q + k) + n) => ElemIn(t, q) = ElemIn(s, p)
      <4> DEFINE from == (p + k) + n
                 to == (q + k) + n
      <4>1. ElemIn(s, p) = ReadVarint(s, from + 1) /\ ElemIn(t, q) = ReadVarint(t, to + 1)
        BY <3>2 DEF ElemIn
      <4>2. Agree(s, from, t, to) /\ from \in 0..Len(s) /\ to \in 0..Len(t)
        BY <3>3
      <4> HIDE DEF from, to
      <4>3. /\ ElemIn(t, q).status = "ok" => ElemIn(t, q).len > Len(s) - from
            /\ Len(s) - from = Len(t) - to => ElemIn(t, q) = ElemIn(s, p)
        BY <2>9, <4>1, <4>2, AgreeReads
      <4> QED  BY <4>3 DEF from, to
    <3>5. n \in Nat
      BY <1>1, <2>5, <3>1
    <3>6. ElemIn(t, q).len \in 0..MaxVarintLen
      <4> DEFINE at == (q + k) + n + 1
      <4>1. at \in 1..(Len(t) + 1)
        BY <1>1, <3>3
      <4> HIDE DEF at
      <4>2. ReadVarint(t, at).len \in 0..MaxVarintLen
        BY <4>1, ReadOutcome
      <4> QED  BY <3>2, <4>2 DEF at, ElemIn
    <3>7. ElemIn(t, q).status = "ok" => (AtElemIn(t, q) + ElemIn(t, q).len) - q > room
      <4> DEFINE m == ElemIn(t, q).len
      <4>1. m \in Nat
        BY <3>6, LimitFacts
      <4>2. ElemIn(t, q).status = "ok" => m > Len(s) - ((p + k) + n)
        BY <3>4
      <4> HIDE DEF m
      <4>3. ElemIn(t, q).status = "ok" => (((q + k) + n) + m) - q > room
        BY <1>1, <2>5, <3>5, <4>1, <4>2
      <4> QED  BY <3>2, <4>3 DEF m
    <3>8. CountReadIn(t, q)
      BY <2>1, <2>7, <2>9, <3>1 DEF CountReadIn
    <3>9. Len(s) - p = Len(t) - q => HeadShortIn(t, q)
      <4>1. Len(s) - p = Len(t) - q => Len(s) - ((p + k) + n) = Len(t) - ((q + k) + n)
        BY <1>1, <2>5, <3>5
      <4> QED  BY <2>9, <3>4, <3>8, <4>1 DEF HeadShortIn
    <3> QED  BY <3>7, <3>8, <3>9
  <2> QED  BY <1>4, <2>8, <2>9 DEF HeadShortIn
<1> QED  BY <1>3, <1>4 DEF HeadShortIn, HeadReadIn, CountReadIn

\* A copy of the bytes is as short as they are.
LEMMA AgreeShort ==
  ASSUME NEW s \in Seq(Byte), NEW p \in 0..Len(s), NEW t \in Seq(Byte), NEW q \in 0..Len(t),
         Agree(s, p, t, q), Len(s) - p = Len(t) - q, NEW it, ShortIn(it, s, p)
  PROVE  ShortIn(it, t, q)
<1>1. CASE it = NoResume /\ HeadShortIn(s, p)
  BY <1>1, AgreeHeads DEF ShortIn
<1>2. CASE it.kind \in {"int", "fix"} /\ ElementShortIn(it, s, p)
  <2>1. ReadVarint(s, p + 1).status = "more" => ReadVarint(t, q + 1) = ReadVarint(s, p + 1)
    BY AgreeReads
  <2> QED  BY <1>2, <2>1 DEF ShortIn, ElementShortIn
<1> QED  BY <1>1, <1>2 DEF ShortIn

-----------------------------------------------------------------------------
(***************************************************************************)
(* The carry.                                                              *)
(***************************************************************************)
\* The varints of the field at the cursor.
LEMMA HeadIsHead ==
  /\ header = HeadIn(buf, pos) /\ atWord = AtWordIn(buf, pos) /\ word = WordIn(buf, pos)
  /\ atElem = AtElemIn(buf, pos) /\ elem = ElemIn(buf, pos)
  /\ id = HeadIn(buf, pos).value \div 8 /\ wire = HeadIn(buf, pos).value % 8
BY DEF header, atWord, word, atElem, elem, id, wire, HeadIn, AtWordIn, WordIn, AtElemIn, ElemIn

\* What is short fits a carry, with a byte to spare.
LEMMA TailBound ==
  ASSUME TypeInv, ShortIn(resume, buf, pos)
  PROVE  Len(buf) - pos < CarryCap
<1>1. pos \in 0..Len(buf) /\ Len(buf) \in Nat /\ buf \in Seq(Byte) /\ TypeOK
  BY DEF TypeInv, TypeOK
<1>2. CASE HeadShortIn(buf, pos)
  <2>1. CASE header.status = "more"
    BY <1>1, <2>1, HeadFacts, LimitFacts
  <2>2. CASE header.status = "ok" /\ word.status = "more"
    <3>1. /\ Len(buf) - atWord < MaxVarintLen /\ atWord \in (pos + 1)..Len(buf)
          /\ header.len \in 0..MaxVarintLen /\ atWord = pos + header.len
      BY <1>1, <2>2, HeadFacts DEF atWord
    <3> QED  BY <1>1, <3>1, LimitFacts
  <2>3. CASE header.status = "ok" /\ word.status = "ok" /\ elem.status = "more"
    <3>1. /\ atWord \in (pos + 1)..Len(buf) /\ header.len \in 0..MaxVarintLen
          /\ atElem \in (atWord + 1)..Len(buf) /\ word.len \in 0..MaxVarintLen
          /\ Len(buf) - atElem < MaxVarintLen
      BY <1>1, <2>3, HeadFacts
    <3>2. atWord = pos + header.len
      BY DEF atWord
    <3>3. atElem = atWord + word.len
      BY DEF atElem
    <3>4. /\ header.len \in Nat /\ word.len \in Nat /\ atWord \in Nat /\ atElem \in Nat
      BY <1>1, <3>1, LimitFacts
    <3> DEFINE h == header.len
               w == word.len
    <3>5. /\ h \in Nat /\ w \in Nat /\ h <= MaxVarintLen /\ w <= MaxVarintLen
          /\ MaxVarintLen \in Nat /\ CarryCap = 3 * MaxVarintLen
      BY <3>1, LimitFacts
    <3>6. atWord = pos + h /\ atElem = atWord + w
      BY <3>2, <3>3
    <3> HIDE DEF h, w
    <3> QED  BY <1>1, <3>1, <3>4, <3>5, <3>6
  <2> QED  BY <1>2, <2>1, <2>2, <2>3, HeadIsHead DEF HeadShortIn, HeadReadIn, CountReadIn
<1>3. CASE ElementShortIn(resume, buf, pos)
  <2>1. ReadVarint(buf, pos + 1).status = "more" => Len(buf) - pos < MaxVarintLen
    BY <1>1, CursorReads
  <2>2. Len(buf) - pos < FloatLen(resume.type) => Len(buf) - pos < CarryCap
    <3> DEFINE n == FloatLen(resume.type)
    <3>1. n \in Nat /\ n <= CarryCap
      BY LimitFacts
    <3> HIDE DEF n
    <3>2. Len(buf) - pos < n => Len(buf) - pos < CarryCap
      BY <1>1, <3>1, LimitFacts
    <3> QED  BY <3>2 DEF n
  <2> QED  BY <1>1, <1>3, <2>1, <2>2, LimitFacts DEF ElementShortIn
<1> QED  BY <1>2, <1>3 DEF ShortIn

\* The bytes that are parsed begin with the carry.
LEMMA CarryAgrees ==
  ASSUME TypeInv, Stitched, pc # "idle", held > 0
  PROVE  /\ carry \in Seq(Byte) /\ 0 \in 0..Len(carry) /\ buf \in Seq(Byte) /\ 0 \in 0..Len(buf)
         /\ held = Len(carry) /\ Len(carry) - 0 = held /\ Agree(carry, 0, buf, 0)
<1>1. /\ carry \in Seq(Byte) /\ buf \in Seq(Byte) /\ held \in 0..Len(buf)
      /\ Len(carry) \in Nat /\ Len(buf) \in Nat
  BY DEF TypeInv, TypeOK
<1>2. held = Len(carry) /\ \A i \in 1..held : buf[i] = carry[i]
  BY DEF Stitched
<1>3. \A i \in 1..(Len(carry) - 0) : carry[0 + i] = buf[0 + i]
  BY <1>1, <1>2
<1> QED  BY <1>1, <1>2, <1>3 DEF Agree

\* An element that the carry began ends behind it.
LEMMA ElementPassesCarry ==
  ASSUME TypeInv, CarryInv, pc = "elements", pos < held, element.status = "ok"
  PROVE  pos + element.len >= held
<1>1. /\ pos = 0 /\ held \in Nat /\ held > 0 /\ ElementShortIn(item, carry, 0)
      /\ Len(buf) \in Nat
  BY DEF CarryInv, Untouched, TypeInv, TypeOK
<1>2. Agree(carry, 0, buf, 0) /\ carry \in Seq(Byte) /\ buf \in Seq(Byte) /\ Len(carry) = held
      /\ 0 \in 0..Len(carry) /\ 0 \in 0..Len(buf) /\ Len(carry) - 0 = held
  BY <1>1, CarryAgrees DEF CarryInv
<1>3. CASE item.kind = "int"
  <2>1. element = ReadVarint(buf, 0 + 1) /\ ReadVarint(carry, 0 + 1).status = "more"
    BY <1>1, <1>3 DEF element, ElementShortIn
  <2>2. element.len > held
    BY <1>2, <2>1, AgreeReads
  <2>3. pos + element.len \in (pos + 1)..Len(buf)
    BY ElementFacts
  <2> DEFINE n == element.len
  <2> HIDE DEF n
  <2>4. pos + n = n \/ n \notin Int
    BY <1>1
  <2>5. ReadVarint(buf, 0 + 1).len \in 0..MaxVarintLen
    BY <1>2, CursorReads DEF TypeInv
  <2>6. n \in Nat
    BY <2>1, <2>5, LimitFacts DEF n
  <2>7. n > held
    BY <2>2 DEF n
  <2>8. pos + n >= held
    BY <1>1, <2>6, <2>7
  <2> QED  BY <2>8 DEF n
<1>4. CASE item.kind = "fix"
  <2> DEFINE n == FloatLen(item.type)
  <2>1. n \in Nat
    BY LimitFacts
  <2>2. Len(carry) - 0 < n
    BY <1>1, <1>4 DEF ElementShortIn
  <2>3. element = IF Len(buf) - pos < n THEN ReadMore ELSE ReadOk(0, n)
    BY <1>4 DEF element
  <2>4. element.len = n
    <3> HIDE DEF n
    <3> QED  BY <2>3 DEF ReadMore, ReadOk
  <2> HIDE DEF n
  <2>5. pos + n >= held
    BY <1>1, <1>2, <2>1, <2>2
  <2> QED  BY <2>4, <2>5
<1> QED  BY <1>3, <1>4 DEF TypeInv, ItemsWellFormed

\* A head that the carry began ends behind it, and so does what is read after it.
LEMMA HeadPassesCarry ==
  ASSUME TypeInv, CarryInv, pc = "field", pos < held, header.status = "ok"
  PROVE  \/ atWord >= held
         \/ HasWord(wire) /\ (word.status = "ok" => atElem >= held)
         \/ wire = T_FIXLENARRAY /\ (elem.status = "ok" => atElem + elem.len >= held)
<1>1. /\ pos = 0 /\ held \in Nat /\ held > 0 /\ HeadShortIn(carry, 0)
      /\ Len(buf) \in Nat
  BY DEF CarryInv, Untouched, TypeInv, TypeOK
<1>2. Agree(carry, 0, buf, 0) /\ carry \in Seq(Byte) /\ buf \in Seq(Byte) /\ Len(carry) = held
      /\ 0 \in 0..Len(carry) /\ 0 \in 0..Len(buf) /\ Len(carry) - 0 = held
  BY <1>1, CarryAgrees DEF CarryInv
<1>3. \/ HeadIn(buf, 0).status = "ok" => HeadIn(buf, 0).len > held
      \/ /\ HeadReadIn(buf, 0)
         /\ WordIn(buf, 0).status = "ok" => AtElemIn(buf, 0) - 0 > held
      \/ /\ CountReadIn(buf, 0)
         /\ ElemIn(buf, 0).status = "ok" => (AtElemIn(buf, 0) + ElemIn(buf, 0).len) - 0 > held
  BY <1>1, <1>2, AgreeHeads
<1>4. /\ header = HeadIn(buf, 0) /\ atWord = AtWordIn(buf, 0) /\ word = WordIn(buf, 0)
      /\ atElem = AtElemIn(buf, 0) /\ elem = ElemIn(buf, 0)
      /\ wire = HeadIn(buf, 0).value % 8
  BY <1>1, HeadIsHead
<1>5. /\ atWord \in (pos + 1)..Len(buf) /\ atWord = pos + header.len
      /\ header.len \in 0..MaxVarintLen
      /\ word.status = "ok" =>
           /\ atElem \in (atWord + 1)..Len(buf)
           /\ elem.status = "ok" => atElem + elem.len \in (atElem + 1)..Len(buf)
  BY HeadFacts DEF TypeInv, atWord
<1>6. CASE HeadIn(buf, 0).status = "ok" => HeadIn(buf, 0).len > held
  <2>1. header.len > held
    BY <1>4, <1>6
  <2>2. header.len \in Nat
    BY <1>5, LimitFacts
  <2> QED  BY <1>1, <1>5, <2>1, <2>2
<1>7. CASE /\ HeadReadIn(buf, 0)
           /\ WordIn(buf, 0).status = "ok" => AtElemIn(buf, 0) - 0 > held
  <2>1. HasWord(wire)
    BY <1>4, <1>7 DEF HeadReadIn
  <2>2. word.status = "ok" => atElem - 0 > held
    BY <1>4, <1>7
  <2>3. word.status = "ok" => atElem >= held
    BY <1>1, <1>5, <2>2
  <2> QED  BY <2>1, <2>3
<1>8. CASE /\ CountReadIn(buf, 0)
           /\ ElemIn(buf, 0).status = "ok" => (AtElemIn(buf, 0) + ElemIn(buf, 0).len) - 0 > held
  <2>1. wire = T_FIXLENARRAY /\ word.status = "ok"
    BY <1>4, <1>8 DEF CountReadIn
  <2> DEFINE end == atElem + elem.len
  <2>2. elem.status = "ok" => end - 0 > held
    <3>1. AtElemIn(buf, 0) + ElemIn(buf, 0).len = end
      BY <1>4, Zenon
    <3>2. ElemIn(buf, 0).status = elem.status
      BY <1>4
    <3> HIDE DEF end
    <3>3. (AtElemIn(buf, 0) + ElemIn(buf, 0).len) - 0 = end - 0
      BY <3>1, Zenon
    <3> QED  BY <1>8, <3>2, <3>3, Zenon
  <2>3. elem.status = "ok" => end \in (atElem + 1)..Len(buf)
    BY <1>5, <2>1
  <2>4. atElem \in (atWord + 1)..Len(buf)
    BY <1>5, <2>1
  <2> HIDE DEF end
  <2>5. elem.status = "ok" => end >= held
    BY <1>1, <1>5, <2>2, <2>3, <2>4
  <2> QED  BY <2>1, <2>5 DEF end
<1> QED  BY <1>3, <1>6, <1>7, <1>8

\* While a feed is under way its bytes stay, but for the cursor.
LEMMA CarryKept ==
  ASSUME CarryInv, pc # "idle", pc' # "idle", UNCHANGED <<carry, chunk, buf, held>>,
         Untouched', TailShort'
  PROVE  CarryInv'
<1>1. CarryShortIn'
  BY DEF CarryInv, CarryShortIn
<1>2. Stitched'
  BY DEF CarryInv, Stitched
<1> QED  BY <1>1, <1>2 DEF CarryInv

\* Once the cursor is behind the carry nothing depends on it.
LEMMA CarryPassed ==
  ASSUME CarryInv, pc # "idle", pc' # "idle", UNCHANGED <<carry, chunk, buf, held>>,
         ~(pos' < held'), pc' = "parsed" => pos' = Len(buf')
  PROVE  CarryInv'
<1>1. Untouched' /\ TailShort'
  BY DEF Untouched, TailShort
<1> QED  BY <1>1, CarryKept

\* NoResume is of its own kind.
LEMMA NoResumeKind == NoResume.kind = "none"
BY DEF NoResume, Resume

\* Each of the lemmas that follow says that an action keeps the carry invariant.
LEMMA CarryResumeNothing ==
  ASSUME TypeInv, CarryInv, ResumeNothing
  PROVE  CarryInv'
<1>1. /\ pc = "resume" /\ resume.kind = "none" /\ pc' = "field"
      /\ UNCHANGED <<carry, chunk, buf, pos, held>>
  BY DEF ResumeNothing, feedVars
<1>2. Untouched'
  BY <1>1 DEF CarryInv, Untouched, ShortIn
<1>3. TailShort'
  BY <1>1 DEF TailShort
<1> QED  BY <1>1, <1>2, <1>3, CarryKept

LEMMA CarryResumePayload ==
  ASSUME TypeInv, CarryInv, ResumePayload
  PROVE  CarryInv'
<1> DEFINE avail == Smaller(Len(buf) - pos, resume.remaining)
           left == resume.remaining - avail
<1>1. /\ pc = "resume" /\ resume.kind = "payload" /\ pos' = pos + avail
      /\ pc' = IF left = 0 THEN "field" ELSE "parsed"
      /\ UNCHANGED <<carry, chunk, buf, held>>
  BY DEF ResumePayload
<1>2. avail \in Nat /\ left \in Nat /\ (left > 0 => pos + avail = Len(buf))
  BY <1>1, Available
<1>3. ~(pos < held)
  BY <1>1, NoResumeKind DEF CarryInv, Untouched, ShortIn
<1>4. pos \in Nat /\ held \in Nat
  BY DEF TypeInv, TypeOK
<1> HIDE DEF left, avail
<1>5. ~(pos' < held') /\ (pc' = "parsed" => pos' = Len(buf'))
  BY <1>1, <1>2, <1>3, <1>4
<1>6. pc # "idle" /\ pc' # "idle"
  BY <1>1
<1> QED  BY <1>1, <1>5, <1>6, CarryPassed

LEMMA CarryResumeArray ==
  ASSUME TypeInv, CarryInv, ResumeArray
  PROVE  CarryInv'
<1>1. /\ pc = "resume" /\ resume.kind \in {"int", "fix"} /\ pc' = "elements" /\ item' = resume
      /\ UNCHANGED <<carry, chunk, buf, pos, held>>
  BY DEF ResumeArray
<1>2. Untouched'
  BY <1>1, NoResumeKind DEF CarryInv, Untouched, ShortIn
<1>3. TailShort'
  BY <1>1 DEF TailShort
<1> QED  BY <1>1, <1>2, <1>3, CarryKept

LEMMA CarryElementRead ==
  ASSUME TypeInv, CarryInv, ElementRead
  PROVE  CarryInv'
<1> DEFINE end == pos + element.len
<1>1. /\ pc = "elements" /\ element.status = "ok" /\ pos' = end
      /\ UNCHANGED <<carry, pc, chunk, buf, held>>
  BY DEF ElementRead
<1>2. end \in (pos + 1)..Len(buf)
  BY <1>1, ElementFacts
<1>3. pos < held => end >= held
  BY <1>1, ElementPassesCarry
<1>4. pos \in Nat /\ held \in Nat /\ Len(buf) \in Nat
  BY DEF TypeInv, TypeOK
<1> HIDE DEF end
<1>5. ~(pos' < held')
  BY <1>1, <1>2, <1>3, <1>4
<1> QED  BY <1>1, <1>5, CarryPassed

LEMMA CarryElementShort ==
  ASSUME TypeInv, CarryInv, ElementShort
  PROVE  CarryInv'
<1>1. /\ pc = "elements" /\ item.remaining > 0 /\ element.status = "more"
      /\ pc' = "parsed" /\ resume' = item
      /\ UNCHANGED <<carry, chunk, buf, pos, held>>
  BY DEF ElementShort, feedVars
<1>2. item.kind \in {"int", "fix"}
  BY <1>1 DEF TypeInv, ItemsWellFormed
<1>3. Untouched'
  BY <1>1 DEF CarryInv, Untouched
<1>4. item.kind = "int" => ReadVarint(buf, pos + 1).status = "more"
  BY <1>1 DEF element
<1>5. item.kind = "fix" => Len(buf) - pos < FloatLen(item.type)
  BY <1>1 DEF element, ReadOk
<1>6. ElementShortIn(item, buf, pos)
  BY <1>1, <1>2, <1>4, <1>5 DEF ElementShortIn
<1>7. TailShort'
  BY <1>1, <1>2, <1>6 DEF TailShort, ShortIn
<1> QED  BY <1>1, <1>3, <1>7, CarryKept

LEMMA CarryElementsRead ==
  ASSUME TypeInv, CarryInv, ElementsRead
  PROVE  CarryInv'
<1>1. /\ pc = "elements" /\ item.remaining = 0 /\ pc' = "field"
      /\ UNCHANGED <<carry, chunk, buf, pos, held>>
  BY DEF ElementsRead
<1>2. ~(pos < held)
  BY <1>1 DEF CarryInv, Untouched, ElementShortIn
<1> QED  BY <1>1, <1>2, CarryPassed

LEMMA CarryNoMoreBytes ==
  ASSUME TypeInv, CarryInv, FieldShort \/ NoMoreFields
  PROVE  CarryInv'
<1>1. /\ pc = "field" /\ pc' = "parsed" /\ resume = NoResume
      /\ UNCHANGED <<carry, resume, chunk, buf, pos, held>>
  BY DEF FieldShort, NoMoreFields, AtField, feedVars, TypeInv, ItemsWellFormed
<1>2. Untouched'
  BY <1>1 DEF CarryInv, Untouched
<1>3. CASE FieldShort
  <2>1. HeadShortIn(buf, pos)
    <3>1. CASE header.status = "more"
      BY <3>1, HeadIsHead DEF HeadShortIn
    <3>2. CASE HeaderRead /\ HasWord(wire) /\ word.status = "more"
      BY <3>2, HeadIsHead DEF HeadShortIn, HeaderRead, HeadReadIn
    <3>3. CASE CountRead /\ wire = T_FIXLENARRAY /\ elem.status = "more"
      BY <3>3, HeadIsHead DEF HeadShortIn, CountRead, WordRead, HeaderRead, HeadReadIn, CountReadIn
    <3> QED  BY <1>3, <3>1, <3>2, <3>3 DEF FieldShort
  <2>2. TailShort'
    BY <1>1, <2>1 DEF TailShort, ShortIn
  <2> QED  BY <1>1, <1>2, <2>2, CarryKept
<1>4. CASE NoMoreFields
  <2>1. pos = Len(buf)
    BY <1>4 DEF NoMoreFields, TypeInv, TypeOK
  <2>2. TailShort'
    BY <1>1, <2>1 DEF TailShort
  <2> QED  BY <1>1, <1>2, <2>2, CarryKept
<1> QED  BY <1>3, <1>4

\* A field that is read ends behind the carry.
LEMMA CarryField ==
  ASSUME TypeInv, CarryInv,
         \/ Scalar \/ FixlenPayload \/ FixlenFloat \/ IntArray \/ FloatArray
         \/ SequenceBegin \/ SequenceEnd
  PROVE  CarryInv'
<1>1. /\ pc = "field" /\ pc' # "idle" /\ header.status = "ok"
      /\ UNCHANGED <<carry, chunk, buf, held>>
  <2>1. pc = "field" /\ header.status = "ok"
    BY DEF Scalar, FixlenPayload, FixlenFloat, IntArray, FloatArray, SequenceBegin, SequenceEnd,
           ElemRead, CountRead, WordRead, HeaderRead, AtField
  <2>2. pc' \in {pc, "parsed", "elements"} /\ UNCHANGED <<carry, chunk, buf, held>>
    BY DEF Scalar, FixlenPayload, FixlenFloat, IntArray, FloatArray, SequenceBegin, SequenceEnd,
           Announce
  <2> QED  BY <2>1, <2>2
<1>2. /\ pos \in 0..Len(buf) /\ held \in 0..Len(buf) /\ Len(buf) \in Nat
      /\ atWord \in (pos + 1)..Len(buf)
      /\ word.status = "ok" => atElem \in (atWord + 1)..Len(buf)
  BY <1>1, HeadFacts DEF TypeInv, TypeOK
<1>3. \/ pos >= held
      \/ atWord >= held
      \/ HasWord(wire) /\ (word.status = "ok" => atElem >= held)
      \/ wire = T_FIXLENARRAY /\ (elem.status = "ok" => atElem + elem.len >= held)
  BY <1>1, <1>2, HeadPassesCarry
<1>4. CASE Scalar \/ FixlenPayload \/ FixlenFloat \/ IntArray
  <2>1. word.status = "ok" /\ wire # T_FIXLENARRAY
    BY <1>4 DEF Scalar, FixlenPayload, FixlenFloat, IntArray, IntArrays, CountRead, WordRead,
       T_VARINT_UNSIGNED, T_VARINT_SIGNED, T_FIXLEN, T_VARINTARRAY_UNSIGNED, T_VARINTARRAY_SIGNED,
       T_FIXLENARRAY
  <2>2. atElem >= held
    BY <1>2, <1>3, <2>1
  <2>3. CASE FixlenPayload
    <3> DEFINE avail == Smaller(Len(buf) - atElem, length)
    <3>1. avail \in Nat /\ (avail # length => atElem + avail = Len(buf))
      BY <2>3, AvailableNow
    <3>2. pos' = atElem + avail /\ (pc' = "parsed" => avail # length)
      BY <1>1, <2>3 DEF FixlenPayload
    <3> HIDE DEF avail
    <3>3. ~(pos' < held') /\ (pc' = "parsed" => pos' = Len(buf'))
      BY <1>1, <1>2, <2>1, <2>2, <3>1, <3>2
    <3> QED  BY <1>1, <3>3, CarryPassed
  <2>4. CASE ~FixlenPayload
    <3>1. pos' = atElem /\ pc' # "parsed"
      BY <1>1, <1>4, <2>4 DEF Scalar, FixlenFloat, IntArray, Announce
    <3>2. ~(pos' < held')
      BY <1>1, <1>2, <2>1, <2>2, <3>1
    <3> QED  BY <1>1, <3>1, <3>2, CarryPassed
  <2> QED  BY <2>3, <2>4
<1>5. CASE FloatArray
  <2> DEFINE end == atElem + elem.len
  <2>1. word.status = "ok" /\ elem.status = "ok" /\ pos' = end /\ pc' = "elements"
    BY <1>5 DEF FloatArray, ElemRead, CountRead, WordRead, Announce
  <2>2. end \in (atElem + 1)..Len(buf)
    BY <1>1, <2>1, HeadFacts DEF TypeInv
  <2>3. pos >= held \/ atWord >= held \/ atElem >= held \/ end >= held
    BY <1>3, <2>1
  <2> HIDE DEF end
  <2>4. ~(pos' < held')
    BY <1>1, <1>2, <2>1, <2>2, <2>3
  <2> QED  BY <1>1, <2>1, <2>4, CarryPassed
<1>6. CASE SequenceBegin \/ SequenceEnd
  <2>1. pos' = atWord /\ pc' = pc /\ ~HasWord(wire) /\ wire # T_FIXLENARRAY
    BY <1>6 DEF SequenceBegin, SequenceEnd, HasWord, T_FIXLENARRAY, T_SEQUENCE_START,
       T_SEQUENCE_END
  <2>2. ~(pos' < held')
    BY <1>1, <1>2, <1>3, <2>1
  <2> QED  BY <1>1, <2>1, <2>2, CarryPassed
<1> QED  BY <1>4, <1>5, <1>6

\* A feed begins with the carry, as it was left.
LEMMA CarryFeed ==
  ASSUME TypeInv, CarryInv, NEW c \in Seq(Byte), Feed(c)
  PROVE  CarryInv'
<1>1. CASE invalid
  BY <1>1 DEF Feed, feedVars, CarryInv, CarryShortIn, Stitched, Untouched, TailShort
<1>2. CASE ~invalid
  <2> DEFINE take == IF carry = <<>> THEN Len(c) ELSE Smaller(CarryCap - Len(carry), Len(c))
             front == SubSeq(c, 1, take)
  <2>1. /\ pc = "idle" /\ pc' = "resume" /\ chunk' = c /\ pos' = 0
        /\ buf' = carry \o front /\ held' = Len(carry)
        /\ UNCHANGED <<carry, resume>>
    BY <1>2 DEF Feed, Stitch
  <2>2. carry \in Seq(Byte) /\ Len(carry) \in Nat /\ Len(c) \in Nat /\ Len(carry) < CarryCap
        /\ CarryCap \in Nat
    BY LimitFacts DEF TypeInv, TypeOK, CarryInv, CarryShortIn
  <2>3. take \in 0..Len(c)
    BY <2>2 DEF Smaller
  <2>4. front \in Seq(Byte) /\ Len(front) = take
    <3> HIDE DEF take
    <3>1. 1 \in 1..(Len(c) + 1) /\ take \in (1 - 1)..Len(c)
      BY <2>2, <2>3
    <3> QED  BY <2>3, <3>1, SubSeqProperties
  <2>5. Len(carry) > 0 => take = Smaller(CarryCap - Len(carry), Len(c))
    BY <2>2
  <2> HIDE DEF take, front
  <2>6. Len(buf') = Len(carry) + take /\ \A i \in 1..Len(carry) : buf'[i] = carry[i]
    BY <2>1, <2>2, <2>4, ConcatProperties
  <2>7. Stitched'
    BY <2>1, <2>5, <2>6 DEF Stitched
  <2>8. Untouched'
    <3>1. held > 0 \/ TRUE
      OBVIOUS
    <3>2. pos' < held' => carry # <<>>
      BY <2>1, <2>2
    <3> QED  BY <1>2, <2>1, <3>2 DEF CarryInv, CarryShortIn, Untouched
  <2>9. CarryShortIn' /\ TailShort'
    BY <2>1 DEF CarryInv, CarryShortIn, TailShort
  <2> QED  BY <2>7, <2>8, <2>9 DEF CarryInv
<1> QED  BY <1>1, <1>2

LEMMA CarryAtRest ==
  ASSUME TypeInv, CarryInv, Reset \/ Reject
  PROVE  CarryInv'
<1>1. CarryCap \in Nat \ {0}
  BY LimitFacts
<1>2. Len(carry') < CarryCap
  BY <1>1 DEF Reset, Reject, CarryInv, CarryShortIn
<1>3. pc' = "idle" /\ (invalid' \/ carry' = <<>>)
  BY DEF Reset, Reject, Latch, Leave
<1> QED  BY <1>2, <1>3 DEF CarryInv, CarryShortIn, Stitched, Untouched, TailShort

LEMMA CarryCarryConsumed ==
  ASSUME TypeInv, CarryInv, CarryConsumed
  PROVE  CarryInv'
<1>1. pc' = "resume" /\ carry' = <<>> /\ held' = 0 /\ pos' = 0
  BY DEF CarryConsumed
<1>2. CarryCap \in Nat \ {0}
  BY LimitFacts
<1>3. Len(carry') < CarryCap
  BY <1>1, <1>2
<1> QED  BY <1>1, <1>3 DEF CarryInv, CarryShortIn, Stitched, Untouched, TailShort

\* What is left at the end of a feed is short, and fits.
LEMMA ShortTail ==
  ASSUME TypeInv, CarryInv, pc = "parsed", tail # <<>>
  PROVE  ShortIn(resume, tail, 0) /\ Len(tail) < CarryCap
<1>1. /\ tail \in Seq(Byte) /\ Len(tail) = Len(buf) - pos
      /\ \A i \in 1..Len(tail) : tail[i] = buf[pos + i]
  BY TailFacts
<1>2. pos \in 0..Len(buf) /\ Len(buf) \in Nat /\ buf \in Seq(Byte)
  BY DEF TypeInv, TypeOK
<1>3. pos # Len(buf)
  BY <1>1, <1>2
<1>4. ShortIn(resume, buf, pos)
  BY <1>3 DEF CarryInv, TailShort
<1> DEFINE t == tail
<1>5. t \in Seq(Byte) /\ 0 \in 0..Len(t) /\ Len(t) \in Nat /\ Len(t) = Len(buf) - pos
  BY <1>1
<1>6. \A i \in 1..(Len(buf) - pos) : buf[pos + i] = t[0 + i]
  BY <1>1, <1>5
<1> HIDE DEF t
<1>7. Agree(buf, pos, t, 0) /\ Len(buf) - pos = Len(t) - 0
  BY <1>2, <1>5, <1>6 DEF Agree
<1>8. ShortIn(resume, t, 0)
  BY <1>2, <1>4, <1>5, <1>7, AgreeShort
<1>9. Len(t) < CarryCap
  BY <1>4, <1>5, TailBound
<1> QED  BY <1>8, <1>9 DEF t

LEMMA CarryFeedEnds ==
  ASSUME TypeInv, CarryInv, CarryShort \/ Stash
  PROVE  CarryInv'
<1>1. pc = "parsed" /\ pc' = "idle" /\ UNCHANGED resume
  BY DEF CarryShort, Stash, Latch, Leave
<1>2. \/ carry' = carry /\ invalid'
      \/ carry' = tail
  BY DEF CarryShort, Stash, Latch, Leave
<1>3. CarryCap \in Nat \ {0}
  BY LimitFacts
<1>4. CASE carry' = tail
  <2>1. Len(carry') < CarryCap /\ (carry' # <<>> => ShortIn(resume', carry', 0))
    <3>1. CASE tail = <<>>
      BY <1>3, <1>4, <3>1
    <3>2. CASE tail # <<>>
      BY <1>1, <1>4, <3>2, ShortTail
    <3> QED  BY <3>1, <3>2
  <2> QED  BY <1>1, <2>1 DEF CarryInv, CarryShortIn, Stitched, Untouched, TailShort
<1>5. CASE carry' = carry /\ invalid'
  BY <1>1, <1>5 DEF CarryInv, CarryShortIn, Stitched, Untouched, TailShort
<1> QED  BY <1>2, <1>4, <1>5

LEMMA CarryNext ==
  ASSUME TypeInv, CarryInv, [Next]_vars
  PROVE  CarryInv'
<1>1. CASE Calls
  <2>1. ASSUME NEW n \in Len(fed)..Len(message), Feed(SubSeq(message, Len(fed) + 1, n))
        PROVE  CarryInv'
    <3> DEFINE c == SubSeq(message, Len(fed) + 1, n)
    <3>1. c \in Seq(Byte) /\ Feed(c)
      BY <2>1, FedBytes
    <3> HIDE DEF c
    <3> QED  BY <3>1, CarryFeed
  <2> QED  BY <1>1, <2>1, CarryAtRest DEF Calls
<1>2. CASE Steps
  BY <1>2, CarryAtRest, CarryResumeNothing, CarryResumePayload, CarryResumeArray,
     CarryElementRead, CarryElementShort, CarryElementsRead, CarryNoMoreBytes, CarryField,
     CarryCarryConsumed, CarryFeedEnds
  DEF Steps, ElementMalformed, FieldMalformed
<1>3. CASE UNCHANGED vars
  BY <1>3 DEF vars, CarryInv, CarryShortIn, Stitched, Untouched, TailShort
<1> QED  BY <1>1, <1>2, <1>3 DEF Next

LEMMA CarryInit == Init => CarryInv
<1>1. CarryCap \in Nat \ {0}
  BY LimitFacts
<1> QED  BY <1>1 DEF Init, CarryInv, CarryShortIn, Stitched, Untouched, TailShort

\* The carry invariant implies the property that is checked.
LEMMA CarrySafe ==
  ASSUME TypeInv, CarryInv
  PROVE  CarryIsOnePrefix
<1>1. Len(carry) < CarryCap
  BY DEF CarryInv, CarryShortIn
<1>2. CarryCap \in Nat \ {0} /\ Len(tail) = Len(buf) - pos /\ pos \in Nat /\ Len(buf) \in Nat
      /\ held \in 0..Len(buf) /\ Len(chunk) \in Nat
  BY LimitFacts, TailFacts DEF TypeInv, TypeOK
<1>3. ASSUME pc = "parsed", held > 0, pos < held
      PROVE  pos = 0 /\ Len(buf) = held + Len(chunk)
  <2>1. pos = 0 /\ Len(buf) = held + Smaller(CarryCap - held, Len(chunk)) /\ held < CarryCap
    BY <1>1, <1>3 DEF CarryInv, Untouched, Stitched
  <2>2. ShortIn(resume, buf, pos)
    BY <1>2, <1>3 DEF CarryInv, TailShort
  <2>3. Len(buf) - pos < CarryCap
    BY <2>2, TailBound
  <2> QED  BY <1>2, <1>3, <2>1, <2>3 DEF Smaller
<1>4. ASSUME pc = "parsed", held = 0
      PROVE  Len(tail) < CarryCap
  <2>1. CASE tail = <<>>
    BY <1>2, <2>1
  <2>2. CASE tail # <<>>
    BY <1>4, <2>2, ShortTail
  <2> QED  BY <2>1, <2>2
<1> QED  BY <1>1, <1>3, <1>4 DEF CarryIsOnePrefix

-----------------------------------------------------------------------------
(***************************************************************************)
(* The order of the callbacks: definitions.                                *)
(***************************************************************************)
\* The item the bytes at the cursor belong to.
Active == IF pc = "elements" THEN item ELSE resume

\* What was told last waits for a float, for a chunk, or for a further chunk.
BeginsFloat(e) == e.name = "fixlen_begin" /\ e.type \in Floats
BeginsPayload(e) == e.name = "fixlen_begin" /\ e.type \notin Floats
Unfinished(e) == e.name = "chunk" /\ e.offset + Len(e.data) < e.value

\* What may be told after a callback, as far as payloads go.
MayFollow(before, e) ==
  /\ e.name = "chunk" =>
       /\ before.name = "fixlen_begin" \/ Unfinished(before)
       /\ e.offset = IF before.name = "fixlen_begin" THEN 0 ELSE before.offset + Len(before.data)
       /\ e.offset + Len(e.data) <= e.value
       /\ e.id = before.id /\ e.type = before.type /\ e.value = before.value
  /\ BeginsFloat(before) => e.name = "float"
  /\ BeginsPayload(before) => e.name = "chunk"
  /\ Unfinished(before) => e.name = "chunk"

\* Every callback may follow the one before it.
PayloadOrder(es) ==
  \A i \in 1..Len(es) :
    /\ i = 1 => es[i].name # "chunk"
    /\ i > 1 => MayFollow(es[i - 1], es[i])

\* The item is the array that was announced by a.
IsArrayOf(a, it) ==
  /\ it.id = a.id
  /\ \/ a.type \in {KindUnsigned, KindSigned} /\ it.kind = "int" /\ it.type = a.type
     \/ a.type = KindFp32 /\ it.kind = "fix" /\ it.type = Fp32
     \/ a.type = KindFp64 /\ it.kind = "fix" /\ it.type = Fp64

\* The callback tells an element of the array that was announced by a.
IsElementOf(a, e) ==
  /\ e.id = a.id
  /\ \/ a.type = KindUnsigned /\ e.name = "unsigned"
     \/ a.type = KindSigned /\ e.name = "signed"
     \/ a.type = KindFp32 /\ e.name = "float" /\ e.type = Fp32
     \/ a.type = KindFp64 /\ e.name = "float" /\ e.type = Fp64

\* The callbacks behind an announced array are its elements, up to its count.
ArrayOrder(es) ==
  \A i \in 1..Len(es), j \in 1..Len(es) :
    es[i].name = "array_begin" /\ i < j /\ j <= i + es[i].value => IsElementOf(es[i], es[j])

\* An array that was announced and not all of whose elements were told.
OpenArray(es, i) == es[i].name = "array_begin" /\ Len(es) - i < es[i].value

\* The item at the cursor is the payload, or the float, that was told of last; the
\* bytes delivered so far are those that were told.
PayloadOpen(es, act, res) ==
  /\ es # <<>> =>
       /\ BeginsFloat(es[Len(es)]) => act.kind = "fix" /\ act.remaining > 0
       /\ BeginsPayload(es[Len(es)]) \/ Unfinished(es[Len(es)]) => res.kind = "payload"
  /\ res.kind = "payload" =>
       /\ es # <<>>
       /\ res.id = es[Len(es)].id /\ res.type = es[Len(es)].type /\ res.total = es[Len(es)].value
       /\ \/ BeginsPayload(es[Len(es)]) /\ res.total - res.remaining = 0
          \/ /\ Unfinished(es[Len(es)])
             /\ res.total - res.remaining = es[Len(es)].offset + Len(es[Len(es)].data)

\* The item at the cursor is the array whose elements are not all told, and as many
\* are to come as are missing.
ElementsToCome(es, act) ==
  \A i \in 1..Len(es) : OpenArray(es, i) =>
    IsArrayOf(es[i], act) /\ act.remaining = es[i].value - (Len(es) - i)

\* Whatever was told last waits for is the item at the cursor.
Underway(es, act, res) == PayloadOpen(es, act, res) /\ ElementsToCome(es, act)

\* The invariant behind the order of the callbacks.
OrderInv ==
  /\ PayloadOrder(events) /\ ArrayOrder(events)
  /\ ~invalid => Underway(events, Active, resume)

-----------------------------------------------------------------------------
(***************************************************************************)
(* The order of the callbacks: proofs.                                     *)
(***************************************************************************)
\* The parts of a callback.
LEMMA ToldType ==
  ASSUME NEW es \in Seq(Events), NEW i \in 1..Len(es)
  PROVE  /\ es[i].name \in CallbackNames /\ es[i].id \in Nat /\ es[i].type \in Nat /\ es[i].value \in Int
         /\ es[i].offset \in Nat /\ es[i].data \in Seq(Byte)
<1>1. es[i] \in Events
  OBVIOUS
<1> QED  BY <1>1 DEF Events

\* The order invariant implies the properties that are checked.
LEMMA PayloadsOrdered ==
  ASSUME TypeInv, OrderInv
  PROVE  PayloadsInOrder
<1>1. events \in Seq(Events) /\ Len(events) \in Nat /\ DOMAIN events = 1..Len(events)
  BY DEF TypeInv
<1>2. PayloadOrder(events)
  BY DEF OrderInv
<1> SUFFICES ASSUME NEW i \in DOMAIN events
             PROVE  LET e == events[i]
                        before == events[i - 1]
                        starts == i > 1 /\ before.name = "fixlen_begin"
                        goesOn == i > 1 /\ before.name = "chunk"
                                  /\ before.offset + Len(before.data) < before.value
                    IN  /\ e.name = "chunk" =>
                             /\ starts \/ goesOn
                             /\ e.offset = IF starts THEN 0 ELSE before.offset + Len(before.data)
                             /\ e.offset + Len(e.data) <= e.value
                             /\ <<e.id, e.type, e.value>> = <<before.id, before.type, before.value>>
                        /\ starts => e.name = IF before.type \in Floats THEN "float" ELSE "chunk"
                        /\ goesOn => e.name = "chunk"
  BY DEF PayloadsInOrder
<1> DEFINE e == events[i]
           before == events[i - 1]
<1>3. i = 1 => e.name # "chunk"
  BY <1>1, <1>2 DEF PayloadOrder
<1>4. i > 1 => MayFollow(before, e)
  BY <1>1, <1>2 DEF PayloadOrder
<1>5. (i = 1 /\ ~(i > 1)) \/ i > 1
  BY <1>1
<1> HIDE DEF e, before
<1>6. CASE i = 1 /\ ~(i > 1)
  BY <1>3, <1>6 DEF e, before
<1>7. CASE i > 1
  <2>1. MayFollow(before, e)
    BY <1>4, <1>7
  <2> QED  BY <1>7, <2>1 DEF MayFollow, BeginsFloat, BeginsPayload, Unfinished, e, before
<1> QED  BY <1>5, <1>6, <1>7

\* The same for arrays.
LEMMA ArraysOrdered ==
  ASSUME TypeInv, OrderInv
  PROVE  ArraysInOrder
<1>1. events \in Seq(Events) /\ Len(events) \in Nat /\ DOMAIN events = 1..Len(events)
  BY DEF TypeInv
<1> SUFFICES ASSUME NEW i \in DOMAIN events, events[i].name = "array_begin",
                    NEW j \in (i + 1)..Smaller(i + events[i].value, Len(events))
             PROVE  /\ events[j].id = events[i].id
                    /\ CASE events[i].type = KindUnsigned -> events[j].name = "unsigned"
                         [] events[i].type = KindSigned -> events[j].name = "signed"
                         [] events[i].type = KindFp32 -> events[j].name = "float" /\ events[j].type = Fp32
                         [] events[i].type = KindFp64 -> events[j].name = "float" /\ events[j].type = Fp64
  BY DEF ArraysInOrder
<1> DEFINE a == events[i]
           e == events[j]
<1>2. a.value \in Int
  BY <1>1, ToldType
<1> HIDE DEF a
<1>3. j \in 1..Len(events) /\ i < j /\ j <= i + a.value
  BY <1>1, <1>2 DEF Smaller, a
<1>4. IsElementOf(a, e)
  BY <1>1, <1>3 DEF OrderInv, ArrayOrder, a
<1> HIDE DEF e
<1>5. KindUnsigned # KindSigned /\ KindUnsigned # KindFp32 /\ KindUnsigned # KindFp64
      /\ KindSigned # KindFp32 /\ KindSigned # KindFp64 /\ KindFp32 # KindFp64
  BY DEF KindFp32, KindFp64
<1>6. CASE a.type = KindUnsigned /\ e.name = "unsigned"
  BY <1>4, <1>5, <1>6, Zenon DEF IsElementOf, a, e
<1>7. CASE a.type = KindSigned /\ e.name = "signed"
  BY <1>4, <1>5, <1>7, Zenon DEF IsElementOf, a, e
<1>8. CASE a.type = KindFp32 /\ e.name = "float" /\ e.type = Fp32
  BY <1>4, <1>5, <1>8, Zenon DEF IsElementOf, a, e
<1>9. CASE a.type = KindFp64 /\ e.name = "float" /\ e.type = Fp64
  BY <1>4, <1>5, <1>9, Zenon DEF IsElementOf, a, e
<1> QED  BY <1>4, <1>6, <1>7, <1>8, <1>9 DEF IsElementOf

\* A callback more.
LEMMA OrderAppend ==
  ASSUME NEW es \in Seq(Events), NEW e \in Events, PayloadOrder(es), ArrayOrder(es),
         es = <<>> => e.name # "chunk",
         es # <<>> => MayFollow(es[Len(es)], e),
         \A i \in 1..Len(es) : OpenArray(es, i) => IsElementOf(es[i], e)
  PROVE  /\ PayloadOrder(Append(es, e)) /\ ArrayOrder(Append(es, e))
         /\ Append(es, e) \in Seq(Events) /\ Append(es, e) # <<>>
         /\ Len(Append(es, e)) = Len(es) + 1 /\ Append(es, e)[Len(es) + 1] = e
         /\ \A i \in 1..Len(es) : OpenArray(Append(es, e), i) => OpenArray(es, i)
         /\ \A i \in 1..Len(es) : Append(es, e)[i] = es[i]
<1> DEFINE more == Append(es, e)
           n == Len(es)
<1>1. /\ n \in Nat /\ more \in Seq(Events) /\ Len(more) = n + 1 /\ more # <<>>
      /\ more[n + 1] = e /\ \A i \in 1..n : more[i] = es[i]
  BY AppendProperties
<1>2. n = 0 <=> es = <<>>
  OBVIOUS
<1> HIDE DEF more
<1>3. ASSUME NEW i \in 1..Len(more)
      PROVE  /\ i = 1 => more[i].name # "chunk"
             /\ i > 1 => MayFollow(more[i - 1], more[i])
  <2>1. CASE i \in 1..n
    <3>1. more[i] = es[i] /\ (i > 1 => more[i - 1] = es[i - 1])
      BY <1>1, <2>1
    <3> QED  BY <2>1, <3>1 DEF PayloadOrder
  <2>2. CASE i = n + 1
    <3>1. i = 1 => es = <<>>
      BY <1>1, <1>2, <2>2
    <3>2. i > 1 => es # <<>> /\ more[i - 1] = es[n]
      BY <1>1, <1>2, <2>2
    <3> QED  BY <1>1, <2>2, <3>1, <3>2
  <2> QED  BY <1>1, <2>1, <2>2
<1>4. ASSUME NEW i \in 1..n
      PROVE  es[i].value \in Int
  BY <1>4, ToldType
<1>5. ASSUME NEW i \in 1..Len(more), NEW j \in 1..Len(more),
             more[i].name = "array_begin", i < j, j <= i + more[i].value
      PROVE  IsElementOf(more[i], more[j])
  <2>1. i \in 1..n /\ more[i] = es[i]
    BY <1>1, <1>5
  <2>2. CASE j \in 1..n
    BY <1>1, <1>5, <2>1, <2>2 DEF ArrayOrder
  <2>3. CASE j = n + 1
    <3> DEFINE v == es[i].value
    <3>1. v \in Int /\ j <= i + v
      BY <1>4, <1>5, <2>1
    <3> HIDE DEF v
    <3>2. n - i < v
      BY <1>1, <2>1, <2>3, <3>1
    <3>3. OpenArray(es, i)
      BY <1>5, <2>1, <3>2 DEF OpenArray, v
    <3> QED  BY <1>1, <2>1, <2>3, <3>3
  <2> QED  BY <1>1, <2>2, <2>3
<1>6. ASSUME NEW i \in 1..n, OpenArray(more, i)
      PROVE  OpenArray(es, i)
  <2> DEFINE v == es[i].value
  <2>1. more[i] = es[i] /\ v \in Int
    BY <1>1, <1>4
  <2> HIDE DEF v
  <2>2. (n + 1) - i < v
    BY <1>1, <1>6, <2>1 DEF OpenArray, v
  <2>3. n - i < v
    BY <1>1, <2>1, <2>2
  <2> QED  BY <1>6, <2>1, <2>3 DEF OpenArray, v
<1> QED  BY <1>1, <1>3, <1>5, <1>6 DEF PayloadOrder, ArrayOrder, more

\* Nothing that was told is waiting for more.
Quiet(es) ==
  /\ es # <<>> => es[Len(es)].name # "fixlen_begin" /\ ~Unfinished(es[Len(es)])
  /\ \A i \in 1..Len(es) : ~OpenArray(es, i)

\* With no item at the cursor nothing is waiting.
LEMMA QuietWhenNone ==
  ASSUME NEW es \in Seq(Events), NEW act, NEW res, Underway(es, act, res),
         act.kind \notin {"int", "fix"}, res.kind # "payload"
  PROVE  Quiet(es)
<1>1. \A i \in 1..Len(es) : ~OpenArray(es, i)
  BY DEF Underway, ElementsToCome, IsArrayOf
<1>2. es # <<>> => ~BeginsFloat(es[Len(es)]) /\ ~BeginsPayload(es[Len(es)]) /\ ~Unfinished(es[Len(es)])
  BY DEF Underway, PayloadOpen
<1> QED  BY <1>1, <1>2 DEF Quiet, BeginsFloat, BeginsPayload

\* When nothing is waiting any item may follow but the rest of a payload.
LEMMA QuietIsUnderway ==
  ASSUME NEW es \in Seq(Events), Quiet(es), NEW act, NEW res, res.kind # "payload"
  PROVE  Underway(es, act, res)
BY DEF Quiet, Underway, PayloadOpen, ElementsToCome, BeginsFloat, BeginsPayload

\* Anything but a chunk may follow when nothing is waiting; only it is then waiting.
LEMMA QuietAppend ==
  ASSUME NEW es \in Seq(Events), NEW e \in Events, PayloadOrder(es), ArrayOrder(es), Quiet(es),
         e.name # "chunk"
  PROVE  /\ PayloadOrder(Append(es, e)) /\ ArrayOrder(Append(es, e))
         /\ Append(es, e) \in Seq(Events) /\ Append(es, e) # <<>>
         /\ Len(Append(es, e)) = Len(es) + 1 /\ Append(es, e)[Len(es) + 1] = e
         /\ \A i \in 1..Len(es) : ~OpenArray(Append(es, e), i)
<1>1. es # <<>> => MayFollow(es[Len(es)], e)
  BY DEF Quiet, MayFollow, BeginsFloat, BeginsPayload
<1>2. \A i \in 1..Len(es) : ~OpenArray(es, i)
  BY DEF Quiet
<1> QED  BY <1>1, <1>2, OrderAppend

\* After a callback that announces nothing, nothing is waiting.
LEMMA QuietStays ==
  ASSUME NEW es \in Seq(Events), NEW e \in Events, PayloadOrder(es), ArrayOrder(es), Quiet(es),
         e.name \notin {"chunk", "fixlen_begin", "array_begin"}
  PROVE  PayloadOrder(Append(es, e)) /\ ArrayOrder(Append(es, e)) /\ Quiet(Append(es, e))
<1> DEFINE more == Append(es, e)
           n == Len(es)
<1>1. /\ PayloadOrder(more) /\ ArrayOrder(more) /\ Len(more) = n + 1 /\ more[n + 1] = e
      /\ n \in Nat
      /\ \A i \in 1..n : ~OpenArray(more, i)
  BY QuietAppend
<1> HIDE DEF more
<1>2. ~OpenArray(more, n + 1)
  BY <1>1 DEF OpenArray
<1>3. \A i \in 1..Len(more) : ~OpenArray(more, i)
  BY <1>1, <1>2
<1>4. more[Len(more)].name # "fixlen_begin" /\ ~Unfinished(more[Len(more)])
  BY <1>1 DEF Unfinished
<1> QED  BY <1>1, <1>3, <1>4 DEF Quiet, more

\* Between fields nothing is waiting.
LEMMA QuietField ==
  ASSUME TypeInv, OrderInv, pc = "field"
  PROVE  ~invalid /\ Quiet(events) /\ resume = NoResume
<1>1. ~invalid /\ resume = NoResume
  BY DEF TypeInv, Latched, ItemsWellFormed
<1>2. Active = NoResume
  BY <1>1 DEF Active
<1>3. Underway(events, NoResume, NoResume) /\ events \in Seq(Events)
  BY <1>1, <1>2 DEF OrderInv, TypeInv
<1> QED  BY <1>1, <1>3, NoResumeKind, QuietWhenNone

\* Without a callback only the item at the cursor matters.
LEMMA OrderKept ==
  ASSUME OrderInv, events' = events,
         invalid' \/ (~invalid /\ Underway(events, Active', resume'))
  PROVE  OrderInv'
BY DEF OrderInv

\* Steps that tell nothing and leave the item at the cursor what it was.
LEMMA OrderSilent ==
  ASSUME TypeInv, OrderInv,
         \/ ResumeNothing \/ ResumeArray \/ ElementShort \/ FieldShort \/ NoMoreFields
         \/ CarryConsumed \/ CarryShort \/ Stash
         \/ \E c \in Seq(Byte) : Feed(c)
  PROVE  OrderInv'
<1>1. events' = events /\ events \in Seq(Events)
  BY DEF ResumeNothing, ResumeArray, ElementShort, FieldShort, NoMoreFields, CarryConsumed,
     CarryShort, Stash, Feed, feedVars, TypeInv
<1>2. CASE ResumeNothing \/ FieldShort \/ NoMoreFields \/ CarryConsumed \/ CarryShort \/ Stash
  <2>1. resume' = resume /\ pc # "elements" /\ pc' # "elements" /\ pc # "idle"
    BY <1>2 DEF ResumeNothing, FieldShort, NoMoreFields, CarryConsumed, CarryShort, Stash, AtField,
       Latch, Leave
  <2>2. Active' = Active /\ ~invalid
    BY <2>1 DEF Active, TypeInv, Latched
  <2>3. Underway(events, Active', resume')
    BY <2>1, <2>2 DEF OrderInv
  <2> QED  BY <1>1, <2>2, <2>3, OrderKept
<1>3. CASE \E c \in Seq(Byte) : Feed(c)
  <2>1. resume' = resume /\ invalid' = invalid /\ pc # "elements" /\ pc' # "elements"
    BY <1>3 DEF Feed
  <2>2. Active' = Active
    BY <2>1 DEF Active
  <2> QED  BY <1>1, <2>1, <2>2 DEF OrderInv
<1>4. CASE ResumeArray \/ ElementShort
  <2>1. /\ Active' = Active /\ resume'.kind # "payload" /\ resume.kind # "payload" /\ pc # "idle"
    BY <1>4, NoResumeKind DEF ResumeArray, ElementShort, Active, TypeInv, ItemsWellFormed
  <2>2. ~invalid
    BY <2>1 DEF TypeInv, Latched
  <2>3. Underway(events, Active, resume)
    BY <2>2 DEF OrderInv
  <2>4. Underway(events, Active', resume')
    BY <2>1, <2>3 DEF Underway, PayloadOpen
  <2> QED  BY <1>1, <2>2, <2>4, OrderKept
<1> QED  BY <1>2, <1>3, <1>4

\* A reset forgets what was told; a malformed message is told no more of.
LEMMA OrderAtRest ==
  ASSUME TypeInv, OrderInv, Reset \/ Reject
  PROVE  OrderInv'
<1>1. CASE Reject
  BY <1>1, OrderKept DEF Reject, Latch
<1>2. CASE Reset
  <2>1. events' = <<>> /\ resume' = NoResume /\ <<>> \in Seq(Events)
    BY <1>2 DEF Reset
  <2>2. PayloadOrder(<<>>) /\ ArrayOrder(<<>>) /\ Quiet(<<>>)
    BY DEF PayloadOrder, ArrayOrder, Quiet
  <2>3. Underway(<<>>, Active', NoResume)
    BY <2>1, <2>2, NoResumeKind, QuietIsUnderway
  <2> QED  BY <2>1, <2>2, <2>3 DEF OrderInv
<1> QED  BY <1>1, <1>2

\* When an array is read, nothing is waiting.
LEMMA OrderElementsRead ==
  ASSUME TypeInv, OrderInv, ElementsRead
  PROVE  OrderInv'
<1>1. pc = "elements" /\ pc' = "field" /\ item.remaining = 0 /\ events' = events
      /\ resume' = resume /\ resume = NoResume /\ ~invalid
  BY DEF ElementsRead, TypeInv, ItemsWellFormed, Latched
<1>2. Underway(events, item, NoResume) /\ events \in Seq(Events)
  BY <1>1 DEF OrderInv, Active, TypeInv
<1>3. \A i \in 1..Len(events) : ~OpenArray(events, i)
  <2> SUFFICES ASSUME NEW i \in 1..Len(events), OpenArray(events, i)
               PROVE  FALSE
    OBVIOUS
  <2> DEFINE v == events[i].value
  <2>1. v \in Int
    BY <1>2, ToldType
  <2>2. item.remaining = v - (Len(events) - i)
    BY <1>2 DEF Underway, ElementsToCome
  <2>3. Len(events) - i < v
    BY DEF OpenArray
  <2> HIDE DEF v
  <2> QED  BY <1>1, <1>2, <2>1, <2>2, <2>3
<1>4. events # <<>> => events[Len(events)].name # "fixlen_begin" /\ ~Unfinished(events[Len(events)])
  BY <1>1, <1>2, NoResumeKind DEF Underway, PayloadOpen, BeginsFloat, BeginsPayload
<1>5. Underway(events, Active', NoResume)
  BY <1>2, <1>3, <1>4, NoResumeKind, QuietIsUnderway DEF Quiet
<1> QED  BY <1>1, <1>5, OrderKept

\* Scalars and sequence marks are told when nothing is waiting.
LEMMA OrderScalar ==
  ASSUME TypeInv, OrderInv, Scalar \/ SequenceBegin \/ SequenceEnd
  PROVE  OrderInv'
<1> DEFINE e == IF SequenceBegin THEN OnSequenceBegin(id)
                ELSE IF SequenceEnd THEN OnSequenceEnd
                ELSE IF wire = T_VARINT_SIGNED THEN OnSigned(id, ZigZagDecode(word.value))
                ELSE OnUnsigned(id, word.value)
<1>1. pc = "field" /\ events' = Append(events, e) /\ resume' = resume
  BY DEF Scalar, SequenceBegin, SequenceEnd, WordRead, HeaderRead, AtField, T_VARINT_SIGNED,
     T_VARINT_UNSIGNED, T_SEQUENCE_START, T_SEQUENCE_END
<1>2. e.name \in {"sequence_begin", "sequence_end", "signed", "unsigned"}
  BY DEF OnSequenceBegin, OnSequenceEnd, OnSigned, OnUnsigned, Callback
<1>3. TypeInv'
  BY TypeScalar, TypeSequence
<1> HIDE DEF e
<1>4. e \in Events
  <2>1. events' \in Seq(Events) /\ events' = Append(events, e) /\ events \in Seq(Events)
    BY <1>1, <1>3 DEF TypeInv
  <2>2. Len(Append(events, e)) = Len(events) + 1 /\ Append(events, e)[Len(events) + 1] = e
        /\ Len(events) \in Nat
    BY <2>1
  <2> QED  BY <2>1, <2>2
<1>5. /\ events \in Seq(Events) /\ PayloadOrder(events) /\ ArrayOrder(events) /\ Quiet(events)
      /\ resume = NoResume
  BY <1>1, QuietField DEF OrderInv, TypeInv
<1>6. /\ PayloadOrder(events') /\ ArrayOrder(events') /\ Quiet(events') /\ events' \in Seq(Events)
  BY <1>1, <1>2, <1>3, <1>4, <1>5, QuietStays DEF TypeInv
<1>7. Underway(events', Active', resume')
  BY <1>1, <1>5, <1>6, NoResumeKind, QuietIsUnderway
<1> QED  BY <1>6, <1>7 DEF OrderInv

\* What was appended is a callback.
LEMMA AppendedType ==
  ASSUME NEW es \in Seq(Events), NEW e, Append(es, e) \in Seq(Events)
  PROVE  e \in Events
<1>1. Len(Append(es, e)) = Len(es) + 1 /\ Append(es, e)[Len(es) + 1] = e /\ Len(es) \in Nat
  OBVIOUS
<1> QED  BY <1>1

\* After a chunk, more of the payload is to come or nothing is waiting.
LEMMA ChunkUnderway ==
  ASSUME NEW es \in Seq(Events), es # <<>>,
         NEW act, NEW res, es[Len(es)].name = "chunk",
         Unfinished(es[Len(es)]) \/ res.kind # "payload",
         \A i \in 1..(Len(es) - 1) : ~OpenArray(es, i),
         Unfinished(es[Len(es)]) =>
           /\ res.kind = "payload" /\ res.id = es[Len(es)].id /\ res.type = es[Len(es)].type
           /\ res.total = es[Len(es)].value
           /\ res.total - res.remaining = es[Len(es)].offset + Len(es[Len(es)].data)
  PROVE  Underway(es, act, res)
<1> DEFINE n == Len(es)
<1>1. n \in Nat \ {0}
  OBVIOUS
<1>2. ~OpenArray(es, n)
  BY DEF OpenArray
<1>3. \A i \in 1..n : ~OpenArray(es, i)
  BY <1>1, <1>2
<1>4. PayloadOpen(es, act, res)
  BY DEF PayloadOpen, BeginsFloat, BeginsPayload
<1> QED  BY <1>3, <1>4 DEF Underway, ElementsToCome

\* The next chunk goes on where the last one ended.
LEMMA OrderResumePayload ==
  ASSUME TypeInv, OrderInv, ResumePayload
  PROVE  OrderInv'
<1> DEFINE avail == Smaller(Len(buf) - pos, resume.remaining)
           left == resume.remaining - avail
           data == SubSeq(buf, pos + 1, pos + avail)
           e == OnChunk(resume.id, resume.type, resume.total, Delivered, data)
           last == events[Len(events)]
<1>1. /\ avail \in Nat /\ left \in Nat /\ Delivered \in Nat
      /\ data \in Seq(Byte) /\ Len(data) = avail
  BY Available DEF ResumePayload
<1>2. /\ events' = IF avail = 0 THEN events ELSE Append(events, e)
      /\ resume' = IF left = 0 THEN NoResume ELSE [resume EXCEPT !.remaining = left]
      /\ pc' = IF left = 0 THEN "field" ELSE "parsed"
      /\ pc = "resume" /\ resume.kind = "payload"
  BY DEF ResumePayload
<1>3. /\ resume \in Items /\ resume.total \in Nat /\ resume.remaining \in 1..resume.total
  BY <1>2, LimitFacts DEF TypeInv, TypeOK, ItemsWellFormed, Items
<1>4. Delivered = resume.total - resume.remaining
  BY DEF Delivered
<1>5. ~invalid /\ Active = resume /\ Active' = resume' /\ events \in Seq(Events)
  BY <1>2 DEF Active, TypeInv, Latched
<1>6. Underway(events, resume, resume)
  BY <1>5 DEF OrderInv
<1>7. /\ events # <<>>
      /\ resume.id = last.id /\ resume.type = last.type /\ resume.total = last.value
      /\ \/ BeginsPayload(last) /\ Delivered = 0
         \/ Unfinished(last) /\ Delivered = last.offset + Len(last.data)
  BY <1>2, <1>4, <1>6 DEF Underway, PayloadOpen
<1>8. \A i \in 1..Len(events) : ~OpenArray(events, i)
  BY <1>2, <1>6 DEF Underway, ElementsToCome, IsArrayOf
<1>9. CASE avail = 0
  <2>1. left = resume.remaining
    BY <1>3, <1>9
  <2>2. resume' = resume /\ events' = events
    BY <1>2, <1>3, <1>9, <2>1 DEF Items
  <2> QED  BY <1>5, <1>6, <2>2, OrderKept
<1>10. CASE avail # 0
  <2>1. events' = Append(events, e)
    BY <1>2, <1>10
  <2>2. /\ e.name = "chunk" /\ e.id = resume.id /\ e.type = resume.type /\ e.value = resume.total
        /\ e.offset = Delivered /\ e.data = data
    BY DEF OnChunk, Callback
  <2>3. TypeInv'
    BY TypeResumePayload
  <2> HIDE DEF e, data, avail
  <2>4. e \in Events
    BY <1>5, <2>1, <2>3, AppendedType DEF TypeInv
  <2>5. Delivered + avail = resume.total - left /\ Delivered + avail <= resume.total
    BY <1>1, <1>3, <1>4
  <2>6. MayFollow(last, e)
    <3>1. e.offset + Len(e.data) <= e.value
      BY <1>1, <2>2, <2>5
    <3>2. e.offset = IF last.name = "fixlen_begin" THEN 0 ELSE last.offset + Len(last.data)
      BY <1>7, <2>2 DEF BeginsPayload, Unfinished
    <3>3. (last.name = "fixlen_begin" \/ Unfinished(last)) /\ ~BeginsFloat(last)
      BY <1>7 DEF BeginsPayload, BeginsFloat, Unfinished
    <3> QED  BY <1>7, <2>2, <3>1, <3>2, <3>3 DEF MayFollow
  <2> HIDE DEF last
  <2>7. /\ PayloadOrder(events') /\ ArrayOrder(events') /\ events' \in Seq(Events)
        /\ events' # <<>> /\ Len(events') = Len(events) + 1 /\ events'[Len(events')] = e
        /\ \A i \in 1..Len(events) : ~OpenArray(events', i)
    BY <1>5, <1>7, <1>8, <2>1, <2>4, <2>6, OrderAppend DEF OrderInv, last
  <2>8. Unfinished(e) <=> left # 0
    BY <1>1, <1>3, <2>2, <2>5 DEF Unfinished
  <2>9. left # 0 =>
          /\ resume'.kind = "payload" /\ resume'.id = e.id /\ resume'.type = e.type
          /\ resume'.total = e.value /\ resume'.remaining = left
    BY <1>2, <1>3, <2>2 DEF Items
  <2>10. left # 0 => resume'.total - resume'.remaining = e.offset + Len(e.data)
    BY <1>1, <1>3, <2>2, <2>5, <2>9
  <2>11. left = 0 => resume'.kind # "payload"
    BY <1>2, NoResumeKind
  <2>12. \A i \in 1..(Len(events') - 1) : ~OpenArray(events', i)
    BY <1>5, <2>7
  <2>13. Underway(events', Active', resume')
    BY <2>2, <2>7, <2>8, <2>9, <2>10, <2>11, <2>12, ChunkUnderway
  <2> QED  BY <2>7, <2>13 DEF OrderInv
<1> QED  BY <1>9, <1>10

\* The next element is one of the array that was announced.
LEMMA OrderElementRead ==
  ASSUME TypeInv, OrderInv, ElementRead
  PROVE  OrderInv'
<1> DEFINE e == OnElement(element)
<1>1. /\ pc = "elements" /\ pc' = pc /\ events' = Append(events, e) /\ resume' = resume
      /\ item' = [item EXCEPT !.remaining = @ - 1] /\ item.remaining > 0
  BY DEF ElementRead
<1>2. /\ resume = NoResume /\ ~invalid /\ item \in Items /\ events \in Seq(Events)
      /\ \/ item.kind = "fix" /\ item.type \in Floats
         \/ item.kind = "int" /\ item.type \in {KindUnsigned, KindSigned}
  BY <1>1 DEF TypeInv, TypeOK, ItemsWellFormed, Latched
<1>3. Underway(events, item, NoResume)
  BY <1>1, <1>2 DEF OrderInv, Active
<1>4. /\ e.id = item.id
      /\ item.kind = "fix" => e.name = "float" /\ e.type = item.type
      /\ item.kind = "int" /\ item.type = KindSigned => e.name = "signed"
      /\ item.kind = "int" /\ item.type # KindSigned => e.name = "unsigned"
  <2>1. /\ item.kind = "fix" =>
             e = OnFloat(item.id, item.type, SubSeq(buf, pos + 1, pos + element.len))
        /\ item.kind = "int" /\ item.type = KindSigned =>
             e = OnSigned(item.id, ZigZagDecode(element.value))
        /\ item.kind = "int" /\ item.type # KindSigned => e = OnUnsigned(item.id, element.value)
    BY <1>1, OnElementIs
  <2> HIDE DEF e
  <2>2. CASE item.kind = "fix"
    BY <2>1, <2>2 DEF OnFloat, Callback
  <2>3. CASE item.kind = "int" /\ item.type = KindSigned
    BY <2>1, <2>3 DEF OnSigned, Callback
  <2>4. CASE item.kind = "int" /\ item.type # KindSigned
    BY <2>1, <2>4 DEF OnUnsigned, Callback
  <2> QED  BY <1>2, <2>2, <2>3, <2>4
<1>5. TypeInv'
  BY TypeElementRead
<1> HIDE DEF e
<1>6. e \in Events
  BY <1>1, <1>2, <1>5, AppendedType DEF TypeInv
<1>7. e.name \notin {"chunk", "fixlen_begin", "array_begin"}
  BY <1>2, <1>4
<1>8. events # <<>> => MayFollow(events[Len(events)], e)
  BY <1>3, <1>4, <1>7, NoResumeKind
  DEF Underway, PayloadOpen, MayFollow
<1>9. ASSUME NEW i \in 1..Len(events), OpenArray(events, i)
      PROVE  /\ IsElementOf(events[i], e)
             /\ IsArrayOf(events[i], item) /\ item.remaining = events[i].value - (Len(events) - i)
  <2>1. IsArrayOf(events[i], item) /\ item.remaining = events[i].value - (Len(events) - i)
    BY <1>3, <1>9 DEF Underway, ElementsToCome
  <2>2. IsElementOf(events[i], e)
    BY <1>4, <2>1 DEF IsArrayOf, IsElementOf
  <2> QED  BY <2>1, <2>2
<1>10. /\ PayloadOrder(events') /\ ArrayOrder(events') /\ events' \in Seq(Events)
       /\ events' # <<>> /\ Len(events') = Len(events) + 1 /\ events'[Len(events')] = e
       /\ \A i \in 1..Len(events) : OpenArray(events', i) => OpenArray(events, i)
       /\ \A i \in 1..Len(events) : events'[i] = events[i]
  <2>1. events = <<>> => e.name # "chunk"
    BY <1>7
  <2> QED  BY <1>1, <1>2, <1>6, <1>8, <1>9, <2>1, OrderAppend DEF OrderInv
<1>11. /\ item'.id = item.id /\ item'.kind = item.kind /\ item'.type = item.type
       /\ item'.remaining = item.remaining - 1 /\ item.remaining \in Nat
  BY <1>1, <1>2 DEF Items
<1>12. ASSUME NEW i \in 1..Len(events'), OpenArray(events', i)
       PROVE  IsArrayOf(events'[i], item') /\ item'.remaining = events'[i].value - (Len(events') - i)
  <2>1. i \in 1..Len(events)
    <3>1. i # Len(events')
      BY <1>7, <1>10, <1>12 DEF OpenArray
    <3> QED  BY <1>2, <1>10, <3>1
  <2>2. OpenArray(events, i) /\ events'[i] = events[i]
    BY <1>10, <1>12, <2>1
  <2>3. IsArrayOf(events[i], item) /\ item.remaining = events[i].value - (Len(events) - i)
    BY <1>9, <2>1, <2>2
  <2>4. IsArrayOf(events'[i], item')
    BY <1>11, <2>2, <2>3 DEF IsArrayOf
  <2> DEFINE v == events[i].value
  <2>5. v \in Int /\ Len(events) \in Nat
    BY <1>2, <2>1, ToldType
  <2>6. events'[i].value = v /\ item.remaining = v - (Len(events) - i)
    BY <2>2, <2>3
  <2> HIDE DEF v
  <2>7. item'.remaining = events'[i].value - (Len(events') - i)
    BY <1>10, <1>11, <2>1, <2>5, <2>6
  <2> QED  BY <2>4, <2>7
<1>13. PayloadOpen(events', item', NoResume)
  BY <1>7, <1>10, NoResumeKind DEF PayloadOpen, BeginsFloat, BeginsPayload, Unfinished
<1>14. Underway(events', Active', resume')
  <2>1. Active' = item' /\ resume' = NoResume
    BY <1>1, <1>2 DEF Active
  <2>2. ElementsToCome(events', item')
    BY <1>12 DEF ElementsToCome
  <2> QED  BY <1>13, <2>1, <2>2 DEF Underway
<1> QED  BY <1>10, <1>14 DEF OrderInv

\* A payload is announced, and its first chunk begins at its first byte.
LEMMA OrderFixlenPayload ==
  ASSUME TypeInv, OrderInv, FixlenPayload
  PROVE  OrderInv'
<1> DEFINE avail == Smaller(Len(buf) - atElem, length)
           left == length - avail
           begin == OnFixlenBegin(id, subtype, length)
           data == SubSeq(buf, atElem + 1, atElem + avail)
           piece == OnChunk(id, subtype, length, 0, data)
           begun == Append(events, begin)
<1>1. /\ avail \in Nat /\ avail <= length /\ data \in Seq(Byte) /\ Len(data) = avail
      /\ length \in 0..FixlenMax /\ id \in 0..IdMax /\ subtype \in {Str, Blob}
  BY AvailableNow
<1>2. /\ pc = "field"
      /\ events' = IF avail = 0 /\ length > 0 THEN begun ELSE Append(begun, piece)
      /\ IF avail = length
           THEN UNCHANGED <<pc, resume>>
           ELSE /\ resume' = Resume("payload", id, subtype, length, left)
                /\ pc' = "parsed"
  BY DEF FixlenPayload, WordRead, HeaderRead, AtField
<1>3. /\ begin.name = "fixlen_begin" /\ begin.id = id /\ begin.type = subtype
      /\ begin.value = length /\ begin.offset = 0 /\ begin.data = <<>>
      /\ piece.name = "chunk" /\ piece.id = id /\ piece.type = subtype
      /\ piece.value = length /\ piece.offset = 0 /\ piece.data = data
  BY DEF OnFixlenBegin, OnChunk, Callback
<1>4. begin \in Events /\ piece \in Events
  <2> HIDE DEF data
  <2>1. "fixlen_begin" \in CallbackNames /\ "chunk" \in CallbackNames
    BY DEF CallbackNames
  <2>2. <<>> \in Seq(Byte) /\ 0 \in Nat
    OBVIOUS
  <2>3. id \in Nat /\ length \in Int /\ subtype \in Nat
    BY <1>1, LimitFacts
  <2> QED  BY <1>1, <2>1, <2>2, <2>3, CallbackType DEF OnFixlenBegin, OnChunk
<1>5. /\ events \in Seq(Events) /\ PayloadOrder(events) /\ ArrayOrder(events) /\ Quiet(events)
      /\ resume = NoResume
  BY <1>2, QuietField DEF OrderInv, TypeInv
<1> HIDE DEF begin, piece, data, avail
<1>6. /\ PayloadOrder(begun) /\ ArrayOrder(begun) /\ begun \in Seq(Events) /\ begun # <<>>
      /\ Len(begun) = Len(events) + 1 /\ begun[Len(begun)] = begin
      /\ \A i \in 1..Len(events) : ~OpenArray(begun, i)
  BY <1>3, <1>4, <1>5, QuietAppend
<1>7. \A i \in 1..Len(begun) : ~OpenArray(begun, i)
  <2>1. ~OpenArray(begun, Len(begun))
    BY <1>3, <1>6 DEF OpenArray
  <2> QED  BY <1>5, <1>6, <2>1
<1>8. length \in Nat /\ left \in Nat /\ length - left = avail
  BY <1>1, LimitFacts
<1> DEFINE suspended == Resume("payload", id, subtype, length, left)
<1>9. /\ suspended.kind = "payload" /\ suspended.id = id /\ suspended.type = subtype
      /\ suspended.total = length /\ suspended.remaining = left
  BY DEF Resume
<1>10. Active' = resume'
  BY <1>2 DEF Active
<1> HIDE DEF begun, suspended
<1>11. CASE avail = 0 /\ length > 0
  <2>1. events' = begun /\ resume' = suspended
    BY <1>2, <1>11 DEF suspended
  <2>2. BeginsPayload(begin) /\ ~BeginsFloat(begin) /\ ~Unfinished(begin)
    BY <1>1, <1>3 DEF BeginsPayload, BeginsFloat, Unfinished
  <2>3. suspended.total - suspended.remaining = 0
    BY <1>8, <1>9, <1>11
  <2>4. PayloadOpen(begun, suspended, suspended)
    BY <1>3, <1>6, <1>9, <2>2, <2>3 DEF PayloadOpen
  <2>5. Underway(begun, suspended, suspended)
    BY <1>7, <2>4 DEF Underway, ElementsToCome
  <2> QED  BY <1>6, <1>10, <2>1, <2>5 DEF OrderInv
<1>12. CASE ~(avail = 0 /\ length > 0)
  <2>1. events' = Append(begun, piece)
    BY <1>2, <1>12
  <2>2. piece.offset + Len(piece.data) = avail
    BY <1>1, <1>3
  <2>3. MayFollow(begin, piece)
    BY <1>1, <1>3, <2>2 DEF MayFollow, BeginsFloat
  <2>4. /\ PayloadOrder(events') /\ ArrayOrder(events') /\ events' \in Seq(Events)
        /\ events' # <<>> /\ Len(events') = Len(begun) + 1 /\ events'[Len(events')] = piece
        /\ \A i \in 1..Len(begun) : ~OpenArray(events', i)
    BY <1>4, <1>6, <1>7, <2>1, <2>3, OrderAppend
  <2>5. \A i \in 1..(Len(events') - 1) : ~OpenArray(events', i)
    BY <1>6, <2>4
  <2>6. Unfinished(piece) <=> avail # length
    BY <1>1, <1>3, <1>8, <2>2 DEF Unfinished
  <2>7. avail # length => resume' = suspended
    BY <1>2 DEF suspended
  <2>8. avail = length => resume'.kind # "payload"
    BY <1>2, <1>5, NoResumeKind
  <2>9. suspended.total - suspended.remaining = piece.offset + Len(piece.data)
    BY <1>8, <1>9, <2>2
  <2>10. Underway(events', Active', resume')
    BY <1>3, <1>9, <2>4, <2>5, <2>6, <2>7, <2>8, <2>9, ChunkUnderway
  <2> QED  BY <2>4, <2>10 DEF OrderInv
<1> QED  BY <1>11, <1>12

\* What was announced last is the item that is then at the cursor.
LEMMA OrderAnnounce ==
  ASSUME TypeInv, OrderInv, pc = "field", NEW e \in Events, NEW at, NEW it, Announce(e, at, it),
         \/ BeginsFloat(e) /\ it.kind = "fix" /\ it.remaining > 0
         \/ e.name = "array_begin" /\ IsArrayOf(e, it) /\ it.remaining = e.value
  PROVE  OrderInv'
<1>1. /\ events' = Append(events, e) /\ item' = it /\ pc' = "elements" /\ resume' = resume
  BY DEF Announce
<1>2. /\ events \in Seq(Events) /\ PayloadOrder(events) /\ ArrayOrder(events) /\ Quiet(events)
      /\ resume = NoResume
  BY QuietField DEF OrderInv, TypeInv
<1>3. e.name # "chunk"
  BY DEF BeginsFloat
<1>4. /\ PayloadOrder(events') /\ ArrayOrder(events') /\ events' \in Seq(Events) /\ events' # <<>>
      /\ Len(events') = Len(events) + 1 /\ events'[Len(events')] = e
      /\ \A i \in 1..Len(events) : ~OpenArray(events', i)
  BY <1>1, <1>2, <1>3, QuietAppend
<1>5. PayloadOpen(events', it, NoResume)
  BY <1>4, NoResumeKind DEF PayloadOpen, BeginsFloat, BeginsPayload, Unfinished
<1>6. ASSUME NEW i \in 1..Len(events'), OpenArray(events', i)
      PROVE  IsArrayOf(events'[i], it) /\ it.remaining = events'[i].value - (Len(events') - i)
  <2>1. i = Len(events') /\ Len(events') \in Nat
    BY <1>2, <1>4, <1>6
  <2>2. e.name = "array_begin"
    BY <1>4, <1>6, <2>1 DEF OpenArray
  <2>3. IsArrayOf(e, it) /\ it.remaining = e.value
    BY <2>2 DEF BeginsFloat
  <2>4. e.value \in Int
    BY DEF Events
  <2> QED  BY <1>4, <2>1, <2>3, <2>4
<1>7. Underway(events', it, NoResume)
  BY <1>5, <1>6 DEF Underway, ElementsToCome
<1> QED  BY <1>1, <1>2, <1>4, <1>7 DEF OrderInv, Active

\* An array or a float is announced.
LEMMA OrderAnnounced ==
  ASSUME TypeInv, OrderInv, FixlenFloat \/ IntArray \/ FloatArray
  PROVE  OrderInv'
<1>1. CASE FixlenFloat
  <2> DEFINE elements == Resume("fix", id, subtype, 0, 1)
             call == OnFixlenBegin(id, subtype, length)
  <2>1. elements.kind = "fix" /\ elements.remaining = 1
        /\ call.name = "fixlen_begin" /\ call.type = subtype
    BY DEF Resume, OnFixlenBegin, Callback
  <2>2. /\ pc = "field" /\ call \in Events /\ subtype \in Floats /\ Announce(call, atElem, elements)
    BY <1>1, FloatAnnounced
  <2> HIDE DEF elements, call
  <2> QED  BY <2>1, <2>2, OrderAnnounce DEF BeginsFloat
<1>2. CASE IntArray
  <2> DEFINE kind == IF wire = T_VARINTARRAY_SIGNED THEN KindSigned ELSE KindUnsigned
             elements == Resume("int", id, kind, 0, word.value)
             call == OnArrayBegin(id, kind, word.value)
  <2>1. /\ elements.kind = "int" /\ elements.type = kind /\ elements.id = id
        /\ elements.remaining = word.value
        /\ call.name = "array_begin" /\ call.id = id /\ call.type = kind
        /\ call.value = word.value
    BY DEF Resume, OnArrayBegin, Callback
  <2>2. /\ pc = "field" /\ call \in Events /\ kind \in {KindUnsigned, KindSigned}
        /\ Announce(call, atElem, elements)
    BY <1>2, IntArrayAnnounced
  <2> HIDE DEF elements, call, kind
  <2> QED  BY <2>1, <2>2, OrderAnnounce DEF IsArrayOf
<1>3. CASE FloatArray
  <2> DEFINE kind == IF elemSubtype = Fp64 THEN KindFp64 ELSE KindFp32
             elements == Resume("fix", id, elemSubtype, 0, word.value)
             call == OnArrayBegin(id, kind, word.value)
             end == atElem + elem.len
  <2>1. /\ elements.kind = "fix" /\ elements.type = elemSubtype /\ elements.id = id
        /\ elements.remaining = word.value
        /\ call.name = "array_begin" /\ call.id = id /\ call.type = kind
        /\ call.value = word.value
    BY DEF Resume, OnArrayBegin, Callback
  <2>2. /\ pc = "field" /\ call \in Events /\ elemSubtype \in Floats /\ Announce(call, end, elements)
    BY <1>3, FloatArrayAnnounced
  <2>3. IsArrayOf(call, elements)
    BY <2>1, <2>2 DEF IsArrayOf
  <2> HIDE DEF elements, call, end
  <2> QED  BY <2>1, <2>2, <2>3, OrderAnnounce
<1> QED  BY <1>1, <1>2, <1>3

\* Every step keeps the order invariant.
LEMMA OrderNext ==
  ASSUME TypeInv, OrderInv, [Next]_vars
  PROVE  OrderInv'
<1>1. CASE Calls
  <2>1. ASSUME NEW n \in Len(fed)..Len(message), Feed(SubSeq(message, Len(fed) + 1, n))
        PROVE  OrderInv'
    <3> DEFINE c == SubSeq(message, Len(fed) + 1, n)
    <3>1. c \in Seq(Byte) /\ Feed(c)
      BY <2>1, FedBytes
    <3> HIDE DEF c
    <3> QED  BY <3>1, OrderSilent
  <2> QED  BY <1>1, <2>1, OrderAtRest DEF Calls
<1>2. CASE Steps
  BY <1>2, OrderSilent, OrderAtRest, OrderElementsRead, OrderScalar, OrderResumePayload,
     OrderElementRead, OrderFixlenPayload, OrderAnnounced
  DEF Steps, ElementMalformed, FieldMalformed
<1>3. CASE UNCHANGED vars
  BY <1>3 DEF vars, OrderInv, Active
<1> QED  BY <1>1, <1>2, <1>3 DEF Next

\* The order invariant holds at first.
LEMMA OrderInit == Init => OrderInv
<1> SUFFICES ASSUME Init PROVE OrderInv
  OBVIOUS
<1>1. events = <<>> /\ resume = NoResume /\ <<>> \in Seq(Events)
  BY DEF Init
<1>2. PayloadOrder(<<>>) /\ ArrayOrder(<<>>) /\ Quiet(<<>>)
  BY DEF PayloadOrder, ArrayOrder, Quiet
<1>3. Underway(<<>>, Active, NoResume)
  BY <1>1, <1>2, NoResumeKind, QuietIsUnderway
<1> QED  BY <1>1, <1>2, <1>3 DEF OrderInv

-----------------------------------------------------------------------------
(***************************************************************************)
(* The results, for every set of inputs, every way to cut them and every   *)
(* value of the limits.                                                    *)
(***************************************************************************)
\* The three invariants hold in every state.
THEOREM DecoderInvariant == Spec => [](TypeInv /\ CarryInv /\ OrderInv)
<1>1. Init => TypeInv /\ CarryInv /\ OrderInv
  BY TypeInit, CarryInit, OrderInit
<1>2. TypeInv /\ CarryInv /\ OrderInv /\ [Next]_vars => (TypeInv /\ CarryInv /\ OrderInv)'
  BY TypeNext, CarryNext, OrderNext
<1> QED  BY <1>1, <1>2, PTL DEF Spec

\* Whatever is fed, the decoder's fields keep their types, the cursor stays within the
\* bytes and the depth within MAX_DEPTH (IStream of istream.rs).
THEOREM DecoderTypeCorrect == Spec => []TypeOK
<1>1. TypeInv => TypeOK
  BY DEF TypeInv
<1> QED  BY <1>1, DecoderInvariant, PTL

\* The carry is always one item that is short and leaves a byte of it free, so the
\* two branches of feed that the code calls unreachable are unreachable.
THEOREM CarryCorrect == Spec => []CarryIsOnePrefix
<1>1. TypeInv /\ CarryInv => CarryIsOnePrefix
  BY CarrySafe
<1> QED  BY <1>1, DecoderInvariant, PTL

\* The chunks of a payload follow its announcement without a gap, an overlap or a
\* repetition, wherever the message is cut (deliver_payload).
THEOREM PayloadOrderCorrect == Spec => []PayloadsInOrder
<1>1. TypeInv /\ OrderInv => PayloadsInOrder
  BY PayloadsOrdered
<1> QED  BY <1>1, DecoderInvariant, PTL

\* The elements of an array follow its announcement, of its id and kind and as many as
\* announced, wherever the message is cut (int_array, fix_array).
THEOREM ArrayOrderCorrect == Spec => []ArraysInOrder
<1>1. TypeInv /\ OrderInv => ArraysInOrder
  BY ArraysOrdered
<1> QED  BY <1>1, DecoderInvariant, PTL

\* After a malformed verdict the decoder tells nothing and repeats it until a reset
\* (the latch of feed).
THEOREM VerdictIsTerminal == Spec => InvalidIsTerminal
<1> DEFINE Terminal == pc = "idle" /\ result = "InvalidMsg" =>
             \/ pc' = "idle" /\ result' = "InvalidMsg" /\ events' = events
             \/ result' = "Complete" /\ fed' = <<>> /\ events' = <<>>
<1>1. TypeInv /\ [Next]_vars => [Terminal]_vars
  <2> SUFFICES ASSUME TypeInv, Next, pc = "idle", result = "InvalidMsg" PROVE Terminal
    OBVIOUS
  <2>1. invalid
    BY DEF TypeInv, Latched
  <2>2. Calls
    BY DEF Next, Steps, ResumeNothing, ResumePayload, ResumeArray, ElementRead, ElementShort,
       ElementMalformed, ElementsRead, FieldMalformed, FieldShort, NoMoreFields, Scalar,
       FixlenPayload, FixlenFloat, IntArray, FloatArray, SequenceBegin, SequenceEnd,
       CarryConsumed, CarryShort, Stash, ElemRead, CountRead, WordRead, HeaderRead, AtField
  <2>3. CASE Reset
    BY <2>3 DEF Reset
  <2>4. ASSUME NEW c, Feed(c) PROVE Terminal
    BY <2>1, <2>4 DEF Feed
  <2> QED  BY <2>2, <2>3, <2>4 DEF Calls
<1> QED  BY <1>1, DecoderInvariant, PTL DEF Spec, InvalidIsTerminal

-----------------------------------------------------------------------------
(***************************************************************************)
(* Definitions: where the decoder is among the bytes that were fed.        *)
(***************************************************************************)
\* The bytes fed that were not read yet, and how many were.
Unread ==
  IF pc = "idle" THEN Len(carry)
  ELSE IF held > 0 THEN Len(chunk) + held - pos
  ELSE Len(buf) - pos
At == Len(fed) - Unread

\* Whatever is kept of the bytes fed is where it belongs among them: the carry, the
\* bytes that are parsed from the cursor on, and the caller's chunk.
PlaceInv ==
  ~invalid =>
    /\ At \in 0..Len(fed)
    /\ pc = "idle" => Agree(carry, 0, fed, At)
    /\ pc # "idle" => /\ Agree(buf, pos, fed, At)
                      /\ Len(chunk) <= Len(fed) /\ Agree(chunk, 0, fed, Len(fed) - Len(chunk))

\* Up to p the bytes s make the callbacks es, open d sequences and come to the item it:
\* the reference decoder is there too.  It reads a payload as a whole; inside one it
\* is at its start, and the bytes since are its one chunk.
Means(s, p, d, it, es) ==
  IF it.kind = "payload"
    THEN LET done == it.total - it.remaining
         IN  /\ done \in 0..p
             /\ \E evs \in Seq(Events) :
                  /\ Reaches(s, Going(p - done, d, [it EXCEPT !.remaining = it.total], evs))
                  /\ es = IF done = 0 THEN evs
                          ELSE Append(evs, OnChunk(it.id, it.type, it.total, 0, SubSeq(s, (p - done) + 1, p)))
    ELSE Reaches(s, Going(p, d, it, es))

\* The verdict on bytes that are not malformed.
SoFar == IF carry = <<>> /\ resume = NoResume /\ depth = 0 THEN "Complete" ELSE "Incomplete"

\* The invariant: cut as they were, the bytes fed up to the cursor mean what they
\* mean to the reference decoder.
MeaningInv ==
  /\ Joined(events) \in Seq(Events)
  /\ resume.kind \in {"int", "fix"} => resume.remaining > 0
  /\ ~invalid => Means(fed, At, depth, Active, Joined(events))
  /\ ~invalid /\ pc = "idle" => result = SoFar
  /\ invalid => /\ pc = "idle" /\ result = "InvalidMsg"
                /\ \E c : Reaches(fed, c) /\ c.verdict = "InvalidMsg" /\ c.events = Joined(events)

-----------------------------------------------------------------------------
(***************************************************************************)
(* Chunks put together.                                                    *)
(***************************************************************************)
\* What Joined is after k of the callbacks.
JoinsTo(f, es, k) ==
  f = [n \in 0..k |-> IF n = 0 THEN <<>> ELSE Join(f[n - 1], es[n])]

LEMMA JoinPrefix ==
  ASSUME NEW es, NEW k \in Nat
  PROVE  \E f : JoinsTo(f, es, k)
<1> DEFINE S == {m \in Nat : \E f : JoinsTo(f, es, m)}
<1>1. 0 \in S
  <2> DEFINE f == [n \in 0..0 |-> <<>>]
  <2>1. JoinsTo(f, es, 0)
    BY DEF JoinsTo
  <2> QED  BY <2>1
<1>2. ASSUME NEW m \in S PROVE m + 1 \in S
  <2>1. PICK f : JoinsTo(f, es, m)
    BY <1>2
  <2> DEFINE g == [n \in 0..(m + 1) |-> IF n = m + 1 THEN Join(f[m], es[m + 1]) ELSE f[n]]
  <2>2. m \in Nat
    OBVIOUS
  <2>3. f[0] = <<>> /\ \A n \in 1..m : f[n] = Join(f[n - 1], es[n])
    BY <2>1, <2>2 DEF JoinsTo
  <2>4. \A n \in 0..(m + 1) : g[n] = IF n = 0 THEN <<>> ELSE Join(g[n - 1], es[n])
    <3> TAKE n \in 0..(m + 1)
    <3>1. CASE n = 0
      BY <2>2, <2>3, <3>1
    <3>2. CASE n \in 1..m
      BY <2>2, <2>3, <3>2
    <3>3. CASE n = m + 1
      BY <2>2, <3>3
    <3> QED  BY <2>2, <3>1, <3>2, <3>3
  <2>5. g = [n \in 0..(m + 1) |-> g[n]]
    OBVIOUS
  <2>6. JoinsTo(g, es, m + 1)
    <3> HIDE DEF g
    <3> QED  BY <2>4, <2>5 DEF JoinsTo
  <2> QED  BY <2>2, <2>6
<1> HIDE DEF S
<1>3. S = Nat
  BY <1>1, <1>2, Induction DEF S
<1> QED  BY <1>3 DEF S

LEMMA JoinPrefixUnique ==
  ASSUME NEW es, NEW more, NEW k \in Nat, NEW n \in Nat, k <= n, BeginWith(more, es, k),
         NEW f, NEW g, JoinsTo(f, es, k), JoinsTo(g, more, n)
  PROVE  f[k] = g[k]
<1> DEFINE S == {i \in Nat : i <= k => f[i] = g[i]}
<1>1. 0 \in S
  BY DEF JoinsTo
<1>2. ASSUME NEW i \in S PROVE i + 1 \in S
  <2>1. i \in Nat
    OBVIOUS
  <2> SUFFICES ASSUME i + 1 <= k PROVE f[i + 1] = g[i + 1]
    BY <2>1
  <2>2. f[i] = g[i] /\ more[i + 1] = es[i + 1]
    BY <1>2, <2>1 DEF BeginWith
  <2>3. i + 1 \in 0..k /\ i + 1 \in 0..n /\ i + 1 # 0 /\ (i + 1) - 1 = i
    BY <2>1
  <2>4. f[i + 1] = Join(f[i], es[i + 1]) /\ g[i + 1] = Join(g[i], more[i + 1])
    BY <2>3 DEF JoinsTo
  <2> QED  BY <2>2, <2>4
<1> HIDE DEF S
<1>3. S = Nat
  BY <1>1, <1>2, Induction DEF S
<1> QED  BY <1>3 DEF S

\* The recursion of Joined is well founded, and goes from one callback to the next.
LEMMA JoinedIs ==
  /\ Joined(<<>>) = <<>>
  /\ \A es \in Seq(Events), e \in Events : Joined(Append(es, e)) = Join(Joined(es), e)
<1>1. ASSUME NEW es \in Seq(Events)
      PROVE  \E f : JoinsTo(f, es, Len(es)) /\ Joined(es) = f[Len(es)]
  <2> DEFINE f == CHOOSE f : f = [n \in 0..Len(es) |-> IF n = 0 THEN <<>> ELSE Join(f[n - 1], es[n])]
  <2>1. Len(es) \in Nat
    OBVIOUS
  <2>2. \E h : h = [n \in 0..Len(es) |-> IF n = 0 THEN <<>> ELSE Join(h[n - 1], es[n])]
    BY <2>1, JoinPrefix DEF JoinsTo
  <2>3. f = [n \in 0..Len(es) |-> IF n = 0 THEN <<>> ELSE Join(f[n - 1], es[n])]
    BY <2>2
  <2>4. Joined(es) = f[Len(es)]
    BY DEF Joined
  <2> HIDE DEF f
  <2> QED  BY <2>3, <2>4 DEF JoinsTo
<1>2. Joined(<<>>) = <<>>
  <2>1. <<>> \in Seq(Events) /\ Len(<<>>) = 0
    OBVIOUS
  <2>2. PICK f : JoinsTo(f, <<>>, 0) /\ Joined(<<>>) = f[0]
    BY <1>1, <2>1
  <2> QED  BY <2>2 DEF JoinsTo
<1>3. ASSUME NEW es \in Seq(Events), NEW e \in Events
      PROVE  Joined(Append(es, e)) = Join(Joined(es), e)
  <2> DEFINE more == Append(es, e)
             k == Len(es)
  <2>1. /\ more \in Seq(Events) /\ Len(more) = k + 1 /\ k \in Nat /\ more[k + 1] = e
        /\ \A i \in 1..k : more[i] = es[i]
    OBVIOUS
  <2>2. PICK f : JoinsTo(f, es, k) /\ Joined(es) = f[k]
    BY <1>1
  <2> HIDE DEF more
  <2>3. PICK g : JoinsTo(g, more, Len(more)) /\ Joined(more) = g[Len(more)]
    BY <1>1, <2>1
  <2> HIDE DEF k
  <2>4. f[k] = g[k]
    <3>1. k <= k + 1 /\ k + 1 \in Nat /\ JoinsTo(g, more, k + 1) /\ BeginWith(more, es, k)
      BY <2>1, <2>3 DEF BeginWith
    <3> QED  BY <2>1, <2>2, <3>1, JoinPrefixUnique
  <2>5. g[k + 1] = Join(g[k], more[k + 1])
    <3>1. k + 1 \in 0..(k + 1) /\ k + 1 # 0 /\ (k + 1) - 1 = k
      BY <2>1
    <3> QED  BY <2>1, <2>3, <3>1 DEF JoinsTo
  <2> QED  BY <2>1, <2>2, <2>3, <2>4, <2>5 DEF more
<1> QED  BY <1>2, <1>3

\* A callback that does not go on with a payload stands by itself.
LEMMA JoinNew ==
  ASSUME NEW es, NEW e, e.name # "chunk" \/ e.offset = 0
  PROVE  Join(es, e) = Append(es, e)
<1>1. ~(e.name = "chunk" /\ e.offset > 0)
  OBVIOUS
<1> QED  BY <1>1, Zenon DEF Join

\* A chunk that goes on with a payload is put behind what is there of it.
LEMMA JoinMore ==
  ASSUME NEW es \in Seq(Events), NEW id0, NEW type, NEW total, NEW have, NEW offset \in Nat \ {0},
         NEW data
  PROVE  Join(Append(es, OnChunk(id0, type, total, 0, have)), OnChunk(id0, type, total, offset, data)) =
           Append(es, OnChunk(id0, type, total, 0, have \o data))
<1> DEFINE all == have \o data
           a == OnChunk(id0, type, total, 0, have)
           b == OnChunk(id0, type, total, offset, data)
           c == OnChunk(id0, type, total, 0, all)
           as == Append(es, a)
<1> HIDE DEF all
<1>1. b.name = "chunk" /\ b.offset > 0 /\ b.data = data
  BY DEF OnChunk, Callback
<1>2. a.data = have /\ [a EXCEPT !.data = all] = c
  BY DEF OnChunk, Callback
<1> HIDE DEF a, b, c
<1>3. Len(as) = Len(es) + 1 /\ as[Len(es) + 1] = a /\ Len(es) \in Nat
  OBVIOUS
<1>4. Join(as, b) = [as EXCEPT ![Len(as)].data = @ \o b.data]
  BY <1>1 DEF Join
<1>5. [as EXCEPT ![Len(as)].data = @ \o b.data] = [as EXCEPT ![Len(as)] = c]
  <2> HIDE DEF as
  <2>1. as[Len(as)] = a
    BY <1>3
  <2>2. as[Len(as)].data \o b.data = all
    BY <1>1, <1>2, <2>1 DEF all
  <2>3. [as[Len(as)] EXCEPT !.data = all] = c
    BY <1>2, <2>1
  <2> QED  BY <2>2, <2>3
<1>6. [as EXCEPT ![Len(as)] = c] = Append(es, c)
  <2>1. ASSUME NEW x
        PROVE  Append(es, x) = [i \in 1..(Len(es) + 1) |-> IF i = Len(es) + 1 THEN x ELSE es[i]]
    <3> DEFINE xs == Append(es, x)
               S == Events \cup {x}
    <3>1. es \in Seq(S) /\ x \in S
      OBVIOUS
    <3>2. /\ xs \in Seq(S) /\ Len(xs) = Len(es) + 1 /\ xs[Len(es) + 1] = x
          /\ \A i \in 1..Len(es) : xs[i] = es[i]
      BY <3>1, AppendProperties
    <3> HIDE DEF xs, S
    <3>3. xs = [i \in 1..Len(xs) |-> xs[i]]
      BY <3>2
    <3> QED  BY <1>3, <3>2, <3>3 DEF xs
  <2>2. as = [i \in 1..(Len(es) + 1) |-> IF i = Len(es) + 1 THEN a ELSE es[i]]
    BY <2>1
  <2>3. Append(es, c) = [i \in 1..(Len(es) + 1) |-> IF i = Len(es) + 1 THEN c ELSE es[i]]
    BY <2>1
  <2> HIDE DEF as
  <2> QED  BY <1>3, <2>2, <2>3
<1> QED  BY <1>4, <1>5, <1>6 DEF a, b, c, all

-----------------------------------------------------------------------------
(***************************************************************************)
(* What bytes mean.                                                        *)
(***************************************************************************)
\* A step over some bytes is a step wherever they are.
LEMMA GoesFrom ==
  ASSUME NEW s \in Seq(Byte), NEW p \in 0..Len(s), NEW d \in Nat, NEW it, Fresh(it), NEW es
  PROVE  GoesOn(s, Going(p, d, it, es))
<1> DEFINE c == Going(p, d, it, es)
<1>1. c.at = p /\ c.depth = d /\ c.item = it /\ c.events = es
  BY GoingFields
<1>2. c = Going(c.at, c.depth, c.item, c.events)
  BY <1>1
<1> HIDE DEF c
<1> QED  BY <1>1, <1>2 DEF GoesOn, c

LEMMA StepOn ==
  ASSUME NEW s \in Seq(Byte), NEW p \in 0..Len(s), NEW t \in Seq(Byte), NEW q \in 0..Len(t),
         Agree(s, p, t, q), NEW d \in Nat, NEW it, Fresh(it), NEW es,
         Reaches(t, Going(q, d, it, es)),
         Step(s, Going(p, d, it, es)).verdict \in {"none", "InvalidMsg"}
  PROVE  Reaches(t, Moved(Step(s, Going(p, d, it, es)), q - p))
<1> DEFINE c == Going(p, d, it, es)
           k == q - p
<1>1. GoesOn(s, c) /\ c.at = p
  BY GoesFrom, GoingFields
<1>2. Step(t, Moved(c, k)) = Moved(Step(s, c), k)
  <2> HIDE DEF c
  <2> QED  BY <1>1, StepAgrees DEF c
<1>3. Moved(c, k) = Going(q, d, it, es)
  <2>1. Moved(c, k) = Going(p + k, d, it, es) /\ p + k = q
    BY MovedIs
  <2> HIDE DEF c, k
  <2> QED  BY <2>1
<1>4. Reaches(t, Step(t, Moved(c, k)))
  BY <1>3, ReachesStep
<1> QED  BY <1>2, <1>4

LEMMA GoingOn ==
  ASSUME NEW s \in Seq(Byte), NEW p \in 0..Len(s), NEW t \in Seq(Byte), NEW q \in 0..Len(t),
         Agree(s, p, t, q), NEW d \in Nat, NEW it, Fresh(it), NEW es,
         Reaches(t, Going(q, d, it, es)),
         NEW at, NEW depth2, NEW it2, NEW es2,
         Step(s, Going(p, d, it, es)) = Going(at, depth2, it2, es2)
  PROVE  Reaches(t, Going(at + (q - p), depth2, it2, es2))
<1> DEFINE r == Step(s, Going(p, d, it, es))
<1>1. r.verdict = "none" /\ Moved(r, q - p) = Going(at + (q - p), depth2, it2, es2)
  BY GoingFields, MovedIs
<1>2. Reaches(t, Moved(r, q - p))
  BY <1>1, StepOn
<1> QED  BY <1>1, <1>2

LEMMA MalformedOn ==
  ASSUME NEW s \in Seq(Byte), NEW p \in 0..Len(s), NEW t \in Seq(Byte), NEW q \in 0..Len(t),
         Agree(s, p, t, q), NEW d \in Nat, NEW it, Fresh(it), NEW es,
         Reaches(t, Going(q, d, it, es)),
         Step(s, Going(p, d, it, es)) = Malformed(p, d, it, es)
  PROVE  Reaches(t, Malformed(q, d, it, es))
<1> DEFINE r == Step(s, Going(p, d, it, es))
<1>1. p + (q - p) = q
  OBVIOUS
<1>2. r.verdict = "InvalidMsg" /\ Moved(r, q - p) = Malformed(q, d, it, es)
  <2> DEFINE k == q - p
             m == Malformed(p, d, it, es)
  <2>1. m.verdict = "InvalidMsg"
    BY Stopped
  <2>2. Moved(m, k) = Malformed(p + k, d, it, es)
    <3> HIDE DEF k
    <3> QED  BY MovedIs
  <2>3. r = m
    OBVIOUS
  <2> HIDE DEF m, r
  <2> QED  BY <1>1, <2>1, <2>2, <2>3
<1>3. Reaches(t, Moved(r, q - p))
  BY <1>2, StepOn
<1> QED  BY <1>2, <1>3

\* What bytes mean does not depend on those that follow.
LEMMA MeansOn ==
  ASSUME NEW s \in Seq(Byte), NEW t \in Seq(Byte), Agree(s, 0, t, 0), NEW p \in 0..Len(s),
         NEW d, NEW it \in Items, NEW es, Means(s, p, d, it, es)
  PROVE  Means(t, p, d, it, es)
<1>1. ASSUME NEW at, NEW it2, NEW es2, Reaches(s, Going(at, d, it2, es2))
      PROVE  Reaches(t, Going(at, d, it2, es2))
  BY <1>1, ReachesOn, GoingFields
<1>2. CASE it.kind # "payload"
  BY <1>1, <1>2 DEF Means
<1>3. CASE it.kind = "payload"
  <2> DEFINE done == it.total - it.remaining
             fresh == [it EXCEPT !.remaining = it.total]
             from == p - done
  <2>1. PICK evs \in Seq(Events) :
          /\ Reaches(s, Going(from, d, fresh, evs))
          /\ es = IF done = 0 THEN evs
                  ELSE Append(evs, OnChunk(it.id, it.type, it.total, 0, SubSeq(s, from + 1, p)))
    BY <1>3 DEF Means
  <2>2. done \in 0..p /\ it.total \in Int /\ it.remaining \in Int
    BY <1>3, FormatAssumption DEF Means, Items
  <2>3. Reaches(t, Going(from, d, fresh, evs))
    BY <1>1, <2>1
  <2>4. SubSeq(t, from + 1, p) = SubSeq(s, from + 1, p)
    <3> HIDE DEF done
    <3>1. from \in 0..Len(s) /\ done \in 0..(Len(s) - from) /\ from + done = p /\ from \in 0..(Len(s) - 0)
      BY <2>2
    <3>2. 0 \in 0..Len(s) /\ 0 \in 0..Len(t)
      OBVIOUS
    <3> HIDE DEF from
    <3>3. Agree(s, 0 + from, t, 0 + from)
      BY <3>1, <3>2, AgreeBehind
    <3>4. 0 + from = from /\ from \in 0..Len(t)
      BY <3>1 DEF Agree
    <3>5. Agree(s, from, t, from)
      BY <3>3, <3>4
    <3>6. SubSeq(t, from + 1, from + done) = SubSeq(s, from + 1, from + done)
      BY <3>1, <3>4, <3>5, AgreeSubSeq
    <3> QED  BY <3>1, <3>6
  <2> HIDE DEF from, fresh, done
  <2>5. es = IF done = 0 THEN evs
             ELSE Append(evs, OnChunk(it.id, it.type, it.total, 0, SubSeq(t, from + 1, p)))
    BY <2>1, <2>4
  <2> QED  BY <1>3, <2>2, <2>3, <2>5 DEF Means, from, fresh, done
<1> QED  BY <1>2, <1>3

-----------------------------------------------------------------------------
(***************************************************************************)
(* A step of the decoder under the cursor.                                 *)
(***************************************************************************)
\* The parts of the invariants while a feed is under way.
LEMMA FeedFacts ==
  ASSUME TypeInv, PlaceInv, MeaningInv, pc # "idle"
  PROVE  /\ ~invalid
         /\ buf \in Seq(Byte) /\ pos \in 0..Len(buf) /\ fed \in Seq(Byte) /\ At \in 0..Len(fed)
         /\ chunk \in Seq(Byte) /\ held \in 0..Len(buf) /\ depth \in Nat
         /\ Agree(buf, pos, fed, At)
         /\ Means(fed, At, depth, Active, Joined(events)) /\ Joined(events) \in Seq(Events)
<1>1. ~invalid
  BY DEF TypeInv, Latched
<1> QED  BY <1>1, FormatAssumption DEF TypeInv, TypeOK, PlaceInv, MeaningInv

\* The cursor moves on in the bytes that are parsed.
LEMMA PlaceMoves ==
  ASSUME TypeInv, PlaceInv, pc # "idle", pc' # "idle", UNCHANGED <<invalid, fed, chunk, buf, held>>,
         pos' \in pos..Len(buf)
  PROVE  PlaceInv' /\ At' = At + (pos' - pos)
<1> DEFINE k == pos' - pos
<1>1. /\ ~invalid /\ buf \in Seq(Byte) /\ pos \in 0..Len(buf) /\ fed \in Seq(Byte)
      /\ chunk \in Seq(Byte) /\ held \in 0..Len(buf)
  BY DEF TypeInv, Latched, TypeOK
<1>2. /\ At \in 0..Len(fed) /\ Agree(buf, pos, fed, At)
      /\ Len(chunk) <= Len(fed) /\ Agree(chunk, 0, fed, Len(fed) - Len(chunk))
  BY <1>1 DEF PlaceInv
<1>3. k \in 0..(Len(buf) - pos) /\ pos + k = pos'
  <2>1. ASSUME NEW a \in Nat, NEW b \in Nat, NEW c \in a..b PROVE c - a \in 0..(b - a) /\ a + (c - a) = c
    BY <2>1
  <2>2. pos \in Nat /\ Len(buf) \in Nat /\ pos' \in pos..Len(buf)
    BY <1>1
  <2> QED  BY <2>1, <2>2
<1>4. At' = At + k
  <2>1. At = Len(fed) - Unread /\ At' = Len(fed) - Unread'
    BY DEF At
  <2>2. Unread \in Int /\ Unread' = Unread - k /\ Len(fed) \in Nat /\ k \in Int
    BY <1>1, <1>3 DEF Unread
  <2> HIDE DEF k
  <2> QED  BY <1>1, <2>1, <2>2
<1> HIDE DEF k
<1>5. Agree(buf, pos + k, fed, At + k) /\ At + k \in 0..Len(fed)
  BY <1>1, <1>2, <1>3, AgreeBehind
<1>6. PlaceInv'
  BY <1>1, <1>2, <1>3, <1>4, <1>5 DEF PlaceInv
<1> QED  BY <1>4, <1>6 DEF k

\* An array and a field are at their start, or at that of an element.
LEMMA ActiveFresh ==
  ASSUME TypeInv, pc \in {"field", "elements"}
  PROVE  Fresh(Active) /\ Active.kind # "payload" /\ (pc = "field" => Active = NoResume)
<1>1. CASE pc = "field"
  BY <1>1, NoneFresh DEF TypeInv, ItemsWellFormed, Active
<1>2. CASE pc = "elements"
  BY <1>2 DEF TypeInv, TypeOK, ItemsWellFormed, Active, Fresh
<1> QED  BY <1>1, <1>2

\* What the decoder reads under the cursor is what the reference reads there.
LEMMA OneStep ==
  ASSUME TypeInv, PlaceInv, MeaningInv, pc \in {"field", "elements"}, pc' # "idle",
         UNCHANGED <<invalid, fed, chunk, buf, held>>, pos' \in pos..Len(buf),
         Active'.kind # "payload", resume' = resume, Joined(events)' \in Seq(Events),
         Step(buf, Going(pos, depth, Active, Joined(events))) =
           Going(pos', depth', Active', Joined(events)')
  PROVE  PlaceInv' /\ MeaningInv'
<1> DEFINE es == Joined(events)
           es2 == Joined(events)'
           it == Active
           it2 == Active'
<1>1. /\ ~invalid /\ buf \in Seq(Byte) /\ pos \in 0..Len(buf) /\ fed \in Seq(Byte) /\ At \in 0..Len(fed)
      /\ Agree(buf, pos, fed, At) /\ depth \in Nat /\ Means(fed, At, depth, it, es)
  BY FeedFacts
<1>2. Fresh(it) /\ it.kind # "payload"
  BY ActiveFresh
<1>3. PlaceInv' /\ At' = At + (pos' - pos)
  BY PlaceMoves
<1>4. Step(buf, Going(pos, depth, it, es)) = Going(pos', depth', it2, es2) /\ it2.kind # "payload"
  OBVIOUS
<1>5. Reaches(fed, Going(At, depth, it, es))
  BY <1>1, <1>2 DEF Means
<1> DEFINE at2 == At'
<1>6. at2 = pos' + (At - pos)
  <2>1. At \in Int /\ pos \in Int /\ pos' \in Int
    BY <1>1
  <2> QED  BY <1>3, <2>1
<1>7. Reaches(fed, Going(at2, depth', it2, es2))
  <2> HIDE DEF es, es2, it, it2, at2
  <2>1. Reaches(fed, Going(pos' + (At - pos), depth', it2, es2))
    BY <1>1, <1>2, <1>4, <1>5, GoingOn
  <2> QED  BY <1>6, <2>1
<1>8. Means(fed, At, depth, Active, Joined(events))'
  <2>1. Means(fed, at2, depth', it2, es2)
    <3> HIDE DEF es2, it2, at2
    <3> QED  BY <1>4, <1>7 DEF Means
  <2> QED  BY <2>1
<1>9. resume'.kind \in {"int", "fix"} => resume'.remaining > 0
  BY DEF MeaningInv
<1> QED  BY <1>1, <1>3, <1>8, <1>9 DEF MeaningInv

\* What the decoder refuses, the reference refuses.
LEMMA OneRefused ==
  ASSUME TypeInv, PlaceInv, MeaningInv, pc \in {"field", "elements"}, Reject,
         Step(buf, Going(pos, depth, Active, Joined(events))) =
           Malformed(pos, depth, Active, Joined(events))
  PROVE  PlaceInv' /\ MeaningInv'
<1> DEFINE es == Joined(events)
           it == Active
           c == Malformed(At, depth, it, es)
<1>1. /\ ~invalid /\ buf \in Seq(Byte) /\ pos \in 0..Len(buf) /\ fed \in Seq(Byte) /\ At \in 0..Len(fed)
      /\ Agree(buf, pos, fed, At) /\ depth \in Nat /\ Means(fed, At, depth, it, es)
      /\ es \in Seq(Events)
  BY FeedFacts
<1>2. Fresh(it) /\ it.kind # "payload"
  BY ActiveFresh
<1>3. Reaches(fed, Going(At, depth, it, es))
  BY <1>1, <1>2 DEF Means
<1>4. Step(buf, Going(pos, depth, it, es)) = Malformed(pos, depth, it, es)
  OBVIOUS
<1>5. Reaches(fed, c)
  <2> HIDE DEF es, it
  <2> QED  BY <1>1, <1>2, <1>3, <1>4, MalformedOn
<1>6. c.verdict = "InvalidMsg" /\ c.events = es
  BY DEF Malformed
<1>7. /\ invalid' /\ pc' = "idle" /\ result' = "InvalidMsg"
      /\ fed' = fed /\ events' = events /\ resume' = resume
  BY DEF Reject, Latch, Leave
<1>8. \E d : Reaches(fed, d) /\ d.verdict = "InvalidMsg" /\ d.events = Joined(events)
  BY <1>5, <1>6
<1>9. PlaceInv'
  BY <1>7 DEF PlaceInv
<1> HIDE DEF es, it, c
<1>10. Joined(events) \in Seq(Events) /\ (resume.kind \in {"int", "fix"} => resume.remaining > 0)
  BY DEF MeaningInv
<1>11. MeaningInv'
  BY <1>7, <1>8, <1>10 DEF MeaningInv
<1> QED  BY <1>9, <1>11

\* Steps that read nothing.
LEMMA NothingRead ==
  ASSUME TypeInv, MeaningInv, ~invalid, ~invalid', UNCHANGED <<fed, depth, events>>,
         At' = At, Active' = Active,
         resume'.kind \in {"int", "fix"} => resume'.remaining > 0,
         pc' = "idle" => result' = SoFar'
  PROVE  MeaningInv'
<1>1. Means(fed, At, depth, Active, Joined(events)) /\ Joined(events) \in Seq(Events)
  BY DEF MeaningInv
<1>2. Means(fed, At, depth, Active, Joined(events))'
  BY <1>1
<1> QED  BY <1>1, <1>2 DEF MeaningInv

-----------------------------------------------------------------------------
(***************************************************************************)
(* The actions mean what they do.                                          *)
(***************************************************************************)
\* A callback that is no chunk is told as it is.
LEMMA Tells ==
  ASSUME TypeInv, TypeInv', MeaningInv, NEW e, events' = Append(events, e), e.name # "chunk"
  PROVE  Joined(events)' = Append(Joined(events), e) /\ Joined(events)' \in Seq(Events)
<1>1. events \in Seq(Events) /\ Append(events, e) \in Seq(Events) /\ Joined(events) \in Seq(Events)
  BY DEF TypeInv, MeaningInv
<1>2. e \in Events
  BY <1>1, AppendedType
<1>3. Joined(Append(events, e)) = Join(Joined(events), e)
  BY <1>1, <1>2, JoinedIs
<1>4. Join(Joined(events), e) = Append(Joined(events), e)
  BY JoinNew
<1>5. Append(Joined(events), e) \in Seq(Events)
  BY <1>1, <1>2
<1> QED  BY <1>3, <1>4, <1>5

\* The words of the field under the cursor.
LEMMA CursorParts ==
  /\ header = HeadIn(buf, pos) /\ atWord = AtWordIn(buf, pos) /\ word = WordIn(buf, pos)
  /\ atElem = AtElemIn(buf, pos) /\ elem = ElemIn(buf, pos)
  /\ id = IdIn(buf, pos) /\ wire = WireIn(buf, pos)
  /\ length = LengthIn(buf, pos) /\ subtype = SubtypeIn(buf, pos) /\ elemSubtype = ElemSubtypeIn(buf, pos)
  /\ BadFixlen <=> BadFixlenIn(buf, pos)
  /\ BadElem <=> BadElemIn(buf, pos)
  /\ header.status = "ok" /\ id <= IdMax /\ HasWord(wire) <=> HeadReadIn(buf, pos)
<1>1. /\ header = HeadIn(buf, pos) /\ atWord = AtWordIn(buf, pos) /\ word = WordIn(buf, pos)
      /\ atElem = AtElemIn(buf, pos) /\ elem = ElemIn(buf, pos)
      /\ id = IdIn(buf, pos) /\ wire = WireIn(buf, pos)
  BY HeadIsHead DEF IdIn, WireIn
<1>2. /\ length = LengthIn(buf, pos) /\ subtype = SubtypeIn(buf, pos)
      /\ elemSubtype = ElemSubtypeIn(buf, pos)
  BY <1>1 DEF length, subtype, elemSubtype, LengthIn, SubtypeIn, ElemSubtypeIn
<1>3. (BadFixlen <=> BadFixlenIn(buf, pos)) /\ (BadElem <=> BadElemIn(buf, pos))
  BY <1>1, <1>2 DEF BadFixlen, BadFixlenIn, BadElem, BadElemIn
<1>4. header.status = "ok" /\ id <= IdMax /\ HasWord(wire) <=> HeadReadIn(buf, pos)
  BY <1>1 DEF HeadReadIn, IdIn, WireIn
<1> QED  BY <1>1, <1>2, <1>3, <1>4

\* What the reference makes of the field under the cursor.
LEMMA CursorField ==
  ASSUME TypeInv, PlaceInv, MeaningInv, pc = "field", NEW es
  PROVE  /\ Step(buf, Going(pos, depth, Active, es)) = Field(buf, pos, depth, es)
         /\ FieldAnswers(buf, pos, depth, es)
         /\ buf \in Seq(Byte) /\ pos \in 0..Len(buf) /\ depth \in Nat /\ Active = NoResume
<1>1. buf \in Seq(Byte) /\ pos \in 0..Len(buf) /\ depth \in Nat
  BY FeedFacts
<1>2. FieldAnswers(buf, pos, depth, es)
  BY <1>1, HeadInFacts, FieldIs
<1>3. Active = NoResume /\ NoResume.kind = "none"
  BY ActiveFresh, NoneFresh
<1> DEFINE c == Going(pos, depth, NoResume, es)
<1>4. c.at = pos /\ c.depth = depth /\ c.item = NoResume /\ c.events = es
  BY GoingFields
<1>5. c = Going(c.at, c.depth, c.item, c.events)
  BY <1>4
<1>6. Step(buf, c) = Field(buf, pos, depth, es)
  <2> HIDE DEF c
  <2> QED  BY <1>3, <1>4, <1>5, StepIs
<1> QED  BY <1>1, <1>2, <1>3, <1>6

\* A field, or the head of one, that is told as the reference tells it.
LEMMA FieldTold ==
  ASSUME TypeInv, TypeInv', PlaceInv, MeaningInv, pc = "field", pc' \in {"field", "elements"},
         NEW e, events' = Append(events, e), e.name # "chunk",
         UNCHANGED <<invalid, fed, chunk, buf, held, resume>>, pos' \in pos..Len(buf),
         Field(buf, pos, depth, Joined(events)) =
           Going(pos', depth', Active', Append(Joined(events), e))
  PROVE  PlaceInv' /\ MeaningInv'
<1>1. Joined(events)' = Append(Joined(events), e) /\ Joined(events)' \in Seq(Events)
  BY Tells
<1>2. Step(buf, Going(pos, depth, Active, Joined(events))) = Field(buf, pos, depth, Joined(events))
  BY CursorField
<1>3. Active'.kind # "payload"
  <2>1. CASE pc' = "field"
    BY <2>1, NoneFresh DEF TypeInv, ItemsWellFormed, Active
  <2>2. CASE pc' = "elements"
    BY <2>2 DEF TypeInv, ItemsWellFormed, Active
  <2> QED  BY <2>1, <2>2
<1> QED  BY <1>1, <1>2, <1>3, OneStep

\* Where the words of the field end.
LEMMA WordsEnd ==
  ASSUME TypeInv, header.status = "ok"
  PROVE  /\ atWord \in pos..Len(buf)
         /\ word.status = "ok" => atElem \in pos..Len(buf)
         /\ word.status = "ok" /\ elem.status = "ok" => atElem + elem.len \in pos..Len(buf)
<1>1. TypeOK /\ pos \in Nat /\ Len(buf) \in Nat
  BY DEF TypeInv, TypeOK
<1>2. atWord \in (pos + 1)..Len(buf)
  BY <1>1, HeadFacts
<1>3. word.status = "ok" => atElem \in (atWord + 1)..Len(buf)
  BY <1>1, HeadFacts
<1>4. word.status = "ok" /\ elem.status = "ok" => atElem + elem.len \in (atElem + 1)..Len(buf)
  BY <1>1, HeadFacts
<1> DEFINE behind == atElem + elem.len
<1>5. word.status = "ok" /\ elem.status = "ok" => behind \in (atElem + 1)..Len(buf)
  BY <1>4
<1> HIDE DEF behind
<1> QED  BY <1>1, <1>2, <1>3, <1>5 DEF behind

\* A scalar, and the two ends of a sequence.
LEMMA MeansScalar ==
  ASSUME TypeInv, PlaceInv, MeaningInv, Scalar
  PROVE  PlaceInv' /\ MeaningInv'
<1>1. TypeInv'
  BY TypeScalar
<1>2. /\ pc = "field" /\ pc' = "field" /\ header.status = "ok" /\ word.status = "ok" /\ id <= IdMax
      /\ HasWord(wire) /\ wire \in {T_VARINT_UNSIGNED, T_VARINT_SIGNED}
      /\ UNCHANGED <<invalid, fed, chunk, buf, held, resume, depth>> /\ pos' = atElem
      /\ events' = Append(events, IF wire = T_VARINT_SIGNED
                                    THEN OnSigned(id, ZigZagDecode(word.value))
                                    ELSE OnUnsigned(id, word.value))
  BY DEF Scalar, WordRead, HeaderRead, AtField
<1>3. pos' \in pos..Len(buf)
  BY <1>2, WordsEnd
<1>4. Active' = NoResume
  BY <1>1, <1>2 DEF TypeInv, ItemsWellFormed, Active
<1>5. FieldAnswers(buf, pos, depth, Joined(events))
  BY <1>2, CursorField
<1> DEFINE es == Joined(events)
<1>6. CASE wire = T_VARINT_SIGNED
  <2> DEFINE e == OnSigned(id, ZigZagDecode(word.value))
  <2>1. e.name # "chunk" /\ events' = Append(events, e)
    BY <1>2, <1>6 DEF OnSigned, Callback
  <2>2. SignedIn(buf, pos) /\ e = SignedOf(buf, pos) /\ AtElemIn(buf, pos) = atElem
    BY <1>2, <1>6, CursorParts DEF SignedIn, WordReadIn, SignedOf
  <2>3. Field(buf, pos, depth, es) = Going(atElem, depth, NoResume, Append(es, e))
    BY <1>5, <2>2 DEF FieldAnswers
  <2>4. Field(buf, pos, depth, es) = Going(pos', depth', Active', Append(es, e))
    BY <1>2, <1>4, <2>3
  <2> HIDE DEF e
  <2> QED  BY <1>1, <1>2, <1>3, <2>1, <2>4, FieldTold
<1>7. CASE wire # T_VARINT_SIGNED
  <2> DEFINE e == OnUnsigned(id, word.value)
  <2>1. e.name # "chunk" /\ events' = Append(events, e)
    BY <1>2, <1>7 DEF OnUnsigned, Callback
  <2>2. UnsignedIn(buf, pos) /\ e = UnsignedOf(buf, pos) /\ AtElemIn(buf, pos) = atElem
    BY <1>2, <1>7, CursorParts DEF UnsignedIn, WordReadIn, UnsignedOf
  <2>3. Field(buf, pos, depth, es) = Going(atElem, depth, NoResume, Append(es, e))
    BY <1>5, <2>2 DEF FieldAnswers
  <2>4. Field(buf, pos, depth, es) = Going(pos', depth', Active', Append(es, e))
    BY <1>2, <1>4, <2>3
  <2> HIDE DEF e
  <2> QED  BY <1>1, <1>2, <1>3, <2>1, <2>4, FieldTold
<1> QED  BY <1>6, <1>7

LEMMA MeansSequence ==
  ASSUME TypeInv, PlaceInv, MeaningInv, SequenceBegin \/ SequenceEnd
  PROVE  PlaceInv' /\ MeaningInv'
<1>1. TypeInv'
  BY TypeSequence
<1>2. /\ pc = "field" /\ pc' = "field" /\ header.status = "ok" /\ id <= IdMax
      /\ UNCHANGED <<invalid, fed, chunk, buf, held, resume>> /\ pos' = atWord
  BY DEF SequenceBegin, SequenceEnd, HeaderRead, AtField
<1>3. pos' \in pos..Len(buf)
  BY <1>2, WordsEnd
<1>4. Active' = NoResume
  BY <1>1, <1>2 DEF TypeInv, ItemsWellFormed, Active
<1>5. FieldAnswers(buf, pos, depth, Joined(events)) /\ depth \in Nat /\ MaxDepth \in Nat
  BY <1>2, CursorField, FormatAssumption
<1> DEFINE es == Joined(events)
<1>6. CASE SequenceBegin
  <2> DEFINE e == OnSequenceBegin(id)
  <2>1. /\ e.name # "chunk" /\ events' = Append(events, e) /\ depth' = depth + 1
        /\ wire = T_SEQUENCE_START /\ depth < MaxDepth
    BY <1>5, <1>6 DEF SequenceBegin, OnSequenceBegin, Callback, TooDeep, HeaderRead
  <2>2. BeginsIn(buf, pos, depth) /\ IdIn(buf, pos) = id /\ AtWordIn(buf, pos) = atWord
    BY <1>2, <2>1, CursorParts DEF BeginsIn
  <2>3. Field(buf, pos, depth, es) = Going(pos', depth', Active', Append(es, e))
    BY <1>2, <1>4, <1>5, <2>1, <2>2 DEF FieldAnswers
  <2> HIDE DEF e
  <2> QED  BY <1>1, <1>2, <1>3, <2>1, <2>3, FieldTold
<1>7. CASE SequenceEnd
  <2> DEFINE e == OnSequenceEnd
  <2>1. /\ e.name # "chunk" /\ events' = Append(events, e) /\ depth' = depth - 1
        /\ wire = T_SEQUENCE_END /\ depth > 0
    BY <1>5, <1>7 DEF SequenceEnd, OnSequenceEnd, Callback, HeaderRead
  <2>2. EndsIn(buf, pos, depth) /\ AtWordIn(buf, pos) = atWord
    BY <1>2, <2>1, CursorParts DEF EndsIn
  <2>3. Field(buf, pos, depth, es) = Going(pos', depth', Active', Append(es, e))
    BY <1>2, <1>4, <1>5, <2>1, <2>2 DEF FieldAnswers
  <2> HIDE DEF e
  <2> QED  BY <1>1, <1>2, <1>3, <2>1, <2>3, FieldTold
<1> QED  BY <1>6, <1>7

\* An array, or the one float of a scalar field, is announced.
LEMMA MeansAnnounced ==
  ASSUME TypeInv, PlaceInv, MeaningInv, FixlenFloat \/ IntArray \/ FloatArray
  PROVE  PlaceInv' /\ MeaningInv'
<1>1. TypeInv'
  BY TypeAnnounced
<1>2. /\ pc = "field" /\ header.status = "ok" /\ word.status = "ok" /\ id <= IdMax /\ HasWord(wire)
  BY DEF FixlenFloat, IntArray, FloatArray, ElemRead, CountRead, WordRead, HeaderRead, AtField
<1> DEFINE es == Joined(events)
<1>3. FieldAnswers(buf, pos, depth, es) /\ depth \in Nat /\ HeadReadIn(buf, pos)
  BY <1>2, CursorField, CursorParts
<1>4. WordReadIn(buf, pos)
  BY <1>2, <1>3, CursorParts DEF WordReadIn
<1>5. ASSUME NEW e, NEW at, NEW it, Announce(e, at, it), e.name # "chunk", at \in pos..Len(buf),
             Field(buf, pos, depth, es) = Going(at, depth, it, Append(es, e))
      PROVE  PlaceInv' /\ MeaningInv'
  <2>1. /\ pc' = "elements" /\ events' = Append(events, e) /\ pos' = at /\ item' = it
        /\ UNCHANGED <<invalid, fed, chunk, buf, held, resume, depth>>
    BY <1>5 DEF Announce
  <2>2. Active' = it
    BY <2>1 DEF Active
  <2>3. Field(buf, pos, depth, es) = Going(pos', depth', Active', Append(es, e)) /\ pos' \in pos..Len(buf)
    BY <1>5, <2>1, <2>2
  <2> QED  BY <1>1, <1>2, <1>5, <2>1, <2>3, FieldTold
<1>6. CASE FixlenFloat
  <2> DEFINE e == OnFixlenBegin(id, subtype, length)
             it == Resume("fix", id, subtype, 0, 1)
  <2>1. /\ Announce(e, atElem, it) /\ e.name # "chunk"
        /\ wire = T_FIXLEN /\ subtype \in Floats /\ ~BadFixlen
    BY <1>6 DEF FixlenFloat, OnFixlenBegin, Callback
  <2>2. FloatIn(buf, pos) /\ e = FixlenOf(buf, pos) /\ it = FloatOf(buf, pos) /\ AtElemIn(buf, pos) = atElem
    BY <1>4, <2>1, CursorParts DEF FloatIn, FixlenOf, FloatOf
  <2>3. Field(buf, pos, depth, es) = Going(atElem, depth, it, Append(es, e))
    BY <1>3, <2>2 DEF FieldAnswers
  <2>4. atElem \in pos..Len(buf)
    BY <1>2, WordsEnd
  <2> HIDE DEF e, it
  <2> QED  BY <1>5, <2>1, <2>3, <2>4
<1>7. CASE IntArray
  <2> DEFINE kind == IF wire = T_VARINTARRAY_SIGNED THEN KindSigned ELSE KindUnsigned
             e == OnArrayBegin(id, kind, word.value)
             it == Resume("int", id, kind, 0, word.value)
  <2>1. /\ Announce(e, atElem, it) /\ e.name # "chunk"
        /\ wire \in IntArrays /\ word.value <= ArrayMax
    BY <1>7 DEF IntArray, CountRead, OnArrayBegin, Callback
  <2>2. /\ IntArrayIn(buf, pos) /\ kind = IntKindIn(buf, pos)
        /\ e = ArrayOf(buf, pos, kind) /\ it = IntsOf(buf, pos) /\ AtElemIn(buf, pos) = atElem
    BY <1>4, <2>1, CursorParts DEF IntArrayIn, ArrayOf, IntsOf, IntKindIn
  <2>3. Field(buf, pos, depth, es) = Going(atElem, depth, it, Append(es, e))
    <3> HIDE DEF kind, e, it
    <3> QED  BY <1>3, <2>2 DEF FieldAnswers
  <2>4. atElem \in pos..Len(buf)
    BY <1>2, WordsEnd
  <2> HIDE DEF e, it
  <2> QED  BY <1>5, <2>1, <2>3, <2>4
<1>8. CASE FloatArray
  <2> DEFINE kind == IF elemSubtype = Fp64 THEN KindFp64 ELSE KindFp32
             e == OnArrayBegin(id, kind, word.value)
             it == Resume("fix", id, elemSubtype, 0, word.value)
             at == atElem + elem.len
  <2>1. /\ Announce(e, at, it) /\ e.name # "chunk"
        /\ wire = T_FIXLENARRAY /\ word.value <= ArrayMax /\ elem.status = "ok" /\ ~BadElem
    BY <1>8 DEF FloatArray, ElemRead, CountRead, OnArrayBegin, Callback
  <2>2. /\ FloatArrayIn(buf, pos) /\ kind = FloatKindIn(buf, pos)
        /\ e = ArrayOf(buf, pos, kind) /\ it = FloatsOf(buf, pos)
        /\ AtElemIn(buf, pos) + ElemIn(buf, pos).len = at
    <3>1. CountReadIn(buf, pos)
      BY <1>2, <1>3, <2>1, CursorParts DEF CountReadIn, WireIn
    <3> QED  BY <2>1, <3>1, CursorParts DEF FloatArrayIn, ArrayOf, FloatsOf, FloatKindIn
  <2>3. Field(buf, pos, depth, es) = Going(at, depth, it, Append(es, e))
    <3> HIDE DEF kind, e, it, at
    <3> QED  BY <1>3, <2>2 DEF FieldAnswers
  <2>4. at \in pos..Len(buf)
    BY <1>2, <2>1, WordsEnd
  <2> HIDE DEF e, it, at
  <2> QED  BY <1>5, <2>1, <2>3, <2>4
<1> QED  BY <1>6, <1>7, <1>8

\* What the reference makes of the element under the cursor.
LEMMA CursorElement ==
  ASSUME TypeInv, PlaceInv, MeaningInv, pc = "elements", NEW es
  PROVE  /\ Step(buf, Going(pos, depth, Active, es)) = Element(buf, pos, depth, item, es)
         /\ element = ElementIn(item, buf, pos)
         /\ element.status = "ok" => OnElement(element) = ElementOf(item, buf, pos)
         /\ Active = item
<1>1. Active = item /\ item.kind \in {"int", "fix"}
  BY DEF Active, TypeInv, ItemsWellFormed
<1> DEFINE c == Going(pos, depth, item, es)
<1>2. c.at = pos /\ c.depth = depth /\ c.item = item /\ c.events = es
  BY GoingFields
<1>3. c = Going(c.at, c.depth, c.item, c.events)
  BY <1>2
<1>4. Step(buf, c) = Element(buf, pos, depth, item, es)
  <2> HIDE DEF c
  <2> QED  BY <1>1, <1>2, <1>3, StepIs
<1>5. element = ElementIn(item, buf, pos)
  BY DEF element, ElementIn
<1>6. OnElement(element) = ElementOf(item, buf, pos)
  BY <1>1, <1>5, OnElementIs DEF ElementOf
<1> QED  BY <1>1, <1>4, <1>5, <1>6

LEMMA MeansElementRead ==
  ASSUME TypeInv, PlaceInv, MeaningInv, ElementRead
  PROVE  PlaceInv' /\ MeaningInv'
<1> DEFINE es == Joined(events)
           e == OnElement(element)
           it == [item EXCEPT !.remaining = @ - 1]
<1>1. TypeInv'
  BY TypeElementRead
<1>2. /\ pc = "elements" /\ pc' = "elements" /\ item.remaining > 0 /\ element.status = "ok"
      /\ events' = Append(events, e) /\ pos' = pos + element.len /\ item' = it
      /\ UNCHANGED <<invalid, fed, chunk, buf, held, resume, depth>>
  BY DEF ElementRead
<1>3. e.name # "chunk"
  <2>1. item.kind = "fix" \/ item.kind = "int"
    BY <1>2 DEF TypeInv, ItemsWellFormed
  <2> QED  BY <1>2, <2>1, OnElementIs DEF OnFloat, OnSigned, OnUnsigned, Callback
<1>4. Joined(events)' = Append(es, e) /\ Joined(events)' \in Seq(Events)
  <2> HIDE DEF e
  <2> QED  BY <1>1, <1>2, <1>3, Tells
<1>5. pos' \in pos..Len(buf)
  <2>1. pos \in Nat /\ Len(buf) \in Nat
    BY DEF TypeInv, TypeOK
  <2>2. pos' \in (pos + 1)..Len(buf)
    BY <1>2, ElementFacts
  <2> QED  BY <2>1, <2>2
<1>6. /\ Step(buf, Going(pos, depth, Active, es)) = Element(buf, pos, depth, item, es)
      /\ element = ElementIn(item, buf, pos) /\ e = ElementOf(item, buf, pos)
  BY <1>2, CursorElement
<1>7. Element(buf, pos, depth, item, es) = Going(pos', depth', it, Append(es, e))
  <2> HIDE DEF e
  <2> QED  BY <1>2, <1>6, ElementIs
<1>8. Active' = it
  BY <1>2 DEF Active
<1>9. Active'.kind # "payload"
  BY <1>1, <1>2 DEF TypeInv, ItemsWellFormed, Active
<1>10. Step(buf, Going(pos, depth, Active, es)) = Going(pos', depth', Active', Joined(events)')
  BY <1>4, <1>6, <1>7, <1>8
<1> HIDE DEF e, it
<1> QED  BY <1>2, <1>4, <1>5, <1>9, <1>10, OneStep

LEMMA MeansElementsRead ==
  ASSUME TypeInv, PlaceInv, MeaningInv, ElementsRead
  PROVE  PlaceInv' /\ MeaningInv'
<1> DEFINE es == Joined(events)
<1>1. /\ pc = "elements" /\ pc' = "field" /\ item.remaining = 0 /\ pos' = pos
      /\ UNCHANGED <<invalid, fed, chunk, buf, held, resume, depth, events>>
  BY DEF ElementsRead
<1>2. Active' = NoResume /\ NoResume.kind = "none"
  BY <1>1, NoneFresh DEF TypeInv, ItemsWellFormed, Active
<1>3. Joined(events)' = es /\ es \in Seq(Events)
  BY <1>1, FeedFacts
<1>4. Step(buf, Going(pos, depth, Active, es)) = Going(pos', depth', Active', Joined(events)')
  <2>1. Element(buf, pos, depth, item, es) = Going(pos, depth, NoResume, es)
    <3> HIDE DEF es
    <3>1. item.remaining = 0
      BY <1>1
    <3> QED  BY <3>1 DEF Element
  <2>2. Step(buf, Going(pos, depth, Active, es)) = Element(buf, pos, depth, item, es)
    BY <1>1, CursorElement
  <2> QED  BY <1>1, <1>2, <1>3, <2>1, <2>2
<1>5. pos' \in pos..Len(buf)
  BY <1>1 DEF TypeInv, TypeOK
<1> QED  BY <1>1, <1>2, <1>3, <1>4, <1>5, OneStep

\* Malformed bytes.
LEMMA MeansMalformed ==
  ASSUME TypeInv, PlaceInv, MeaningInv, ElementMalformed \/ FieldMalformed
  PROVE  PlaceInv' /\ MeaningInv'
<1> DEFINE es == Joined(events)
<1>1. CASE ElementMalformed
  <2>1. pc = "elements" /\ item.remaining > 0 /\ element.status = "invalid" /\ Reject
    BY <1>1 DEF ElementMalformed
  <2>2. Step(buf, Going(pos, depth, Active, es)) = Malformed(pos, depth, Active, es)
    <3>1. item.remaining # 0
      BY <2>1
    <3>2. /\ Step(buf, Going(pos, depth, Active, es)) = Element(buf, pos, depth, item, es)
          /\ ElementIn(item, buf, pos).status = "invalid" /\ Active = item
      BY <2>1, CursorElement
    <3>3. Element(buf, pos, depth, item, es) = Malformed(pos, depth, item, es)
      BY <3>1, <3>2 DEF Element, ElementIn
    <3> QED  BY <3>2, <3>3
  <2> QED  BY <2>1, <2>2, OneRefused
<1>2. CASE FieldMalformed
  <2>1. pc = "field" /\ Reject
    BY <1>2 DEF FieldMalformed, AtField
  <2>2. HeadBadIn(buf, pos, depth)
    <3>1. HeadReadIn(buf, pos) /\ wire = T_FIXLENARRAY /\ word.status = "ok" /\ word.value <= ArrayMax
            => CountReadIn(buf, pos)
      BY CursorParts DEF CountReadIn, WireIn
    <3>2. HeadReadIn(buf, pos) /\ word.status = "ok" => WordReadIn(buf, pos)
      BY CursorParts DEF WordReadIn
    <3> QED  BY <1>2, <3>1, <3>2, CursorParts DEF FieldMalformed, HeadBadIn, HeaderRead, WordRead,
               CountRead, ElemRead, TooDeep
  <2>3. Step(buf, Going(pos, depth, Active, es)) = Malformed(pos, depth, Active, es)
    BY <2>1, <2>2, CursorField DEF FieldAnswers
  <2> QED  BY <2>1, <2>3, OneRefused
<1> QED  BY <1>1, <1>2

\* Steps of a feed that read nothing.
LEMMA MeansSilent ==
  ASSUME TypeInv, PlaceInv, MeaningInv,
         ResumeNothing \/ ResumeArray \/ ElementShort \/ FieldShort \/ NoMoreFields
  PROVE  PlaceInv' /\ MeaningInv'
<1>1. /\ pc # "idle" /\ pc' # "idle" /\ ~invalid /\ pos \in Nat /\ Len(buf) \in Nat /\ pos <= Len(buf)
      /\ UNCHANGED <<invalid, fed, depth, events, chunk, buf, held, pos>>
  BY DEF ResumeNothing, ResumeArray, ElementShort, FieldShort, NoMoreFields, AtField, feedVars,
         TypeInv, TypeOK, Latched
<1>2. PlaceInv' /\ At' = At + (pos' - pos)
  BY <1>1, PlaceMoves
<1>3. At' = At
  <2>1. At \in Int
    BY <1>1 DEF PlaceInv
  <2> QED  BY <1>1, <1>2, <2>1
<1>4. Active' = Active
  BY <1>1 DEF ResumeNothing, ResumeArray, ElementShort, FieldShort, NoMoreFields, AtField, feedVars,
              Active, TypeInv, ItemsWellFormed
<1>5. resume'.kind \in {"int", "fix"} => resume'.remaining > 0
  <2>1. CASE ElementShort
    BY <2>1 DEF ElementShort
  <2>2. CASE ResumeArray
    BY <2>2, NoneFresh DEF ResumeArray
  <2>3. CASE ResumeNothing \/ FieldShort \/ NoMoreFields
    BY <2>3 DEF ResumeNothing, FieldShort, NoMoreFields, MeaningInv
  <2> QED  BY <2>1, <2>2, <2>3
<1> QED  BY <1>1, <1>2, <1>3, <1>4, <1>5, NothingRead

\* Bytes put behind others.
Continues(s, f, c, q, n) ==
  /\ Agree(s \o SubSeq(c, 1, n), 0, f \o c, q)
  /\ Agree(f, 0, f \o c, 0) /\ Agree(c, 0, f \o c, Len(f))
  /\ Len(s \o SubSeq(c, 1, n)) = Len(s) + n

LEMMA AgreeConcat ==
  ASSUME NEW s \in Seq(Byte), NEW f \in Seq(Byte), NEW c \in Seq(Byte), NEW q \in 0..Len(f),
         Agree(s, 0, f, q), Len(s) = Len(f) - q, NEW n \in 0..Len(c)
  PROVE  Continues(s, f, c, q, n)
<1> DEFINE front == SubSeq(c, 1, n)
           long == s \o front
           all == f \o c
<1>1. Len(s) \in Nat /\ Len(f) \in Nat /\ Len(c) \in Nat /\ n \in Nat /\ n <= Len(c)
  OBVIOUS
<1>2. front \in Seq(Byte) /\ Len(front) = n /\ \A i \in 1..n : front[i] = c[i]
  <2>1. 1 \in 1..(Len(c) + 1) /\ n \in (1 - 1)..Len(c)
    BY <1>1
  <2>2. /\ front \in Seq(Byte) /\ Len(front) = n - 1 + 1
        /\ \A i \in 1..(n - 1 + 1) : front[i] = c[1 + i - 1]
    BY <2>1, SubSeqProperties
  <2>3. n - 1 + 1 = n /\ \A i \in 1..n : 1 + i - 1 = i
    BY <1>1
  <2> QED  BY <2>2, <2>3
<1> HIDE DEF front
<1>3. /\ Len(long) = Len(s) + n
      /\ \A i \in 1..Len(s) : long[i] = s[i]
      /\ \A i \in 1..n : long[Len(s) + i] = front[i]
  <2>1. ASSUME NEW a \in Seq(Byte), NEW b \in Seq(Byte)
        PROVE  /\ Len(a \o b) = Len(a) + Len(b)
               /\ \A i \in 1..Len(a) : (a \o b)[i] = a[i]
               /\ \A i \in 1..Len(b) : (a \o b)[Len(a) + i] = b[i]
    BY ConcatProperties
  <2> QED  BY <1>2, <2>1
<1>4. /\ Len(all) = Len(f) + Len(c)
      /\ \A i \in 1..Len(f) : all[i] = f[i]
      /\ \A i \in 1..Len(c) : all[Len(f) + i] = c[i]
  BY <1>1, ConcatProperties
<1> HIDE DEF long, all
<1>5. ASSUME NEW i \in 1..(Len(s) + n)
      PROVE  long[i] = all[q + i]
  <2>1. CASE i <= Len(s)
    <3>1. i \in 1..Len(s) /\ q + i \in 1..Len(f)
      BY <1>1, <2>1
    <3>2. s[0 + i] = f[q + i] /\ 0 + i = i
      <4>1. i \in 1..(Len(s) - 0) /\ 0 + i = i
        BY <1>1, <3>1
      <4> QED  BY <4>1 DEF Agree
    <3> QED  BY <1>3, <1>4, <3>1, <3>2
  <2>2. CASE i > Len(s)
    <3> DEFINE j == i - Len(s)
    <3>1. j \in 1..n /\ j \in 1..Len(c) /\ i = Len(s) + j /\ q + i = Len(f) + j
      BY <1>1, <2>2
    <3> HIDE DEF j
    <3> QED  BY <1>2, <1>3, <1>4, <3>1
  <2> QED  BY <1>1, <2>1, <2>2
<1>6. Agree(long, 0, all, q)
  <2>1. Len(long) - 0 = Len(s) + n /\ Len(long) - 0 <= Len(all) - q /\ \A i \in 1..(Len(s) + n) : 0 + i = i
    BY <1>1, <1>3, <1>4
  <2> QED  BY <1>5, <2>1 DEF Agree
<1>7. Agree(f, 0, all, 0)
  <2>1. Len(f) - 0 = Len(f) /\ Len(all) - 0 = Len(all) /\ \A i \in 1..Len(f) : 0 + i = i
    BY <1>1, <1>4
  <2>2. Len(f) <= Len(all)
    BY <1>1, <1>4
  <2> QED  BY <1>4, <2>1, <2>2 DEF Agree
<1>8. Agree(c, 0, all, Len(f))
  <2>1. Len(c) - 0 = Len(c) /\ Len(all) - Len(f) = Len(c) /\ \A i \in 1..Len(c) : 0 + i = i
    BY <1>1, <1>4
  <2> QED  BY <1>1, <1>4, <2>1 DEF Agree
<1> QED  BY <1>3, <1>6, <1>7, <1>8 DEF long, all, front, Continues

\* A feed begins.
LEMMA MeansFeed ==
  ASSUME TypeInv, PlaceInv, MeaningInv, NEW c \in Seq(Byte), Feed(c)
  PROVE  PlaceInv' /\ MeaningInv'
<1>1. CASE invalid
  <2>1. /\ pc = "idle" /\ result' = "InvalidMsg"
        /\ UNCHANGED <<pc, chunk, buf, pos, held, item, fed, carry, resume, depth, invalid, message, events>>
    BY <1>1 DEF Feed, feedVars
  <2>2. MeaningInv'
    <3>1. /\ Joined(events) \in Seq(Events) /\ (resume.kind \in {"int", "fix"} => resume.remaining > 0)
          /\ \E d : Reaches(fed, d) /\ d.verdict = "InvalidMsg" /\ d.events = Joined(events)
      BY <1>1 DEF MeaningInv
    <3>2. Joined(events)' = Joined(events)
      BY <2>1
    <3> QED  BY <1>1, <2>1, <3>1, <3>2 DEF MeaningInv
  <2> QED  BY <1>1, <2>1, <2>2 DEF PlaceInv
<1>2. CASE ~invalid
  <2> DEFINE take == IF carry = <<>> THEN Len(c) ELSE Smaller(CarryCap - Len(carry), Len(c))
             front == SubSeq(c, 1, take)
  <2>1. /\ pc = "idle" /\ pc' = "resume" /\ chunk' = c /\ pos' = 0 /\ fed' = fed \o c
        /\ buf' = carry \o front /\ held' = Len(carry)
        /\ UNCHANGED <<carry, resume, depth, invalid, item, events>>
    BY <1>2 DEF Feed, Stitch
  <2>2. carry \in Seq(Byte) /\ Len(carry) \in Nat /\ Len(c) \in Nat /\ Len(carry) <= CarryCap
        /\ CarryCap \in Nat /\ fed \in Seq(Byte) /\ Len(fed) \in Nat /\ resume \in Items
    BY LimitFacts DEF TypeInv, TypeOK, CarryFits
  <2>3. take \in 0..Len(c) /\ (Len(carry) = 0 => take = Len(c))
    BY <2>2 DEF Smaller
  <2>4. At \in 0..Len(fed) /\ Agree(carry, 0, fed, At)
    BY <1>2, <2>1 DEF PlaceInv
  <2>5. At = Len(fed) - Len(carry)
    BY <2>1 DEF At, Unread
  <2> HIDE DEF take
  <2>6. /\ Agree(buf', 0, fed', At) /\ Agree(fed, 0, fed', 0) /\ Agree(chunk', 0, fed', Len(fed))
        /\ Len(buf') = Len(carry) + take
    <3> DEFINE at == At
    <3>1. at \in 0..Len(fed) /\ Agree(carry, 0, fed, at) /\ Len(carry) = Len(fed) - at
      BY <2>2, <2>4, <2>5
    <3> HIDE DEF at
    <3>2. /\ Agree(carry \o SubSeq(c, 1, take), 0, fed \o c, at)
          /\ Agree(fed, 0, fed \o c, 0) /\ Agree(c, 0, fed \o c, Len(fed))
          /\ Len(carry \o SubSeq(c, 1, take)) = Len(carry) + take
      <4>1. Continues(carry, fed, c, at, take)
        BY <2>2, <2>3, <3>1, AgreeConcat
      <4> QED  BY <4>1 DEF Continues
    <3> QED  BY <2>1, <3>2 DEF at
  <2> HIDE DEF front
  <2>7. Len(fed') = Len(fed) + Len(c) /\ fed' \in Seq(Byte)
    BY <2>1, <2>2, ConcatProperties
  <2>8. At' = At
    <3>1. Unread' = Len(carry) + Len(c)
      <4>1. CASE Len(carry) > 0
        BY <2>1, <2>2, <4>1 DEF Unread
      <4>2. CASE Len(carry) = 0
        BY <2>1, <2>2, <2>3, <2>6, <4>2 DEF Unread
      <4> QED  BY <2>2, <4>1, <4>2
    <3>2. At' = Len(fed') - Unread'
      BY DEF At
    <3> QED  BY <2>2, <2>5, <2>7, <3>1, <3>2
  <2>9. PlaceInv'
    <3>1. At' \in 0..Len(fed') /\ Len(chunk') <= Len(fed') /\ Len(fed') - Len(chunk') = Len(fed)
      BY <2>1, <2>2, <2>4, <2>7, <2>8
    <3> QED  BY <2>1, <2>6, <2>8, <3>1 DEF PlaceInv
  <2>10. Means(fed, At, depth, Active, Joined(events))'
    <3> DEFINE at == At
               es == Joined(events)
    <3>1. Active = resume /\ Active' = resume /\ Joined(events)' = es
      BY <2>1 DEF Active
    <3>2. Means(fed, at, depth, resume, es)
      BY <1>2, <3>1 DEF MeaningInv
    <3>3. Means(fed', at, depth, resume, es)
      <4>1. at \in 0..Len(fed)
        BY <2>4
      <4> HIDE DEF at, es
      <4> QED  BY <2>2, <2>6, <2>7, <3>2, <4>1, MeansOn
    <3> QED  BY <2>1, <2>8, <3>1, <3>3
  <2> QED  BY <1>2, <2>1, <2>9, <2>10 DEF MeaningInv
<1> QED  BY <1>1, <1>2

\* Bytes that are cut off in front agree with the same.
LEMMA SuffixAgrees ==
  ASSUME NEW s \in Seq(Byte), NEW p \in 0..Len(s), NEW t \in Seq(Byte), NEW q \in 0..Len(t),
         Agree(s, p, t, q)
  PROVE  /\ Agree(SubSeq(s, p + 1, Len(s)), 0, t, q)
         /\ Len(SubSeq(s, p + 1, Len(s))) = Len(s) - p
<1> DEFINE n == Len(s) - p
           u == SubSeq(s, p + 1, Len(s))
<1>1. Len(s) \in Nat /\ p \in Nat /\ n \in Nat
  OBVIOUS
<1>2. p + 1 \in 1..(Len(s) + 1) /\ Len(s) \in (p + 1 - 1)..Len(s)
  BY <1>1
<1>3. /\ Len(u) = Len(s) - (p + 1) + 1
      /\ \A i \in 1..(Len(s) - (p + 1) + 1) : u[i] = s[(p + 1) + i - 1]
  BY <1>2, SubSeqProperties
<1>4. Len(s) - (p + 1) + 1 = n /\ \A i \in 1..n : (p + 1) + i - 1 = p + i /\ 0 + i = i
  BY <1>1
<1> HIDE DEF u
<1>5. Len(u) = n /\ \A i \in 1..n : u[0 + i] = s[p + i]
  BY <1>3, <1>4
<1>6. n <= Len(t) - q /\ \A i \in 1..n : s[p + i] = t[q + i]
  BY DEF Agree
<1> HIDE DEF n
<1>7. Len(u) - 0 = n
  BY <1>1, <1>5
<1>8. Agree(u, 0, t, q)
  BY <1>5, <1>6, <1>7 DEF Agree
<1> QED  BY <1>5, <1>8 DEF u, n

\* The rest of the chunk is parsed in place.
LEMMA MeansCarryConsumed ==
  ASSUME TypeInv, PlaceInv, MeaningInv, CarryConsumed
  PROVE  PlaceInv' /\ MeaningInv'
<1>1. /\ pc = "parsed" /\ pc' = "resume" /\ held > 0 /\ pos >= held
      /\ buf' = RestOfChunk /\ pos' = 0 /\ held' = 0
      /\ UNCHANGED <<resume, depth, invalid, chunk, item, fed, events>>
  BY DEF CarryConsumed
<1>2. /\ ~invalid /\ pos \in Nat /\ held \in Nat /\ chunk \in Seq(Byte) /\ Len(chunk) \in Nat
      /\ fed \in Seq(Byte) /\ Len(fed) \in Nat
  BY <1>1 DEF TypeInv, TypeOK, Latched
<1>3. At \in 0..Len(fed) /\ Len(chunk) <= Len(fed) /\ Agree(chunk, 0, fed, Len(fed) - Len(chunk))
  BY <1>1, <1>2 DEF PlaceInv
<1>4. At = Len(fed) - (Len(chunk) + held - pos)
  BY <1>1 DEF At, Unread
<1> DEFINE k == pos - held
           q == Len(fed) - Len(chunk)
<1>5. k \in 0..Len(chunk) /\ q \in 0..Len(fed) /\ q + k = At /\ 0 \in 0..Len(chunk) /\ 0 + k = k
      /\ k \in 0..(Len(chunk) - 0)
  BY <1>1, <1>2, <1>3, <1>4
<1>6. buf' = SubSeq(chunk, k + 1, Len(chunk)) /\ Agree(chunk, 0, fed, q)
  BY <1>1, <1>3 DEF RestOfChunk
<1> DEFINE at == At
<1>7. at = q + k /\ at \in 0..Len(fed)
  BY <1>3, <1>5
<1> HIDE DEF k, q, at
<1>8. Agree(chunk, 0 + k, fed, q + k)
  BY <1>2, <1>5, <1>6, AgreeBehind
<1>9. Agree(chunk, k, fed, at)
  BY <1>5, <1>7, <1>8
<1>10. Agree(buf', 0, fed, at) /\ Len(buf') = Len(chunk) - k
  BY <1>2, <1>5, <1>6, <1>7, <1>9, SuffixAgrees
<1>11. At' = At
  <2>1. At' = Len(fed) - (Len(buf') - 0)
    BY <1>1 DEF At, Unread
  <2> QED  BY <1>1, <1>2, <1>4, <1>10, <2>1 DEF k
<1>12. PlaceInv'
  BY <1>1, <1>3, <1>10, <1>11 DEF PlaceInv, at
<1>13. Active' = Active /\ (resume'.kind \in {"int", "fix"} => resume'.remaining > 0)
  BY <1>1 DEF Active, MeaningInv
<1> QED  BY <1>1, <1>2, <1>11, <1>12, <1>13, NothingRead

\* A feed ends: the bytes that were not read are carried.
LEMMA MeansFeedEnds ==
  ASSUME TypeInv, CarryInv, PlaceInv, MeaningInv, CarryShort \/ Stash
  PROVE  PlaceInv' /\ MeaningInv'
<1>1. /\ pc = "parsed" /\ CarryIsOnePrefix /\ held \in Nat /\ pos \in 0..Len(buf) /\ Len(buf) \in Nat
      /\ buf \in Seq(Byte) /\ fed \in Seq(Byte) /\ Len(chunk) \in Nat /\ Len(fed) \in Nat
      /\ CarryCap \in Nat /\ ~invalid
  BY CarrySafe, LimitFacts DEF TypeInv, TypeOK, Latched, CarryShort, Stash
<1>2. /\ carry' = tail /\ result' = Verdict /\ pc' = "idle"
      /\ UNCHANGED <<invalid, resume, depth, fed, events>>
      /\ Unread = Len(buf) - pos
  <2>1. CASE CarryShort
    <3>1. held > 0 /\ pos = 0 /\ Len(buf) = held + Len(chunk)
      BY <1>1, <2>1 DEF CarryIsOnePrefix, CarryShort
    <3>2. ~(Len(buf) - held < Len(chunk))
      BY <1>1, <3>1
    <3>3. Unread = Len(buf) - pos
      BY <1>1, <3>1 DEF Unread
    <3> QED  BY <2>1, <3>2, <3>3 DEF CarryShort, Leave
  <2>2. CASE Stash
    <3>1. held = 0 /\ Len(tail) < CarryCap
      BY <1>1, <2>2 DEF CarryIsOnePrefix, Stash
    <3>2. ~(Len(tail) > CarryCap)
      BY <1>1, <3>1, TailFacts
    <3>3. Unread = Len(buf) - pos
      BY <1>1, <3>1 DEF Unread
    <3> QED  BY <2>2, <3>2, <3>3 DEF Stash, Leave
  <2> QED  BY <2>1, <2>2
<1>3. At \in 0..Len(fed) /\ Agree(buf, pos, fed, At)
  BY <1>1 DEF PlaceInv
<1> DEFINE at == At
<1>4. Agree(tail, 0, fed, at) /\ Len(tail) = Len(buf) - pos
  <2>1. at \in 0..Len(fed) /\ Agree(buf, pos, fed, at)
    BY <1>3
  <2> HIDE DEF at
  <2> QED  BY <1>1, <2>1, SuffixAgrees DEF tail
<1>5. At' = At
  <2>1. At' = Len(fed) - Len(carry') /\ At = Len(fed) - Unread
    BY <1>2 DEF At, Unread
  <2> QED  BY <1>2, <1>4, <2>1
<1>6. PlaceInv'
  BY <1>2, <1>3, <1>4, <1>5 DEF PlaceInv
<1>7. /\ Active' = Active /\ (resume'.kind \in {"int", "fix"} => resume'.remaining > 0)
      /\ result' = SoFar'
  BY <1>1, <1>2 DEF Active, MeaningInv, Verdict, SoFar
<1> QED  BY <1>1, <1>2, <1>5, <1>6, <1>7, NothingRead

\* Nothing was fed.
LEMMA MeansNothing ==
  ASSUME fed = <<>>, carry = <<>>, events = <<>>, resume = NoResume, depth = 0, pc = "idle",
         ~invalid, result = "Complete"
  PROVE  PlaceInv /\ MeaningInv
<1>1. At = 0 /\ Len(fed) = 0 /\ Len(carry) = 0
  BY DEF At, Unread
<1>2. PlaceInv
  BY <1>1 DEF PlaceInv, Agree
<1>3. Joined(events) = <<>> /\ <<>> \in Seq(Events)
  BY JoinedIs
<1>4. Means(fed, At, depth, Active, Joined(events))
  BY <1>1, <1>3, ReachesStart, NoneFresh DEF Means, Active, AtStart
<1> QED  BY <1>2, <1>3, <1>4, NoneFresh DEF MeaningInv, SoFar

LEMMA MeansInit == Init => PlaceInv /\ MeaningInv
BY MeansNothing DEF Init

LEMMA MeansReset ==
  ASSUME Reset
  PROVE  PlaceInv' /\ MeaningInv'
<1>1. /\ fed' = <<>> /\ carry' = <<>> /\ events' = <<>> /\ resume' = NoResume /\ depth' = 0
      /\ pc' = "idle" /\ invalid' = FALSE /\ result' = "Complete"
  BY DEF Reset
<1>2. At' = 0 /\ Len(fed') = 0 /\ Len(carry') = 0
  BY <1>1 DEF At, Unread
<1>3. PlaceInv'
  BY <1>1, <1>2 DEF PlaceInv, Agree
<1>4. Joined(events)' = <<>> /\ <<>> \in Seq(Events)
  BY <1>1, JoinedIs
<1>5. Means(fed, At, depth, Active, Joined(events))'
  BY <1>1, <1>2, <1>4, ReachesStart, NoneFresh DEF Means, Active, AtStart
<1> QED  BY <1>1, <1>3, <1>4, <1>5, NoneFresh DEF MeaningInv, SoFar

\* Of a payload at whose start the reference is, n bytes were told.
LEMMA MeansPayload ==
  ASSUME NEW s \in Seq(Byte), NEW q \in 0..Len(s), NEW d, NEW it \in Items,
         it.kind = "payload", it.remaining = it.total,
         NEW evs \in Seq(Events), Reaches(s, Going(q, d, it, evs)),
         NEW n \in 0..(Len(s) - q), n <= it.total,
         NEW es, es = IF n = 0 /\ it.total > 0 THEN evs
                      ELSE Append(evs, OnChunk(it.id, it.type, it.total, 0, SubSeq(s, q + 1, q + n)))
  PROVE  /\ n = it.total => Means(s, q + n, d, NoResume, es)
         /\ n < it.total => Means(s, q + n, d, [it EXCEPT !.remaining = it.total - n], es)
<1>1. it.total \in Nat /\ q \in Nat /\ n \in Nat /\ Len(s) \in Nat
  BY FormatAssumption DEF Items
<1>2. ASSUME n = it.total
      PROVE  Means(s, q + n, d, NoResume, es)
  <2> DEFINE c == Going(q, d, it, evs)
  <2>1. es = Append(evs, ChunkOf(it, s, q, n))
    BY <1>1, <1>2 DEF ChunkOf
  <2>2. Payload(s, q, d, it, evs) = Going(q + n, d, NoResume, Append(evs, ChunkOf(it, s, q, n)))
    <3>1. it.total <= Len(s) - q
      BY <1>1, <1>2
    <3>2. Payload(s, q, d, it, evs) =
            Going(q + it.total, d, NoResume, Append(evs, ChunkOf(it, s, q, it.total)))
      BY <1>1, <3>1, PayloadIs
    <3> QED  BY <1>2, <3>2
  <2>3. c.at = q /\ c.depth = d /\ c.item = it /\ c.events = evs
    BY GoingFields
  <2>4. c = Going(c.at, c.depth, c.item, c.events)
    BY <2>3
  <2>5. Step(s, c) = Payload(s, q, d, it, evs)
    <3> HIDE DEF c
    <3> QED  BY <2>3, <2>4, StepIs
  <2>6. Reaches(s, Step(s, c))
    BY ReachesStep
  <2> HIDE DEF c
  <2> QED  BY <2>1, <2>2, <2>5, <2>6, NoneFresh DEF Means
<1>3. ASSUME n < it.total
      PROVE  Means(s, q + n, d, [it EXCEPT !.remaining = it.total - n], es)
  <2> DEFINE rest == [it EXCEPT !.remaining = it.total - n]
             p == q + n
  <2>1. /\ rest.kind = "payload" /\ rest.id = it.id /\ rest.type = it.type /\ rest.total = it.total
        /\ rest.remaining = it.total - n /\ [rest EXCEPT !.remaining = it.total] = it
    BY DEF Items
  <2>2. rest.total - rest.remaining = n /\ n \in 0..p /\ p - n = q
    BY <1>1, <2>1
  <2>3. es = IF n = 0 THEN evs
             ELSE Append(evs, OnChunk(rest.id, rest.type, rest.total, 0, SubSeq(s, q + 1, p)))
    BY <1>1, <1>3, <2>1
  <2> HIDE DEF rest, p
  <2>4. Means(s, p, d, rest, es)
    BY <2>1, <2>2, <2>3 DEF Means
  <2> QED  BY <2>4 DEF rest, p
<1> QED  BY <1>2, <1>3

\* A string or blob, whole or up to the end of the bytes.
LEMMA MeansFixlenPayload ==
  ASSUME TypeInv, PlaceInv, MeaningInv, FixlenPayload
  PROVE  PlaceInv' /\ MeaningInv'
<1> DEFINE es == Joined(events)
           avail == Smaller(Len(buf) - atElem, length)
           head == OnFixlenBegin(id, subtype, length)
           chunk1 == OnChunk(id, subtype, length, 0, SubSeq(buf, atElem + 1, atElem + avail))
           it == Resume("payload", id, subtype, length, length)
           rest == Resume("payload", id, subtype, length, length - avail)
           begun == Append(events, head)
           evs == Append(es, head)
           told == Append(evs, chunk1)
<1>1. TypeInv'
  BY TypeFixlenPayload
<1>2. /\ pc = "field" /\ header.status = "ok" /\ word.status = "ok" /\ id <= IdMax /\ HasWord(wire)
      /\ wire = T_FIXLEN /\ subtype \in {Str, Blob} /\ length <= FixlenMax
      /\ events' = IF avail = 0 /\ length > 0 THEN begun ELSE Append(begun, chunk1)
      /\ pos' = atElem + avail
      /\ UNCHANGED <<depth, invalid, chunk, buf, held, item, fed>>
      /\ \/ avail = length /\ pc' = pc /\ resume' = resume
         \/ avail # length /\ resume' = rest /\ pc' = "parsed"
  BY DEF FixlenPayload, WordRead, HeaderRead, AtField
<1>3. /\ avail \in Nat /\ avail <= length /\ atElem + avail \in (pos + 1)..Len(buf)
      /\ length \in 0..FixlenMax /\ id \in 0..IdMax /\ length \in Nat
  BY AvailableNow, FormatAssumption
<1>4. /\ ~invalid /\ buf \in Seq(Byte) /\ pos \in 0..Len(buf) /\ fed \in Seq(Byte) /\ At \in 0..Len(fed)
      /\ Agree(buf, pos, fed, At) /\ depth \in Nat /\ es \in Seq(Events)
      /\ Means(fed, At, depth, Active, es) /\ Len(buf) \in Nat /\ Len(fed) \in Nat
  BY <1>2, FeedFacts
<1>5. atElem \in pos..Len(buf)
  BY <1>2, WordsEnd
<1>6. PlaceInv' /\ At' = At + (pos' - pos)
  <2>1. pos' \in pos..Len(buf)
    <3> DEFINE p == atElem + avail
    <3>1. p \in (pos + 1)..Len(buf) /\ pos' = p
      BY <1>2, <1>3
    <3> HIDE DEF p
    <3> QED  BY <1>4, <3>1
  <2>2. pc' # "idle" /\ pc # "idle"
    BY <1>2
  <2> HIDE DEF avail
  <2> QED  BY <1>2, <2>1, <2>2, PlaceMoves
<1> DEFINE p == atElem
           q == At + (atElem - pos)
           at2 == At'
           es2 == Joined(events)'
<1>7. /\ p \in 0..Len(buf) /\ q \in 0..Len(fed) /\ Agree(buf, p, fed, q) /\ at2 = q + avail
      /\ avail \in 0..(Len(buf) - p) /\ avail \in 0..(Len(fed) - q) /\ p + (At - pos) = q
  <2> DEFINE k == atElem - pos
             at == At
  <2>1. k \in 0..(Len(buf) - pos) /\ pos + k = p /\ p \in 0..Len(buf)
    BY <1>4, <1>5
  <2>2. at \in 0..Len(fed) /\ Agree(buf, pos, fed, at)
    BY <1>4
  <2> HIDE DEF k, at, avail
  <2>3. Agree(buf, pos + k, fed, at + k) /\ at + k \in 0..Len(fed)
    BY <1>4, <2>1, <2>2, AgreeBehind
  <2>4. q = at + k
    BY DEF k, at
  <2>5. Agree(buf, p, fed, q) /\ q \in 0..Len(fed)
    BY <2>1, <2>3, <2>4
  <2>6. avail \in 0..(Len(buf) - p)
    BY <1>3, <1>4, <1>5
  <2>7. Len(buf) - p <= Len(fed) - q
    BY <2>5 DEF Agree
  <2>8. at2 = q + avail /\ p + (At - pos) = q
    BY <1>2, <1>3, <1>4, <1>5, <1>6
  <2> HIDE DEF p, q, at2
  <2>9. avail \in 0..(Len(fed) - q)
    BY <1>4, <2>1, <2>5, <2>6, <2>7
  <2> QED  BY <2>1, <2>5, <2>6, <2>8, <2>9
<1>8. Reaches(fed, Going(q, depth, it, evs))
  <2>1. FieldAnswers(buf, pos, depth, es) /\ Active = NoResume
        /\ Step(buf, Going(pos, depth, Active, es)) = Field(buf, pos, depth, es)
    BY <1>2, CursorField
  <2>2. PayloadIn(buf, pos) /\ it = PayloadOf(buf, pos) /\ head = FixlenOf(buf, pos) /\ p = AtElemIn(buf, pos)
    <3>1. ~BadFixlen
      BY <1>2, <1>3, FormatAssumption DEF BadFixlen, FixlenTypes, Floats, Fp32, Fp64, Str, Blob
    <3>2. WordReadIn(buf, pos)
      BY <1>2, CursorParts DEF WordReadIn
    <3> QED  BY <1>2, <3>1, <3>2, CursorParts DEF PayloadIn, PayloadOf, FixlenOf
  <2> HIDE DEF it, head
  <2>3. Field(buf, pos, depth, es) = Going(p, depth, it, Append(es, head))
    BY <2>1, <2>2 DEF FieldAnswers
  <2>4. Reaches(fed, Going(At, depth, NoResume, es))
    BY <1>4, <2>1, NoneFresh DEF Means
  <2> HIDE DEF es, evs, p, q
  <2>5. Step(buf, Going(pos, depth, NoResume, es)) = Going(p, depth, it, evs)
    BY <2>1, <2>3 DEF evs
  <2>6. Reaches(fed, Going(p + (At - pos), depth, it, evs))
    BY <1>4, <2>4, <2>5, NoneFresh, GoingOn
  <2> QED  BY <1>7, <2>6
<1>9. /\ it \in Items /\ it.kind = "payload" /\ it.remaining = it.total /\ it.total = length
      /\ it.id = id /\ it.type = subtype /\ rest = [it EXCEPT !.remaining = it.total - avail]
  BY <1>2, <1>3 DEF Resume, Items, Str, Blob
<1>10. /\ events \in Seq(Events) /\ head \in Events /\ begun \in Seq(Events)
       /\ evs \in Seq(Events) /\ Joined(begun) = evs
  <2>1. events \in Seq(Events)
    BY DEF TypeInv
  <2>2. head \in Events
    <3>1. "fixlen_begin" \in CallbackNames /\ id \in Nat /\ subtype \in Nat /\ length \in Int /\ 0 \in Nat /\ <<>> \in Seq(Byte)
      BY <1>2, <1>3, FormatAssumption DEF CallbackNames, Str, Blob
    <3> QED  BY <3>1, CallbackType DEF OnFixlenBegin
  <2>3. Joined(begun) = Join(es, head)
    BY <2>1, <2>2, JoinedIs
  <2>4. head.name # "chunk"
    BY DEF OnFixlenBegin, Callback
  <2>5. Join(es, head) = evs
    <3> HIDE DEF es, head
    <3> QED  BY <2>4, JoinNew DEF evs
  <2> HIDE DEF es, head
  <2> QED  BY <1>4, <2>1, <2>2, <2>3, <2>5 DEF evs, begun
<1>11. /\ es2 = IF avail = 0 /\ it.total > 0 THEN evs
               ELSE Append(evs, OnChunk(it.id, it.type, it.total, 0, SubSeq(fed, q + 1, q + avail)))
       /\ es2 \in Seq(Events)
  <2>1. events' \in Seq(Events)
    BY <1>1 DEF TypeInv
  <2>2. CASE avail = 0 /\ length > 0
    BY <1>2, <1>9, <1>10, <2>2
  <2>3. CASE ~(avail = 0 /\ length > 0)
    <3>1. events' = Append(begun, chunk1)
      BY <1>2, <2>3
    <3>2. SubSeq(fed, q + 1, q + avail) = SubSeq(buf, p + 1, p + avail)
      <4> HIDE DEF p, q, avail
      <4> QED  BY <1>4, <1>7, AgreeSubSeq
    <3>3. chunk1 = OnChunk(it.id, it.type, it.total, 0, SubSeq(fed, q + 1, q + avail))
      BY <1>9, <3>2
    <3>4. chunk1.offset = 0
      BY DEF OnChunk, Callback
    <3> HIDE DEF chunk1, begun
    <3>5. chunk1 \in Events
      BY <1>10, <2>1, <3>1, AppendedType
    <3>6. Joined(Append(begun, chunk1)) = Join(evs, chunk1)
      BY <1>10, <3>5, JoinedIs
    <3> HIDE DEF evs
    <3>7. Join(evs, chunk1) = Append(evs, chunk1) /\ Append(evs, chunk1) \in Seq(Events)
      BY <1>10, <3>4, <3>5, JoinNew
    <3> QED  BY <1>9, <2>3, <3>1, <3>3, <3>6, <3>7
  <2> QED  BY <2>2, <2>3
<1>12. /\ avail = length => Means(fed, q + avail, depth, NoResume, es2)
       /\ avail < length => Means(fed, q + avail, depth, rest, es2)
  <2> HIDE DEF avail, es2, evs, q, it, rest
  <2>1. /\ avail = it.total => Means(fed, q + avail, depth, NoResume, es2)
        /\ avail < it.total => Means(fed, q + avail, depth, [it EXCEPT !.remaining = it.total - avail], es2)
    BY <1>3, <1>4, <1>7, <1>8, <1>9, <1>10, <1>11, MeansPayload
  <2> QED  BY <1>9, <2>1
<1>13. /\ avail = length => Active' = NoResume
       /\ avail # length => Active' = rest
       /\ resume'.kind \notin {"int", "fix"}
  <2>1. resume = NoResume
    BY <1>2 DEF TypeInv, ItemsWellFormed
  <2>2. rest.kind = "payload"
    BY DEF Resume
  <2> HIDE DEF avail, rest
  <2> QED  BY <1>2, <2>1, <2>2, NoneFresh DEF Active
<1>14. Means(fed, At, depth, Active, Joined(events))'
  <2>1. avail = length \/ avail < length
    BY <1>3
  <2>2. Means(fed, at2, depth, Active', es2)
    <3> HIDE DEF avail, es2, evs, q, it, rest, at2
    <3> QED  BY <1>7, <1>12, <1>13, <2>1
  <2> QED  BY <1>2, <2>2
<1>15. pc' # "idle" /\ ~invalid'
  BY <1>2, <1>4
<1> QED  BY <1>6, <1>11, <1>13, <1>14, <1>15 DEF MeaningInv

\* A further part of a payload, whole or up to the end of the bytes.
LEMMA MeansResumePayload ==
  ASSUME TypeInv, PlaceInv, MeaningInv, ResumePayload
  PROVE  PlaceInv' /\ MeaningInv'
<1> DEFINE es == Joined(events)
           total == resume.total
           done == total - resume.remaining
           avail == Smaller(Len(buf) - pos, resume.remaining)
           left == resume.remaining - avail
           piece == SubSeq(buf, pos + 1, pos + avail)
           part == OnChunk(resume.id, resume.type, total, done, piece)
           it == [resume EXCEPT !.remaining = total]
           q == At - done
           n == done + avail
           at2 == At'
           es2 == Joined(events)'
<1>1. events' \in Seq(Events)
  BY TypeResumePayload DEF TypeInv
<1>2. /\ pc = "resume" /\ resume.kind = "payload" /\ pos' = pos + avail
      /\ events' = IF avail = 0 THEN events ELSE Append(events, part)
      /\ resume' = IF left = 0 THEN NoResume ELSE [resume EXCEPT !.remaining = left]
      /\ pc' = IF left = 0 THEN "field" ELSE "parsed"
      /\ UNCHANGED <<depth, invalid, chunk, buf, held, item, fed>>
  BY DEF ResumePayload, Delivered
<1>3. /\ avail \in Nat /\ pos + avail \in pos..Len(buf) /\ left \in Nat
      /\ piece \in Seq(Byte) /\ Len(piece) = avail
  BY <1>2, Available
<1>4. /\ ~invalid /\ buf \in Seq(Byte) /\ pos \in 0..Len(buf) /\ fed \in Seq(Byte) /\ At \in 0..Len(fed)
      /\ Agree(buf, pos, fed, At) /\ depth \in Nat /\ es \in Seq(Events)
      /\ Means(fed, At, depth, resume, es) /\ Len(buf) \in Nat /\ Len(fed) \in Nat
  BY <1>2, FeedFacts DEF Active
<1>5. resume \in Items /\ total \in Nat /\ resume.remaining \in 1..total /\ resume.remaining \in Nat
  BY <1>2, FormatAssumption DEF TypeInv, TypeOK, ItemsWellFormed, Items
<1>6. /\ it \in Items /\ it.kind = "payload" /\ it.remaining = total /\ it.total = total
      /\ it.id = resume.id /\ it.type = resume.type
      /\ \A m : [it EXCEPT !.remaining = m] = [resume EXCEPT !.remaining = m]
  BY <1>2, <1>5 DEF Items
<1>7. PICK evs \in Seq(Events) :
        /\ Reaches(fed, Going(q, depth, it, evs))
        /\ es = IF done = 0 THEN evs
                ELSE Append(evs, OnChunk(resume.id, resume.type, total, 0, SubSeq(fed, q + 1, At)))
  BY <1>2, <1>4 DEF Means
<1>8. done \in 0..At /\ done \in Nat
  BY <1>2, <1>4, <1>5 DEF Means
<1>9. PlaceInv' /\ At' = At + (pos' - pos)
  <2>1. pos' \in pos..Len(buf) /\ pc' # "idle" /\ pc # "idle"
    BY <1>2, <1>3
  <2> HIDE DEF avail, left
  <2> QED  BY <1>2, <2>1, PlaceMoves
<1>10. /\ q \in 0..Len(fed) /\ at2 = q + n /\ q + done = At /\ n \in Nat /\ n <= total
       /\ n \in 0..(Len(fed) - q) /\ avail \in 0..(Len(buf) - pos) /\ avail \in 0..(Len(fed) - At)
       /\ left = total - n /\ left \in Nat /\ (n = 0 => avail = 0)
  <2> DEFINE at == At
             r == resume.remaining
  <2>1. /\ at \in 0..Len(fed) /\ done \in 0..at /\ r \in 1..total /\ done = total - r
        /\ avail \in Nat /\ pos + avail \in pos..Len(buf) /\ left = r - avail /\ left \in Nat
        /\ q = at - done /\ n = done + avail /\ pos \in 0..Len(buf) /\ total \in Nat
    BY <1>3, <1>4, <1>5, <1>8
  <2>2. Len(buf) - pos <= Len(fed) - at
    BY <1>4 DEF Agree
  <2>3. at2 = at + avail
    BY <1>2, <1>3, <1>4, <1>9
  <2> HIDE DEF at, r, done, total, avail, left, q, n, at2
  <2>4. avail \in 0..(Len(buf) - pos) /\ avail \in 0..(Len(fed) - at)
    BY <1>4, <2>1, <2>2
  <2>5. /\ q \in 0..Len(fed) /\ at2 = q + n /\ q + done = at /\ n \in Nat /\ n <= total
        /\ n \in 0..(Len(fed) - q) /\ left = total - n /\ (n = 0 => avail = 0)
    BY <1>4, <2>1, <2>3, <2>4
  <2> QED  BY <2>1, <2>4, <2>5 DEF at
<1>11. piece = SubSeq(fed, At + 1, At + avail)
  <2> DEFINE at == At
  <2>1. at \in 0..Len(fed) /\ Agree(buf, pos, fed, at)
    BY <1>4
  <2> HIDE DEF at, avail
  <2>2. SubSeq(fed, at + 1, at + avail) = SubSeq(buf, pos + 1, pos + avail)
    BY <1>4, <1>10, <2>1, AgreeSubSeq
  <2> QED  BY <2>2 DEF at
<1>12. SubSeq(fed, q + 1, At) \o piece = SubSeq(fed, q + 1, q + n)
  <2> DEFINE at == At
             m == q + 1
             u == at + avail
  <2>1. m \in 1..(Len(fed) + 1) /\ at \in (m - 1)..Len(fed) /\ u \in at..Len(fed) /\ u = q + n
    <3>1. at \in 0..Len(fed) /\ q + done = at /\ n = done + avail
      BY <1>4, <1>10
    <3> HIDE DEF at, q, n, done, avail
    <3> QED  BY <1>4, <1>8, <1>10, <3>1
  <2>2. piece = SubSeq(fed, at + 1, u)
    BY <1>11
  <2> HIDE DEF at, m, u, piece
  <2>3. SubSeq(fed, m, at) \o SubSeq(fed, at + 1, u) = SubSeq(fed, m, u)
    BY <1>4, <2>1, ConcatAdjacentSubSeq
  <2> QED  BY <2>1, <2>2, <2>3 DEF m, at
<1>13. /\ es2 = IF n = 0 THEN evs
               ELSE Append(evs, OnChunk(it.id, it.type, it.total, 0, SubSeq(fed, q + 1, q + n)))
       /\ es2 \in Seq(Events)
  <2>1. CASE avail = 0
    <3>1. es2 = es /\ n = done /\ q + n = At
      BY <1>2, <1>8, <1>10, <2>1
    <3> HIDE DEF n, done, q, es, es2
    <3> QED  BY <1>4, <1>6, <1>7, <3>1
  <2>2. CASE avail # 0
    <3>1. events \in Seq(Events) /\ events' = Append(events, part) /\ n # 0
      BY <1>2, <1>3, <1>8, <2>2 DEF TypeInv
    <3>2. part.name = "chunk" /\ part.offset = done /\ part.data = piece
      BY DEF OnChunk, Callback
    <3>3. part \in Events
      <4> HIDE DEF part
      <4> QED  BY <1>1, <3>1, AppendedType
    <3>4. es2 = Join(es, part)
      <4> HIDE DEF part
      <4> QED  BY <3>1, <3>3, JoinedIs
    <3> DEFINE whole == OnChunk(it.id, it.type, it.total, 0, SubSeq(fed, q + 1, q + n))
    <3>5. Join(es, part) = Append(evs, whole)
      <4>1. CASE done = 0
        <5>1. q = At /\ n = avail /\ es = evs
          BY <1>3, <1>4, <1>7, <1>10, <4>1
        <5>2. part = whole
          <6> HIDE DEF q, n, avail, done
          <6> QED  BY <1>6, <1>11, <4>1, <5>1
        <5>3. Join(es, part) = Append(es, part)
          <6> HIDE DEF part, es
          <6> QED  BY <3>2, <4>1, JoinNew
        <5> QED  BY <5>1, <5>2, <5>3
      <4>2. CASE done # 0
        <5> DEFINE have == SubSeq(fed, q + 1, At)
        <5>1. done \in Nat \ {0} /\ es = Append(evs, OnChunk(resume.id, resume.type, total, 0, have))
          BY <1>7, <1>8, <4>2
        <5> HIDE DEF have, es, done, piece
        <5>2. Join(es, part) = Append(evs, OnChunk(resume.id, resume.type, total, 0, have \o piece))
          BY <5>1, JoinMore
        <5>3. have \o piece = SubSeq(fed, q + 1, q + n)
          BY <1>12 DEF have
        <5> QED  BY <1>6, <5>2, <5>3
      <4> QED  BY <4>1, <4>2
    <3>6. Append(evs, whole) \in Seq(Events)
      <4>1. whole \in Events
        <5>1. /\ "chunk" \in CallbackNames /\ it.id \in Nat /\ it.type \in Nat /\ it.total \in Int /\ 0 \in Nat
              /\ SubSeq(fed, q + 1, q + n) \in Seq(Byte)
          <6>1. "chunk" \in CallbackNames /\ it.id \in Nat /\ it.type \in Nat /\ it.total \in Int
            <7>1. it \in Items
              BY <1>6
            <7> HIDE DEF it
            <7> QED  BY <7>1, FormatAssumption DEF CallbackNames, Items
          <6>2. SubSeq(fed, q + 1, q + n) \in Seq(Byte)
            <7>1. q + 1 \in Int /\ q + n \in Int /\ \A i \in (q + 1)..(q + n) : i \in 1..Len(fed)
              <8> HIDE DEF q, n
              <8> QED  BY <1>4, <1>10
            <7>2. \A i \in (q + 1)..(q + n) : fed[i] \in Byte
              BY <1>4, <7>1
            <7> HIDE DEF q, n
            <7> QED  BY <7>1, <7>2, SubSeqProperties
          <6> QED  BY <6>1, <6>2
        <5> HIDE DEF q, n, it
        <5> QED  BY <5>1, CallbackType DEF OnChunk
      <4> HIDE DEF whole
      <4> QED  BY <4>1
    <3> HIDE DEF part, whole, es, es2, n
    <3> QED  BY <3>1, <3>4, <3>5, <3>6 DEF whole
  <2> QED  BY <2>1, <2>2
<1>14. total > 0
  BY <1>5
<1>15. /\ n = total => Means(fed, q + n, depth, NoResume, es2)
       /\ n < total => Means(fed, q + n, depth, [it EXCEPT !.remaining = total - n], es2)
  <2>1. es2 = IF n = 0 /\ it.total > 0 THEN evs
              ELSE Append(evs, OnChunk(it.id, it.type, it.total, 0, SubSeq(fed, q + 1, q + n)))
    BY <1>6, <1>13, <1>14
  <2>2. /\ it \in Items /\ it.kind = "payload" /\ it.remaining = it.total
        /\ Reaches(fed, Going(q, depth, it, evs)) /\ total = it.total
        /\ q \in 0..Len(fed) /\ n \in 0..(Len(fed) - q) /\ n <= it.total
    BY <1>6, <1>7, <1>10
  <2> HIDE DEF n, q, it, es2, total
  <2>3. /\ n = it.total => Means(fed, q + n, depth, NoResume, es2)
        /\ n < it.total => Means(fed, q + n, depth, [it EXCEPT !.remaining = it.total - n], es2)
    BY <1>4, <2>1, <2>2, MeansPayload
  <2> QED  BY <2>2, <2>3
<1>16. /\ left = 0 => Active' = NoResume
       /\ left # 0 => Active' = [it EXCEPT !.remaining = total - n]
       /\ resume'.kind \notin {"int", "fix"}
  <2>1. [resume EXCEPT !.remaining = left].kind = "payload"
    BY <1>2, <1>5 DEF Items
  <2>2. [it EXCEPT !.remaining = total - n] = [resume EXCEPT !.remaining = left]
    <3>1. left = total - n
      <4> HIDE DEF left, n, total
      <4> QED  BY <1>10
    <3>2. \A m : [it EXCEPT !.remaining = m] = [resume EXCEPT !.remaining = m]
      BY <1>6
    <3> HIDE DEF left, it, n, total
    <3> QED  BY <3>1, <3>2
  <2> HIDE DEF left, it, n, total
  <2>3. CASE left = 0
    BY <1>2, <2>3, NoneFresh DEF Active
  <2>4. CASE left # 0
    <3>1. resume' = [resume EXCEPT !.remaining = left] /\ pc' = "parsed"
      BY <1>2, <2>4
    <3> QED  BY <2>1, <2>2, <2>4, <3>1 DEF Active
  <2> QED  BY <2>3, <2>4
<1>17. Means(fed, At, depth, Active, Joined(events))'
  <2>1. (left = 0 => n = total) /\ (left # 0 => n < total)
    <3>1. left = total - n /\ left \in Nat /\ total \in Nat /\ n \in Nat /\ n <= total
      BY <1>5, <1>10
    <3> HIDE DEF left, n, total
    <3> QED  BY <3>1
  <2>2. Means(fed, at2, depth, Active', es2)
    <3> HIDE DEF es2, q, it, at2, left, n, total
    <3> QED  BY <1>10, <1>15, <1>16, <2>1
  <2> QED  BY <1>2, <2>2
<1>18. pc' # "idle" /\ ~invalid'
  BY <1>2, <1>4
<1> QED  BY <1>9, <1>13, <1>16, <1>17, <1>18 DEF MeaningInv

LEMMA MeansNext ==
  ASSUME TypeInv, CarryInv, PlaceInv, MeaningInv, [Next]_vars
  PROVE  PlaceInv' /\ MeaningInv'
<1>1. CASE Calls
  <2>1. ASSUME NEW n \in Len(fed)..Len(message), Feed(SubSeq(message, Len(fed) + 1, n))
        PROVE  PlaceInv' /\ MeaningInv'
    <3> DEFINE c == SubSeq(message, Len(fed) + 1, n)
    <3>1. c \in Seq(Byte) /\ Feed(c)
      BY <2>1, FedBytes
    <3> HIDE DEF c
    <3> QED  BY <3>1, MeansFeed
  <2> QED  BY <1>1, <2>1, MeansReset DEF Calls
<1>2. CASE Steps
  BY <1>2, MeansSilent, MeansResumePayload, MeansElementRead, MeansElementsRead, MeansMalformed,
     MeansScalar, MeansFixlenPayload, MeansAnnounced, MeansSequence, MeansCarryConsumed,
     MeansFeedEnds
  DEF Steps
<1>3. CASE UNCHANGED vars
  BY <1>3 DEF vars, PlaceInv, MeaningInv, At, Unread, Active, SoFar
<1> QED  BY <1>1, <1>2, <1>3 DEF Next

-----------------------------------------------------------------------------
(***************************************************************************)
(* Between two feeds the bytes have run out.                               *)
(***************************************************************************)
\* Behind the last byte every item is short.
LEMMA EndIsShort ==
  ASSUME NEW s \in Seq(Byte), NEW it, it = NoResume \/ (it.kind \in {"int", "fix"} /\ it.remaining > 0)
  PROVE  ShortIn(it, s, Len(s))
<1>1. Len(s) \in Nat /\ Len(s) + 1 \in 1..(Len(s) + 1) /\ Len(s) - (Len(s) + 1) + 1 = 0
      /\ Len(s) - Len(s) = 0
  OBVIOUS
<1>2. ReadVarint(s, Len(s) + 1).status = "more"
  <2> DEFINE p == Len(s) + 1
  <2>1. \/ \E n \in 1..0 : n < MaxVarintLen /\ ReadEnds(s, p, n)
        \/ ReadGoes(s, p, 0)
        \/ 0 >= MaxVarintLen
    BY <1>1, ReadCases
  <2>2. ReadGoes(s, p, 0)
    <3> HIDE DEF p
    <3> QED  BY <2>1, LimitFacts
  <2> QED  BY <2>2 DEF ReadGoes, ReadMore
<1>3. CASE it = NoResume
  BY <1>2, <1>3 DEF ShortIn, HeadShortIn, HeadIn
<1>4. CASE it.kind \in {"int", "fix"} /\ it.remaining > 0
  BY <1>1, <1>2, <1>4, LimitFacts DEF ShortIn, ElementShortIn
<1> QED  BY <1>3, <1>4

\* The reference decoder stops at an item that is short.
LEMMA ShortRunsOut ==
  ASSUME NEW s \in Seq(Byte), NEW p \in 0..Len(s), NEW d \in Nat, NEW it, NEW es,
         Reaches(s, Going(p, d, it, es)), ShortIn(it, s, p)
  PROVE  Reaches(s, RanOut(s, p, d, it, es))
<1> DEFINE c == Going(p, d, it, es)
<1>1. c = Going(c.at, c.depth, c.item, c.events) /\ c.at = p /\ c.depth = d /\ c.item = it /\ c.events = es
  BY DEF Going
<1>2. Reaches(s, Step(s, c))
  BY ReachesStep
<1>3. CASE it = NoResume /\ HeadShortIn(s, p)
  <2>1. Step(s, c) = Field(s, p, d, es)
    <3> HIDE DEF c
    <3> QED  BY <1>1, <1>3, NoResumeKind, StepIs
  <2>2. FieldAnswers(s, p, d, es)
    BY HeadInFacts, FieldIs
  <2>3. Field(s, p, d, es) = RanOut(s, p, d, it, es)
    BY <1>3, <2>2 DEF FieldAnswers
  <2> HIDE DEF c
  <2> QED  BY <1>2, <2>1, <2>3
<1>4. CASE it.kind \in {"int", "fix"} /\ ElementShortIn(it, s, p)
  <2>1. Step(s, c) = Element(s, p, d, it, es)
    <3> HIDE DEF c
    <3> QED  BY <1>1, <1>4, StepIs
  <2>2. ElementIn(it, s, p).status = "more" /\ it.remaining # 0
    BY <1>4 DEF ElementShortIn, ElementIn, ReadMore
  <2>3. Element(s, p, d, it, es) = RanOut(s, p, d, it, es)
    BY <2>2 DEF Element, ElementIn
  <2> HIDE DEF c
  <2> QED  BY <1>2, <2>1, <2>2, <2>3
<1> QED  BY <1>3, <1>4 DEF ShortIn

\* And inside a payload it has taken every byte.
LEMMA PayloadRunsOut ==
  ASSUME NEW s \in Seq(Byte), NEW d \in Nat, NEW it \in Items, it.kind = "payload",
         it.remaining \in 1..it.total, NEW es, Means(s, Len(s), d, it, es)
  PROVE  Reaches(s, RanOut(s, Len(s), d, it, es))
<1> DEFINE done == it.total - it.remaining
           q == Len(s) - done
           start == [it EXCEPT !.remaining = it.total]
<1>1. PICK evs \in Seq(Events) :
        /\ Reaches(s, Going(q, d, start, evs))
        /\ es = IF done = 0 THEN evs
                ELSE Append(evs, OnChunk(it.id, it.type, it.total, 0, SubSeq(s, q + 1, Len(s))))
  BY DEF Means
<1>2. /\ start.kind = "payload" /\ start.total = it.total /\ start.id = it.id /\ start.type = it.type
      /\ [start EXCEPT !.remaining = it.remaining] = it
  BY DEF Items
<1>3. /\ q \in 0..Len(s) /\ Len(s) - q = done /\ it.total \in Nat /\ it.total - done = it.remaining
      /\ ~(it.total <= done) /\ q + done = Len(s)
  <2>1. done \in 0..Len(s)
    BY DEF Means
  <2>2. it.total \in Nat /\ it.remaining \in 1..it.total /\ done = it.total - it.remaining
    BY FormatAssumption DEF Items
  <2>3. q = Len(s) - done /\ Len(s) \in Nat
    OBVIOUS
  <2> DEFINE total == it.total
             left == it.remaining
             all == Len(s)
  <2> HIDE DEF done, q
  <2>4. total \in Nat /\ left \in 1..total /\ done = total - left /\ done \in 0..all /\ q = all - done /\ all \in Nat
    BY <2>1, <2>2, <2>3
  <2> HIDE DEF total, left, all
  <2>5. /\ q \in 0..all /\ all - q = done /\ total \in Nat /\ total - done = left
        /\ ~(total <= done) /\ q + done = all
    BY <2>4
  <2> QED  BY <2>5 DEF total, left, all
<1> DEFINE c == Going(q, d, start, evs)
<1>4. Step(s, c) = Payload(s, q, d, start, evs)
  <2>1. c = Going(c.at, c.depth, c.item, c.events) /\ c.at = q /\ c.depth = d /\ c.item = start /\ c.events = evs
    BY DEF Going
  <2> HIDE DEF c, start, q
  <2> QED  BY <1>2, <2>1, StepIs
<1>5. Payload(s, q, d, start, evs) =
        RanOut(s, Len(s), d, [start EXCEPT !.remaining = it.total - done],
               IF done = 0 THEN evs ELSE Append(evs, ChunkOf(start, s, q, done)))
  <2> HIDE DEF start, q, done
  <2> QED  BY <1>2, <1>3, PayloadIs
<1>6. Payload(s, q, d, start, evs) = RanOut(s, Len(s), d, it, es)
  <2>1. ChunkOf(start, s, q, done) = OnChunk(it.id, it.type, it.total, 0, SubSeq(s, q + 1, Len(s)))
    <3> HIDE DEF start, q, done
    <3> QED  BY <1>2, <1>3 DEF ChunkOf
  <2> HIDE DEF start, q, done
  <2> QED  BY <1>1, <1>2, <1>3, <1>5, <2>1
<1>7. Reaches(s, Step(s, c))
  <2> HIDE DEF start, q
  <2> QED  BY <1>1, ReachesStep
<1> HIDE DEF c
<1> QED  BY <1>4, <1>6, <1>7

\* Between two feeds the reference decoder has run out of bytes just where the
\* streaming one left off.
LEMMA RestsRunOut ==
  ASSUME TypeInv, CarryInv, PlaceInv, MeaningInv, pc = "idle", ~invalid
  PROVE  Reaches(fed, RanOut(fed, At, depth, resume, Joined(events)))
<1> DEFINE at == At
           es == Joined(events)
<1>1. /\ fed \in Seq(Byte) /\ carry \in Seq(Byte) /\ depth \in Nat /\ resume \in Items
      /\ at \in 0..Len(fed) /\ Len(fed) \in Nat /\ Len(carry) \in Nat
  BY FormatAssumption DEF TypeInv, TypeOK, PlaceInv
<1>2. at = Len(fed) - Len(carry) /\ Agree(carry, 0, fed, at)
  BY DEF At, Unread, PlaceInv
<1>3. Means(fed, at, depth, resume, es)
  BY DEF MeaningInv, Active
<1> HIDE DEF at, es
<1>4. carry = <<>> => at = Len(fed)
  BY <1>1, <1>2
<1>5. CASE resume.kind = "payload"
  <2>1. carry = <<>>
    BY <1>5, NoResumeKind DEF CarryInv, CarryShortIn, ShortIn
  <2>2. resume.remaining \in 1..resume.total
    BY <1>5 DEF TypeInv, ItemsWellFormed
  <2> QED  BY <1>1, <1>3, <1>4, <1>5, <2>1, <2>2, PayloadRunsOut DEF at, es
<1>6. CASE resume.kind # "payload"
  <2>1. Reaches(fed, Going(at, depth, resume, es))
    BY <1>3, <1>6 DEF Means
  <2>2. resume = NoResume \/ (resume.kind \in {"int", "fix"} /\ resume.remaining > 0)
    BY <1>1, <1>6 DEF TypeInv, ItemsWellFormed, MeaningInv, Items
  <2>3. ShortIn(resume, fed, at)
    <3>1. CASE carry = <<>>
      BY <1>1, <1>4, <2>2, <3>1, EndIsShort
    <3>2. CASE carry # <<>>
      <4>1. ShortIn(resume, carry, 0) /\ Len(carry) - 0 = Len(fed) - at /\ 0 \in 0..Len(carry)
        BY <1>1, <1>2, <3>2 DEF CarryInv, CarryShortIn
      <4> QED  BY <1>1, <1>2, <4>1, AgreeShort
    <3> QED  BY <3>1, <3>2
  <2> QED  BY <1>1, <2>1, <2>3, ShortRunsOut DEF at, es
<1> QED  BY <1>5, <1>6

LEMMA ChunksInvisible ==
  ASSUME TypeInv, CarryInv, PlaceInv, MeaningInv
  PROVE  ChunkingInvisible
<1> SUFFICES ASSUME pc = "idle" PROVE ChunkingInvisible
  BY DEF ChunkingInvisible
<1> DEFINE d == Decode(fed)
<1>1. fed \in Seq(Byte) /\ carry \in Seq(Byte)
  BY DEF TypeInv, TypeOK
<1>2. CASE invalid
  <2>1. PICK c : Reaches(fed, c) /\ c.verdict = "InvalidMsg" /\ c.events = Joined(events)
    BY <1>2 DEF MeaningInv
  <2>2. d.verdict = "InvalidMsg" /\ d.events = Joined(events)
    BY <1>1, <2>1, DecodeIs
  <2>3. result = "InvalidMsg"
    BY <1>2 DEF MeaningInv
  <2> HIDE DEF d
  <2>4. result = d.verdict /\ Joined(events) = d.events
    BY <2>2, <2>3
  <2> QED  BY <1>2, <2>4 DEF ChunkingInvisible, d
<1>3. CASE ~invalid
  <2> DEFINE at == At
             c == RanOut(fed, at, depth, resume, Joined(events))
  <2>1. Reaches(fed, c)
    BY <1>3, RestsRunOut
  <2>2. at \in 0..Len(fed) /\ at = Len(fed) - Len(carry) /\ Agree(carry, 0, fed, at)
    BY <1>3 DEF At, Unread, PlaceInv
  <2> HIDE DEF at
  <2>3. Len(fed) \in Nat /\ Len(carry) \in Nat /\ (carry = <<>> <=> Len(carry) = 0)
    BY <1>1
  <2>4. at = Len(fed) <=> carry = <<>>
    BY <2>2, <2>3
  <2>5. /\ c.verdict = SoFar /\ c.at = at /\ c.depth = depth /\ c.item = resume
        /\ c.events = Joined(events)
    BY <2>4 DEF RanOut, SoFar
  <2>6. c.verdict # "none"
    BY <2>5 DEF SoFar
  <2> HIDE DEF c
  <2>7. d = [verdict |-> c.verdict, depth |-> c.depth, events |-> c.events,
             resume |-> c.item, rest |-> SubSeq(fed, c.at + 1, Len(fed))]
    BY <1>1, <2>1, <2>6, DecodeIs
  <2>8. SubSeq(fed, at + 1, Len(fed)) = carry
    <3>1. at + Len(carry) = Len(fed) /\ Len(carry) \in 0..(Len(carry) - 0) /\ 0 \in 0..Len(carry)
      BY <2>2, <2>3
    <3>2. SubSeq(fed, at + 1, at + Len(carry)) = SubSeq(carry, 0 + 1, 0 + Len(carry))
      BY <1>1, <2>2, <3>1, AgreeSubSeq
    <3>3. SubSeq(carry, 0 + 1, 0 + Len(carry)) = carry
      BY <1>1
    <3> QED  BY <3>1, <3>2, <3>3
  <2>9. result = SoFar
    BY <1>3 DEF MeaningInv
  <2> HIDE DEF d
  <2>10. /\ result = d.verdict /\ Joined(events) = d.events
         /\ carry = d.rest /\ resume = d.resume /\ depth = d.depth
    BY <2>5, <2>7, <2>8, <2>9
  <2> QED  BY <2>10 DEF ChunkingInvisible, d
<1> QED  BY <1>2, <1>3

-----------------------------------------------------------------------------
(***************************************************************************)
(* The results: where the chunks were cut does not matter.                 *)
(***************************************************************************)
\* In every state, where the decoder is among the bytes that were fed, and that up to
\* there they make the callbacks that were made, however they were cut.
THEOREM MeaningInvariant == Spec => [](PlaceInv /\ MeaningInv)
<1>1. Init => PlaceInv /\ MeaningInv
  BY MeansInit
<1>2. TypeInv /\ CarryInv /\ PlaceInv /\ MeaningInv /\ [Next]_vars => (PlaceInv /\ MeaningInv)'
  BY MeansNext
<1> QED  BY <1>1, <1>2, DecoderInvariant, PTL DEF Spec

\* Where the chunks were cut does not matter: after every feed the callbacks (chunks of
\* a payload put together), the verdict, the carry, the item to resume and the depth
\* are what one feed of all the bytes leaves, for every message and every way to cut it.
THEOREM ChunkingIsInvisible == Spec => []ChunkingInvisible
<1>1. TypeInv /\ CarryInv /\ PlaceInv /\ MeaningInv => ChunkingInvisible
  BY ChunksInvisible
<1> QED  BY <1>1, DecoderInvariant, MeaningInvariant, PTL

-----------------------------------------------------------------------------
(***************************************************************************)
(* Definitions: the receiver's invariant.                                  *)
(***************************************************************************)
\* What the callbacks handled so far tell, the chunks of a payload put together.
Told == Joined(SubSeq(events, 1, seen))

\* The sequences open behind the callbacks, and the first breach among them.
Here(es) == PathAt(es, Len(es) + 1)
FirstBreach(es) ==
  LET breaches == {i \in DOMAIN es : Breach(es, i) # "Ok"}
  IN  IF breaches = {} THEN "Ok" ELSE Breach(es, Min(breaches))

\* The last callback handled is the last told, but for the chunks it was put behind.
SameCallback(c, e) ==
  /\ c.name = e.name /\ c.id = e.id /\ c.type = e.type /\ c.value = e.value
  /\ IF e.name = "chunk" THEN c.offset = 0 /\ Len(c.data) = e.offset + Len(e.data) ELSE c = e
LastInv ==
  /\ seen \in 0..Len(events) /\ Told \in Seq(Events)
  /\ seen = 0 => Told = <<>>
  /\ seen > 0 => Told # <<>> /\ SameCallback(Told[Len(Told)], events[seen])

ReceiverTypes ==
  /\ name \in Seq(Byte) /\ tags \in Seq(Seq(Byte)) /\ Len(tags) <= TagsCapacity
  /\ accBuf \in Seq(Byte) /\ accComplete \in BOOLEAN
  /\ open \in Seq(Nat) /\ busy \in BOOLEAN

\* A payload of the message that nothing was raised for is announced within its bound,
\* and the accumulator holds what was told of it.
Ours(e) == IsName(e, open) \/ IsTag(e, open)
HeldInv ==
  verdict = "Ok" /\ Told # <<>> =>
    LET e == Told[Len(Told)]
    IN  /\ BeginsPayload(e) => Announced(e, open) = "Ok"
        /\ Unfinished(e) /\ Ours(e) => Announced(e, open) = "Ok" /\ accBuf = e.data /\ ~accComplete

\* The visitor is where the callbacks it has handled say.
VisitorInv ==
  /\ open = Here(Told)
  /\ verdict = FirstBreach(Told)
  /\ verdict = "Ok" => name = NameOf(Told) /\ tags = TagsOf(Told)

\* The consumer has fed what was offered, and passed on the verdict it got.
ConsumerInv ==
  /\ offered \in 0..Len(message) /\ Len(fed) <= offered /\ fed = SubSeq(message, 1, Len(fed))
  /\ pc # "idle" => busy
  /\ ~busy => seen = Len(events)
  /\ latched = "none" => Len(fed) = offered
  /\ latched = "none" /\ ~busy => ~invalid /\ verdict = "Ok" /\ answer = result
  /\ latched # "none" => /\ ~busy /\ answer = latched
                         /\ IF verdict # "Ok" THEN latched = verdict
                            ELSE latched = "InvalidMsg" /\ invalid

ReceiverInv ==
  ReceiverTypes /\ LastInv /\ HeldInv /\ VisitorInv /\ ConsumerInv

-----------------------------------------------------------------------------
(***************************************************************************)
(* The sequences open at a callback.                                       *)
(***************************************************************************)
\* What PathAt is after k of the callbacks.
PathsTo(f, es, k) ==
  f = [n \in 0..k |-> IF n = 0 THEN <<>> ELSE Behind(f[n - 1], es[n])]

LEMMA PathPrefix ==
  ASSUME NEW es, NEW k \in Nat
  PROVE  \E f : PathsTo(f, es, k)
<1> DEFINE S == {m \in Nat : \E f : PathsTo(f, es, m)}
<1>1. 0 \in S
  <2> DEFINE f == [n \in 0..0 |-> <<>>]
  <2>1. PathsTo(f, es, 0)
    BY DEF PathsTo
  <2> QED  BY <2>1
<1>2. ASSUME NEW m \in S PROVE m + 1 \in S
  <2>1. PICK f : PathsTo(f, es, m)
    BY <1>2
  <2> DEFINE g == [n \in 0..(m + 1) |-> IF n = m + 1 THEN Behind(f[m], es[m + 1]) ELSE f[n]]
  <2>2. m \in Nat
    OBVIOUS
  <2>3. f[0] = <<>> /\ \A n \in 1..m : f[n] = Behind(f[n - 1], es[n])
    BY <2>1, <2>2 DEF PathsTo
  <2>4. \A n \in 0..(m + 1) : g[n] = IF n = 0 THEN <<>> ELSE Behind(g[n - 1], es[n])
    <3> TAKE n \in 0..(m + 1)
    <3>1. CASE n = 0
      BY <2>2, <2>3, <3>1
    <3>2. CASE n \in 1..m
      BY <2>2, <2>3, <3>2
    <3>3. CASE n = m + 1
      BY <2>2, <3>3
    <3> QED  BY <2>2, <3>1, <3>2, <3>3
  <2>5. g = [n \in 0..(m + 1) |-> g[n]]
    OBVIOUS
  <2>6. PathsTo(g, es, m + 1)
    <3> HIDE DEF g
    <3> QED  BY <2>4, <2>5 DEF PathsTo
  <2> QED  BY <2>2, <2>6
<1> HIDE DEF S
<1>3. S = Nat
  BY <1>1, <1>2, Induction DEF S
<1> QED  BY <1>3 DEF S

LEMMA PathPrefixUnique ==
  ASSUME NEW es, NEW k \in Nat, NEW n \in Nat, k <= n, NEW f, NEW g, PathsTo(f, es, k), PathsTo(g, es, n)
  PROVE  f[k] = g[k]
<1> DEFINE S == {i \in Nat : i <= k => f[i] = g[i]}
<1>1. 0 \in S
  BY DEF PathsTo
<1>2. ASSUME NEW i \in S PROVE i + 1 \in S
  <2>1. i \in Nat
    OBVIOUS
  <2> SUFFICES ASSUME i + 1 <= k PROVE f[i + 1] = g[i + 1]
    BY <2>1
  <2>2. f[i] = g[i]
    BY <1>2, <2>1
  <2>3. i + 1 \in 0..k /\ i + 1 \in 0..n /\ i + 1 # 0 /\ (i + 1) - 1 = i
    BY <2>1
  <2>4. f[i + 1] = Behind(f[i], es[i + 1]) /\ g[i + 1] = Behind(g[i], es[i + 1])
    BY <2>3 DEF PathsTo
  <2> QED  BY <2>2, <2>4
<1> HIDE DEF S
<1>3. S = Nat
  BY <1>1, <1>2, Induction DEF S
<1> QED  BY <1>3 DEF S

\* The recursion of PathAt is well founded, and goes from one callback to the next.
LEMMA PathIs ==
  ASSUME NEW es
  PROVE  /\ PathAt(es, 1) = <<>>
         /\ \A n \in Nat : PathAt(es, (n + 1) + 1) = Behind(PathAt(es, n + 1), es[n + 1])
<1> DEFINE f == CHOOSE f : f = [n \in Nat |-> IF n = 0 THEN <<>> ELSE Behind(f[n - 1], es[n])]
           g(n) == CHOOSE h : PathsTo(h, es, n)
           h0 == [n \in Nat |-> g(n)[n]]
<1>1. \A n \in Nat : PathsTo(g(n), es, n)
  BY PathPrefix
<1> HIDE DEF g
<1>2. h0[0] = <<>>
  BY <1>1 DEF PathsTo
<1>3. ASSUME NEW n \in Nat, n # 0
      PROVE  h0[n] = Behind(h0[n - 1], es[n])
  <2>1. n - 1 \in Nat /\ n \in 0..n /\ n - 1 <= n /\ n - 1 \in 0..(n - 1)
    BY <1>3
  <2>2. PathsTo(g(n), es, n) /\ PathsTo(g(n - 1), es, n - 1)
    BY <1>1, <2>1
  <2>3. g(n - 1)[n - 1] = g(n)[n - 1]
    BY <2>1, <2>2, PathPrefixUnique
  <2>4. g(n)[n] = Behind(g(n)[n - 1], es[n])
    BY <1>3, <2>1, <2>2 DEF PathsTo
  <2> QED  BY <2>1, <2>3, <2>4
<1>4. h0 = [n \in Nat |-> IF n = 0 THEN <<>> ELSE Behind(h0[n - 1], es[n])]
  <2>1. h0 = [n \in Nat |-> h0[n]]
    OBVIOUS
  <2> HIDE DEF h0
  <2> QED  BY <1>2, <1>3, <2>1
<1>5. f = [n \in Nat |-> IF n = 0 THEN <<>> ELSE Behind(f[n - 1], es[n])]
  <2> HIDE DEF h0
  <2> QED  BY <1>4
<1>6. \A i : PathAt(es, i) = f[i - 1]
  BY DEF PathAt
<1> HIDE DEF f
<1>7. \A n \in Nat : n + 1 \in Nat /\ n + 1 # 0 /\ (n + 1) - 1 = n
  OBVIOUS
<1>8. f[0] = <<>> /\ \A n \in Nat : f[n + 1] = Behind(f[n], es[n + 1])
  <2>1. \A n \in Nat : f[n + 1] = Behind(f[(n + 1) - 1], es[n + 1])
    BY <1>5, <1>7
  <2> QED  BY <1>5, <1>7, <2>1
<1>9. PathAt(es, 1) = f[0] /\ 1 - 1 = 0
  BY <1>6
<1>10. ASSUME NEW n \in Nat
       PROVE  PathAt(es, (n + 1) + 1) = Behind(PathAt(es, n + 1), es[n + 1])
  <2>1. PathAt(es, (n + 1) + 1) = f[((n + 1) + 1) - 1] /\ PathAt(es, n + 1) = f[(n + 1) - 1]
    BY <1>6
  <2>2. ((n + 1) + 1) - 1 = n + 1 /\ (n + 1) - 1 = n
    OBVIOUS
  <2> QED  BY <1>8, <2>1, <2>2
<1> QED  BY <1>8, <1>9, <1>10

\* What is open at a callback depends on the callbacks before it only.
LEMMA PathLocal ==
  ASSUME NEW es, NEW more, NEW k \in Nat, BeginWith(more, es, k), NEW i \in 1..(k + 1)
  PROVE  PathAt(more, i) = PathAt(es, i)
<1> DEFINE S == {n \in Nat : n <= k => PathAt(more, n + 1) = PathAt(es, n + 1)}
<1>1. 0 \in S
  <2>1. PathAt(more, 1) = PathAt(es, 1) /\ 0 + 1 = 1
    BY PathIs
  <2> QED  BY <2>1
<1>2. ASSUME NEW n \in S PROVE n + 1 \in S
  <2>1. n \in Nat /\ n + 1 \in Nat
    OBVIOUS
  <2> SUFFICES ASSUME n + 1 <= k PROVE PathAt(more, (n + 1) + 1) = PathAt(es, (n + 1) + 1)
    BY <2>1
  <2>2. PathAt(more, n + 1) = PathAt(es, n + 1) /\ more[n + 1] = es[n + 1]
    BY <1>2, <2>1 DEF BeginWith
  <2>3. /\ PathAt(more, (n + 1) + 1) = Behind(PathAt(more, n + 1), more[n + 1])
        /\ PathAt(es, (n + 1) + 1) = Behind(PathAt(es, n + 1), es[n + 1])
    BY <2>1, PathIs
  <2> QED  BY <2>2, <2>3
<1> HIDE DEF S
<1>3. S = Nat
  BY <1>1, <1>2, Induction DEF S
<1>4. i - 1 \in Nat /\ i - 1 <= k /\ (i - 1) + 1 = i
  OBVIOUS
<1>5. PathAt(more, (i - 1) + 1) = PathAt(es, (i - 1) + 1)
  BY <1>3, <1>4 DEF S
<1> QED  BY <1>4, <1>5

LEMMA BehindType ==
  ASSUME NEW path \in Seq(Nat), NEW e \in Events
  PROVE  Behind(path, e) \in Seq(Nat)
<1>1. e.id \in Nat
  BY DEF Events
<1>2. Append(path, e.id) \in Seq(Nat)
  BY <1>1
<1>3. Front(path) \in Seq(Nat)
  BY DEF Front
<1> QED  BY <1>2, <1>3 DEF Behind

LEMMA PathType ==
  ASSUME NEW es \in Seq(Events), NEW i \in 1..(Len(es) + 1)
  PROVE  PathAt(es, i) \in Seq(Nat)
<1> DEFINE S == {n \in Nat : n <= Len(es) => PathAt(es, n + 1) \in Seq(Nat)}
<1>1. 0 \in S
  <2>1. PathAt(es, 1) = <<>> /\ 0 + 1 = 1 /\ <<>> \in Seq(Nat)
    BY PathIs
  <2> QED  BY <2>1
<1>2. ASSUME NEW n \in S PROVE n + 1 \in S
  <2>1. n \in Nat /\ n + 1 \in Nat
    OBVIOUS
  <2> SUFFICES ASSUME n + 1 <= Len(es) PROVE PathAt(es, (n + 1) + 1) \in Seq(Nat)
    BY <2>1
  <2>2. PathAt(es, n + 1) \in Seq(Nat) /\ es[n + 1] \in Events
    BY <1>2, <2>1
  <2>3. PathAt(es, (n + 1) + 1) = Behind(PathAt(es, n + 1), es[n + 1])
    BY <2>1, PathIs
  <2> QED  BY <2>2, <2>3, BehindType
<1> HIDE DEF S
<1>3. S = Nat
  BY <1>1, <1>2, Induction DEF S
<1>4. i - 1 \in Nat /\ i - 1 <= Len(es) /\ (i - 1) + 1 = i
  OBVIOUS
<1>5. PathAt(es, (i - 1) + 1) \in Seq(Nat)
  BY <1>3, <1>4 DEF S
<1> QED  BY <1>4, <1>5

\* Opening and closing inner sequences leaves the outermost.
LEMMA OutermostStays ==
  ASSUME NEW p \in Seq(Nat), p # <<>>
  PROVE  /\ \A i \in Nat : Append(p, i)[1] = p[1]
         /\ Front(p) # <<>> => Front(p)[1] = p[1]
<1>1. Len(p) \in Nat /\ (Len(p) = 1 \/ Len(p) > 1)
  <2>1. Len(p) \in Nat \ {0}
    BY EmptySeq
  <2>2. \A n \in Nat \ {0} : n = 1 \/ n > 1
    OBVIOUS
  <2> QED  BY <2>1, <2>2
<1>2. \A i \in Nat : Append(p, i)[1] = p[1]
  BY <1>1
<1>3. Front(p) = SubSeq(p, 1, Len(p) - 1)
  BY DEF Front
<1>4. CASE Len(p) = 1
  <2>1. SubSeq(p, 1, Len(p) - 1) = <<>>
    BY <1>4
  <2> QED  BY <1>2, <1>3, <2>1
<1>5. CASE Len(p) > 1
  <2>1. 1 \in 1..(Len(p) - 1) /\ Len(p) - 1 \in Nat
    BY <1>1, <1>5
  <2>2. SubSeq(p, 1, Len(p) - 1)[1] = p[1]
    BY <1>1, <2>1
  <2> QED  BY <1>2, <1>3, <2>2
<1> QED  BY <1>1, <1>4, <1>5

\* A sequence is open at a callback only if one before it opened the outermost of them.
LEMMA PathOpened ==
  ASSUME NEW es \in Seq(Events), NEW i \in 1..(Len(es) + 1), PathAt(es, i) # <<>>
  PROVE  \E j \in 1..(i - 1) :
           es[j].name = "sequence_begin" /\ es[j].id = PathAt(es, i)[1] /\ PathAt(es, j) = <<>>
<1> DEFINE Opened(n) == \E j \in 1..n : es[j].name = "sequence_begin"
                          /\ es[j].id = PathAt(es, n + 1)[1] /\ PathAt(es, j) = <<>>
           S == {n \in Nat : n <= Len(es) /\ PathAt(es, n + 1) # <<>> => Opened(n)}
<1>1. 0 \in S
  <2>1. PathAt(es, 1) = <<>> /\ 0 + 1 = 1
    BY PathIs
  <2> QED  BY <2>1
<1>2. ASSUME NEW n \in S PROVE n + 1 \in S
  <2>1. n \in Nat /\ n + 1 \in Nat
    OBVIOUS
  <2> SUFFICES ASSUME n + 1 <= Len(es), PathAt(es, (n + 1) + 1) # <<>> PROVE Opened(n + 1)
    BY <2>1
  <2> DEFINE p == PathAt(es, n + 1)
             q == PathAt(es, (n + 1) + 1)
             e == es[n + 1]
  <2>2. q = Behind(p, e)
    BY <2>1, PathIs
  <2>3. n + 1 \in 1..(Len(es) + 1) /\ n + 1 \in 1..Len(es)
    BY <2>1
  <2>4. p \in Seq(Nat)
    BY <2>3, PathType
  <2>5. e \in Events /\ e.id \in Nat
    <3>1. e \in Events
      BY <2>3
    <3> HIDE DEF e
    <3> QED  BY <3>1 DEF Events
  <2>6. p # <<>> => Opened(n)
    BY <1>2, <2>1, <2>3
  <2>7. CASE p = <<>> /\ e.name = "sequence_begin"
    <3>1. q = <<e.id>>
      <4>1. q = Append(<<>>, e.id)
        BY <2>2, <2>7 DEF Behind
      <4> HIDE DEF q, e
      <4> QED  BY <4>1
    <3>2. q[1] = e.id
      BY <3>1
    <3> QED  BY <2>1, <2>7, <3>2
  <2>8. CASE p # <<>>
    <3>1. PICK j \in 1..n : es[j].name = "sequence_begin" /\ es[j].id = p[1] /\ PathAt(es, j) = <<>>
      BY <2>6, <2>8
    <3>2. q[1] = p[1]
      <4>2. CASE e.name = "sequence_begin"
        <5>1. q = Append(p, e.id)
          BY <2>2, <4>2 DEF Behind
        <5> HIDE DEF p, q, e
        <5> QED  BY <2>4, <2>5, <2>8, <5>1, OutermostStays
      <4>3. CASE e.name = "sequence_end"
        <5>1. q = Front(p) /\ q # <<>>
          BY <2>2, <4>3 DEF Behind
        <5> HIDE DEF p, q, e
        <5> QED  BY <2>4, <2>8, <5>1, OutermostStays
      <4>4. CASE e.name \notin {"sequence_begin", "sequence_end"}
        BY <2>2, <4>4 DEF Behind
      <4> QED  BY <4>2, <4>3, <4>4
    <3>3. j \in 1..(n + 1)
      BY <2>1
    <3> HIDE DEF p
    <3> QED  BY <3>1, <3>2, <3>3
  <2>9. CASE p = <<>> /\ e.name # "sequence_begin"
    <3>1. q = <<>>
      <4>1. Front(<<>>) = <<>>
        BY DEF Front
      <4> QED  BY <2>2, <2>9, <4>1 DEF Behind
    <3> QED  BY <3>1
  <2> QED  BY <2>7, <2>8, <2>9
<1> HIDE DEF S
<1>3. S = Nat
  BY <1>1, <1>2, Induction DEF S
<1>4. i - 1 \in Nat /\ i - 1 <= Len(es) /\ (i - 1) + 1 = i
  OBVIOUS
<1>5. PathAt(es, (i - 1) + 1) # <<>>
  BY <1>4
<1>6. i - 1 \in S
  BY <1>3, <1>4
<1>7. Opened(i - 1)
  BY <1>4, <1>5, <1>6 DEF S
<1> QED  BY <1>4, <1>7

-----------------------------------------------------------------------------
(***************************************************************************)
(* What a callback says of the message.                                    *)
(***************************************************************************)
WholeName(e, path) == Whole(e) /\ IsName(e, path)
WholeTag(e, path) == Whole(e) /\ IsTag(e, path)

BreachOf(e, path) ==
  IF e.name = "fixlen_begin" THEN Announced(e, path)
  ELSE IF (WholeName(e, path) \/ WholeTag(e, path)) /\ ~IsText(e.data) THEN "InvalidMsg"
  ELSE IF WholeTag(e, path) /\ e.id >= TagsCapacity THEN "Argument"
  ELSE "Ok"

LEMMA NamesAre ==
  ASSUME NEW es, NEW i
  PROVE  /\ i \in Names(es) <=> i \in DOMAIN es /\ WholeName(es[i], PathAt(es, i))
         /\ i \in Tags(es) <=> i \in DOMAIN es /\ WholeTag(es[i], PathAt(es, i))
BY DEF Names, Tags, WholeName, WholeTag

LEMMA BreachIs ==
  ASSUME NEW es, NEW i \in DOMAIN es
  PROVE  Breach(es, i) = BreachOf(es[i], PathAt(es, i))
<1>1. /\ i \in Names(es) <=> WholeName(es[i], PathAt(es, i))
      /\ i \in Tags(es) <=> WholeTag(es[i], PathAt(es, i))
  BY NamesAre
<1> QED  BY <1>1 DEF Breach, BreachOf

\* Callbacks put behind others leave what those say.
SameAt(more, es, i) ==
  /\ more[i] = es[i] /\ PathAt(more, i) = PathAt(es, i) /\ Breach(more, i) = Breach(es, i)
  /\ i \in Names(more) <=> i \in Names(es)
  /\ i \in Tags(more) <=> i \in Tags(es)

LEMMA PrefixSame ==
  ASSUME NEW es \in Seq(Events), NEW more \in Seq(Events), Len(es) <= Len(more),
         BeginWith(more, es, Len(es)), NEW i \in 1..Len(es)
  PROVE  SameAt(more, es, i)
<1>1. i \in DOMAIN es /\ i \in DOMAIN more /\ i \in 1..(Len(es) + 1) /\ Len(es) \in Nat
  OBVIOUS
<1>2. more[i] = es[i]
  BY DEF BeginWith
<1>3. PathAt(more, i) = PathAt(es, i)
  BY <1>1, PathLocal
<1>4. Breach(more, i) = Breach(es, i)
  BY <1>1, <1>2, <1>3, BreachIs
<1>5. /\ i \in Names(more) <=> i \in Names(es)
      /\ i \in Tags(more) <=> i \in Tags(es)
  BY <1>1, <1>2, <1>3, NamesAre
<1> QED  BY <1>2, <1>3, <1>4, <1>5 DEF SameAt

\* One callback put behind others.
Extends(more, es, e) ==
  /\ more \in Seq(Events) /\ Len(more) = Len(es) + 1 /\ more[Len(es) + 1] = e
  /\ Len(es) \in Nat /\ DOMAIN es = 1..Len(es) /\ DOMAIN more = 1..(Len(es) + 1)
  /\ BeginWith(more, es, Len(es))

LEMMA AppendExtends ==
  ASSUME NEW es \in Seq(Events), NEW e \in Events
  PROVE  Extends(Append(es, e), es, e)
<1>1. Append(es, e) \in Seq(Events) /\ Len(Append(es, e)) = Len(es) + 1 /\ Append(es, e)[Len(es) + 1] = e
  OBVIOUS
<1>2. \A i \in 1..Len(es) : Append(es, e)[i] = es[i]
  OBVIOUS
<1>3. Len(es) \in Nat /\ DOMAIN es = 1..Len(es) /\ DOMAIN Append(es, e) = 1..(Len(es) + 1)
  BY <1>1
<1> QED  BY <1>1, <1>2, <1>3 DEF Extends, BeginWith

\* What the new callback says, and what is open behind it.
LEMMA LastSays ==
  ASSUME NEW es \in Seq(Events), NEW e \in Events, NEW more, Extends(more, es, e)
  PROVE  /\ PathAt(more, Len(es) + 1) = Here(es)
         /\ Here(more) = Behind(Here(es), e)
         /\ Breach(more, Len(es) + 1) = BreachOf(e, Here(es))
         /\ Len(es) + 1 \in Names(more) <=> WholeName(e, Here(es))
         /\ Len(es) + 1 \in Tags(more) <=> WholeTag(e, Here(es))
<1> DEFINE n == Len(es)
<1>1. /\ n \in Nat /\ n + 1 \in 1..(n + 1) /\ n + 1 \in DOMAIN more /\ more[n + 1] = e
      /\ BeginWith(more, es, n) /\ Len(more) = n + 1
  BY DEF Extends
<1> HIDE DEF n
<1>2. PathAt(more, n + 1) = PathAt(es, n + 1)
  BY <1>1, PathLocal
<1>3. PathAt(more, (n + 1) + 1) = Behind(PathAt(more, n + 1), more[n + 1])
  BY <1>1, PathIs
<1>4. Breach(more, n + 1) = BreachOf(more[n + 1], PathAt(more, n + 1))
  BY <1>1, BreachIs
<1>5. /\ n + 1 \in Names(more) <=> WholeName(more[n + 1], PathAt(more, n + 1))
      /\ n + 1 \in Tags(more) <=> WholeTag(more[n + 1], PathAt(more, n + 1))
  BY <1>1, NamesAre
<1> QED  BY <1>1, <1>2, <1>3, <1>4, <1>5 DEF Here, n

-----------------------------------------------------------------------------
(***************************************************************************)
(* The first breach among the callbacks.                                   *)
(***************************************************************************)
Breaches(es) == {i \in DOMAIN es : Breach(es, i) # "Ok"}

LEMMA FirstBreachIs ==
  ASSUME NEW es
  PROVE  FirstBreach(es) = IF Breaches(es) = {} THEN "Ok" ELSE Breach(es, Min(Breaches(es)))
BY DEF FirstBreach, Breaches

LEMMA BreachesType ==
  ASSUME NEW es \in Seq(Events)
  PROVE  Breaches(es) \in SUBSET Nat /\ Breaches(es) \subseteq 1..Len(es)
BY DEF Breaches

\* Nothing was raised when there is no breach.
LEMMA NoBreach ==
  ASSUME NEW es \in Seq(Events)
  PROVE  FirstBreach(es) = "Ok" <=> Breaches(es) = {}
<1>1. CASE Breaches(es) = {}
  BY <1>1, FirstBreachIs
<1>2. CASE Breaches(es) # {}
  <2>1. Min(Breaches(es)) \in Breaches(es)
    BY <1>2, BreachesType, MinIsLeast
  <2>2. Breach(es, Min(Breaches(es))) # "Ok"
    BY <2>1 DEF Breaches
  <2> QED  BY <1>2, <2>2, FirstBreachIs
<1> QED  BY <1>1, <1>2

\* The least number of a set is no other's.
LEMMA MinUnique ==
  ASSUME NEW S \in SUBSET Nat, NEW m \in S, \A n \in S : m <= n
  PROVE  Min(S) = m
<1>1. Min(S) \in S /\ Min(S) <= m
  BY MinIsLeast
<1>2. m <= Min(S) /\ m \in Nat /\ Min(S) \in Nat
  BY <1>1
<1> QED  BY <1>1, <1>2

\* The first breach is not another one when more is told.
LEMMA FirstBreachStays ==
  ASSUME NEW es \in Seq(Events), NEW more \in Seq(Events), Len(es) <= Len(more),
         BeginWith(more, es, Len(es)), FirstBreach(es) # "Ok"
  PROVE  FirstBreach(more) = FirstBreach(es)
<1> DEFINE n == Len(es)
           m == Min(Breaches(es))
<1>1. Breaches(es) # {} /\ FirstBreach(es) = Breach(es, m)
  BY NoBreach, FirstBreachIs
<1>2. m \in Breaches(es) /\ \A k \in Breaches(es) : m <= k
  BY <1>1, BreachesType, MinIsLeast
<1>3. m \in 1..n /\ n \in Nat
  BY <1>2, BreachesType
<1> HIDE DEF m
<1>4. Breach(more, m) = Breach(es, m) /\ m \in DOMAIN more
  <2>1. SameAt(more, es, m)
    BY <1>3, PrefixSame
  <2> QED  BY <1>3, <2>1 DEF SameAt
<1>5. m \in Breaches(more)
  BY <1>2, <1>4 DEF Breaches
<1>6. ASSUME NEW k \in Breaches(more) PROVE m <= k
  <2>1. k \in 1..Len(more) /\ Breach(more, k) # "Ok"
    BY <1>6 DEF Breaches
  <2>2. CASE k \in 1..n
    <3>1. SameAt(more, es, k)
      BY <2>2, PrefixSame
    <3>2. Breach(es, k) # "Ok" /\ k \in DOMAIN es
      BY <2>1, <2>2, <3>1 DEF SameAt
    <3>3. k \in Breaches(es)
      BY <3>2 DEF Breaches
    <3> QED  BY <1>2, <3>3
  <2>3. CASE k \notin 1..n
    BY <1>3, <2>1, <2>3
  <2> QED  BY <2>2, <2>3
<1>7. Breaches(more) # {} /\ Min(Breaches(more)) = m
  <2>1. Breaches(more) \in SUBSET Nat
    BY BreachesType
  <2> QED  BY <1>5, <1>6, <2>1, MinUnique
<1> QED  BY <1>1, <1>4, <1>7, FirstBreachIs

\* One more callback raises what it says, unless something was raised before.
LEMMA FirstBreachNext ==
  ASSUME NEW es \in Seq(Events), NEW e \in Events, NEW more, Extends(more, es, e)
  PROVE  FirstBreach(more) = IF FirstBreach(es) # "Ok" THEN FirstBreach(es) ELSE BreachOf(e, Here(es))
<1> DEFINE n == Len(es)
<1>1. /\ more \in Seq(Events) /\ n <= Len(more) /\ BeginWith(more, es, n) /\ n \in Nat
      /\ DOMAIN more = 1..(n + 1) /\ DOMAIN es = 1..n
  BY DEF Extends
<1>2. CASE FirstBreach(es) # "Ok"
  BY <1>1, <1>2, FirstBreachStays
<1>3. CASE FirstBreach(es) = "Ok"
  <2>1. Breaches(es) = {}
    BY <1>3, NoBreach
  <2>2. ASSUME NEW k \in 1..n PROVE k \notin Breaches(more)
    <3>1. SameAt(more, es, k)
      BY <1>1, PrefixSame
    <3>2. Breach(es, k) = "Ok"
      BY <1>1, <2>1 DEF Breaches
    <3> QED  BY <3>1, <3>2 DEF SameAt, Breaches
  <2>3. Breach(more, n + 1) = BreachOf(e, Here(es))
    BY LastSays
  <2>4. Breaches(more) \subseteq {n + 1} /\ Breaches(more) \in SUBSET Nat
    BY <1>1, <2>2 DEF Breaches
  <2>5. n + 1 \in Breaches(more) <=> Breach(more, n + 1) # "Ok"
    BY <1>1 DEF Breaches
  <2>6. CASE Breach(more, n + 1) = "Ok"
    <3>1. Breaches(more) = {}
      BY <2>4, <2>5, <2>6
    <3> QED  BY <1>3, <2>3, <2>6, <3>1, FirstBreachIs
  <2>7. CASE Breach(more, n + 1) # "Ok"
    <3>1. n + 1 \in Breaches(more) /\ \A k \in Breaches(more) : n + 1 <= k
      BY <1>1, <2>4, <2>5, <2>7
    <3>2. Breaches(more) # {} /\ Min(Breaches(more)) = n + 1
      BY <2>4, <3>1, MinUnique
    <3> QED  BY <1>3, <2>3, <3>2, FirstBreachIs
  <2> QED  BY <2>6, <2>7
<1> QED  BY <1>2, <1>3

-----------------------------------------------------------------------------
(***************************************************************************)
(* The destination.                                                        *)
(***************************************************************************)
\* Max picks the greatest element.
LEMMA MaxIsGreatest ==
  ASSUME NEW n \in Nat, NEW S \in SUBSET (0..n), S # {}
  PROVE  Max(S) \in S /\ \A k \in S : k <= Max(S)
<1> DEFINE D == {n - k : k \in S}
<1>1. D \in SUBSET Nat /\ D # {}
  <2>1. \A k \in S : k \in 0..n /\ n - k \in Nat
    OBVIOUS
  <2> QED  BY <2>1
<1>2. PICK d \in D : \A k \in D : d <= k
  BY <1>1, LeastElement
<1>3. PICK m \in S : d = n - m
  BY <1>2
<1>4. ASSUME NEW k \in S PROVE k <= m
  <2>1. n - k \in D /\ k \in 0..n /\ m \in 0..n
    OBVIOUS
  <2> QED  BY <1>2, <1>3, <2>1
<1> QED  BY <1>4 DEF Max

\* The greatest number of a set is no other's.
LEMMA MaxUnique ==
  ASSUME NEW n \in Nat, NEW S \in SUBSET (0..n), NEW m \in S, \A k \in S : k <= m
  PROVE  Max(S) = m
<1>1. Max(S) \in S /\ m <= Max(S)
  BY MaxIsGreatest
<1>2. Max(S) <= m /\ m \in 0..n /\ Max(S) \in 0..n
  BY <1>1
<1> QED  BY <1>1, <1>2

LEMMA NamesType ==
  ASSUME NEW es \in Seq(Events)
  PROVE  Names(es) \in SUBSET (0..Len(es)) /\ Tags(es) \in SUBSET (0..Len(es))
BY DEF Names, Tags

\* A set of places among the callbacks, and the one that is new.
LEMMA PlacesNext ==
  ASSUME NEW n \in Nat, NEW S \in SUBSET (0..n), NEW T \in SUBSET (0..(n + 1)), 0 \notin T, 0 \notin S,
         \A i \in 1..n : i \in T <=> i \in S
  PROVE  IF n + 1 \in T THEN T = S \cup {n + 1} /\ Max(T) = n + 1 ELSE T = S
<1> DEFINE m == n + 1
<1>0. m \in Nat /\ \A k \in T : k \in 1..n \/ k = m
  OBVIOUS
<1>3. \A k \in S : k \in 1..n
  OBVIOUS
<1>1. CASE n + 1 \in T
  <2>1. T = S \cup {n + 1}
    <3> HIDE DEF m
    <3>1. T = S \cup {m}
      BY <1>0, <1>1, <1>3 DEF m
    <3> QED  BY <3>1 DEF m
  <2>2. n + 1 \in Nat /\ \A k \in T : k <= n + 1
    OBVIOUS
  <2>3. Max(T) = n + 1
    BY <1>1, <2>2, MaxUnique
  <2> QED  BY <1>1, <2>1, <2>3
<1>2. CASE n + 1 \notin T
  <2>1. T = S
    <3> HIDE DEF m
    <3> QED  BY <1>0, <1>2, <1>3 DEF m
  <2> QED  BY <1>2, <2>1
<1> QED  BY <1>1, <1>2

\* A name that is told whole is the last.
LEMMA NameNext ==
  ASSUME NEW es \in Seq(Events), NEW e \in Events, NEW more, Extends(more, es, e)
  PROVE  NameOf(more) = IF WholeName(e, Here(es)) THEN e.data ELSE NameOf(es)
<1> DEFINE n == Len(es)
<1>1. /\ more \in Seq(Events) /\ Len(more) = n + 1 /\ BeginWith(more, es, n) /\ n \in Nat
      /\ more[n + 1] = e
  BY DEF Extends
<1>2. Names(es) \in SUBSET (0..n) /\ Names(more) \in SUBSET (0..(n + 1)) /\ 0 \notin Names(es)
      /\ 0 \notin Names(more)
  BY <1>1, NamesType DEF Names
<1>3. \A i \in 1..n : SameAt(more, es, i)
  BY <1>1, PrefixSame
<1>4. \A i \in 1..n : i \in Names(more) <=> i \in Names(es)
  BY <1>3 DEF SameAt
<1>5. IF n + 1 \in Names(more) THEN Max(Names(more)) = n + 1 ELSE Names(more) = Names(es)
  BY <1>1, <1>2, <1>4, PlacesNext
<1>6. n + 1 \in Names(more) <=> WholeName(e, Here(es))
  BY LastSays
<1>7. CASE n + 1 \in Names(more)
  <2>1. Names(more) # {} /\ Max(Names(more)) = n + 1
    BY <1>5, <1>7
  <2> QED  BY <1>1, <1>6, <1>7, <2>1 DEF NameOf
<1>8. CASE n + 1 \notin Names(more)
  <2>1. Names(more) = Names(es)
    BY <1>5, <1>8
  <2>2. CASE Names(es) = {}
    BY <1>6, <1>8, <2>1, <2>2 DEF NameOf
  <2>3. CASE Names(es) # {}
    <3>1. Max(Names(es)) \in Names(es)
      BY <1>1, <1>2, <2>3, MaxIsGreatest
    <3>2. Max(Names(es)) \in 1..n
      BY <1>2, <3>1
    <3>3. more[Max(Names(es))] = es[Max(Names(es))]
      BY <1>3, <3>2 DEF SameAt
    <3> QED  BY <1>6, <1>8, <2>1, <2>3, <3>3 DEF NameOf
  <2> QED  BY <2>2, <2>3
<1> QED  BY <1>7, <1>8

\* The arrays of tags that were begun, the elements of the last of them, and what was
\* told last of each.
Begins(es) ==
  {i \in DOMAIN es : es[i].name = "sequence_begin" /\ es[i].id = TagsId /\ PathAt(es, i) = <<>>}
Elements(es) == IF Begins(es) = {} THEN {} ELSE {i \in Tags(es) : i > Max(Begins(es))}
OfId(es, m) == {i \in Elements(es) : es[i].id = m}
ValueOf(es, m) == IF OfId(es, m) = {} THEN <<>> ELSE es[Max(OfId(es, m))].data
Ids(es) == {es[i].id : i \in Elements(es)}

LEMMA TagsOfIs ==
  ASSUME NEW es
  PROVE  TagsOf(es) = IF Elements(es) = {} THEN <<>>
                      ELSE [x \in 1..(Max(Ids(es)) + 1) |-> ValueOf(es, x - 1)]
<1>1. CASE Begins(es) = {}
  BY <1>1 DEF TagsOf, Begins, Elements
<1>2. CASE Begins(es) # {}
  <2>1. Elements(es) = {i \in Tags(es) : i > Max(Begins(es))}
    BY <1>2 DEF Elements
  <2> QED  BY <1>2, <2>1 DEF TagsOf, Begins, OfId, ValueOf, Ids
<1> QED  BY <1>1, <1>2

LEMMA ElementsType ==
  ASSUME NEW es \in Seq(Events)
  PROVE  /\ Elements(es) \subseteq Tags(es) /\ Elements(es) \subseteq 1..Len(es)
         /\ Begins(es) \subseteq 1..Len(es)
         /\ \A m : OfId(es, m) \subseteq 1..Len(es)
BY DEF Elements, Begins, OfId, Tags

\* An element nothing was raised for fits the container.
LEMMA ElementFits ==
  ASSUME NEW es \in Seq(Events), FirstBreach(es) = "Ok", NEW i \in Tags(es)
  PROVE  es[i].id \in Nat /\ es[i].id < TagsCapacity /\ es[i].data \in Seq(Byte)
<1>1. i \in DOMAIN es /\ WholeTag(es[i], PathAt(es, i))
  BY NamesAre
<1>2. es[i] \in Events
  BY <1>1
<1> DEFINE e == es[i]
<1>3. e.id \in Nat /\ e.data \in Seq(Byte)
  <2> HIDE DEF e
  <2> QED  BY <1>2 DEF Events, e
<1>4. Breach(es, i) = "Ok"
  <2>1. Breaches(es) = {}
    BY NoBreach
  <2> QED  BY <1>1, <2>1 DEF Breaches
<1>5. BreachOf(e, PathAt(es, i)) = "Ok"
  BY <1>1, <1>4, BreachIs
<1>6. e.name # "fixlen_begin"
  BY <1>1 DEF WholeTag, Whole
<1> HIDE DEF e
<1>7. ~(e.id >= TagsCapacity)
  BY <1>1, <1>5, <1>6 DEF BreachOf, e
<1>8. e.id < TagsCapacity
  BY <1>3, <1>7, BoundsAssumption
<1> QED  BY <1>3, <1>8 DEF e

LEMMA ValueType ==
  ASSUME NEW es \in Seq(Events), NEW m
  PROVE  ValueOf(es, m) \in Seq(Byte)
<1>1. CASE OfId(es, m) = {}
  BY <1>1 DEF ValueOf
<1>2. CASE OfId(es, m) # {}
  <2>1. OfId(es, m) \in SUBSET (0..Len(es)) /\ Len(es) \in Nat
    BY ElementsType
  <2>2. Max(OfId(es, m)) \in OfId(es, m)
    BY <1>2, <2>1, MaxIsGreatest
  <2>3. Max(OfId(es, m)) \in 1..Len(es)
    BY <2>2, ElementsType
  <2>4. es[Max(OfId(es, m))] \in Events
    BY <2>3
  <2>5. es[Max(OfId(es, m))].data \in Seq(Byte)
    BY <2>4 DEF Events
  <2> QED  BY <1>2, <2>5 DEF ValueOf
<1> QED  BY <1>1, <1>2

\* A list as long as the furthest element, each the value last told for it.
TagsAre(es, ts) ==
  /\ ts \in Seq(Seq(Byte)) /\ Len(ts) \in Nat /\ DOMAIN ts = 1..Len(ts)
  /\ \A x \in 1..Len(ts) : ts[x] = ValueOf(es, x - 1)
  /\ \A i \in Elements(es) : es[i].id \in Nat /\ es[i].id < Len(ts)
  /\ Len(ts) # 0 => \E i \in Elements(es) : es[i].id = Len(ts) - 1

LEMMA TagsShape ==
  ASSUME NEW es \in Seq(Events), FirstBreach(es) = "Ok"
  PROVE  TagsAre(es, TagsOf(es))
<1>1. CASE Elements(es) = {}
  <2>1. TagsOf(es) = <<>>
    BY <1>1, TagsOfIs
  <2>2. <<>> \in Seq(Seq(Byte)) /\ Len(<<>>) = 0 /\ DOMAIN <<>> = 1..0
    OBVIOUS
  <2> QED  BY <1>1, <2>1, <2>2 DEF TagsAre
<1>2. CASE Elements(es) # {}
  <2> DEFINE m == Max(Ids(es))
             ts == [x \in 1..(m + 1) |-> ValueOf(es, x - 1)]
  <2>1. \A i \in Elements(es) : es[i].id \in Nat /\ es[i].id < TagsCapacity
    BY ElementFits, ElementsType
  <2>2. Ids(es) \in SUBSET (0..TagsCapacity) /\ Ids(es) # {} /\ TagsCapacity \in Nat
    BY <1>2, <2>1, BoundsAssumption DEF Ids
  <2>3. m \in Ids(es) /\ \A k \in Ids(es) : k <= m
    BY <2>2, MaxIsGreatest
  <2>4. m \in Nat
    BY <2>2, <2>3
  <2>5. TagsOf(es) = ts
    BY <1>2, TagsOfIs
  <2> HIDE DEF m
  <2>6. ts \in Seq(Seq(Byte)) /\ Len(ts) = m + 1 /\ DOMAIN ts = 1..(m + 1)
    <3>1. \A x \in 1..(m + 1) : ValueOf(es, x - 1) \in Seq(Byte)
      BY ValueType
    <3>2. ts \in [1..(m + 1) -> Seq(Byte)]
      BY <3>1
    <3> HIDE DEF ts
    <3> QED  BY <2>4, <3>2
  <2>7. \A x \in 1..(m + 1) : ts[x] = ValueOf(es, x - 1)
    OBVIOUS
  <2>8. \A i \in Elements(es) : es[i].id \in Nat /\ es[i].id < m + 1
    <3> TAKE i \in Elements(es)
    <3>1. es[i].id \in Ids(es) /\ es[i].id \in Nat
      BY <2>1 DEF Ids
    <3>2. es[i].id <= m
      BY <2>3, <3>1
    <3> QED  BY <2>4, <3>1, <3>2
  <2>9. \E i \in Elements(es) : es[i].id = (m + 1) - 1
    <3>1. PICK i \in Elements(es) : es[i].id = m
      BY <2>3 DEF Ids
    <3>2. (m + 1) - 1 = m
      BY <2>4
    <3> QED  BY <3>1, <3>2
  <2> HIDE DEF ts
  <2> QED  BY <2>4, <2>5, <2>6, <2>7, <2>8, <2>9 DEF TagsAre
<1> QED  BY <1>1, <1>2

\* Begun arrays and elements among the callbacks before a new one.
LEMMA BeginsNext ==
  ASSUME NEW es \in Seq(Events), NEW e \in Events, NEW more, Extends(more, es, e)
  PROVE  IF e.name = "sequence_begin" /\ e.id = TagsId /\ Here(es) = <<>>
           THEN Max(Begins(more)) = Len(es) + 1 /\ Begins(more) # {}
           ELSE Begins(more) = Begins(es)
<1> DEFINE n == Len(es)
<1>1. /\ more \in Seq(Events) /\ Len(more) = n + 1 /\ BeginWith(more, es, n) /\ n \in Nat
      /\ more[n + 1] = e /\ DOMAIN more = 1..(n + 1) /\ DOMAIN es = 1..n
  BY DEF Extends
<1>2. \A i \in 1..n : SameAt(more, es, i)
  BY <1>1, PrefixSame
<1>3. PathAt(more, n + 1) = Here(es)
  BY LastSays
<1>4. \A i \in 1..n : i \in Begins(more) <=> i \in Begins(es)
  BY <1>1, <1>2 DEF SameAt, Begins
<1>5. n + 1 \in Begins(more) <=> e.name = "sequence_begin" /\ e.id = TagsId /\ Here(es) = <<>>
  BY <1>1, <1>3 DEF Begins
<1>6. Begins(es) \in SUBSET (0..n) /\ Begins(more) \in SUBSET (0..(n + 1)) /\ 0 \notin Begins(es)
      /\ 0 \notin Begins(more)
  <2>1. Begins(es) \subseteq 1..n /\ Begins(more) \subseteq 1..(n + 1)
    BY <1>1, ElementsType
  <2> QED  BY <1>1, <2>1
<1>7. IF n + 1 \in Begins(more) THEN Max(Begins(more)) = n + 1 ELSE Begins(more) = Begins(es)
  BY <1>1, <1>4, <1>6, PlacesNext
<1> QED  BY <1>5, <1>7

\* The values told of the elements, when no element comes and no array is begun.
LEMMA TagsSame ==
  ASSUME NEW es \in Seq(Events), NEW more \in Seq(Events), Elements(more) = Elements(es),
         \A i \in 1..Len(es) : more[i] = es[i]
  PROVE  TagsOf(more) = TagsOf(es)
<1>1. Elements(es) \subseteq 1..Len(es)
  BY ElementsType
<1>2. \A i \in Elements(es) : more[i] = es[i]
  BY <1>1
<1>3. Ids(more) = Ids(es)
  BY <1>2 DEF Ids
<1>4. \A m : OfId(more, m) = OfId(es, m)
  BY <1>2 DEF OfId
<1>5. ASSUME NEW m PROVE ValueOf(more, m) = ValueOf(es, m)
  <2>1. CASE OfId(es, m) = {}
    BY <1>4, <2>1 DEF ValueOf
  <2>2. CASE OfId(es, m) # {}
    <3>1. OfId(es, m) \in SUBSET (0..Len(es)) /\ Len(es) \in Nat
      BY ElementsType
    <3>2. Max(OfId(es, m)) \in OfId(es, m)
      BY <2>2, <3>1, MaxIsGreatest
    <3>3. Max(OfId(es, m)) \in 1..Len(es)
      BY <3>2, ElementsType
    <3>4. more[Max(OfId(es, m))] = es[Max(OfId(es, m))]
      BY <3>3
    <3> QED  BY <1>4, <2>2, <3>4 DEF ValueOf
  <2> QED  BY <2>1, <2>2
<1>6. TagsOf(more) = IF Elements(more) = {} THEN <<>>
                     ELSE [x \in 1..(Max(Ids(more)) + 1) |-> ValueOf(more, x - 1)]
  BY TagsOfIs
<1>7. TagsOf(es) = IF Elements(es) = {} THEN <<>>
                   ELSE [x \in 1..(Max(Ids(es)) + 1) |-> ValueOf(es, x - 1)]
  BY TagsOfIs
<1>8. [x \in 1..(Max(Ids(more)) + 1) |-> ValueOf(more, x - 1)] =
        [x \in 1..(Max(Ids(es)) + 1) |-> ValueOf(es, x - 1)]
  <2> DEFINE m == Max(Ids(es))
  <2>1. Max(Ids(more)) = m
    BY <1>3
  <2> HIDE DEF m
  <2>2. \A x \in 1..(m + 1) : ValueOf(more, x - 1) = ValueOf(es, x - 1)
    BY <1>5
  <2>3. [x \in 1..(m + 1) |-> ValueOf(more, x - 1)] = [x \in 1..(m + 1) |-> ValueOf(es, x - 1)]
    BY <2>2
  <2> QED  BY <2>1, <2>3 DEF m
<1>9. CASE Elements(es) = {}
  BY <1>6, <1>7, <1>9
<1>10. CASE Elements(es) # {}
  <2> DEFINE F == [x \in 1..(Max(Ids(more)) + 1) |-> ValueOf(more, x - 1)]
             G == [x \in 1..(Max(Ids(es)) + 1) |-> ValueOf(es, x - 1)]
  <2>1. TagsOf(more) = F
    BY <1>6, <1>10
  <2>2. TagsOf(es) = G
    BY <1>7, <1>10
  <2>3. F = G
    BY <1>8
  <2> HIDE DEF F, G
  <2> QED  BY <2>1, <2>2, <2>3
<1> QED  BY <1>9, <1>10

\* An element in an array that was begun is one more, and the last of its id.
LEMMA ElementNext ==
  ASSUME NEW es \in Seq(Events), NEW e \in Events, NEW more, Extends(more, es, e),
         WholeTag(e, Here(es))
  PROVE  /\ Elements(more) = Elements(es) \cup {Len(es) + 1}
         /\ ValueOf(more, e.id) = e.data
         /\ \A m : m # e.id => ValueOf(more, m) = ValueOf(es, m)
<1> DEFINE n == Len(es)
           k == n + 1
<1>1. /\ more \in Seq(Events) /\ Len(more) = k /\ BeginWith(more, es, n) /\ n \in Nat
      /\ more[k] = e /\ DOMAIN more = 1..k /\ DOMAIN es = 1..n
  BY DEF Extends
<1>2. \A i \in 1..n : SameAt(more, es, i)
  BY <1>1, PrefixSame
<1>3. Begins(more) = Begins(es)
  <2>1. e.name # "sequence_begin"
    BY DEF WholeTag, Whole
  <2> QED  BY <2>1, BeginsNext
<1>4. Begins(es) # {}
  <2>1. PathAt(es, k) = <<TagsId>> /\ <<TagsId>> # <<>> /\ <<TagsId>>[1] = TagsId
    BY DEF WholeTag, IsTag, Here
  <2>2. k \in 1..(Len(es) + 1) /\ PathAt(es, k) # <<>> /\ PathAt(es, k)[1] = TagsId
    BY <1>1, <2>1
  <2>3. PICK j \in 1..(k - 1) :
          es[j].name = "sequence_begin" /\ es[j].id = PathAt(es, k)[1] /\ PathAt(es, j) = <<>>
    <3> HIDE DEF k
    <3> QED  BY <2>2, PathOpened
  <2>4. j \in DOMAIN es /\ es[j].id = TagsId
    BY <1>1, <2>2, <2>3
  <2> QED  BY <2>3, <2>4 DEF Begins
<1>5. Max(Begins(es)) \in 1..n
  <2>1. Begins(es) \in SUBSET (0..n) /\ Begins(es) \subseteq 1..n
    BY ElementsType
  <2>2. Max(Begins(es)) \in Begins(es)
    BY <1>1, <1>4, <2>1, MaxIsGreatest
  <2> QED  BY <2>1, <2>2
<1>6. Tags(more) = Tags(es) \cup {k}
  <2>1. k \in Tags(more)
    BY LastSays
  <2>2. \A i \in 1..n : i \in Tags(more) <=> i \in Tags(es)
    BY <1>2 DEF SameAt
  <2>3. Tags(more) \in SUBSET (0..(n + 1)) /\ Tags(es) \in SUBSET (0..n) /\ 0 \notin Tags(more)
        /\ 0 \notin Tags(es)
    BY <1>1, NamesType DEF Tags
  <2> QED  BY <1>1, <2>1, <2>2, <2>3, PlacesNext
<1>7. Elements(more) = Elements(es) \cup {k}
  <2> DEFINE b == Max(Begins(es))
  <2>1. k > b
    BY <1>1, <1>5
  <2>2. Elements(more) = {i \in Tags(more) : i > b} /\ Elements(es) = {i \in Tags(es) : i > b}
    BY <1>3, <1>4 DEF Elements
  <2> HIDE DEF b, k
  <2> QED  BY <1>6, <2>1, <2>2
<1>8. \A i \in Elements(es) : i \in 1..n /\ more[i] = es[i]
  <2>1. Elements(es) \subseteq 1..n
    BY ElementsType
  <2> QED  BY <1>2, <2>1 DEF SameAt
<1>9. \A m : m # e.id => OfId(more, m) = OfId(es, m)
  <2> HIDE DEF k, n
  <2> QED  BY <1>1, <1>7, <1>8 DEF OfId
<1>10. OfId(more, e.id) = OfId(es, e.id) \cup {k}
  <2> HIDE DEF k, n
  <2> QED  BY <1>1, <1>7, <1>8 DEF OfId
<1>11. Max(OfId(more, e.id)) = k
  <2>1. OfId(es, e.id) \subseteq 1..n
    BY ElementsType
  <2>2. OfId(more, e.id) \in SUBSET (0..k) /\ k \in OfId(more, e.id)
    BY <1>1, <1>10, <2>1
  <2>3. k \in Nat
    BY <1>1
  <2>4. \A i \in OfId(more, e.id) : i <= k
    <3> HIDE DEF k
    <3> QED  BY <2>2, <2>3
  <2> HIDE DEF k
  <2> QED  BY <2>2, <2>3, <2>4, MaxUnique
<1>12. ValueOf(more, e.id) = e.data
  <2>1. OfId(more, e.id) # {}
    BY <1>10
  <2> HIDE DEF k
  <2> QED  BY <1>1, <1>11, <2>1 DEF ValueOf
<1>13. ASSUME NEW m, m # e.id PROVE ValueOf(more, m) = ValueOf(es, m)
  <2>1. OfId(more, m) = OfId(es, m)
    BY <1>9, <1>13
  <2>2. CASE OfId(es, m) = {}
    BY <2>1, <2>2 DEF ValueOf
  <2>3. CASE OfId(es, m) # {}
    <3>1. OfId(es, m) \in SUBSET (0..n)
      BY ElementsType
    <3>2. Max(OfId(es, m)) \in OfId(es, m)
      BY <1>1, <2>3, <3>1, MaxIsGreatest
    <3>3. Max(OfId(es, m)) \in Elements(es)
      BY <3>2 DEF OfId
    <3>4. more[Max(OfId(es, m))] = es[Max(OfId(es, m))]
      BY <1>8, <3>3
    <3> QED  BY <2>1, <2>3, <3>4 DEF ValueOf
  <2> QED  BY <2>2, <2>3
<1> QED  BY <1>7, <1>12, <1>13

\* What one more callback makes of the tags.
TagsThen(ts, e, path) ==
  IF e.name = "sequence_begin" /\ e.id = TagsId /\ path = <<>> THEN <<>>
  ELSE IF WholeTag(e, path) THEN [Grown(ts, e.id + 1) EXCEPT ![e.id + 1] = e.data]
  ELSE ts

LEMMA TagsNext ==
  ASSUME NEW es \in Seq(Events), NEW e \in Events, NEW more, Extends(more, es, e),
         FirstBreach(more) = "Ok"
  PROVE  TagsOf(more) = TagsThen(TagsOf(es), e, Here(es))
<1> DEFINE n == Len(es)
           k == n + 1
<1>1. /\ more \in Seq(Events) /\ Len(more) = k /\ BeginWith(more, es, n) /\ n \in Nat
      /\ more[k] = e /\ DOMAIN more = 1..k /\ DOMAIN es = 1..n
  BY DEF Extends
<1>2. \A i \in 1..n : SameAt(more, es, i)
  BY <1>1, PrefixSame
<1>3. FirstBreach(es) = "Ok"
  BY FirstBreachNext
<1>4. \A i \in 1..n : i \in Tags(more) <=> i \in Tags(es)
  BY <1>2 DEF SameAt
<1>5. Tags(more) \in SUBSET (0..(n + 1)) /\ Tags(es) \in SUBSET (0..n) /\ 0 \notin Tags(more)
      /\ 0 \notin Tags(es)
  BY <1>1, NamesType DEF Tags
<1>6. k \in Tags(more) <=> WholeTag(e, Here(es))
  BY LastSays
<1>7. CASE e.name = "sequence_begin" /\ e.id = TagsId /\ Here(es) = <<>>
  <2>1. Begins(more) # {} /\ Max(Begins(more)) = k
    BY <1>7, BeginsNext
  <2>2. Elements(more) = {}
    <3>1. \A i \in Tags(more) : ~(i > k)
      BY <1>1, <1>5
    <3> HIDE DEF k
    <3> QED  BY <2>1, <3>1 DEF Elements
  <2> QED  BY <1>7, <2>2, TagsOfIs DEF TagsThen
<1>8. CASE ~(e.name = "sequence_begin" /\ e.id = TagsId /\ Here(es) = <<>>) /\ ~WholeTag(e, Here(es))
  <2>1. Begins(more) = Begins(es)
    BY <1>8, BeginsNext
  <2>2. Tags(more) = Tags(es)
    BY <1>1, <1>4, <1>5, <1>6, <1>8, PlacesNext
  <2>3. Elements(more) = Elements(es)
    BY <2>1, <2>2 DEF Elements
  <2>4. \A i \in 1..Len(es) : more[i] = es[i]
    BY <1>2 DEF SameAt
  <2>5. TagsOf(more) = TagsOf(es)
    BY <1>1, <2>3, <2>4, TagsSame
  <2> QED  BY <1>8, <2>5 DEF TagsThen
<1>9. CASE WholeTag(e, Here(es))
  <2> DEFINE ts == TagsOf(es)
             us == TagsOf(more)
             x0 == e.id + 1
             g == [Grown(ts, x0) EXCEPT ![x0] = e.data]
  <2>1. TagsAre(es, ts) /\ TagsAre(more, us)
    BY <1>1, <1>3, TagsShape
  <2> HIDE DEF ts, us
  <2>2. /\ Elements(more) = Elements(es) \cup {k}
        /\ ValueOf(more, e.id) = e.data
        /\ \A m : m # e.id => ValueOf(more, m) = ValueOf(es, m)
    BY <1>9, ElementNext
  <2>3. e.id \in Nat
    BY DEF Events
  <2>4. \A i \in Elements(es) : more[i] = es[i]
    <3>1. Elements(es) \subseteq 1..n
      BY ElementsType
    <3> QED  BY <1>2, <3>1 DEF SameAt
  <2> DEFINE t == Len(ts)
             u == Len(us)
             l == IF x0 > t THEN x0 ELSE t
  <2>5. t \in Nat /\ u \in Nat /\ x0 \in Nat /\ l \in Nat
    BY <2>1, <2>3 DEF TagsAre
  <2>6. u = l
    <3>1. e.id < u
      <4>1. k \in Elements(more) /\ more[k] = e
        BY <1>1, <2>2
      <4> HIDE DEF k
      <4> QED  BY <2>1, <4>1 DEF TagsAre
    <3>2. u >= t
      <4>1. CASE t = 0
        BY <2>5, <4>1
      <4>2. CASE t # 0
        <5>1. PICK i \in Elements(es) : es[i].id = t - 1
          BY <2>1, <4>2 DEF TagsAre
        <5>2. i \in Elements(more) /\ more[i].id = t - 1
          BY <2>2, <2>4, <5>1
        <5>3. t - 1 < u
          BY <2>1, <5>2 DEF TagsAre
        <5> HIDE DEF t, u
        <5> QED  BY <2>5, <5>3
      <4> QED  BY <4>1, <4>2
    <3>3. u = e.id + 1 \/ u <= t
      <4>1. PICK i \in Elements(more) : more[i].id = u - 1
        <5>1. u # 0
          BY <2>3, <2>5, <3>1
        <5> QED  BY <2>1, <5>1 DEF TagsAre
      <4>2. CASE i = k
        <5>1. u - 1 = e.id
          BY <1>1, <4>1, <4>2
        <5> HIDE DEF u
        <5> QED  BY <2>3, <2>5, <5>1
      <4>3. CASE i \in Elements(es)
        <5>1. u - 1 < t
          BY <2>1, <2>4, <4>1, <4>3 DEF TagsAre
        <5> HIDE DEF t, u
        <5> QED  BY <2>5, <5>1
      <4> QED  BY <2>2, <4>2, <4>3
    <3> HIDE DEF t, u
    <3> QED  BY <2>3, <2>5, <3>1, <3>2, <3>3
  <2>7. g = [x \in 1..l |-> IF x = x0 THEN e.data ELSE IF x <= t THEN ts[x] ELSE <<>>]
    <3>1. Grown(ts, x0) = [x \in 1..l |-> IF x <= t THEN ts[x] ELSE <<>>]
      BY DEF Grown, Default
    <3> HIDE DEF l, t, x0
    <3> QED  BY <3>1
  <2>8. \A x \in 1..l : us[x] = IF x = x0 THEN e.data ELSE IF x <= t THEN ts[x] ELSE <<>>
    <3> TAKE x \in 1..l
    <3> HIDE DEF l, t
    <3>1. us[x] = ValueOf(more, x - 1)
      BY <2>1, <2>6 DEF TagsAre
    <3>2. CASE x = x0
      <4>1. x - 1 = e.id
        BY <2>3, <3>2
      <4> QED  BY <2>2, <3>1, <3>2, <4>1
    <3>3. CASE x # x0
      <4>1. x - 1 # e.id /\ x \in Nat
        BY <2>3, <2>5, <3>3
      <4>2. us[x] = ValueOf(es, x - 1)
        BY <2>2, <3>1, <4>1
      <4>3. CASE x <= t
        <5>1. ts[x] = ValueOf(es, x - 1)
          BY <2>1, <2>5, <4>3 DEF TagsAre, t
        <5> QED  BY <3>3, <4>2, <4>3, <5>1
      <4>4. CASE ~(x <= t)
        <5>1. \A i \in Elements(es) : es[i].id \in Nat /\ es[i].id < t
          BY <2>1 DEF TagsAre, t
        <5>2. \A i \in Elements(es) : es[i].id # x - 1
          BY <2>5, <4>1, <4>4, <5>1
        <5>3. OfId(es, x - 1) = {}
          BY <5>2 DEF OfId
        <5>4. ValueOf(es, x - 1) = <<>>
          BY <5>3 DEF ValueOf
        <5> QED  BY <3>3, <4>2, <4>4, <5>4
      <4> QED  BY <4>3, <4>4
    <3> QED  BY <3>2, <3>3
  <2>9. us = [x \in 1..l |-> us[x]]
    <3>1. us \in Seq(Seq(Byte)) /\ Len(us) = l /\ DOMAIN us = 1..l
      BY <2>1, <2>6 DEF TagsAre
    <3> HIDE DEF l
    <3> QED  BY <3>1
  <2>10. us = g
    <3> HIDE DEF g, l, t, x0
    <3> QED  BY <2>7, <2>8, <2>9
  <2>11. ~(e.name = "sequence_begin" /\ e.id = TagsId /\ Here(es) = <<>>)
    BY <1>9 DEF WholeTag, Whole
  <2> QED  BY <1>9, <2>10, <2>11 DEF TagsThen, ts, us
<1> QED  BY <1>7, <1>8, <1>9

-----------------------------------------------------------------------------
(***************************************************************************)
(* One more callback is told.                                              *)
(***************************************************************************)
LEMMA PrefixNext ==
  ASSUME NEW es \in Seq(Events), NEW k \in 0..(Len(es) - 1)
  PROVE  /\ SubSeq(es, 1, k) \in Seq(Events) /\ es[k + 1] \in Events
         /\ SubSeq(es, 1, k + 1) = Append(SubSeq(es, 1, k), es[k + 1])
<1> DEFINE a == SubSeq(es, 1, k)
           b == SubSeq(es, 1, k + 1)
           c == Append(a, es[k + 1])
<1>1. k \in Nat /\ Len(es) \in Nat /\ k + 1 \in 1..Len(es)
  OBVIOUS
<1>2. es[k + 1] \in Events /\ \A i \in 1..(k + 1) : es[i] \in Events
  BY <1>1
<1>3. a \in Seq(Events) /\ Len(a) = k /\ \A i \in 1..k : a[i] = es[i]
  BY <1>1, <1>2, SubSeqProperties
<1>4. b \in Seq(Events) /\ Len(b) = k + 1 /\ \A i \in 1..(k + 1) : b[i] = es[i]
  BY <1>1, <1>2, SubSeqProperties
<1> HIDE DEF a, b
<1>5. c \in Seq(Events) /\ Len(c) = k + 1 /\ c[k + 1] = es[k + 1] /\ \A i \in 1..k : c[i] = a[i]
  BY <1>2, <1>3
<1> HIDE DEF c
<1>6. \A i \in 1..(k + 1) : b[i] = c[i]
  BY <1>1, <1>3, <1>4, <1>5
<1>7. b = c
  BY <1>4, <1>5, <1>6, SeqEqual
<1> QED  BY <1>2, <1>3, <1>7 DEF a, b, c

\* Some callbacks as another one before the last.
LEMMA LastApart ==
  ASSUME NEW es \in Seq(Events), es # <<>>
  PROVE  \E before \in Seq(Events), e \in Events :
           es = Append(before, e) /\ e = es[Len(es)]
<1>1. Len(es) \in Nat \ {0}
  BY EmptySeq
<1> DEFINE k == Len(es) - 1
<1>2. k \in 0..k /\ k + 1 = Len(es)
  BY <1>1
<1>3. /\ SubSeq(es, 1, k) \in Seq(Events) /\ es[k + 1] \in Events
      /\ SubSeq(es, 1, k + 1) = Append(SubSeq(es, 1, k), es[k + 1])
  <2> HIDE DEF k
  <2> QED  BY <1>2, PrefixNext DEF k
<1>4. SubSeq(es, 1, Len(es)) = es
  OBVIOUS
<1> QED  BY <1>2, <1>3, <1>4

\* What is told behind the callbacks told before, once e is handled: e itself, or the
\* payload whose last chunk e is, as far as it is there.
Behindhand(U, c, e) ==
  /\ U \in Seq(Events) /\ c \in Events
  /\ Told' = Append(U, c)
  /\ c.name = e.name /\ c.id = e.id /\ c.type = e.type /\ c.value = e.value
  /\ e.name # "chunk" => c = e
  /\ e.name = "chunk" => /\ c.offset = 0 /\ Len(c.data) = e.offset + Len(e.data)
                         /\ e.offset + Len(e.data) <= e.value
                         /\ c.data = IF e.offset = 0 THEN e.data ELSE Told[Len(Told)].data \o e.data

\* The visitor's state in the callbacks before that.
StandsAt(U) ==
  /\ open = Here(U) /\ verdict = FirstBreach(U)
  /\ verdict = "Ok" => name = NameOf(U) /\ tags = TagsOf(U)

\* A payload that is not whole says nothing.
LEMMA UnfinishedSaysNothing ==
  ASSUME NEW es \in Seq(Events), NEW c \in Events, c.name = "chunk", Len(c.data) # c.value
  PROVE  /\ Here(Append(es, c)) = Here(es)
         /\ FirstBreach(Append(es, c)) = FirstBreach(es)
         /\ FirstBreach(es) = "Ok" =>
              NameOf(Append(es, c)) = NameOf(es) /\ TagsOf(Append(es, c)) = TagsOf(es)
<1> DEFINE more == Append(es, c)
<1>1. Extends(more, es, c)
  BY AppendExtends
<1> HIDE DEF more
<1>2. \A path : ~WholeName(c, path) /\ ~WholeTag(c, path) /\ BreachOf(c, path) = "Ok" /\ Behind(path, c) = path
  BY DEF WholeName, WholeTag, Whole, BreachOf, Behind
<1>3. Here(more) = Here(es)
  BY <1>1, <1>2, LastSays
<1>4. FirstBreach(more) = FirstBreach(es)
  BY <1>1, <1>2, FirstBreachNext
<1>5. NameOf(more) = NameOf(es)
  BY <1>1, <1>2, NameNext
<1>6. FirstBreach(es) = "Ok" => TagsOf(more) = TagsOf(es)
  BY <1>1, <1>2, <1>4, TagsNext DEF TagsThen
<1> QED  BY <1>3, <1>4, <1>5, <1>6 DEF more

LEMMA ToldNext ==
  ASSUME TypeInv, OrderInv, LastInv, VisitorInv, seen < Len(events), seen' = seen + 1, UNCHANGED vars
  PROVE  \E U, c : Behindhand(U, c, event) /\ StandsAt(U)
<1> DEFINE T == Told
           e == event
<1>1. events \in Seq(Events) /\ events' = events /\ Len(events) \in Nat /\ seen \in 0..(Len(events) - 1)
  BY DEF TypeInv, LastInv, vars
<1>2. e \in Events /\ e = events[seen + 1]
  BY <1>1, PrefixNext DEF event
<1>3. T \in Seq(Events)
  BY DEF LastInv
<1>4. Told' = Join(T, e)
  <2>1. Told' = Joined(SubSeq(events, 1, seen + 1))
    BY <1>1 DEF Told
  <2>2. SubSeq(events, 1, seen) \in Seq(Events) /\ SubSeq(events, 1, seen + 1) = Append(SubSeq(events, 1, seen), e)
    BY <1>1, <1>2, PrefixNext
  <2> QED  BY <1>2, <2>1, <2>2, JoinedIs DEF Told
<1> HIDE DEF T, e
<1>5. e.offset \in Nat /\ e.id \in Nat /\ e.type \in Nat /\ e.value \in Int /\ e.data \in Seq(Byte)
  BY <1>2 DEF Events
<1>6. StandsAt(T)
  BY DEF VisitorInv, StandsAt, T
<1>7. seen # 0 => MayFollow(events[seen], e)
  <2>1. PayloadOrder(events)
    BY DEF OrderInv
  <2>2. seen # 0 => seen + 1 \in 1..Len(events) /\ seen + 1 > 1 /\ (seen + 1) - 1 = seen
    BY <1>1
  <2> QED  BY <1>2, <2>1, <2>2 DEF PayloadOrder
<1>8. e.name = "chunk" => seen # 0
  <2>1. PayloadOrder(events) /\ 1 \in 1..Len(events)
    BY <1>1 DEF OrderInv
  <2> QED  BY <1>1, <1>2, <2>1 DEF PayloadOrder
<1>9. e.name = "chunk" => e.offset + Len(e.data) <= e.value
  BY <1>7, <1>8 DEF MayFollow
<1>10. CASE e.name # "chunk" \/ e.offset = 0
  <2>1. Told' = Append(T, e)
    BY <1>4, <1>10, JoinNew
  <2>2. Len(e.data) = 0 + Len(e.data)
    BY <1>5
  <2>3. e.name = "chunk" => Len(e.data) = e.offset + Len(e.data)
    BY <1>10, <2>2
  <2>4. Behindhand(T, e, e)
    BY <1>2, <1>3, <1>9, <1>10, <2>1, <2>3 DEF Behindhand
  <2> QED  BY <1>6, <2>4 DEF e
<1>11. CASE e.name = "chunk" /\ e.offset # 0
  <2> DEFINE before == events[seen]
             old == T[Len(T)]
  <2>1. Unfinished(before) /\ e.offset = before.offset + Len(before.data)
        /\ e.id = before.id /\ e.type = before.type /\ e.value = before.value
    BY <1>7, <1>8, <1>11 DEF MayFollow
  <2>2. T # <<>> /\ SameCallback(old, before)
    BY <1>1, <1>8, <1>11 DEF LastInv, T
  <2>3. PICK U \in Seq(Events), c \in Events : T = Append(U, c) /\ c = old
    BY <1>3, <2>2, LastApart
  <2>4. /\ c.name = "chunk" /\ c.offset = 0 /\ c.id = e.id /\ c.type = e.type /\ c.value = e.value
        /\ Len(c.data) = e.offset
    BY <2>1, <2>2, <2>3 DEF SameCallback, Unfinished
  <2>5. c = OnChunk(e.id, e.type, e.value, 0, c.data) /\ c.data \in Seq(Byte)
    BY <2>4 DEF Events, OnChunk, Callback
  <2>6. e = OnChunk(e.id, e.type, e.value, e.offset, e.data)
    BY <1>2, <1>11 DEF Events, OnChunk, Callback
  <2> DEFINE both == c.data \o e.data
             d == OnChunk(e.id, e.type, e.value, 0, both)
  <2>7. Told' = Append(U, d)
    <3>1. Join(Append(U, OnChunk(e.id, e.type, e.value, 0, c.data)), OnChunk(e.id, e.type, e.value, e.offset, e.data)) = Append(U, d)
      BY <1>5, <1>11, JoinMore
    <3> HIDE DEF d, before, old
    <3> QED  BY <1>4, <2>3, <2>5, <2>6, <3>1
  <2>8. both \in Seq(Byte) /\ Len(both) = e.offset + Len(e.data)
    <3>1. ASSUME NEW x \in Seq(Byte), NEW y \in Seq(Byte)
          PROVE  x \o y \in Seq(Byte) /\ Len(x \o y) = Len(x) + Len(y)
      OBVIOUS
    <3>2. both \in Seq(Byte) /\ Len(both) = Len(c.data) + Len(e.data)
      BY <1>5, <2>5, <3>1
    <3> HIDE DEF both
    <3> QED  BY <2>4, <3>2
  <2>9. d \in Events
    <3> HIDE DEF both
    <3> QED  BY <1>5, <2>8, CallbackType DEF OnChunk, CallbackNames
  <2>10. /\ d.name = "chunk" /\ d.offset = 0 /\ d.id = e.id /\ d.type = e.type /\ d.value = e.value
         /\ d.data = both
    BY DEF OnChunk, Callback
  <2> HIDE DEF d, both
  <2>11. Behindhand(U, d, e)
    BY <1>9, <1>11, <2>3, <2>7, <2>8, <2>9, <2>10 DEF Behindhand, both, T
  <2>12. StandsAt(U)
    <3>1. Len(c.data) # c.value
      <4>1. before.offset + Len(before.data) < before.value
        BY <2>1 DEF Unfinished
      <4>2. e.offset < e.value
        BY <2>1, <4>1
      <4> QED  BY <1>5, <2>4, <4>2
    <3>2. /\ Here(T) = Here(U) /\ FirstBreach(T) = FirstBreach(U)
          /\ FirstBreach(U) = "Ok" => NameOf(T) = NameOf(U) /\ TagsOf(T) = TagsOf(U)
      BY <2>3, <2>4, <3>1, UnfinishedSaysNothing
    <3> QED  BY <1>6, <3>2 DEF StandsAt
  <2> QED  BY <2>11, <2>12 DEF e
<1> QED  BY <1>10, <1>11

-----------------------------------------------------------------------------
(***************************************************************************)
(* What the visitor makes of a callback.                                   *)
(***************************************************************************)
\* The accumulator's feed, for chunks that come in order.
LEMMA HeldNext ==
  ASSUME accBuf \in Seq(Byte), accComplete \in BOOLEAN, NEW total \in Nat, NEW offset \in Nat,
         NEW data \in Seq(Byte), Acc!Feed(total, offset, data), offset = 0 \/ ~accComplete,
         NEW all \in Seq(Byte), all = (IF offset = 0 THEN data ELSE accBuf \o data),
         Len(all) <= total
  PROVE  /\ Len(all) < total => accBuf' = all /\ ~accComplete' /\ accReturned' = <<>>
         /\ Len(all) = total => accReturned' = <<all>>
<1>1. Len(all) \in Nat /\ <<>> \in Seq(Byte) /\ Len(<<>>) = 0
  OBVIOUS
<1>2. SubSeq(all, 1, Len(all)) = all
  OBVIOUS
<1>3. CASE Acc!FeedWhole(total, offset, data)
  <2>1. /\ offset = 0 /\ Len(data) >= total /\ accBuf' = <<>> /\ accComplete' = TRUE
        /\ accReturned' = <<SubSeq(data, 1, total)>>
    BY <1>3 DEF Acc!FeedWhole, Acc!Cut
  <2>2. all = data /\ Len(all) = total
    BY <1>1, <2>1
  <2>3. SubSeq(data, 1, total) = all
    BY <1>2, <2>2
  <2> QED  BY <1>1, <2>1, <2>2, <2>3
<1>4. CASE Acc!FeedMore(total, offset, data)
  <2>1. accBuf' = Acc!Kept(offset, data) /\ accComplete' = (Len(accBuf') >= total)
        /\ accReturned' = IF Len(accBuf') >= total THEN <<SubSeq(accBuf', 1, total)>> ELSE <<>>
    BY <1>4 DEF Acc!FeedMore, Acc!Cut
  <2>2. <<>> \o data = data
    OBVIOUS
  <2>3. Acc!Kept(offset, data) = all
    BY <2>2 DEF Acc!Kept
  <2>4. accBuf' = all
    BY <2>1, <2>3
  <2> DEFINE full == Len(all) >= total
  <2>5. full \in BOOLEAN
    OBVIOUS
  <2>6. accComplete' = full /\ accReturned' = IF full THEN <<SubSeq(all, 1, total)>> ELSE <<>>
    BY <2>1, <2>4
  <2>7. CASE Len(all) = total
    <3>1. full /\ ~(Len(all) < total) /\ SubSeq(all, 1, total) = all /\ Len(all) <= total
      BY <1>1, <1>2, <2>7
    <3> HIDE DEF full
    <3> QED  BY <2>4, <2>5, <2>6, <3>1, Zenon
  <2>8. CASE Len(all) < total
    <3>1. ~full /\ Len(all) # total /\ Len(all) <= total
      BY <1>1, <2>8
    <3> HIDE DEF full
    <3> QED  BY <2>4, <2>5, <2>6, <3>1, Zenon
  <2> QED  BY <1>1, <2>7, <2>8
<1>5. ~Acc!FeedIgnored(total, offset, data)
  BY DEF Acc!FeedIgnored, Acc!Ignores
<1> QED  BY <1>3, <1>4, <1>5 DEF Acc!Feed

\* The index of a tag that nothing is raised for is judged well.
LEMMA IndexJudgedWell ==
  ASSUME NEW e, NEW path, Announced(e, path) = "Ok", IsTag(e, path)
  PROVE  CheckIndex(e.id, TagsBound) = "Ok"
<1>1. ~IsName(e, path)
  BY DEF IsName, IsTag
<1>2. CheckIndex(e.id, TagsBound) # "Ok" => Announced(e, path) = CheckIndex(e.id, TagsBound)
  BY <1>1, Zenon DEF Announced
<1> QED  BY <1>2

\* What the visitor is to do about c, which is told next.
Follows(c) ==
  /\ open' = Behind(open, c)
  /\ verdict' = IF verdict # "Ok" THEN verdict ELSE BreachOf(c, open)
  /\ verdict' = "Ok" =>
       /\ name' = IF WholeName(c, open) THEN c.data ELSE name
       /\ tags' = TagsThen(tags, c, open)
       /\ BeginsPayload(c) => Announced(c, open) = "Ok"
       /\ Unfinished(c) /\ Ours(c) => Announced(c, open) = "Ok" /\ accBuf' = c.data /\ ~accComplete'

LEMMA FollowedTold ==
  ASSUME NEW U, NEW c, Behindhand(U, c, event), StandsAt(U), Follows(c)
  PROVE  VisitorInv'
<1> DEFINE more == Append(U, c)
<1>1. U \in Seq(Events) /\ c \in Events /\ Told' = more
  BY DEF Behindhand
<1>2. Extends(more, U, c)
  BY <1>1, AppendExtends
<1> HIDE DEF more
<1>3. Here(more) = Behind(Here(U), c)
  BY <1>1, <1>2, LastSays
<1>4. FirstBreach(more) = IF FirstBreach(U) # "Ok" THEN FirstBreach(U) ELSE BreachOf(c, Here(U))
  BY <1>1, <1>2, FirstBreachNext
<1>5. open = Here(U) /\ verdict = FirstBreach(U)
  BY DEF StandsAt
<1>6. open' = Here(more) /\ verdict' = FirstBreach(more)
  BY <1>3, <1>4, <1>5 DEF Follows
<1>7. ASSUME verdict' = "Ok" PROVE name' = NameOf(more) /\ tags' = TagsOf(more)
  <2>1. FirstBreach(more) = "Ok" /\ verdict = "Ok"
    BY <1>4, <1>5, <1>6, <1>7
  <2>2. name = NameOf(U) /\ tags = TagsOf(U)
    BY <2>1 DEF StandsAt
  <2>3. NameOf(more) = IF WholeName(c, open) THEN c.data ELSE NameOf(U)
    BY <1>1, <1>2, <1>5, NameNext
  <2>4. TagsOf(more) = TagsThen(TagsOf(U), c, open)
    BY <1>1, <1>2, <1>5, <2>1, TagsNext
  <2> QED  BY <1>7, <2>2, <2>3, <2>4 DEF Follows
<1>8. Here(Told)' = Here(more) /\ FirstBreach(Told)' = FirstBreach(more)
      /\ NameOf(Told)' = NameOf(more) /\ TagsOf(Told)' = TagsOf(more)
  BY <1>1
<1> QED  BY <1>6, <1>7, <1>8 DEF VisitorInv

LEMMA FollowedLast ==
  ASSUME NEW U, NEW c, Behindhand(U, c, event), Follows(c), seen \in Nat, seen < Len(events),
         events \in Seq(Events), seen' = seen + 1, events' = events
  PROVE  LastInv' /\ HeldInv'
<1> DEFINE more == Append(U, c)
           e == event
<1>1. U \in Seq(Events) /\ c \in Events /\ Told' = more
  BY DEF Behindhand
<1>2. more \in Seq(Events) /\ Len(more) = Len(U) + 1 /\ more[Len(U) + 1] = c /\ more # <<>>
  BY <1>1
<1>3. more[Len(more)] = c
  BY <1>2
<1> HIDE DEF more
<1>4. (Told[Len(Told)])' = c
  BY <1>1, <1>3
<1>5. SameCallback(c, e)
  BY DEF Behindhand, SameCallback
<1>6. (events[seen])' = e
  BY DEF event
<1>7. LastInv'
  <2>1. SameCallback(Told[Len(Told)], events[seen])'
    BY <1>4, <1>5, <1>6 DEF SameCallback
  <2>2. seen' \in 0..Len(events)' /\ seen' # 0
    OBVIOUS
  <2> QED  BY <1>1, <1>2, <2>1, <2>2 DEF LastInv
<1>8. HeldInv'
  <2> SUFFICES ASSUME verdict' = "Ok"
               PROVE  /\ BeginsPayload(c) => Announced(c, open') = "Ok"
                      /\ Unfinished(c) /\ (IsName(c, open') \/ IsTag(c, open')) =>
                           Announced(c, open') = "Ok" /\ accBuf' = c.data /\ ~accComplete'
    <3>1. c = (Told[Len(Told)])'
      BY <1>4
    <3> HIDE DEF e
    <3> QED  BY <3>1 DEF HeldInv, Ours
  <2>1. c.name # "sequence_begin" /\ c.name # "sequence_end" => open' = open
    BY DEF Follows, Behind
  <2>2. BeginsPayload(c) \/ Unfinished(c) => open' = open
    BY <2>1 DEF BeginsPayload, Unfinished
  <2> QED  BY <2>2 DEF Follows, Ours
<1> QED  BY <1>7, <1>8

\* The payload that a chunk goes on with is held.
LEMMA HeldBefore ==
  ASSUME TypeInv, OrderInv, LastInv, HeldInv, verdict = "Ok", seen < Len(events),
         event.name = "chunk", Ours(event)
  PROVE  /\ Announced(event, open) = "Ok"
         /\ event.offset # 0 => accBuf = Told[Len(Told)].data /\ ~accComplete
<1> DEFINE e == event
           before == events[seen]
           t == Told[Len(Told)]
<1>1. events \in Seq(Events) /\ Len(events) \in Nat /\ seen \in 0..(Len(events) - 1)
  BY DEF TypeInv, LastInv
<1>2. e \in Events /\ e = events[seen + 1]
  BY <1>1, PrefixNext DEF event
<1>3. PayloadOrder(events)
  BY DEF OrderInv
<1>4. seen # 0
  <2>1. 1 \in 1..Len(events)
    BY <1>1
  <2> QED  BY <1>1, <1>2, <1>3, <2>1 DEF PayloadOrder
<1>5. MayFollow(before, e)
  <2>1. seen + 1 \in 1..Len(events) /\ seen + 1 > 1 /\ (seen + 1) - 1 = seen
    BY <1>1, <1>4
  <2> QED  BY <1>2, <1>3, <2>1 DEF PayloadOrder
<1>6. Told # <<>> /\ SameCallback(t, before)
  BY <1>1, <1>4 DEF LastInv
<1>7. /\ BeginsPayload(t) => Announced(t, open) = "Ok"
      /\ Unfinished(t) /\ Ours(t) => Announced(t, open) = "Ok" /\ accBuf = t.data /\ ~accComplete
  BY <1>6 DEF HeldInv
<1>8. before \in Events
  BY <1>1, <1>4
<1> HIDE DEF e, before, t
<1>9. t.id = e.id /\ t.type = e.type /\ t.value = e.value
  BY <1>5, <1>6 DEF MayFollow, SameCallback, e
<1>10. Announced(t, open) = Announced(e, open) /\ (Ours(t) <=> Ours(e))
  BY <1>9 DEF Announced, Ours, IsName, IsTag
<1>11. CASE before.name = "fixlen_begin"
  <2>1. BeginsPayload(t)
    <3>1. ~BeginsFloat(before)
      BY <1>5 DEF MayFollow, e
    <3>2. t.name = before.name /\ t.type = before.type
      BY <1>6 DEF SameCallback
    <3> QED  BY <1>11, <3>1, <3>2 DEF BeginsFloat, BeginsPayload
  <2>2. e.offset = 0
    BY <1>5, <1>11 DEF MayFollow, e
  <2> QED  BY <1>7, <1>10, <2>1, <2>2 DEF e
<1>12. CASE Unfinished(before)
  <2>1. Unfinished(t)
    <3>1. t.name = "chunk" /\ t.offset = 0 /\ Len(t.data) = before.offset + Len(before.data) /\ t.value = before.value
      BY <1>6, <1>12 DEF SameCallback, Unfinished
    <3>2. before.offset + Len(before.data) < before.value /\ before.offset \in Nat /\ Len(before.data) \in Nat
      BY <1>8, <1>12 DEF Unfinished, Events
    <3>3. t.offset + Len(t.data) = before.offset + Len(before.data)
      BY <3>1, <3>2
    <3> QED  BY <3>1, <3>2, <3>3 DEF Unfinished
  <2> QED  BY <1>7, <1>10, <2>1 DEF e, t
<1> QED  BY <1>5, <1>11, <1>12 DEF MayFollow, e

\* A callback that is neither the name nor a tag as a whole, nor opens the tags.
LEMMA FollowsQuietly ==
  ASSUME NEW c, c.name # "chunk", UNCHANGED name,
         open' = Behind(open, c),
         verdict' = (IF c.name = "fixlen_begin" /\ verdict = "Ok" THEN Announced(c, open) ELSE verdict),
         verdict' = "Ok" =>
           tags' = IF c.name = "sequence_begin" /\ c.id = TagsId /\ open = <<>> THEN <<>> ELSE tags
  PROVE  Follows(c)
<1>1. ~WholeName(c, open) /\ ~WholeTag(c, open) /\ ~Unfinished(c)
  BY DEF WholeName, WholeTag, Whole, Unfinished
<1>2. BreachOf(c, open) = IF c.name = "fixlen_begin" THEN Announced(c, open) ELSE "Ok"
  BY <1>1 DEF BreachOf
<1>3. verdict' = IF verdict # "Ok" THEN verdict ELSE BreachOf(c, open)
  BY <1>2
<1>4. ASSUME verdict' = "Ok" PROVE BeginsPayload(c) => Announced(c, open) = "Ok"
  BY <1>4 DEF BeginsPayload
<1>5. ASSUME verdict' = "Ok" PROVE tags' = TagsThen(tags, c, open)
  BY <1>1, <1>5 DEF TagsThen
<1> QED  BY <1>1, <1>3, <1>4, <1>5 DEF Follows

LEMMA FollowsCallback ==
  ASSUME ReceiverTypes, event \in Events, FixlenBegin \/ SequenceBegun \/ SequenceEnded \/ Skipped
  PROVE  Follows(event) /\ ReceiverTypes'
<1> DEFINE e == event
<1>1. e.id \in Nat /\ e = events[seen + 1]
  BY DEF Events, event
<1>2. open \in Seq(Nat) /\ Len(open) \in Nat
  BY DEF ReceiverTypes
<1> HIDE DEF e
<1>3. UNCHANGED acc => UNCHANGED <<accBuf, accComplete>>
  BY DEF acc
<1>4. CASE FixlenBegin
  <2>1. /\ e.name = "fixlen_begin" /\ UNCHANGED <<name, tags, accBuf, accComplete, open, busy>>
        /\ verdict' = IF verdict = "Ok" THEN Announced(e, open) ELSE verdict
    BY <1>1, <1>4 DEF FixlenBegin, Raised, Handles, e, destination, acc, consumerVars
  <2>2. Follows(e)
    <3>1. open' = Behind(open, e)
      BY <2>1 DEF Behind
    <3> QED  BY <2>1, <3>1, FollowsQuietly
  <2> QED  BY <2>1, <2>2 DEF ReceiverTypes, e
<1>5. CASE Skipped
  <2>1. /\ e.name \in {"unsigned", "signed", "float", "array_begin"}
        /\ UNCHANGED <<name, tags, accBuf, accComplete, open, busy, verdict>>
    BY <1>1, <1>5 DEF Skipped, Handles, e, destination, acc, consumerVars
  <2>2. Follows(e)
    <3>1. open' = Behind(open, e)
      BY <2>1 DEF Behind
    <3> QED  BY <2>1, <3>1, FollowsQuietly
  <2> QED  BY <2>1, <2>2 DEF ReceiverTypes, e
<1>6. CASE SequenceEnded
  <2>1. /\ e.name = "sequence_end" /\ open' = Front(open)
        /\ UNCHANGED <<name, tags, accBuf, accComplete, busy, verdict>>
    BY <1>1, <1>6 DEF SequenceEnded, Handles, e, destination, acc, consumerVars
  <2>2. open' = Behind(open, e)
    BY <2>1 DEF Behind
  <2>3. Follows(e)
    BY <2>1, <2>2, FollowsQuietly
  <2>4. open' \in Seq(Nat)
    BY <1>2, <2>2, BehindType DEF e
  <2> QED  BY <2>1, <2>3, <2>4 DEF ReceiverTypes, e
<1>7. CASE SequenceBegun
  <2>1. /\ e.name = "sequence_begin" /\ open' = Append(open, e.id)
        /\ tags' = IF open' = <<TagsId>> THEN <<>> ELSE tags
        /\ UNCHANGED <<name, accBuf, accComplete, busy, verdict>>
    BY <1>1, <1>7 DEF SequenceBegun, Handles, e, acc, consumerVars
  <2>2. open' = Behind(open, e)
    BY <2>1 DEF Behind
  <2>3. open' = <<TagsId>> <=> e.id = TagsId /\ open = <<>>
    <3>1. Append(open, e.id)[Len(open) + 1] = e.id /\ Len(Append(open, e.id)) = Len(open) + 1
      BY <1>1, <1>2
    <3>2. Len(<<TagsId>>) = 1 /\ <<TagsId>>[1] = TagsId
      OBVIOUS
    <3>3. Append(<<>>, TagsId) = <<TagsId>>
      OBVIOUS
    <3>4. ASSUME Append(open, e.id) = <<TagsId>> PROVE e.id = TagsId /\ open = <<>>
      <4>1. Len(open) = 0
        BY <1>2, <3>1, <3>2, <3>4
      <4>2. open = <<>>
        BY <1>2, <4>1
      <4> QED  BY <3>1, <3>2, <3>4, <4>1, <4>2
    <3> QED  BY <2>1, <3>3, <3>4
  <2>4. Follows(e)
    BY <2>1, <2>2, <2>3, FollowsQuietly
  <2>5. open' \in Seq(Nat)
    BY <1>2, <2>2, BehindType DEF e
  <2>6. tags' = <<>> \/ tags' = tags
    BY <2>1
  <2>7. <<>> \in Seq(Seq(Byte)) /\ Len(<<>>) = 0 /\ 0 <= TagsCapacity
    BY BoundsAssumption
  <2>8. ReceiverTypes'
    BY <2>1, <2>5, <2>6, <2>7 DEF ReceiverTypes
  <2> QED  BY <2>4, <2>8 DEF e
<1> QED  BY <1>4, <1>5, <1>6, <1>7

\* A slot set behind growing the list to it.
Put(ts, n, bytes) == [Grown(ts, n + 1) EXCEPT ![n + 1] = bytes]
IsPut(us, ts, n) == us \in Seq(Seq(Byte)) /\ Len(us) = IF n + 1 > Len(ts) THEN n + 1 ELSE Len(ts)

LEMMA SlotSet ==
  ASSUME NEW ts \in Seq(Seq(Byte)), NEW n \in Nat, NEW bytes \in Seq(Byte)
  PROVE  IsPut(Put(ts, n, bytes), ts, n)
<1> DEFINE us == Put(ts, n, bytes)
           x0 == n + 1
           t == Len(ts)
           l == IF x0 > t THEN x0 ELSE t
           f(x) == IF x = x0 THEN bytes ELSE IF x <= t THEN ts[x] ELSE <<>>
<1>1. t \in Nat /\ x0 \in Nat /\ l \in Nat /\ x0 \in 1..l
  OBVIOUS
<1>2. us = [x \in 1..l |-> f(x)]
  <2>1. Grown(ts, x0) = [x \in 1..l |-> IF x <= t THEN ts[x] ELSE <<>>]
    BY DEF Grown, Default
  <2>2. us = [Grown(ts, x0) EXCEPT ![x0] = bytes]
    BY DEF Put
  <2> HIDE DEF l, t, x0, us
  <2> QED  BY <2>1, <2>2
<1> HIDE DEF us
<1>3. \A x \in 1..l : f(x) \in Seq(Byte)
  <2>1. \A x \in 1..t : ts[x] \in Seq(Byte)
    OBVIOUS
  <2>2. <<>> \in Seq(Byte)
    OBVIOUS
  <2> HIDE DEF l, t, x0
  <2> QED  BY <1>1, <2>1, <2>2
<1>4. us \in [1..l -> Seq(Byte)]
  <2> HIDE DEF f, l
  <2> QED  BY <1>2, <1>3
<1>5. us \in Seq(Seq(Byte)) /\ Len(us) = l
  <2> HIDE DEF l
  <2>1. ASSUME NEW m \in Nat, NEW s \in [1..m -> Seq(Byte)]
        PROVE  s \in Seq(Seq(Byte)) /\ Len(s) = m
    OBVIOUS
  <2> QED  BY <1>1, <1>4, <2>1
<1> QED  BY <1>5 DEF IsPut, us

\* The accumulator's feed, for any chunk.
LEMMA FeedTypes ==
  ASSUME accBuf \in Seq(Byte), accComplete \in BOOLEAN, NEW total \in Nat, NEW offset \in Nat,
         NEW data \in Seq(Byte), Acc!Feed(total, offset, data)
  PROVE  /\ accBuf' \in Seq(Byte) /\ accComplete' \in BOOLEAN
         /\ accReturned' # <<>> => accReturned'[1] \in Seq(Byte)
<1>1. ASSUME NEW s \in Seq(Byte), Len(s) >= total PROVE <<SubSeq(s, 1, total)>>[1] \in Seq(Byte)
  <2>1. \A i \in 1..total : s[i] \in Byte
    BY <1>1
  <2>2. SubSeq(s, 1, total) \in Seq(Byte)
    BY <1>1, <2>1, SubSeqProperties
  <2> QED  BY <2>2
<1>2. CASE Acc!FeedWhole(total, offset, data)
  <2>1. /\ Len(data) >= total /\ accBuf' = <<>> /\ accComplete' = TRUE
        /\ accReturned' = <<SubSeq(data, 1, total)>>
    BY <1>2 DEF Acc!FeedWhole, Acc!Cut
  <2>2. <<>> \in Seq(Byte)
    OBVIOUS
  <2>3. accReturned'[1] \in Seq(Byte)
    BY <1>1, <2>1
  <2> QED  BY <2>1, <2>2, <2>3, Zenon
<1>3. CASE Acc!FeedIgnored(total, offset, data)
  BY <1>3 DEF Acc!FeedIgnored
<1>4. CASE Acc!FeedMore(total, offset, data)
  <2>1. accBuf' = Acc!Kept(offset, data) /\ accComplete' = (Len(accBuf') >= total)
        /\ accReturned' = IF Len(accBuf') >= total THEN <<SubSeq(accBuf', 1, total)>> ELSE <<>>
    BY <1>4 DEF Acc!FeedMore, Acc!Cut
  <2>2. accBuf' \in Seq(Byte)
    BY <2>1 DEF Acc!Kept
  <2>3. accComplete' \in BOOLEAN
    <3>1. (Len(accBuf') >= total) \in BOOLEAN
      OBVIOUS
    <3> QED  BY <2>1, <3>1, Zenon
  <2>4. accReturned' # <<>> => accReturned'[1] \in Seq(Byte)
    BY <1>1, <2>1, <2>2
  <2> QED  BY <2>2, <2>3, <2>4
<1> QED  BY <1>2, <1>3, <1>4 DEF Acc!Feed

\* A value placed, or refused, leaves the list within its container.
LEMMA PlaceTypes ==
  ASSUME ReceiverTypes, event.id \in Nat, NEW bytes \in Seq(Byte), Place(bytes)
  PROVE  name' \in Seq(Byte) /\ tags' \in Seq(Seq(Byte)) /\ Len(tags') <= TagsCapacity
<1> DEFINE n == event.id
           slot == IF open = <<>> THEN "Ok" ELSE Reservation(tags, TagsCapacity, n, TagsBound)
<1>1. \/ UNCHANGED <<name, tags>>
      \/ slot = "Ok" /\ name' = (IF open = <<>> THEN bytes ELSE name)
         /\ tags' = IF open = <<>> THEN tags ELSE Put(tags, n, bytes)
  BY DEF Place, Put, destination
<1>2. /\ name \in Seq(Byte) /\ tags \in Seq(Seq(Byte)) /\ Len(tags) \in Nat /\ Len(tags) <= TagsCapacity
      /\ TagsCapacity \in Nat
  BY BoundsAssumption DEF ReceiverTypes
<1>3. ASSUME slot = "Ok", open # <<>>, tags' = Put(tags, n, bytes)
      PROVE  tags' \in Seq(Seq(Byte)) /\ Len(tags') <= TagsCapacity
  <2>1. ~(Len(tags) <= n /\ n + 1 > TagsCapacity)
    BY <1>3 DEF Reservation
  <2> HIDE DEF n
  <2>2. n \in Nat
    BY DEF n
  <2>3. IsPut(tags', tags, n)
    BY <1>2, <1>3, <2>2, SlotSet
  <2> QED  BY <1>2, <2>1, <2>2, <2>3 DEF IsPut
<1> HIDE DEF slot, n
<1> QED  BY <1>1, <1>2, <1>3

\* A chunk of a payload of the message, put behind what is held of it.
LEMMA FollowsChunk ==
  ASSUME ReceiverTypes, NEW U, NEW c, Behindhand(U, c, event), event \in Events, Chunk,
         verdict = "Ok" /\ Ours(event) =>
           /\ Announced(event, open) = "Ok"
           /\ event.offset # 0 => accBuf = Told[Len(Told)].data /\ ~accComplete
  PROVE  Follows(c) /\ ReceiverTypes'
<1> DEFINE e == event
<1>1. /\ e.name = "chunk" /\ UNCHANGED <<open, busy>>
      /\ IF ~Takes THEN UNCHANGED <<name, tags, accBuf, accComplete, verdict>>
         ELSE /\ Acc!Feed(e.value, e.offset, e.data)
              /\ IF accReturned' = <<>> THEN UNCHANGED <<name, tags, verdict>>
                 ELSE Place(accReturned'[1])
  BY DEF Chunk, Handles, event, destination, acc, consumerVars
<1>2. Takes <=> Ours(e)
  BY DEF Takes, Ours
<1>3. e.id \in Nat /\ e.value \in Int /\ e.offset \in Nat /\ e.data \in Seq(Byte)
  BY DEF Events
<1> HIDE DEF e
<1>4. /\ c \in Events /\ c.name = "chunk" /\ c.id = e.id /\ c.type = e.type /\ c.value = e.value
      /\ c.offset = 0 /\ Len(c.data) = e.offset + Len(e.data) /\ Len(c.data) <= e.value
      /\ c.data = IF e.offset = 0 THEN e.data ELSE Told[Len(Told)].data \o e.data
  BY <1>1 DEF Behindhand, e
<1>5. c.data \in Seq(Byte) /\ Len(c.data) \in Nat /\ e.value \in Nat
  <2>1. c.data \in Seq(Byte)
    BY <1>4 DEF Events
  <2> QED  BY <1>3, <1>4, <2>1
<1>6. open' = Behind(open, c)
  BY <1>1, <1>4 DEF Behind
<1>7. /\ IsName(c, open) <=> IsName(e, open)
      /\ IsTag(c, open) <=> IsTag(e, open)
      /\ Announced(c, open) = Announced(e, open)
      /\ ~BeginsPayload(c)
  BY <1>4 DEF IsName, IsTag, Announced, BeginsPayload
<1>8. Whole(c) <=> Len(c.data) = e.value
  BY <1>4 DEF Whole
<1>9. CASE ~Takes
  <2>1. UNCHANGED <<name, tags, accBuf, accComplete, verdict>>
    BY <1>1, <1>9
  <2>2. verdict = "Ok" => /\ ~WholeName(c, open) /\ ~WholeTag(c, open) /\ ~Ours(c)
    BY <1>2, <1>7, <1>9 DEF Ours, WholeName, WholeTag
  <2>3. verdict = "Ok" => BreachOf(c, open) = "Ok" /\ TagsThen(tags, c, open) = tags
    BY <1>4, <2>2 DEF BreachOf, TagsThen
  <2>4. Follows(c)
    BY <1>6, <1>7, <2>1, <2>2, <2>3 DEF Follows
  <2> QED  BY <1>1, <2>1, <2>4 DEF ReceiverTypes
<1>10. ASSUME Takes PROVE ReceiverTypes'
  <2>1. /\ Acc!Feed(e.value, e.offset, e.data)
        /\ IF accReturned' = <<>> THEN UNCHANGED <<name, tags, verdict>> ELSE Place(accReturned'[1])
    BY <1>1, <1>10
  <2>2. /\ accBuf' \in Seq(Byte) /\ accComplete' \in BOOLEAN
        /\ accReturned' # <<>> => accReturned'[1] \in Seq(Byte)
    BY <1>3, <1>5, <2>1, FeedTypes DEF ReceiverTypes
  <2>3. name' \in Seq(Byte) /\ tags' \in Seq(Seq(Byte)) /\ Len(tags') <= TagsCapacity
    <3>1. CASE accReturned' = <<>>
      BY <2>1, <3>1 DEF ReceiverTypes
    <3>2. CASE accReturned' # <<>>
      BY <1>3, <2>1, <2>2, <3>2, PlaceTypes DEF e
    <3> QED  BY <3>1, <3>2
  <2> QED  BY <1>1, <2>2, <2>3 DEF ReceiverTypes
<1>11. ASSUME Takes, verdict # "Ok" PROVE Follows(c)
  <2>1. verdict' = verdict
    BY <1>1, <1>11 DEF Place, Raised
  <2> QED  BY <1>6, <1>11, <2>1 DEF Follows
<1>12. ASSUME Takes, verdict = "Ok" PROVE Follows(c)
  <2>1. /\ Ours(e) /\ Announced(e, open) = "Ok"
        /\ e.offset # 0 => accBuf = Told[Len(Told)].data /\ ~accComplete
    BY <1>2, <1>12 DEF e
  <2> DEFINE all == c.data
  <2>2. /\ Len(all) < e.value => accBuf' = all /\ ~accComplete' /\ accReturned' = <<>>
        /\ Len(all) = e.value => accReturned' = <<all>>
    <3>1. accBuf \in Seq(Byte) /\ accComplete \in BOOLEAN
      BY DEF ReceiverTypes
    <3>2. all = IF e.offset = 0 THEN e.data ELSE accBuf \o e.data
      BY <1>4, <2>1
    <3>3. Acc!Feed(e.value, e.offset, e.data) /\ (e.offset = 0 \/ ~accComplete) /\ Len(all) <= e.value
      BY <1>1, <1>4, <1>12, <2>1
    <3> HIDE DEF all
    <3> QED  BY <1>3, <1>5, <3>1, <3>2, <3>3, HeldNext DEF all
  <2>3. IsTag(e, open) => CheckIndex(e.id, TagsBound) = "Ok"
    BY <2>1, IndexJudgedWell
  <2>4. CASE Len(all) < e.value
    <3>1. accBuf' = all /\ ~accComplete' /\ UNCHANGED <<name, tags, verdict>>
      BY <1>1, <1>12, <2>2, <2>4
    <3>2. ~WholeName(c, open) /\ ~WholeTag(c, open)
      BY <1>5, <1>8, <2>4 DEF WholeName, WholeTag
    <3>3. BreachOf(c, open) = "Ok" /\ TagsThen(tags, c, open) = tags
      BY <1>4, <3>2 DEF BreachOf, TagsThen
    <3> QED  BY <1>6, <1>7, <2>1, <3>1, <3>2, <3>3 DEF Follows
  <2>5. CASE Len(all) = e.value
    <3>1. accReturned' = <<all>> /\ Place(all)
      <4>1. accReturned' = <<all>>
        BY <2>2, <2>5
      <4>2. accReturned' # <<>> /\ accReturned'[1] = all
        BY <4>1
      <4> QED  BY <1>1, <1>12, <4>1, <4>2
    <3>2. ~Unfinished(c)
      <4>1. \A n \in Nat : ~(0 + n < n)
        OBVIOUS
      <4>2. c.offset + Len(c.data) < c.value <=> 0 + Len(c.data) < Len(c.data)
        BY <1>4, <2>5
      <4> HIDE DEF all
      <4> QED  BY <1>5, <4>1, <4>2 DEF Unfinished
    <3>3. Whole(c)
      BY <1>8, <2>5
    <3> DEFINE slot == IF open = <<>> THEN "Ok" ELSE Reservation(tags, TagsCapacity, e.id, TagsBound)
    <3>4. IF ~IsText(all) \/ slot # "Ok"
            THEN /\ verdict' = IF ~IsText(all) THEN "InvalidMsg" ELSE slot
                 /\ UNCHANGED <<name, tags>>
            ELSE /\ name' = IF open = <<>> THEN all ELSE name
                 /\ tags' = IF open = <<>> THEN tags
                            ELSE [Grown(tags, e.id + 1) EXCEPT ![e.id + 1] = all]
                 /\ UNCHANGED verdict
      BY <1>12, <3>1 DEF Place, Raised, Judged, destination, e
    <3>5. open = <<>> <=> WholeName(c, open)
      <4>1. open = <<>> => ~IsTag(e, open)
        BY DEF IsTag
      <4>2. IsName(e, open) => open = <<>>
        BY DEF IsName
      <4> QED  BY <1>7, <2>1, <3>3, <4>1, <4>2 DEF Ours, WholeName
    <3>6. open # <<>> <=> WholeTag(c, open)
      <4>1. open # <<>> => ~IsName(e, open)
        BY DEF IsName
      <4>2. IsTag(e, open) => open # <<>>
        BY DEF IsTag
      <4> QED  BY <1>7, <2>1, <3>3, <4>1, <4>2 DEF Ours, WholeTag
    <3>7. Len(tags) \in Nat /\ TagsCapacity \in Nat /\ Len(tags) <= TagsCapacity
      BY BoundsAssumption DEF ReceiverTypes
    <3>8. slot = IF open # <<>> /\ e.id >= TagsCapacity THEN "Argument" ELSE "Ok"
      <4>1. CASE open = <<>>
        BY <4>1
      <4>2. CASE open # <<>>
        <5>1. CheckIndex(e.id, TagsBound) = "Ok"
          BY <1>7, <2>3, <3>6, <4>2 DEF WholeTag
        <5>2. Reservation(tags, TagsCapacity, e.id, TagsBound) =
                IF Len(tags) <= e.id /\ e.id + 1 > TagsCapacity THEN "Argument" ELSE "Ok"
          BY <5>1 DEF Reservation
        <5>3. Len(tags) <= e.id /\ e.id + 1 > TagsCapacity <=> e.id >= TagsCapacity
          BY <1>3, <3>7
        <5> QED  BY <4>2, <5>2, <5>3
      <4> QED  BY <4>1, <4>2
    <3> HIDE DEF slot
    <3>9. BreachOf(c, open) = IF ~IsText(all) THEN "InvalidMsg"
                              ELSE IF open # <<>> /\ e.id >= TagsCapacity THEN "Argument" ELSE "Ok"
      BY <1>4, <3>5, <3>6 DEF BreachOf
    <3>10. verdict' = BreachOf(c, open)
      BY <1>12, <3>4, <3>8, <3>9
    <3>11. ASSUME verdict' = "Ok"
           PROVE  /\ name' = IF WholeName(c, open) THEN all ELSE name
                  /\ tags' = TagsThen(tags, c, open)
                  /\ IsText(all) /\ slot = "Ok"
      <4>1. IsText(all) /\ slot = "Ok"
        BY <3>8, <3>9, <3>10, <3>11
      <4>2. TagsThen(tags, c, open) =
              IF WholeTag(c, open) THEN [Grown(tags, c.id + 1) EXCEPT ![c.id + 1] = c.data] ELSE tags
        BY <1>4 DEF TagsThen
      <4> QED  BY <1>4, <3>4, <3>5, <3>6, <4>1, <4>2
    <3> QED  BY <1>6, <1>7, <1>12, <2>1, <3>2, <3>10, <3>11 DEF Follows
  <2>6. Len(all) < e.value \/ Len(all) = e.value
    BY <1>4, <1>5
  <2> QED  BY <2>4, <2>5, <2>6
<1> QED  BY <1>9, <1>10, <1>11, <1>12

\* The visitor keeps the receiver's invariant, whatever it is told.
LEMMA VisitorNext ==
  ASSUME TypeInv, OrderInv, ReceiverInv, Visitor
  PROVE  ReceiverInv'
<1>1. /\ seen < Len(events) /\ seen' = seen + 1 /\ UNCHANGED vars /\ UNCHANGED consumerVars
  BY DEF Visitor, FixlenBegin, Chunk, SequenceBegun, SequenceEnded, Skipped, Handles
<1>2. ReceiverTypes /\ LastInv /\ HeldInv /\ VisitorInv /\ ConsumerInv
  BY DEF ReceiverInv
<1>3. events \in Seq(Events) /\ events' = events /\ seen \in Nat /\ seen \in 0..(Len(events) - 1)
  BY <1>1, <1>2 DEF TypeInv, LastInv, vars
<1>4. event \in Events
  BY <1>3, PrefixNext DEF event
<1>5. PICK U, c : Behindhand(U, c, event) /\ StandsAt(U)
  BY <1>1, <1>2, ToldNext
<1>6. Follows(c) /\ ReceiverTypes'
  <2>1. CASE Chunk
    <3>1. event.name = "chunk"
      BY <2>1 DEF Chunk, Handles, event
    <3> QED  BY <1>1, <1>2, <1>4, <1>5, <2>1, <3>1, HeldBefore, FollowsChunk
  <2>2. CASE ~Chunk
    <3>1. FixlenBegin \/ SequenceBegun \/ SequenceEnded \/ Skipped
      BY <2>2 DEF Visitor
    <3>2. Follows(event) /\ ReceiverTypes'
      BY <1>2, <1>4, <3>1, FollowsCallback
    <3>3. c = event
      <4>1. event.name # "chunk"
        BY <3>1 DEF FixlenBegin, SequenceBegun, SequenceEnded, Skipped, Handles, event
      <4> QED  BY <1>5, <4>1 DEF Behindhand
    <3> QED  BY <3>2, <3>3
  <2> QED  BY <2>1, <2>2
<1>7. VisitorInv'
  BY <1>5, <1>6, FollowedTold
<1>8. LastInv' /\ HeldInv'
  BY <1>1, <1>3, <1>5, <1>6, FollowedLast
<1>9. ConsumerInv'
  <2>1. busy /\ latched = "none"
    <3>1. seen # Len(events)
      BY <1>3
    <3>2. ~busy => seen = Len(events)
      BY <1>2 DEF ConsumerInv
    <3>3. latched # "none" => ~busy
      BY <1>2 DEF ConsumerInv
    <3> QED  BY <3>1, <3>2, <3>3
  <2> QED  BY <1>1, <1>2, <2>1 DEF ConsumerInv, consumerVars, vars
<1> QED  BY <1>6, <1>7, <1>8, <1>9 DEF ReceiverInv

-----------------------------------------------------------------------------
(***************************************************************************)
(* The decoder under the receiver.                                         *)
(***************************************************************************)
\* Its steps leave what was told, and the bytes.
LEMMA StepsGrow ==
  ASSUME events \in Seq(Events), Steps
  PROVE  Grows(events', events) /\ UNCHANGED <<fed, message>>
<1>1. UNCHANGED <<fed, message>>
  BY DEF Steps, ResumeNothing, ResumePayload, ResumeArray, ElementRead, ElementShort,
     ElementMalformed, ElementsRead, FieldMalformed, FieldShort, NoMoreFields, Scalar,
     FixlenPayload, FixlenFloat, IntArray, FloatArray, SequenceBegin, SequenceEnd,
     CarryConsumed, CarryShort, Stash, Reject, Announce
<1>2. CASE events' = events
  <2>1. Grows(events, events)
    BY GrowsAppend, Zenon
  <2> QED  BY <1>1, <1>2, <2>1
<1>3. CASE ResumePayload \/ FixlenPayload
  BY <1>3, GrowsAppend DEF ResumePayload, FixlenPayload
<1>4. CASE ~(ResumePayload \/ FixlenPayload) /\ events' # events
  <2>1. \E e : events' = Append(events, e)
    <3>1. CASE ElementRead
      BY <3>1 DEF ElementRead
    <3>2. CASE Scalar
      BY <3>2 DEF Scalar
    <3>3. CASE FixlenFloat \/ IntArray \/ FloatArray
      BY <3>3 DEF FixlenFloat, IntArray, FloatArray, Announce
    <3>4. CASE SequenceBegin \/ SequenceEnd
      BY <3>4 DEF SequenceBegin, SequenceEnd
    <3> QED  BY <1>4, <3>1, <3>2, <3>3, <3>4
        DEF Steps, ResumeNothing, ResumeArray, ElementShort, ElementMalformed, ElementsRead,
            FieldMalformed, FieldShort, NoMoreFields, CarryConsumed, CarryShort, Stash, Reject
  <2>2. PICK e : events' = Append(events, e)
    BY <2>1
  <2>3. Grows(Append(events, e), events)
    BY GrowsAppend, Zenon
  <2> QED  BY <1>1, <2>2, <2>3
<1> QED  BY <1>1, <1>2, <1>3, <1>4

\* Callbacks made behind those that were handled are not told yet.
LEMMA ToldBefore ==
  ASSUME NEW es \in Seq(Events), NEW more \in Seq(Events), Grows(more, es), NEW k \in 0..Len(es)
  PROVE  SubSeq(more, 1, k) = SubSeq(es, 1, k) /\ (k # 0 => more[k] = es[k])
<1> DEFINE a == SubSeq(more, 1, k)
           b == SubSeq(es, 1, k)
<1>1. Len(es) \in Nat /\ Len(more) \in Nat /\ k <= Len(more) /\ \A i \in 1..k : more[i] = es[i]
  BY DEF Grows, BeginWith
<1>2. \A i \in 1..k : more[i] \in Events /\ es[i] \in Events
  BY <1>1
<1>3. a \in Seq(Events) /\ Len(a) = k /\ \A i \in 1..k : a[i] = more[i]
  BY <1>1, <1>2, SubSeqProperties
<1>4. b \in Seq(Events) /\ Len(b) = k /\ \A i \in 1..k : b[i] = es[i]
  BY <1>1, <1>2, SubSeqProperties
<1> HIDE DEF a, b
<1>5. \A i \in 1..k : a[i] = b[i]
  BY <1>1, <1>3, <1>4
<1>6. a = b
  BY <1>3, <1>4, <1>5, SeqEqual
<1> QED  BY <1>1, <1>6 DEF a, b

\* When the visitor and its handled callbacks stay, so does what they say.
LEMMA VisitorStays ==
  ASSUME LastInv, HeldInv, VisitorInv, ReceiverTypes,
         events \in Seq(Events), events' \in Seq(Events), Grows(events', events),
         UNCHANGED visitorVars, busy' \in BOOLEAN
  PROVE  LastInv' /\ HeldInv' /\ VisitorInv' /\ ReceiverTypes'
<1>1. UNCHANGED <<name, tags, accBuf, accComplete, open, verdict, seen>>
  BY DEF visitorVars, destination, acc
<1>2. seen \in 0..Len(events)
  BY DEF LastInv
<1>3. SubSeq(events', 1, seen) = SubSeq(events, 1, seen) /\ (seen # 0 => events'[seen] = events[seen])
  BY <1>2, ToldBefore
<1>4. Told' = Told
  BY <1>1, <1>3 DEF Told
<1>5. LastInv'
  <2>1. seen' \in 0..Len(events')
    BY <1>1, <1>2 DEF Grows
  <2>2. seen > 0 => SameCallback(Told[Len(Told)], events[seen])'
    <3> SUFFICES ASSUME seen > 0 PROVE SameCallback(Told[Len(Told)], events[seen])'
      OBVIOUS
    <3>1. SameCallback(Told[Len(Told)], events[seen]) /\ events'[seen'] = events[seen]
      BY <1>1, <1>2, <1>3 DEF LastInv
    <3> QED  BY <1>4, <3>1 DEF SameCallback
  <2> QED  BY <1>1, <1>2, <1>4, <2>1, <2>2 DEF LastInv
<1>6. HeldInv'
  BY <1>1, <1>4 DEF HeldInv, Ours
<1>7. VisitorInv'
  <2>1. Here(Told)' = Here(Told) /\ FirstBreach(Told)' = FirstBreach(Told)
        /\ NameOf(Told)' = NameOf(Told) /\ TagsOf(Told)' = TagsOf(Told)
    BY <1>4
  <2> QED  BY <1>1, <2>1 DEF VisitorInv
<1>8. ReceiverTypes'
  BY <1>1 DEF ReceiverTypes
<1> QED  BY <1>5, <1>6, <1>7, <1>8

-----------------------------------------------------------------------------
(***************************************************************************)
(* The consumer.                                                           *)
(***************************************************************************)
\* What a callback says is one of the verdicts.
LEMMA VerdictType == verdict = FirstBreach(Told) /\ Told \in Seq(Events) => verdict \in Verdicts
<1>1. ASSUME NEW bound, NEW breached PROVE Judge(bound, breached) \in Verdicts
  BY DEF Judge, Verdicts
<1>2. \A n, bound : CheckLen(n, bound) \in Verdicts /\ CheckIndex(n, bound) \in Verdicts
  BY <1>1 DEF CheckLen, CheckIndex
<1>3. ASSUME NEW e, NEW path PROVE Announced(e, path) \in Verdicts
  <2>1. CASE IsName(e, path)
    <3>1. ~IsTag(e, path)
      BY <2>1 DEF IsName, IsTag
    <3>2. Announced(e, path) = CheckLen(e.value, NameBound)
      BY <2>1, <3>1, Zenon DEF Announced
    <3> QED  BY <1>2, <3>2
  <2>2. CASE ~IsName(e, path) /\ IsTag(e, path) /\ CheckIndex(e.id, TagsBound) # "Ok"
    <3>1. Announced(e, path) = CheckIndex(e.id, TagsBound)
      BY <2>2, Zenon DEF Announced
    <3> QED  BY <1>2, <3>1
  <2>3. CASE ~IsName(e, path) /\ IsTag(e, path) /\ CheckIndex(e.id, TagsBound) = "Ok"
    <3>1. Announced(e, path) = CheckLen(e.value, TagBound)
      BY <2>3, Zenon DEF Announced
    <3> QED  BY <1>2, <3>1
  <2>4. CASE ~IsName(e, path) /\ ~IsTag(e, path)
    <3>1. Announced(e, path) = "Ok"
      BY <2>4, Zenon DEF Announced
    <3> QED  BY <3>1 DEF Verdicts
  <2> QED  BY <2>1, <2>2, <2>3, <2>4
<1>4. ASSUME NEW e, NEW path PROVE BreachOf(e, path) \in Verdicts
  BY <1>3 DEF BreachOf, Verdicts
<1> SUFFICES ASSUME Told \in Seq(Events) PROVE FirstBreach(Told) \in Verdicts
  OBVIOUS
<1>5. CASE Breaches(Told) = {}
  BY <1>5, FirstBreachIs DEF Verdicts
<1>6. CASE Breaches(Told) # {}
  <2>1. Min(Breaches(Told)) \in Breaches(Told)
    BY <1>6, BreachesType, MinIsLeast
  <2>2. Min(Breaches(Told)) \in DOMAIN Told
    BY <2>1 DEF Breaches
  <2>3. Breach(Told, Min(Breaches(Told))) \in Verdicts
    BY <1>4, <2>2, BreachIs
  <2> QED  BY <1>6, <2>3, FirstBreachIs
<1> QED  BY <1>5, <1>6

\* A prefix and what comes behind it.
LEMMA PrefixConcat ==
  ASSUME NEW s \in Seq(Byte), NEW n \in 0..Len(s), NEW k \in 0..n
  PROVE  SubSeq(s, 1, k) \o SubSeq(s, k + 1, n) = SubSeq(s, 1, n) /\ Len(SubSeq(s, 1, n)) = n
         /\ SubSeq(s, 1, n) \in Seq(Byte) /\ SubSeq(s, k + 1, n) \in Seq(Byte)
<1> DEFINE a == SubSeq(s, 1, k)
           b == SubSeq(s, k + 1, n)
           c == SubSeq(s, 1, n)
           d == a \o b
<1>1. n \in Nat /\ k \in Nat /\ Len(s) \in Nat /\ \A i \in 1..n : s[i] \in Byte
  OBVIOUS
<1>2. a \in Seq(Byte) /\ Len(a) = k /\ \A i \in 1..k : a[i] = s[i]
  BY <1>1, SubSeqProperties
<1>3. b \in Seq(Byte) /\ Len(b) = n - k /\ \A i \in 1..(n - k) : b[i] = s[k + i]
  <2>1. \A i \in (k + 1)..n : s[i] \in Byte
    BY <1>1
  <2>2. b \in Seq(Byte) /\ Len(b) = IF k + 1 <= n THEN n - (k + 1) + 1 ELSE 0
    BY <1>1, <2>1, SubSeqProperties
  <2>3. \A i \in 1..(n - k) : b[i] = s[(k + 1) + i - 1]
    BY <1>1, <2>1, SubSeqProperties
  <2>4. \A i \in 1..(n - k) : (k + 1) + i - 1 = k + i
    BY <1>1
  <2>5. (IF k + 1 <= n THEN n - (k + 1) + 1 ELSE 0) = n - k
    BY <1>1
  <2> HIDE DEF b
  <2> QED  BY <2>2, <2>3, <2>4, <2>5
<1>4. c \in Seq(Byte) /\ Len(c) = n /\ \A i \in 1..n : c[i] = s[i]
  BY <1>1, SubSeqProperties
<1> HIDE DEF a, b, c
<1>5. d \in Seq(Byte) /\ Len(d) = n /\ \A i \in 1..n : d[i] = IF i <= k THEN a[i] ELSE b[i - k]
  <2>1. ASSUME NEW x \in Seq(Byte), NEW y \in Seq(Byte)
        PROVE  /\ x \o y \in Seq(Byte) /\ Len(x \o y) = Len(x) + Len(y)
               /\ \A i \in 1..(Len(x) + Len(y)) : (x \o y)[i] = IF i <= Len(x) THEN x[i] ELSE y[i - Len(x)]
    OBVIOUS
  <2>2. d \in Seq(Byte) /\ Len(d) = Len(a) + Len(b)
        /\ \A i \in 1..(Len(a) + Len(b)) : d[i] = IF i <= Len(a) THEN a[i] ELSE b[i - Len(a)]
    BY <1>2, <1>3, <2>1
  <2>3. Len(a) + Len(b) = n
    <3>1. k + (n - k) = n
      BY <1>1
    <3> QED  BY <1>2, <1>3, <3>1
  <2> HIDE DEF d
  <2> QED  BY <1>2, <2>2, <2>3
<1> HIDE DEF d
<1>6. \A i \in 1..n : d[i] = c[i]
  <2> TAKE i \in 1..n
  <2>1. CASE i <= k
    <3>1. i \in 1..k
      BY <1>1, <2>1
    <3> QED  BY <1>2, <1>4, <1>5, <2>1, <3>1
  <2>2. CASE ~(i <= k)
    <3>1. i - k \in 1..(n - k) /\ k + (i - k) = i
      BY <1>1, <2>2
    <3>2. d[i] = b[i - k] /\ b[i - k] = s[k + (i - k)]
      BY <1>3, <1>5, <2>2, <3>1
    <3> QED  BY <1>4, <3>1, <3>2
  <2> QED  BY <2>1, <2>2
<1>7. d = c
  BY <1>4, <1>5, <1>6, SeqEqual
<1> QED  BY <1>3, <1>4, <1>7 DEF a, b, c, d

LEMMA ConsumerFeeds ==
  ASSUME TypeInv, ReceiverInv, NEW n \in offered..Len(message), ConsumerFeed(n)
  PROVE  /\ ReceiverInv'
         /\ \/ Feed(SubSeq(message, Len(fed) + 1, n)) /\ n \in Len(fed)..Len(message)
            \/ UNCHANGED vars
<1>1. /\ events \in Seq(Events) /\ message \in Seq(Byte) /\ fed \in Seq(Byte)
      /\ Len(message) \in Nat /\ offered \in 0..Len(message) /\ n \in Nat /\ n \in 0..Len(message)
  <2>1. events \in Seq(Events) /\ message \in Seq(Byte) /\ fed \in Seq(Byte)
    BY DEF TypeInv, TypeOK, ItemsWellFormed
  <2>2. ConsumerInv
    BY DEF ReceiverInv
  <2>3. offered \in 0..Len(message)
    BY <2>2 DEF ConsumerInv
  <2>4. Len(message) \in Nat
    BY <2>1
  <2>5. n \in Nat /\ n \in 0..Len(message)
    BY <2>3, <2>4
  <2> QED  BY <2>1, <2>3, <2>4, <2>5
<1>2. UNCHANGED <<visitorVars, latched>> /\ ~busy /\ offered' = n
  BY DEF ConsumerFeed
<1>3. ReceiverTypes /\ LastInv /\ HeldInv /\ VisitorInv /\ ConsumerInv
  BY DEF ReceiverInv
<1>4. Grows(events, events)
  BY <1>1, GrowsAppend, Zenon
<1>5. CASE latched # "none"
  <2>1. UNCHANGED vars /\ UNCHANGED busy /\ answer' = latched
    BY <1>5 DEF ConsumerFeed
  <2>2. events' = events /\ message' = message /\ fed' = fed /\ pc' = pc /\ invalid' = invalid
    BY <2>1 DEF vars
  <2>3. LastInv' /\ HeldInv' /\ VisitorInv' /\ ReceiverTypes'
    BY <1>1, <1>2, <1>3, <1>4, <2>1, <2>2, VisitorStays DEF ReceiverTypes
  <2>4. UNCHANGED <<verdict, seen, latched>>
    BY <1>2 DEF visitorVars
  <2>5. Len(fed) <= n /\ n \in 0..Len(message)
    <3>1. Len(fed) \in Nat /\ Len(fed) <= offered
      <4>1. Len(fed) <= offered
        BY <1>3 DEF ConsumerInv
      <4> QED  BY <1>1, <4>1
    <3>2. offered \in Nat /\ offered <= n
      BY <1>1
    <3> QED  BY <1>1, <3>1, <3>2
  <2>6. ConsumerInv'
    BY <1>2, <1>3, <1>5, <2>1, <2>2, <2>4, <2>5 DEF ConsumerInv
  <2> QED  BY <2>1, <2>3, <2>6 DEF ReceiverInv
<1>6. CASE latched = "none"
  <2>1. Feed(SubSeq(message, offered + 1, n)) /\ busy' = TRUE
    BY <1>6 DEF ConsumerFeed
  <2>2. ~invalid /\ Len(fed) = offered /\ fed = SubSeq(message, 1, offered)
    BY <1>2, <1>3, <1>6 DEF ConsumerInv
  <2>3. /\ events' = events /\ message' = message /\ fed' = fed \o SubSeq(message, offered + 1, n)
    BY <2>1, <2>2 DEF Feed
  <2>4. LastInv' /\ HeldInv' /\ VisitorInv' /\ ReceiverTypes'
    BY <1>1, <1>2, <1>3, <1>4, <2>1, <2>3, VisitorStays
  <2>5. fed' = SubSeq(message, 1, n) /\ Len(fed') = n
    <3>1. offered \in 0..n
      BY <1>1
    <3> QED  BY <1>1, <2>2, <2>3, <3>1, PrefixConcat
  <2>6. latched' = "none" /\ seen' = seen
    BY <1>2, <1>6 DEF visitorVars
  <2>7. ConsumerInv'
    BY <1>1, <1>2, <2>1, <2>3, <2>5, <2>6 DEF ConsumerInv
  <2>8. n \in Len(fed)..Len(message)
    BY <1>1, <2>2
  <2> QED  BY <2>1, <2>2, <2>4, <2>7, <2>8 DEF ReceiverInv
<1> QED  BY <1>5, <1>6

LEMMA FeedReturnedNext ==
  ASSUME TypeInv, MeaningInv, ReceiverInv, FeedReturned
  PROVE  ReceiverInv'
<1>1. /\ events \in Seq(Events) /\ result \in {"Complete", "Incomplete", "InvalidMsg"}
      /\ pc = "idle" /\ result = "InvalidMsg" => invalid
  BY DEF TypeInv, TypeOK, Latched
<1>2. ReceiverTypes /\ LastInv /\ HeldInv /\ VisitorInv /\ ConsumerInv
  BY DEF ReceiverInv
<1>3. /\ busy /\ pc = "idle" /\ seen = Len(events) /\ busy' = FALSE
      /\ UNCHANGED vars /\ UNCHANGED visitorVars /\ UNCHANGED offered
      /\ answer' = IF verdict # "Ok" THEN verdict ELSE result
      /\ latched' = IF answer' \in {"Complete", "Incomplete"} THEN latched ELSE answer'
  BY DEF FeedReturned
<1>4. events' = events /\ message' = message /\ fed' = fed /\ pc' = pc /\ invalid' = invalid /\ result' = result
  BY <1>3 DEF vars
<1>5. UNCHANGED <<verdict, seen>>
  BY <1>3 DEF visitorVars
<1>6. LastInv' /\ HeldInv' /\ VisitorInv' /\ ReceiverTypes'
  <2>1. Grows(events, events)
    BY <1>1, GrowsAppend, Zenon
  <2> QED  BY <1>1, <1>2, <1>3, <1>4, <2>1, VisitorStays
<1>7. latched = "none"
  BY <1>2, <1>3 DEF ConsumerInv
<1>8. verdict \in Verdicts
  BY <1>2, VerdictType DEF VisitorInv, LastInv
<1>9. invalid => result = "InvalidMsg"
  BY DEF MeaningInv
<1>10. ConsumerInv'
  <2>1. /\ offered' \in 0..Len(message') /\ Len(fed') <= offered' /\ fed' = SubSeq(message', 1, Len(fed'))
        /\ pc' = "idle" /\ seen' = Len(events') /\ Len(fed') = offered'
    BY <1>2, <1>3, <1>4, <1>5, <1>7 DEF ConsumerInv
  <2>2. CASE verdict # "Ok"
    <3>1. answer' = verdict /\ latched' = verdict /\ latched' # "none"
      BY <1>3, <1>8, <2>2 DEF Verdicts
    <3> QED  BY <1>3, <1>5, <2>1, <2>2, <3>1 DEF ConsumerInv
  <2>3. CASE verdict = "Ok" /\ result = "InvalidMsg"
    <3>1. answer' = "InvalidMsg" /\ latched' = "InvalidMsg" /\ invalid'
      BY <1>1, <1>3, <1>4, <2>3
    <3> QED  BY <1>3, <1>5, <2>1, <2>3, <3>1 DEF ConsumerInv
  <2>4. CASE verdict = "Ok" /\ result # "InvalidMsg"
    <3>1. answer' = result /\ latched' = "none" /\ ~invalid'
      BY <1>1, <1>3, <1>4, <1>7, <1>9, <2>4
    <3> QED  BY <1>3, <1>4, <1>5, <2>1, <2>4, <3>1 DEF ConsumerInv
  <2> QED  BY <2>2, <2>3, <2>4
<1> QED  BY <1>6, <1>10 DEF ReceiverInv

\* Before anything is told.
LEMMA NothingTold ==
  /\ Joined(<<>>) = <<>> /\ Here(<<>>) = <<>> /\ FirstBreach(<<>>) = "Ok"
  /\ NameOf(<<>>) = <<>> /\ TagsOf(<<>>) = <<>>
<1>1. DOMAIN <<>> = {} /\ Len(<<>>) = 0 /\ 0 + 1 = 1
  OBVIOUS
<1>2. Here(<<>>) = <<>>
  BY <1>1, PathIs DEF Here
<1>3. FirstBreach(<<>>) = "Ok"
  BY <1>1 DEF FirstBreach
<1>4. NameOf(<<>>) = <<>>
  BY <1>1 DEF NameOf, Names
<1>5. TagsOf(<<>>) = <<>>
  <2>1. Begins(<<>>) = {}
    BY <1>1 DEF Begins
  <2>2. Elements(<<>>) = {}
    BY <2>1 DEF Elements
  <2> QED  BY <2>2, TagsOfIs
<1> QED  BY <1>2, <1>3, <1>4, <1>5, JoinedIs

\* A visitor that was told nothing.
Untold ==
  /\ message \in Seq(Byte) /\ Start
  /\ events = <<>> /\ fed = <<>> /\ pc = "idle" /\ ~invalid /\ result = "Complete"
  /\ accBuf \in Seq(Byte) /\ accComplete \in BOOLEAN

LEMMA AtDefaults == Untold => ReceiverInv
<1> SUFFICES ASSUME Untold PROVE ReceiverInv
  OBVIOUS
<1>0. /\ message \in Seq(Byte) /\ Start /\ events = <<>> /\ fed = <<>> /\ pc = "idle" /\ ~invalid
      /\ result = "Complete" /\ accBuf \in Seq(Byte) /\ accComplete \in BOOLEAN
  BY DEF Untold
<1>1. /\ name = <<>> /\ tags = <<>> /\ open = <<>> /\ verdict = "Ok" /\ seen = 0
      /\ busy = FALSE /\ latched = "none" /\ answer = "Complete" /\ offered = 0
  BY <1>0 DEF Start
<1>2. <<>> \in Seq(Byte) /\ <<>> \in Seq(Seq(Byte)) /\ <<>> \in Seq(Nat) /\ <<>> \in Seq(Events) /\ Len(<<>>) = 0
  OBVIOUS
<1>3. ReceiverTypes
  <2>1. 0 <= TagsCapacity
    BY BoundsAssumption
  <2> QED  BY <1>0, <1>1, <1>2, <2>1 DEF ReceiverTypes
<1>5. Told = <<>>
  <2>1. SubSeq(<<>>, 1, 0) = <<>>
    OBVIOUS
  <2>2. SubSeq(events, 1, seen) = <<>>
    BY <1>0, <1>1, <2>1
  <2> QED  BY <2>2, NothingTold DEF Told
<1>6. LastInv
  BY <1>0, <1>1, <1>2, <1>5 DEF LastInv
<1>7. HeldInv
  BY <1>5 DEF HeldInv
<1>8. VisitorInv
  BY <1>1, <1>5, NothingTold DEF VisitorInv
<1>9. ConsumerInv
  <2>1. SubSeq(message, 1, 0) = <<>> /\ Len(message) \in Nat
    BY <1>0
  <2> QED  BY <1>0, <1>1, <1>2, <2>1 DEF ConsumerInv
<1> QED  BY <1>3, <1>6, <1>7, <1>8, <1>9 DEF ReceiverInv

-----------------------------------------------------------------------------
(***************************************************************************)
(* The steps of the receiver.                                              *)
(***************************************************************************)
LEMMA ReceiverStarts == ReceiverInit => ReceiverInv
<1> SUFFICES ASSUME ReceiverInit PROVE ReceiverInv
  OBVIOUS
<1>1. Init /\ Start /\ Acc!AccInit
  BY DEF ReceiverInit
<1>2. message \in Seq(Byte)
  BY <1>1, InputsAssumption DEF Init
<1>3. accBuf = <<>> /\ accComplete = FALSE
  BY <1>1 DEF Acc!AccInit
<1>4. accBuf \in Seq(Byte) /\ accComplete \in BOOLEAN
  <2>1. accBuf \in Seq(Byte)
    BY <1>3
  <2>2. accComplete \in BOOLEAN
    BY <1>3, Zenon
  <2> QED  BY <2>1, <2>2
<1> QED  BY <1>1, <1>2, <1>4, AtDefaults DEF Init, Untold

LEMMA NextMessageNext ==
  ASSUME TypeInv, ReceiverInv, NextMessage
  PROVE  ReceiverInv'
<1>1. Untold' => ReceiverInv'
  BY AtDefaults, PTL
<1>2. ReceiverTypes /\ message \in Seq(Byte)
  BY DEF ReceiverInv, TypeInv, ItemsWellFormed
<1>3. Reset
  BY DEF NextMessage
<1>4. message' \in Seq(Byte) /\ events' = <<>> /\ fed' = <<>> /\ pc' = "idle" /\ ~invalid' /\ result' = "Complete"
  BY <1>2, <1>3 DEF Reset
<1>5. Start'
  BY DEF NextMessage, Start
<1>6. accBuf' \in Seq(Byte) /\ accComplete' \in BOOLEAN
  <2>1. CASE Acc!Reset
    <3>1. accBuf' = <<>> /\ accComplete' = FALSE
      BY <2>1 DEF Acc!Reset
    <3>2. accBuf' \in Seq(Byte)
      BY <3>1
    <3>3. accComplete' \in BOOLEAN
      BY <3>1, Zenon
    <3> QED  BY <3>2, <3>3
  <2>2. CASE UNCHANGED acc
    BY <1>2, <2>2 DEF acc, ReceiverTypes
  <2> QED  BY <2>1, <2>2 DEF NextMessage
<1>7. Untold'
  BY <1>4, <1>5, <1>6 DEF Untold
<1> QED  BY <1>1, <1>7

LEMMA DecoderNext ==
  ASSUME TypeInv, TypeInv', ReceiverInv, Decoder
  PROVE  ReceiverInv'
<1>1. /\ events \in Seq(Events) /\ events' \in Seq(Events)
  BY DEF TypeInv
<1>2. ReceiverTypes /\ LastInv /\ HeldInv /\ VisitorInv /\ ConsumerInv
  BY DEF ReceiverInv
<1>3. busy /\ Steps /\ UNCHANGED visitorVars /\ UNCHANGED <<busy, latched, answer, offered>>
  BY DEF Decoder, consumerVars
<1>4. Grows(events', events) /\ fed' = fed /\ message' = message
  BY <1>1, <1>3, StepsGrow
<1>5. LastInv' /\ HeldInv' /\ VisitorInv' /\ ReceiverTypes'
  BY <1>1, <1>2, <1>3, <1>4, VisitorStays DEF ReceiverTypes
<1>6. latched = "none"
  BY <1>2, <1>3 DEF ConsumerInv
<1>7. ConsumerInv'
  BY <1>2, <1>3, <1>4, <1>6 DEF ConsumerInv
<1> QED  BY <1>5, <1>7 DEF ReceiverInv

\* The decoder under the receiver does what it does on its own.
LEMMA ReceiverIsDecoder ==
  ASSUME TypeInv, ReceiverInv, [ReceiverNext]_receiverVars
  PROVE  [Next]_vars
<1>1. CASE NextMessage
  BY <1>1 DEF NextMessage, Next, Calls
<1>2. ASSUME NEW n \in offered..Len(message), ConsumerFeed(n) PROVE [Next]_vars
  BY <1>2, ConsumerFeeds DEF Next, Calls
<1>3. CASE Decoder
  BY <1>3 DEF Decoder, Next
<1>4. CASE Visitor
  BY <1>4 DEF Visitor, FixlenBegin, Chunk, SequenceBegun, SequenceEnded, Skipped, Handles
<1>5. CASE FeedReturned
  BY <1>5 DEF FeedReturned
<1>6. CASE UNCHANGED receiverVars
  BY <1>6 DEF receiverVars
<1> QED  BY <1>1, <1>2, <1>3, <1>4, <1>5, <1>6 DEF ReceiverNext

LEMMA ReceiverRests ==
  ASSUME TypeInv, ReceiverInv, UNCHANGED receiverVars
  PROVE  ReceiverInv'
<1>1. UNCHANGED vars /\ UNCHANGED visitorVars /\ UNCHANGED <<busy, latched, answer, offered>>
  BY DEF receiverVars, consumerVars
<1>2. /\ events' = events /\ message' = message /\ fed' = fed /\ pc' = pc /\ invalid' = invalid
      /\ result' = result
  BY <1>1 DEF vars
<1>3. ReceiverTypes /\ LastInv /\ HeldInv /\ VisitorInv /\ ConsumerInv
  BY DEF ReceiverInv
<1>4. events \in Seq(Events)
  BY DEF TypeInv
<1>5. Grows(events, events)
  BY <1>4, GrowsAppend, Zenon
<1>6. LastInv' /\ HeldInv' /\ VisitorInv' /\ ReceiverTypes'
  BY <1>1, <1>2, <1>3, <1>4, <1>5, VisitorStays DEF ReceiverTypes
<1>7. UNCHANGED <<verdict, seen>>
  BY <1>1 DEF visitorVars
<1>8. ConsumerInv'
  BY <1>1, <1>2, <1>3, <1>7 DEF ConsumerInv
<1> QED  BY <1>6, <1>8 DEF ReceiverInv

LEMMA ReceiverStep ==
  ASSUME TypeInv, TypeInv', OrderInv, MeaningInv, ReceiverInv, [ReceiverNext]_receiverVars
  PROVE  ReceiverInv'
<1>1. CASE NextMessage
  BY <1>1, NextMessageNext
<1>2. ASSUME NEW n \in offered..Len(message), ConsumerFeed(n) PROVE ReceiverInv'
  BY <1>2, ConsumerFeeds
<1>3. CASE Decoder
  BY <1>3, DecoderNext
<1>4. CASE Visitor
  BY <1>4, VisitorNext
<1>5. CASE FeedReturned
  BY <1>5, FeedReturnedNext
<1>6. CASE UNCHANGED receiverVars
  BY <1>6, ReceiverRests
<1> QED  BY <1>1, <1>2, <1>3, <1>4, <1>5, <1>6 DEF ReceiverNext

\* The invariant of the receiver: the decoder's, whose steps are its own, what the
\* visitor holds of the callbacks it has handled, and where the consumer is with the
\* verdicts.
THEOREM ReceiverInvariant ==
  ReceiverSpec => [](TypeInv /\ CarryInv /\ OrderInv /\ PlaceInv /\ MeaningInv /\ ReceiverInv)
<1> DEFINE All == TypeInv /\ CarryInv /\ OrderInv /\ PlaceInv /\ MeaningInv /\ ReceiverInv
<1>1. ReceiverInit => All
  BY TypeInit, CarryInit, OrderInit, MeansInit, ReceiverStarts DEF ReceiverInit
<1>2. All /\ [ReceiverNext]_receiverVars => All'
  <2> SUFFICES ASSUME All, [ReceiverNext]_receiverVars PROVE All'
    OBVIOUS
  <2>1. [Next]_vars
    BY ReceiverIsDecoder
  <2>2. TypeInv'
    BY <2>1, TypeNext
  <2>3. CarryInv' /\ OrderInv'
    BY <2>1, CarryNext, OrderNext
  <2>4. PlaceInv' /\ MeaningInv'
    BY <2>1, MeansNext
  <2> QED  BY <2>2, <2>3, <2>4, ReceiverStep
<1> HIDE DEF All
<1>3. ReceiverSpec => []All
  BY <1>1, <1>2, PTL DEF ReceiverSpec
<1>4. All => TypeInv /\ CarryInv /\ OrderInv /\ PlaceInv /\ MeaningInv /\ ReceiverInv
  BY DEF All
<1> QED  BY <1>3, <1>4, PTL

-----------------------------------------------------------------------------
(***************************************************************************)
(* The results: verdict and destination do not depend on the cuts.         *)
(***************************************************************************)
\* Between two feeds the visitor was told what one feed of the bytes would have told.
LEMMA ToldIsDecoded ==
  ASSUME TypeInv, CarryInv, PlaceInv, MeaningInv, ReceiverInv, ~busy
  PROVE  /\ pc = "idle" /\ Told = Joined(events) /\ Told = Decode(fed).events /\ result = Decode(fed).verdict
         /\ Told \in Seq(Events) /\ verdict = FirstBreach(Told)
<1>1. ConsumerInv /\ LastInv /\ VisitorInv
  BY DEF ReceiverInv
<1>2. pc = "idle" /\ seen = Len(events)
  BY <1>1 DEF ConsumerInv
<1>3. SubSeq(events, 1, Len(events)) = events
  <2>1. events \in Seq(Events)
    BY DEF TypeInv
  <2> QED  BY <2>1
<1>4. Told = Joined(events)
  BY <1>2, <1>3 DEF Told
<1>5. result = Decode(fed).verdict /\ Joined(events) = Decode(fed).events
  BY <1>2, ChunksInvisible DEF ChunkingInvisible
<1>6. Told \in Seq(Events) /\ verdict = FirstBreach(Told)
  BY <1>1 DEF LastInv, VisitorInv
<1> QED  BY <1>2, <1>4, <1>5, <1>6

LEMMA FirstVerdictIs ==
  ASSUME NEW d, d.events \in Seq(Events)
  PROVE  FirstVerdict(d) = IF FirstBreach(d.events) = "Ok" THEN d.verdict ELSE FirstBreach(d.events)
<1> DEFINE es == d.events
<1>1. FirstVerdict(d) = IF Breaches(es) = {} THEN d.verdict ELSE Breach(es, Min(Breaches(es)))
  BY DEF FirstVerdict, Breaches
<1>2. FirstBreach(es) = "Ok" <=> Breaches(es) = {}
  BY NoBreach
<1>3. FirstBreach(es) = IF Breaches(es) = {} THEN "Ok" ELSE Breach(es, Min(Breaches(es)))
  BY FirstBreachIs
<1> HIDE DEF es
<1>4. FirstVerdict(d) = IF FirstBreach(es) = "Ok" THEN d.verdict ELSE FirstBreach(es)
  BY <1>1, <1>2, <1>3
<1> QED  BY <1>4 DEF es

LEMMA DestinationRight ==
  ASSUME TypeInv, CarryInv, PlaceInv, MeaningInv, ReceiverInv
  PROVE  DestinationIsMessage
<1> SUFFICES ASSUME ~busy, latched = "none"
             PROVE  name = NameOf(reference.events) /\ tags = TagsOf(reference.events)
  BY DEF DestinationIsMessage
<1>1. ConsumerInv /\ VisitorInv
  BY DEF ReceiverInv
<1>2. fed = SubSeq(message, 1, offered) /\ verdict = "Ok"
  BY <1>1 DEF ConsumerInv
<1>3. reference.events = Told
  BY <1>2, ToldIsDecoded DEF reference
<1> QED  BY <1>1, <1>2, <1>3 DEF VisitorInv

\* Once a breach was told, further bytes do not change what it says.
LEMMA BreachStands ==
  ASSUME NEW s \in Seq(Byte), NEW c, Reaches(s, c), c.events \in Seq(Events), FirstBreach(c.events) # "Ok"
  PROVE  FirstBreach(Decode(s).events) = FirstBreach(c.events)
<1>1. Decode(s).events \in Seq(Events) /\ Grows(Decode(s).events, c.events)
  BY DecodeTells
<1> QED  BY <1>1, FirstBreachStays DEF Grows

LEMMA VerdictRight ==
  ASSUME TypeInv, CarryInv, PlaceInv, MeaningInv, ReceiverInv
  PROVE  VerdictIsChunkFree
<1> DEFINE s == SubSeq(message, 1, offered)
<1> SUFFICES ASSUME ~busy PROVE answer = FirstVerdict(Decode(s))
  BY DEF VerdictIsChunkFree, reference
<1>1. ConsumerInv
  BY DEF ReceiverInv
<1>2. /\ message \in Seq(Byte) /\ fed \in Seq(Byte) /\ offered \in 0..Len(message) /\ Len(fed) \in 0..offered
      /\ fed = SubSeq(message, 1, Len(fed))
  <2>1. message \in Seq(Byte) /\ fed \in Seq(Byte)
    BY DEF TypeInv, TypeOK, ItemsWellFormed
  <2>2. offered \in 0..Len(message) /\ Len(fed) <= offered /\ fed = SubSeq(message, 1, Len(fed))
    BY <1>1 DEF ConsumerInv
  <2>3. Len(fed) \in Nat
    BY <2>1
  <2> QED  BY <2>1, <2>2, <2>3
<1>3. s \in Seq(Byte) /\ Len(s) = offered
  BY <1>2, PrefixConcat
<1>4. Agree(fed, 0, s, 0)
  <2>1. \A i \in 1..offered : s[i] = message[i]
    BY <1>2
  <2> HIDE DEF s
  <2> DEFINE n == Len(fed)
  <2>2. n \in Nat /\ n <= offered /\ offered \in Nat
    BY <1>2
  <2>3. \A i \in 1..n : SubSeq(message, 1, n)[i] = message[i]
    BY <1>2
  <2>4. \A i \in 1..n : fed[i] = message[i]
    BY <1>2, <2>3
  <2>5. \A i \in 1..n : fed[i] = s[i]
    BY <2>1, <2>2, <2>4
  <2> HIDE DEF n
  <2>6. n - 0 = n /\ Len(s) - 0 = offered /\ \A i \in 1..n : 0 + i = i
    BY <1>3, <2>2
  <2> QED  BY <2>2, <2>5, <2>6 DEF Agree, n
<1>5. /\ pc = "idle" /\ Told = Joined(events) /\ Told = Decode(fed).events /\ result = Decode(fed).verdict
      /\ Told \in Seq(Events) /\ verdict = FirstBreach(Told)
  BY ToldIsDecoded
<1> DEFINE d == Decode(s)
<1>6. CASE latched = "none"
  <2>1. fed = s /\ verdict = "Ok" /\ answer = result
    BY <1>1, <1>2, <1>6 DEF ConsumerInv
  <2>2. d = Decode(fed)
    BY <2>1
  <2> HIDE DEF s, d
  <2>3. d.events = Told /\ d.verdict = result
    BY <1>5, <2>2
  <2>4. FirstVerdict(d) = d.verdict
    BY <1>5, <2>1, <2>3, FirstVerdictIs
  <2> QED  BY <2>1, <2>3, <2>4 DEF d
<1>7. CASE latched # "none" /\ invalid
  <2>1. answer = IF verdict # "Ok" THEN verdict ELSE "InvalidMsg"
    BY <1>1, <1>7 DEF ConsumerInv
  <2>2. PICK c : Reaches(fed, c) /\ c.verdict = "InvalidMsg" /\ c.events = Joined(events)
    BY <1>7 DEF MeaningInv
  <2> HIDE DEF s, d
  <2>3. Reaches(s, c)
    BY <1>2, <1>3, <1>4, <2>2, ReachesOn
  <2>4. d.verdict = "InvalidMsg" /\ d.events = Told
    BY <1>3, <1>5, <2>2, <2>3, DecodeIs DEF d
  <2>5. FirstVerdict(d) = IF verdict = "Ok" THEN "InvalidMsg" ELSE verdict
    BY <1>5, <2>4, FirstVerdictIs
  <2> QED  BY <2>1, <2>5 DEF d
<1>8. CASE latched # "none" /\ ~invalid
  <2>1. answer = verdict /\ verdict # "Ok"
    BY <1>1, <1>8 DEF ConsumerInv
  <2>2. /\ Means(fed, At, depth, resume, Told) /\ At \in 0..Len(fed) /\ resume \in Items
        /\ resume.kind = "payload" => resume.remaining \in 1..resume.total
    BY <1>5, <1>8 DEF MeaningInv, PlaceInv, Active, TypeInv, TypeOK, ItemsWellFormed
  <2> DEFINE at == At
  <2> HIDE DEF s, d, at
  <2>3. Means(s, at, depth, resume, Told)
    BY <1>2, <1>3, <1>4, <2>2, MeansOn DEF at
  <2>4. \E c : Reaches(s, c) /\ c.events \in Seq(Events) /\ FirstBreach(c.events) = verdict
    <3>1. CASE resume.kind # "payload"
      <4> DEFINE c == Going(at, depth, resume, Told)
      <4>1. Reaches(s, c) /\ c.events = Told
        BY <2>3, <3>1, GoingFields DEF Means
      <4> HIDE DEF c
      <4> QED  BY <1>5, <4>1
    <3>2. CASE resume.kind = "payload"
      <4> DEFINE done == resume.total - resume.remaining
                 from == at - done
                 start == [resume EXCEPT !.remaining = resume.total]
                 chnk == OnChunk(resume.id, resume.type, resume.total, 0, SubSeq(s, from + 1, at))
      <4>1. PICK evs \in Seq(Events) :
              /\ Reaches(s, Going(from, depth, start, evs))
              /\ Told = IF done = 0 THEN evs ELSE Append(evs, chnk)
        BY <2>3, <3>2 DEF Means
      <4>2. FirstBreach(evs) = verdict
        <5>1. CASE done = 0
          BY <1>5, <4>1, <5>1
        <5>2. CASE done # 0
          <6>1. Told = Append(evs, chnk)
            BY <4>1, <5>2
          <6>2. chnk.name = "chunk" /\ chnk.value = resume.total /\ chnk.data = SubSeq(s, from + 1, at)
            BY DEF OnChunk, Callback
          <6>3. Len(SubSeq(s, from + 1, at)) # resume.total
            <7> DEFINE total == resume.total
                       left == resume.remaining
            <7>1. done \in 0..at
              BY <2>3, <3>2 DEF Means
            <7>2. at \in 0..Len(fed) /\ total \in Nat /\ left \in 1..total /\ done = total - left
              BY <2>2, <3>2, FormatAssumption DEF Items, at
            <7>3. from = at - done /\ Len(fed) \in Nat /\ Len(fed) <= Len(s) /\ Len(s) \in Nat
              BY <1>2, <1>3
            <7> HIDE DEF total, left, done, from
            <7>4. /\ done # total /\ done > 0 /\ from + 1 \in Int /\ at \in Int /\ from + 1 <= at
                  /\ at - (from + 1) + 1 = done /\ from + 1 >= 1 /\ at <= Len(s)
              BY <5>2, <7>1, <7>2, <7>3 DEF done
            <7>5. \A i \in (from + 1)..at : s[i] \in Byte
              BY <1>3, <7>4
            <7>6. Len(SubSeq(s, from + 1, at)) = IF from + 1 <= at THEN at - (from + 1) + 1 ELSE 0
              BY <7>4, <7>5, SubSeqProperties
            <7>7. Len(SubSeq(s, from + 1, at)) = done
              BY <7>4, <7>6
            <7> QED  BY <7>4, <7>7 DEF total
          <6> HIDE DEF chnk
          <6>4. chnk \in Events
            BY <1>5, <6>1, AppendedType
          <6>5. FirstBreach(Append(evs, chnk)) = FirstBreach(evs)
            BY <6>2, <6>3, <6>4, UnfinishedSaysNothing
          <6> QED  BY <1>5, <6>1, <6>5
        <5> QED  BY <5>1, <5>2
      <4> DEFINE c == Going(from, depth, start, evs)
      <4>3. Reaches(s, c) /\ c.events = evs
        BY <4>1, GoingFields
      <4> HIDE DEF c
      <4> QED  BY <4>1, <4>2, <4>3
    <3> QED  BY <3>1, <3>2
  <2>5. PICK c : Reaches(s, c) /\ c.events \in Seq(Events) /\ FirstBreach(c.events) = verdict
    BY <2>4
  <2>6. FirstBreach(d.events) = verdict
    BY <1>3, <2>1, <2>5, BreachStands DEF d
  <2>7. d.events \in Seq(Events)
    BY <1>3, <2>5, DecodeTells DEF d
  <2>8. FirstVerdict(d) = verdict
    BY <2>1, <2>6, <2>7, FirstVerdictIs
  <2> QED  BY <2>1, <2>8 DEF d
<1> QED  BY <1>6, <1>7, <1>8

THEOREM DestinationCorrect == ReceiverSpec => []DestinationIsMessage
<1>1. TypeInv /\ CarryInv /\ PlaceInv /\ MeaningInv /\ ReceiverInv => DestinationIsMessage
  BY DestinationRight
<1> QED  BY <1>1, ReceiverInvariant, PTL

THEOREM VerdictCorrect == ReceiverSpec => []VerdictIsChunkFree
<1>1. TypeInv /\ CarryInv /\ PlaceInv /\ MeaningInv /\ ReceiverInv => VerdictIsChunkFree
  BY VerdictRight
<1> QED  BY <1>1, ReceiverInvariant, PTL
=============================================================================
