------------------------------ MODULE IStream ------------------------------
(***************************************************************************)
(* The streaming decoder of src/src/istream.rs.  The caller feeds a        *)
(* message in chunks, cut wherever it likes; the decoder calls a Visitor   *)
(* for each item it completes and answers a verdict on the bytes so far.   *)
(*                                                                         *)
(* What survives between two feeds is `carry' (the bytes of an item too    *)
(* short to be read), `resume' (a payload or array under way), `depth' and *)
(* the latched `invalid'.  A feed is a sequence of steps: parse the carry  *)
(* stitched to the head of the chunk, when there is a carry; then parse    *)
(* the rest of the chunk in place; then stash the tail.                    *)
(***************************************************************************)
EXTENDS Format

CONSTANTS
  Inputs          \* the byte sequences that are fed, each cut into any chunks

ASSUME InputsAssumption == Inputs \subseteq Seq(Byte)

\* Mutant: the word of a float array is left out of account.
CarryCapTwo == 2 * MaxVarintLen

\* The widest prefix of one item: three varints.  A float fits as well.
CarryCap == 3 * MaxVarintLen

ASSUME FloatAssumption == Fp32Len <= CarryCap /\ Fp64Len <= CarryCap

VARIABLES
  \* The fields of the IStream struct (carry_len is the length of carry).
  carry, resume, depth, invalid,
  \* The feed in progress.
  pc,             \* "idle", "resume", "field", "elements" or "parsed"
  chunk,          \* the caller's chunk
  buf, pos,       \* the bytes being parsed and how many are consumed
  held,           \* how many of them came from the carry
  item,           \* the array whose elements are being read
  result,         \* what the last feed returned
  message,        \* the bytes on their way to the decoder
  \* History.
  fed,            \* every byte fed since the last reset
  events          \* every callback made since the last reset

feedVars == <<chunk, buf, pos, held, item>>
vars == <<carry, resume, depth, invalid, pc, chunk, buf, pos, held, item, result,
          message, fed, events>>

Smaller(m, n) == IF m <= n THEN m ELSE n

Init ==
  /\ message \in Inputs
  /\ carry = <<>> /\ resume = NoResume /\ depth = 0 /\ invalid = FALSE
  /\ pc = "idle" /\ chunk = <<>> /\ buf = <<>> /\ pos = 0 /\ held = 0 /\ item = NoResume
  /\ result = "Complete"
  /\ fed = <<>> /\ events = <<>>

(***************************************************************************)
(* Calls.                                                                  *)
(***************************************************************************)
Reset ==
  /\ pc = "idle"
  /\ carry' = <<>> /\ resume' = NoResume /\ depth' = 0 /\ invalid' = FALSE
  /\ result' = "Complete" /\ fed' = <<>> /\ events' = <<>>
  /\ UNCHANGED <<pc, feedVars, message>>

\* A carry is topped up from the chunk, to its capacity at most, and parsed first;
\* without one the chunk is parsed in place.
Stitch(c) ==
  LET take == IF carry = <<>> THEN Len(c) ELSE Smaller(CarryCap - Len(carry), Len(c))
  IN  buf' = carry \o SubSeq(c, 1, take) /\ held' = Len(carry)

Feed(c) ==
  /\ pc = "idle"
  /\ IF invalid
       THEN result' = "InvalidMsg" /\ UNCHANGED <<pc, feedVars, fed>>
       ELSE /\ fed' = fed \o c
            /\ pc' = "resume" /\ chunk' = c /\ pos' = 0 /\ Stitch(c)
            /\ UNCHANGED <<item, result>>
  /\ UNCHANGED <<carry, resume, depth, invalid, message, events>>

Leave(r) ==
  /\ pc' = "idle" /\ chunk' = <<>> /\ buf' = <<>> /\ pos' = 0 /\ held' = 0 /\ item' = NoResume
  /\ result' = r

\* Mutant: the verdict is given but not remembered.
LatchForgets == Leave("InvalidMsg") /\ UNCHANGED invalid

\* latch: the bytes are malformed whatever follows.
Latch == Leave("InvalidMsg") /\ invalid' = TRUE

Reject == Latch /\ UNCHANGED <<carry, resume, depth, message, fed, events>>

(***************************************************************************)
(* parse: the item that was in progress (resume_item).                     *)
(***************************************************************************)
ResumeNothing ==
  /\ pc = "resume" /\ resume.kind = "none"
  /\ pc' = "field"
  /\ UNCHANGED <<carry, resume, depth, invalid, feedVars, result, message, fed, events>>

\* Mutant: every chunk of a payload is delivered at its start.
DeliveredNone == 0

\* Bytes of the payload under way that were handed over before.
Delivered == resume.total - resume.remaining

\* deliver_payload: hand over what is there; without a byte there is no callback.
ResumePayload ==
  /\ pc = "resume" /\ resume.kind = "payload"
  /\ LET avail == Smaller(Len(buf) - pos, resume.remaining)
         left == resume.remaining - avail
     IN  /\ pos' = pos + avail
         /\ events' = IF avail = 0 THEN events
                      ELSE Append(events, OnChunk(resume.id, resume.type, resume.total, Delivered,
                                                  SubSeq(buf, pos + 1, pos + avail)))
         /\ resume' = IF left = 0 THEN NoResume ELSE [resume EXCEPT !.remaining = left]
         /\ pc' = IF left = 0 THEN "field" ELSE "parsed"
  /\ UNCHANGED <<carry, depth, invalid, chunk, buf, held, item, result, message, fed>>

ResumeArray ==
  /\ pc = "resume" /\ resume.kind \in {"int", "fix"}
  /\ item' = resume /\ resume' = NoResume
  /\ pc' = "elements"
  /\ UNCHANGED <<carry, depth, invalid, chunk, buf, pos, held, result, message, fed, events>>

(***************************************************************************)
(* parse: the elements of an array (int_array, fix_array).                 *)
(***************************************************************************)
\* The element at the cursor, and the callback it makes.
element ==
  IF item.kind = "int" THEN ReadVarint(buf, pos + 1)
  ELSE IF Len(buf) - pos < FloatLen(item.type) THEN ReadMore
  ELSE ReadOk(0, FloatLen(item.type))

OnElement(e) ==
  CASE item.kind = "fix" ->
         OnFloat(item.id, item.type, SubSeq(buf, pos + 1, pos + e.len))
    [] item.kind = "int" /\ item.type = KindSigned -> OnSigned(item.id, ZigZagDecode(e.value))
    [] item.kind = "int" /\ item.type # KindSigned -> OnUnsigned(item.id, e.value)

ElementRead ==
  /\ pc = "elements" /\ item.remaining > 0 /\ element.status = "ok"
  /\ events' = Append(events, OnElement(element))
  /\ pos' = pos + element.len
  /\ item' = [item EXCEPT !.remaining = @ - 1]
  /\ UNCHANGED <<carry, resume, depth, invalid, pc, chunk, buf, held, result, message, fed>>

\* Mutants: the element that is short counts as read; the loop tries it again.
ElementShortCounts ==
  /\ pc = "elements" /\ item.remaining > 0 /\ element.status = "more"
  /\ resume' = [item EXCEPT !.remaining = @ - 1]
  /\ pc' = "parsed"
  /\ UNCHANGED <<carry, depth, invalid, feedVars, result, message, fed, events>>
ElementShortLoops ==
  /\ pc = "elements" /\ item.remaining > 0 /\ element.status = "more"
  /\ resume' = item
  /\ UNCHANGED <<carry, depth, invalid, pc, feedVars, result, message, fed, events>>

\* The bytes ran out inside an element: suspend at its start.
ElementShort ==
  /\ pc = "elements" /\ item.remaining > 0 /\ element.status = "more"
  /\ resume' = item
  /\ pc' = "parsed"
  /\ UNCHANGED <<carry, depth, invalid, feedVars, result, message, fed, events>>

ElementMalformed ==
  /\ pc = "elements" /\ item.remaining > 0 /\ element.status = "invalid"
  /\ Reject

ElementsRead ==
  /\ pc = "elements" /\ item.remaining = 0
  /\ pc' = "field" /\ item' = NoResume
  /\ UNCHANGED <<carry, resume, depth, invalid, chunk, buf, pos, held, result, message, fed, events>>

(***************************************************************************)
(* parse: the field at the cursor.                                         *)
(***************************************************************************)
header == ReadVarint(buf, pos + 1)
id == header.value \div 8
wire == header.value % 8

\* The varint behind the header: a value, a count or a fixlen word.
atWord == pos + header.len
word == ReadVarint(buf, atWord + 1)
length == word.value \div 8
subtype == word.value % 8

\* The fixlen word of a float array, behind its count.
atElem == atWord + word.len
elem == ReadVarint(buf, atElem + 1)
elemSubtype == elem.value % 8

\* Mutant: one sequence too many is accepted.
TooDeepOffByOne == depth > MaxDepth

TooDeep == depth >= MaxDepth

AtField == pc = "field" /\ pos < Len(buf)
HeaderRead == AtField /\ header.status = "ok" /\ id <= IdMax
WordRead == HeaderRead /\ HasWord(wire) /\ word.status = "ok"
CountRead == WordRead /\ word.value <= ArrayMax
ElemRead == CountRead /\ wire = T_FIXLENARRAY /\ elem.status = "ok"

\* A fixlen word that no payload can satisfy.
BadFixlen ==
  \/ length > FixlenMax
  \/ subtype \notin FixlenTypes
  \/ subtype \in Floats /\ length # FloatLen(subtype)

BadElem == elemSubtype \notin Floats \/ elem.value \div 8 # FloatLen(elemSubtype)

FieldMalformed ==
  /\ AtField
  /\ \/ header.status = "invalid"
     \/ header.status = "ok" /\ id > IdMax
     \/ HeaderRead /\ HasWord(wire) /\ word.status = "invalid"
     \/ HeaderRead /\ wire = T_SEQUENCE_START /\ TooDeep
     \/ HeaderRead /\ wire = T_SEQUENCE_END /\ depth = 0
     \/ WordRead /\ wire = T_FIXLEN /\ BadFixlen
     \/ WordRead /\ wire \in IntArrays \cup {T_FIXLENARRAY} /\ word.value > ArrayMax
     \/ CountRead /\ wire = T_FIXLENARRAY /\ elem.status = "invalid"
     \/ ElemRead /\ BadElem
  /\ Reject

\* The field's head is not all there: back up to its start.
FieldShort ==
  /\ AtField
  /\ \/ header.status = "more"
     \/ HeaderRead /\ HasWord(wire) /\ word.status = "more"
     \/ CountRead /\ wire = T_FIXLENARRAY /\ elem.status = "more"
  /\ pc' = "parsed"
  /\ UNCHANGED <<carry, resume, depth, invalid, feedVars, result, message, fed, events>>

NoMoreFields ==
  /\ pc = "field" /\ pos >= Len(buf)
  /\ pc' = "parsed"
  /\ UNCHANGED <<carry, resume, depth, invalid, feedVars, result, message, fed, events>>

Scalar ==
  /\ WordRead /\ wire \in {T_VARINT_UNSIGNED, T_VARINT_SIGNED}
  /\ events' = Append(events, IF wire = T_VARINT_SIGNED
                                THEN OnSigned(id, ZigZagDecode(word.value))
                                ELSE OnUnsigned(id, word.value))
  /\ pos' = atElem
  /\ UNCHANGED <<carry, resume, depth, invalid, pc, chunk, buf, held, item, result, message, fed>>

\* A string or blob, whole or up to the end of the bytes.
FixlenPayload ==
  /\ WordRead /\ wire = T_FIXLEN /\ subtype \in {Str, Blob} /\ length <= FixlenMax
  /\ LET avail == Smaller(Len(buf) - atElem, length)
         begun == Append(events, OnFixlenBegin(id, subtype, length))
     IN  /\ events' = IF avail = 0 /\ length > 0 THEN begun
                      ELSE Append(begun, OnChunk(id, subtype, length, 0,
                                                 SubSeq(buf, atElem + 1, atElem + avail)))
         /\ pos' = atElem + avail
         /\ IF avail = length
              THEN UNCHANGED <<pc, resume>>
              ELSE /\ resume' = Resume("payload", id, subtype, length, length - avail)
                   /\ pc' = "parsed"
  /\ UNCHANGED <<carry, depth, invalid, chunk, buf, held, item, result, message, fed>>

\* Announce an array, or the one float of a scalar field, and go on to its elements.
Announce(event, at, elements) ==
  /\ events' = Append(events, event)
  /\ pos' = at
  /\ item' = elements
  /\ pc' = "elements"
  /\ UNCHANGED <<carry, resume, depth, invalid, chunk, buf, held, result, message, fed>>

FixlenFloat ==
  /\ WordRead /\ wire = T_FIXLEN /\ subtype \in Floats /\ ~BadFixlen
  /\ Announce(OnFixlenBegin(id, subtype, length), atElem, Resume("fix", id, subtype, 0, 1))

IntArray ==
  /\ CountRead /\ wire \in IntArrays
  /\ LET kind == IF wire = T_VARINTARRAY_SIGNED THEN KindSigned ELSE KindUnsigned
     IN  Announce(OnArrayBegin(id, kind, word.value), atElem,
                  Resume("int", id, kind, 0, word.value))

FloatArray ==
  /\ ElemRead /\ ~BadElem
  /\ LET kind == IF elemSubtype = Fp64 THEN KindFp64 ELSE KindFp32
     IN  Announce(OnArrayBegin(id, kind, word.value), atElem + elem.len,
                  Resume("fix", id, elemSubtype, 0, word.value))

SequenceBegin ==
  /\ HeaderRead /\ wire = T_SEQUENCE_START /\ ~TooDeep
  /\ depth' = depth + 1
  /\ events' = Append(events, OnSequenceBegin(id))
  /\ pos' = atWord
  /\ UNCHANGED <<carry, resume, invalid, pc, chunk, buf, held, item, result, message, fed>>

SequenceEnd ==
  /\ HeaderRead /\ wire = T_SEQUENCE_END /\ depth > 0
  /\ depth' = depth - 1
  /\ events' = Append(events, OnSequenceEnd)
  /\ pos' = atWord
  /\ UNCHANGED <<carry, resume, invalid, pc, chunk, buf, held, item, result, message, fed>>

(***************************************************************************)
(* What feed does with the bytes parse left (resume_carried, stash).       *)
(***************************************************************************)
tail == SubSeq(buf, pos + 1, Len(buf))

\* Mutant: bytes that are carried do not keep a message from being complete.
VerdictNoCarry == IF resume = NoResume /\ depth = 0 THEN "Complete" ELSE "Incomplete"

Verdict == IF carry' = <<>> /\ resume = NoResume /\ depth = 0 THEN "Complete" ELSE "Incomplete"

\* Mutant: the carried bytes are counted as bytes of the chunk.
RestOfChunkSkips == SubSeq(chunk, pos + 1, Len(chunk))

\* The bytes of the chunk behind those that were parsed with the carry.
RestOfChunk == SubSeq(chunk, pos - held + 1, Len(chunk))

\* The carried bytes are consumed: parse the rest of the chunk in place.
CarryConsumed ==
  /\ pc = "parsed" /\ held > 0 /\ pos >= held
  /\ carry' = <<>>
  /\ buf' = RestOfChunk
  /\ pos' = 0 /\ held' = 0 /\ pc' = "resume"
  /\ UNCHANGED <<resume, depth, invalid, chunk, item, result, message, fed, events>>

\* Still short of a complete item; a carry that filled up is malformed.
CarryShort ==
  /\ pc = "parsed" /\ held > 0 /\ pos < held
  /\ carry' = tail
  /\ IF Len(buf) - held < Len(chunk)
       THEN Latch
       ELSE Leave(Verdict) /\ UNCHANGED invalid
  /\ UNCHANGED <<resume, depth, message, fed, events>>

Stash ==
  /\ pc = "parsed" /\ held = 0
  /\ IF Len(tail) > CarryCap
       THEN Latch /\ UNCHANGED carry
       ELSE carry' = tail /\ Leave(Verdict) /\ UNCHANGED invalid
  /\ UNCHANGED <<resume, depth, message, fed, events>>

Calls ==
  \/ Reset
  \/ \E n \in Len(fed)..Len(message) : Feed(SubSeq(message, Len(fed) + 1, n))

Steps ==
  \/ ResumeNothing \/ ResumePayload \/ ResumeArray
  \/ ElementRead \/ ElementShort \/ ElementMalformed \/ ElementsRead
  \/ FieldMalformed \/ FieldShort \/ NoMoreFields
  \/ Scalar \/ FixlenPayload \/ FixlenFloat \/ IntArray \/ FloatArray
  \/ SequenceBegin \/ SequenceEnd
  \/ CarryConsumed \/ CarryShort \/ Stash

Next == Calls \/ Steps

\* A feed that was made runs to its end: the code is sequential and the visitor
\* is required to return.
Spec == Init /\ [][Next]_vars /\ WF_vars(Steps)

-----------------------------------------------------------------------------
(***************************************************************************)
(* Properties.                                                             *)
(***************************************************************************)
\* Type invariant; the depth never leaves 0..MAX_DEPTH, whatever is fed.
TypeOK ==
  /\ carry \in Seq(Byte) /\ resume \in Items /\ depth \in 0..MaxDepth /\ invalid \in BOOLEAN
  /\ pc \in {"idle", "resume", "field", "elements", "parsed"}
  /\ chunk \in Seq(Byte) /\ buf \in Seq(Byte) /\ fed \in Seq(Byte)
  /\ pos \in 0..Len(buf) /\ held \in 0..Len(buf)
  /\ item \in Items
  /\ result \in {"Complete", "Incomplete", "InvalidMsg"}

\* What is carried is one item that is not complete, and always leaves a byte of
\* the carry free, so neither branch that the code calls unreachable is reached:
\* no chunk is cut short by a full carry, and no tail is too long to stash.
CarryIsOnePrefix ==
  /\ Len(carry) < CarryCap
  /\ pc = "parsed" /\ held > 0 /\ pos < held => pos = 0 /\ Len(buf) = held + Len(chunk)
  /\ pc = "parsed" /\ held = 0 => Len(tail) < CarryCap

\* A payload is announced once, before its first byte; its chunks have no gap, no
\* overlap and no repetition wherever the message was cut, and nothing else is told
\* until it is complete.
PayloadsInOrder ==
  \A i \in DOMAIN events :
    LET e == events[i]
        before == events[i - 1]
        starts == i > 1 /\ before.name = "fixlen_begin"
        goesOn == i > 1 /\ before.name = "chunk" /\ before.offset + Len(before.data) < before.value
    IN  /\ e.name = "chunk" =>
             /\ starts \/ goesOn
             /\ e.offset = IF starts THEN 0 ELSE before.offset + Len(before.data)
             /\ e.offset + Len(e.data) <= e.value
             /\ <<e.id, e.type, e.value>> = <<before.id, before.type, before.value>>
        /\ starts => e.name = IF before.type \in Floats THEN "float" ELSE "chunk"
        /\ goesOn => e.name = "chunk"

\* An array is announced once with its count, and as many elements of its id and
\* kind follow before anything else is told, wherever the message was cut.
ArraysInOrder ==
  \A i \in DOMAIN events : events[i].name = "array_begin" =>
    LET a == events[i]
        fits(e) ==
          /\ e.id = a.id
          /\ CASE a.type = KindUnsigned -> e.name = "unsigned"
               [] a.type = KindSigned -> e.name = "signed"
               [] a.type = KindFp32 -> e.name = "float" /\ e.type = Fp32
               [] a.type = KindFp64 -> e.name = "float" /\ e.type = Fp64
    IN  \A j \in (i + 1)..Smaller(i + a.value, Len(events)) : fits(events[j])

\* Once a feed has answered that the message is malformed, the decoder parses and
\* tells nothing more and repeats that verdict, whatever it is fed, until a reset.
InvalidIsTerminal ==
  [][pc = "idle" /\ result = "InvalidMsg" =>
       \/ pc' = "idle" /\ result' = "InvalidMsg" /\ events' = events
       \/ result' = "Complete" /\ fed' = <<>> /\ events' = <<>>]_vars

\* What the comment in feed (istream.rs) says: an item suspends only by running out
\* of bytes, so a carry and a resumable item are never both held.
CarryOrResume == ~(carry # <<>> /\ resume # NoResume)

\* Every feed returns.
FeedReturns == (pc # "idle") ~> (pc = "idle")
=============================================================================
