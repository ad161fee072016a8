------------------------------ MODULE OStream ------------------------------
(***************************************************************************)
(* The streaming encoder of src/src/ostream.rs: a cursor over a buffer the *)
(* caller provides, an optional sink that takes the buffer when it fills,  *)
(* and the run of sequence headers that are held back until the sequence   *)
(* turns out to have content.                                              *)
(*                                                                         *)
(* A call of the API is a step that checks its arguments and, when it has  *)
(* bytes to write, leaves them in `todo'; further steps push them, hand    *)
(* the buffer over when it is full, and return or fail.  The many write    *)
(* paths of the code (one capacity test for a whole field, for a run of    *)
(* elements, or per byte) all fill the buffer to its last byte before they *)
(* drain it, so one Push stands for each of them.                          *)
(***************************************************************************)
EXTENDS Format
LOCAL INSTANCE SequencesExt

CONSTANTS
  MinOutputBuffer,             \* capacity a buffer with a sink must have (1)
  Utf8,                        \* the payloads that are valid UTF-8
  \* What the caller may ask for, and the buffers it and the sink may offer.
  Ids, UnsignedValues, SignedValues, Payloads,
  UnsignedArrays, SignedArrays, FloatArrays, Buffers,
  WireBound                    \* bound: no write starts once the wire is longer

ASSUME BufferAssumption == MinOutputBuffer \in Nat \ {0} /\ WireBound \in Nat

ASSUME CallerAssumption ==
  /\ Ids \subseteq Nat
  /\ UnsignedValues \subseteq Unsigned
  /\ SignedValues \subseteq Signed
  /\ Payloads \subseteq Seq(Byte)
  /\ UnsignedArrays \subseteq Seq(Unsigned)
  /\ SignedArrays \subseteq Seq(Signed)
  /\ FloatArrays \subseteq Seq(Byte)
  /\ Buffers \subseteq [len : Nat, offset : Nat]

VARIABLES
  \* The fields of the OStream struct.
  end, offset,    \* length of the active buffer and the write cursor in it
  depth,          \* number of open sequences
  pending,        \* ids of the held-back sequences, outermost first
  hasSink,        \* whether a flush sink is attached
  dead,           \* a replacement was refused: nothing can be written any more
  \* The memory behind the active buffer.
  room,           \* bytes the installation reserved before the cursor
  mem,            \* what the encoder has written behind that room
  out,            \* what has left: taken by the sink, or in a replaced buffer
  \* The call in progress.
  pc,             \* "idle", "commit" (held-back headers) or "body"
  call,           \* its kind, what it writes behind the held-back headers (a body,
                  \* then elements), and (history) the field it was asked to write
  written,        \* held-back headers written in full; in the body, elements begun
  todo,           \* bytes of the current header, body or element still to be pushed
  result          \* what the last call returned

bufferVars == <<end, offset, room, mem>>
callVars == <<pc, call, written, todo>>
vars == <<end, offset, depth, pending, hasSink, dead, room, mem, out,
          pc, call, written, todo, result>>

\* Every byte accepted so far, in order, wherever it now is.
Wire == out \o mem

NoCall == [kind |-> "none", body |-> <<>>, elements |-> <<>>, asked |-> <<>>]

(***************************************************************************)
(* Buffers: what may be installed, and what installing does.               *)
(***************************************************************************)
InRange(b) == b.offset <= b.len                             \* check_offset_in_range

\* Mutant: the minimum is not asked of a buffer, only that its offset is in range.
StreamableAny(b) == b.len >= b.offset

Streamable(b) == b.len - b.offset >= MinOutputBuffer        \* check_streaming_capacity

\* Mutant: the cursor is put at the buffer's start, on the reserved bytes.
InstallAtStart(b) == end' = b.len /\ offset' = 0 /\ room' = b.offset /\ mem' = <<>>

Install(b) ==
  /\ end' = b.len
  /\ offset' = b.offset
  /\ room' = b.offset
  /\ mem' = <<>>

\* The sink either copied and leaves the same buffer behind, or keeps it and
\* returns any other.
Replies == Buffers \cup {[len |-> end, offset |-> 0]}

\* Mutant: the last byte written is not handed over.
HandedShort == SubSeq(mem, 1, Len(mem) - 1)

\* What a sink is given of the encoder's bytes: the buffer up to the cursor.
Handed == SubSeq(mem, 1, offset - room)

\* hand_over: the reply is judged before it is installed, and a refused one kills
\* the stream.
HandOver(reply) ==
  /\ out' = out \o Handed
  /\ IF Streamable(reply)
       THEN Install(reply) /\ UNCHANGED dead
       ELSE Install([len |-> 0, offset |-> 0]) /\ dead' = TRUE

Init ==
  \E b \in Buffers :
    /\ hasSink \in BOOLEAN
    /\ IF hasSink THEN Streamable(b) ELSE InRange(b)
    /\ end = b.len /\ offset = b.offset /\ room = b.offset
    /\ mem = <<>> /\ out = <<>>
    /\ depth = 0 /\ pending = <<>> /\ dead = FALSE
    /\ pc = "idle" /\ call = NoCall /\ written = 0 /\ todo = <<>>
    /\ result = "Ok"

(***************************************************************************)
(* The bytes of each field.                                                *)
(***************************************************************************)
Header(id, wireType) == Varint(8 * id + wireType)
FixlenWord(len, subtype) == Varint(8 * len + subtype)
SequenceHeader(id) == Header(id, T_SEQUENCE_START)
EndMarker == Varint(T_SEQUENCE_END)
FieldVarint(id, wireType, v) == Header(id, wireType) \o Varint(v)
VarintRun(vs) == [i \in DOMAIN vs |-> Varint(vs[i])]         \* one piece per element

\* Mutant: the width of a float is not checked.
FixlenAgreesAnyWidth(data, subtype) ==
  (subtype = Str => data \in Utf8) /\ Len(data) <= FixlenMax

\* The check write_fixlen makes of a payload before anything is written.
FixlenAgrees(data, subtype) ==
  /\ subtype \in {Fp32, Fp64} => Len(data) = FloatLen(subtype)
  /\ subtype = Str => data \in Utf8
  /\ Len(data) <= FixlenMax

(***************************************************************************)
(* Calls that write.  `commits' is false for the end marker only: framing  *)
(* does not commit the held-back run.                                      *)
(***************************************************************************)
CanCall == pc = "idle"
CanWrite == CanCall /\ Len(Wire) <= WireBound

Answer(r) == result' = r /\ UNCHANGED callVars

Refuse == Answer("Argument") /\ UNCHANGED <<bufferVars, depth, pending, hasSink, dead, out>>

Begin(kind, body, elements, asked, commits) ==
  /\ call' = [kind |-> kind, body |-> body, elements |-> elements, asked |-> asked]
  /\ written' = 0
  /\ IF commits /\ pending # <<>>
       THEN pc' = "commit" /\ todo' = SequenceHeader(Head(pending))
       ELSE pc' = "body" /\ todo' = body
  /\ UNCHANGED <<bufferVars, depth, pending, hasSink, dead, out, result>>

\* The field a call was asked to write.
Scalar(id, kind, v) == <<"scalar", id, kind, <<v>>>>
Fixlen(id, subtype, data) == <<"fixlen", id, subtype, data>>
Array(id, kind, vs) == <<"array", id, kind, vs>>

\* Every content writer checks its arguments, then the id, and then commits the
\* held-back run before its own first byte.
Content(id, accepted, body, elements, asked) ==
  /\ CanWrite
  /\ IF accepted /\ id <= IdMax
       THEN Begin("content", body, elements, asked, TRUE)
       ELSE Refuse

WriteUnsigned(id, v) ==
  Content(id, TRUE, FieldVarint(id, T_VARINT_UNSIGNED, v), <<>>, Scalar(id, KindUnsigned, v))

WriteSigned(id, v) ==
  Content(id, TRUE, FieldVarint(id, T_VARINT_SIGNED, ZigZag(v)), <<>>, Scalar(id, KindSigned, v))

\* write_fixlen, and the typed writers whose payloads agree by construction.
WriteFixlen(id, data, subtype) ==
  Content(id, FixlenAgrees(data, subtype),
          Header(id, T_FIXLEN) \o FixlenWord(Len(data), subtype) \o data, <<>>,
          Fixlen(id, subtype, data))

WriteArrayUnsigned(id, vs) ==
  Content(id, Len(vs) <= ArrayMax,
          FieldVarint(id, T_VARINTARRAY_UNSIGNED, Len(vs)), VarintRun(vs),
          Array(id, KindUnsigned, vs))

WriteArraySigned(id, vs) ==
  Content(id, Len(vs) <= ArrayMax,
          FieldVarint(id, T_VARINTARRAY_SIGNED, Len(vs)),
          VarintRun([i \in DOMAIN vs |-> ZigZag(vs[i])]),
          Array(id, KindSigned, vs))

\* write_array_fp32 and write_array_fp64, of `count' elements: their images, gap-free.
WriteArrayFloat(id, data, subtype) ==
  LET width == FloatLen(subtype)
      count == Len(data) \div width
  IN  /\ Len(data) = count * width
      /\ Content(id, count <= ArrayMax,
                 FieldVarint(id, T_FIXLENARRAY, count) \o FixlenWord(width, subtype) \o data,
                 <<>>,
                 Array(id, IF subtype = Fp32 THEN KindFp32 ELSE KindFp64, data))

(***************************************************************************)
(* Sequences.                                                              *)
(***************************************************************************)
\* Mutant: one sequence too many may be open.
BeginRefusedOffByOne(id) == depth > MaxDepth \/ id > IdMax

BeginRefused(id) == depth >= MaxDepth \/ id > IdMax

WriteSequenceBeginLazy(id) ==
  /\ CanCall
  /\ IF BeginRefused(id)
       THEN Refuse
       ELSE /\ pending' = Append(pending, id)
            /\ depth' = depth + 1
            /\ Answer("Ok")
            /\ UNCHANGED <<bufferVars, hasSink, dead, out>>

\* Mutant: the header of a dropped sequence stays held back.
PoppedNot == pending

\* PendingRun::pop.
Popped == SubSeq(pending, 1, Len(pending) - 1)

\* A held-back sequence vanishes; one whose header is out gets its marker.
WriteSequenceEnd ==
  /\ CanWrite
  /\ IF depth = 0 THEN Refuse
     ELSE IF pending # <<>>
       THEN /\ pending' = Popped
            /\ depth' = depth - 1
            /\ Answer("Ok")
            /\ UNCHANGED <<bufferVars, hasSink, dead, out>>
       ELSE Begin("end", EndMarker, <<>>, <<>>, FALSE)

WriteSequenceEndKeep ==
  /\ CanWrite
  /\ IF depth = 0 THEN Refuse ELSE Begin("keep", EndMarker, <<>>, <<>>, TRUE)

(***************************************************************************)
(* The steps of a call that writes.                                        *)
(***************************************************************************)
\* Copy what fits in the room left.
Push ==
  /\ todo # <<>> /\ offset < end
  /\ LET n == IF Len(todo) <= end - offset THEN Len(todo) ELSE end - offset
     IN  /\ mem' = mem \o SubSeq(todo, 1, n)
         /\ todo' = SubSeq(todo, n + 1, Len(todo))
         /\ offset' = offset + n
  /\ UNCHANGED <<end, depth, pending, hasSink, dead, room, out, pc, call, written, result>>

\* Mutants: a commit that fails forgets the run, or keeps all of it.
DropAll == pending' = <<>>
DropNone == pending' = pending

\* commit_pending drops exactly the headers that are out, also when it fails.
DropWritten == pending' = SubSeq(pending, written + 1, Len(pending))

Finish(r) ==
  /\ pc' = "idle" /\ call' = NoCall /\ written' = 0 /\ todo' = <<>>
  /\ result' = r

Fail(error) ==
  /\ Finish(error)
  /\ IF pc = "commit" THEN DropWritten ELSE UNCHANGED pending
  /\ UNCHANGED <<depth, hasSink>>

\* drain_full on a dead stream, and on one without a sink.
DrainFails ==
  /\ todo # <<>> /\ offset >= end
  /\ dead \/ ~hasSink
  /\ Fail(IF dead THEN "Argument" ELSE "BufferFull")
  /\ UNCHANGED <<bufferVars, dead, out>>

DrainToSink(reply) ==
  /\ todo # <<>> /\ offset >= end
  /\ hasSink /\ ~dead
  /\ HandOver(reply)
  /\ IF Streamable(reply)
       THEN UNCHANGED <<depth, pending, hasSink, callVars, result>>
       ELSE Fail("Argument")

\* A header of the held-back run is out: go on with the next, or with the body.
HeaderWritten ==
  /\ pc = "commit" /\ todo = <<>>
  /\ IF written + 1 < Len(pending)
       THEN /\ written' = written + 1
            /\ todo' = SequenceHeader(pending[written + 2])
            /\ UNCHANGED <<pc, pending>>
       ELSE /\ pending' = <<>>
            /\ written' = 0
            /\ pc' = "body"
            /\ todo' = call.body
  /\ UNCHANGED <<bufferVars, depth, hasSink, dead, out, call, result>>

\* The elements of an array follow its body, one by one.
NextElement ==
  /\ pc = "body" /\ todo = <<>> /\ written < Len(call.elements)
  /\ todo' = call.elements[written + 1]
  /\ written' = written + 1
  /\ UNCHANGED <<bufferVars, depth, pending, hasSink, dead, out, pc, call, result>>

\* All is out: a sequence counts as closed only now.
Return ==
  /\ pc = "body" /\ todo = <<>> /\ written = Len(call.elements)
  /\ depth' = IF call.kind \in {"end", "keep"} THEN depth - 1 ELSE depth
  /\ Finish("Ok")
  /\ UNCHANGED <<bufferVars, pending, hasSink, dead, out>>

(***************************************************************************)
(* Calls on the buffer.                                                    *)
(***************************************************************************)
\* Mutant: a flush of a dead stream finds nothing to hand over and succeeds.
FlushRefusedNever == FALSE

FlushRefused == dead

Flush(reply) ==
  /\ CanCall
  /\ IF FlushRefused THEN Refuse
     ELSE /\ IF hasSink /\ offset > 0
               THEN /\ HandOver(reply)
                    /\ Answer(IF Streamable(reply) THEN "Ok" ELSE "Argument")
               ELSE /\ Answer("Ok")
                    /\ UNCHANGED <<bufferVars, dead, out>>
          /\ UNCHANGED <<depth, pending, hasSink>>

\* Mutant: a dead stream takes a new buffer.
SetRefusedAlive(b) == ~InRange(b) \/ (hasSink /\ ~Streamable(b))

SetRefused(b) == dead \/ ~InRange(b) \/ (hasSink /\ ~Streamable(b))

\* With a sink the bytes are handed over first, and whatever it leaves behind is
\* superseded, a refused replacement included (dead is reset).  Without one they
\* stay in the old buffer, which the caller still holds.
BufferSet(b) ==
  /\ CanCall
  /\ IF SetRefused(b) THEN Refuse
     ELSE /\ out' = out \o Handed
          /\ Install(b)
          /\ Answer("Ok")
          /\ UNCHANGED <<depth, pending, hasSink, dead>>

\* Any writer of a field.
WriteField(id) ==
  \/ \E v \in UnsignedValues : WriteUnsigned(id, v)
  \/ \E v \in SignedValues : WriteSigned(id, v)
  \/ \E data \in Payloads, subtype \in FixlenTypes : WriteFixlen(id, data, subtype)
  \/ \E vs \in UnsignedArrays : WriteArrayUnsigned(id, vs)
  \/ \E vs \in SignedArrays : WriteArraySigned(id, vs)
  \/ \E data \in FloatArrays, subtype \in {Fp32, Fp64} : WriteArrayFloat(id, data, subtype)

Calls ==
  \/ \E id \in Ids : WriteField(id) \/ WriteSequenceBeginLazy(id)
  \/ WriteSequenceEnd
  \/ WriteSequenceEndKeep
  \/ \E reply \in Replies : Flush(reply)
  \/ \E b \in Buffers : BufferSet(b)

Steps ==
  \/ Push
  \/ DrainFails
  \/ \E reply \in Replies : DrainToSink(reply)
  \/ HeaderWritten
  \/ NextElement
  \/ Return

Next == Calls \/ Steps

\* A call that was made runs to its end: the code is sequential and the sink is
\* required to return.
Spec == Init /\ [][Next]_vars /\ WF_vars(Steps)

-----------------------------------------------------------------------------
(***************************************************************************)
(* Properties.                                                             *)
(***************************************************************************)
\* Type invariant; depth and the held-back run stay within MAX_DEPTH, the size of
\* the run's array.
TypeOK ==
  /\ end \in Nat /\ offset \in Nat /\ room \in Nat
  /\ depth \in 0..MaxDepth
  /\ pending \in Seq(0..IdMax)
  /\ hasSink \in BOOLEAN /\ dead \in BOOLEAN
  /\ mem \in Seq(Byte) /\ out \in Seq(Byte)
  /\ pc \in {"idle", "commit", "body"}
  /\ call.kind \in {"none", "content", "end", "keep"}
  /\ call.body \in Seq(Byte) /\ call.elements \in Seq(Seq(Byte))
  /\ written \in Nat
  /\ todo \in Seq(Byte)
  /\ result \in {"Ok", "Argument", "BufferFull"}

\* The cursor never passes the end of the buffer, and what lies between the
\* reserved room and the cursor is what the encoder wrote: the unchecked stores of
\* every writer, and the slice a sink is given, rely on it.  A stream with a sink
\* that is not dead has room for at least one byte in every buffer it installs,
\* and a dead one has no buffer at all.
CursorInBuffer ==
  /\ offset <= end
  /\ offset = room + Len(mem)
  /\ hasSink /\ ~dead => end - room >= MinOutputBuffer
  /\ dead => hasSink /\ end = 0

\* The held-back run is a suffix of the open sequences at every step of every call,
\* failures included, so the fixed array of PendingRun cannot overflow and closing
\* a sequence cannot pop the header of another; the commit loop stays inside it.
HeldBackAreOpen ==
  /\ Len(pending) <= depth
  /\ written <= IF pc = "commit" THEN Len(pending) - 1 ELSE Len(call.elements)
  /\ call.kind \in {"end", "keep"} => depth > 0
  /\ pc = "body" => pending = <<>>

\* No step loses, reorders or rewrites a byte that was accepted: not a handover, not
\* a buffer-set in the middle of a message, not a failure.
NothingLost == [][IsPrefix(Wire, Wire')]_vars

\* A refused replacement ends the stream: it stays dead through every later call,
\* buffer-set included, and no byte is accepted or handed to the sink again.
DeadIsFinal == [][dead => dead' /\ out' = out /\ mem' = mem]_vars

\* A call that opens a sequence that is held back, or closes a held-back one empty.
HoldsBackOnly ==
  pc = "idle" /\ depth' # depth /\ depth' - depth = Len(pending') - Len(pending)

\* The call that kills the stream, and every later one that would put a byte on the
\* wire or complete the message, reports the error, flush and buffer-set included;
\* only calls on held-back sequences, which write nothing, still succeed (hand_over).
DeadIsReported == [][dead' /\ pc' = "idle" => result' = "Argument" \/ HoldsBackOnly]_vars

\* Every call that is made returns, however small the buffers the sink leaves.
CallsReturn == (pc # "idle") ~> (pc = "idle")
=============================================================================
