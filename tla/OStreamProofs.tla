---------------------------- MODULE OStreamProofs ---------------------------
(***************************************************************************)
(* What holds of OStream for every size of varints, ids, buffers and       *)
(* sequences, and for any caller and any sink.                             *)
(*                                                                         *)
(* The three invariants are inductive only together: a handover is well    *)
(* typed because the cursor is room plus what was written; the commit loop *)
(* because the run is not passed; a closing call because a sequence is     *)
(* open when it begins, and no call opens or drops one in between.         *)
(*                                                                         *)
(* The second part proves that the stream implements Encoder.  Each item a *)
(* writer writes is read back by the reference decoder as the callbacks it *)
(* was to tell (AcceptedIsTold).  A step may cut an item anywhere, so the  *)
(* invariant speaks of the wire and what is left of the item together:     *)
(* they are whole items and that item (TraceInv).  Every step keeps it and *)
(* does to the tree of the message what one action of Encoder does, or     *)
(* tears an item (Traced).                                                 *)
(***************************************************************************)
EXTENDS OStreamRefinement, FormatProofs, SequenceTheorems
LOCAL INSTANCE SequencesExt

\* Between calls nothing of a call is left.
IdleIsClean == pc = "idle" => call = NoCall /\ written = 0 /\ todo = <<>>

IInv == TypeOK /\ CursorInBuffer /\ HeldBackAreOpen /\ IdleIsClean

-----------------------------------------------------------------------------
(***************************************************************************)
(* The bytes of the fields.                                                *)
(***************************************************************************)
LEMMA HeaderType ==
  ASSUME NEW id \in Nat, NEW wireType \in 0..7
  PROVE  Header(id, wireType) \in Seq(Byte)
<1>1. 8 * id + wireType \in Nat
  OBVIOUS
<1> DEFINE word == 8 * id + wireType
<1> HIDE DEF word
<1>2. Varint(word) \in Seq(Byte)
  BY <1>1, VarintType DEF word
<1> QED  BY <1>2 DEF Header, word

LEMMA FieldVarintType ==
  ASSUME NEW id \in Nat, NEW wireType \in 0..7, NEW v \in Nat
  PROVE  FieldVarint(id, wireType, v) \in Seq(Byte)
<1>1. Header(id, wireType) \in Seq(Byte)
  BY HeaderType
<1>2. Varint(v) \in Seq(Byte)
  BY VarintType
<1> QED  BY <1>1, <1>2 DEF FieldVarint

LEMMA FixlenWordType ==
  ASSUME NEW len \in Nat, NEW subtype \in FixlenTypes
  PROVE  FixlenWord(len, subtype) \in Seq(Byte)
<1>1. 8 * len + subtype \in Nat
  BY DEF FixlenTypes, Fp32, Fp64, Str, Blob
<1> QED  BY <1>1, VarintType DEF FixlenWord

LEMMA VarintRunType ==
  ASSUME NEW vs \in Seq(Nat)
  PROVE  VarintRun(vs) \in Seq(Seq(Byte))
<1>1. Len(vs) \in Nat /\ DOMAIN vs = 1..Len(vs)
  OBVIOUS
<1>2. \A i \in DOMAIN vs : Varint(vs[i]) \in Seq(Byte)
  BY VarintType
<1>3. VarintRun(vs) \in [1..Len(vs) -> Seq(Byte)]
  BY <1>1, <1>2 DEF VarintRun
<1> QED  BY <1>1, <1>3

LEMMA EndMarkerType == EndMarker \in Seq(Byte)
BY VarintType DEF EndMarker, T_SEQUENCE_END

\* The header of any held-back sequence is a sequence of bytes (commit_pending).
LEMMA SequenceHeaderType ==
  ASSUME NEW id \in Nat
  PROVE  SequenceHeader(id) \in Seq(Byte)
BY HeaderType DEF SequenceHeader, T_SEQUENCE_START

-----------------------------------------------------------------------------
(***************************************************************************)
(* Each kind of step keeps the inductive invariant.                        *)
(***************************************************************************)
\* A refused call changes only its answer.
LEMMA RefuseKeeps ==
  ASSUME IInv, Refuse
  PROVE  IInv'
BY DEF IInv, TypeOK, CursorInBuffer, HeldBackAreOpen, IdleIsClean, Refuse, Answer,
       bufferVars, callVars

\* A call that writes starts with its first header or its body.
LEMMA BeginKeeps ==
  ASSUME IInv, CanCall,
         NEW kind \in {"content", "end", "keep"}, NEW commits \in BOOLEAN,
         NEW body \in Seq(Byte), NEW elements \in Seq(Seq(Byte)), NEW asked,
         kind = "content" \/ depth > 0,
         commits \/ pending = <<>>,
         Begin(kind, body, elements, asked, commits)
  PROVE  IInv'
<1>1. pending # <<>> => SequenceHeader(Head(pending)) \in Seq(Byte)
  <2> SUFFICES ASSUME pending # <<>>
               PROVE  SequenceHeader(Head(pending)) \in Seq(Byte)
    OBVIOUS
  <2>1. Head(pending) \in Nat
    <3>1. pending \in Seq(0..IdMax)
      BY DEF IInv, TypeOK
    <3>2. Head(pending) \in 0..IdMax
      BY <3>1, HeadTailProperties
    <3> QED  BY <3>2, FormatAssumption
  <2> QED  BY <2>1, SequenceHeaderType
<1>2. TypeOK'
  BY <1>1 DEF IInv, TypeOK, Begin, bufferVars
<1>3. CursorInBuffer'
  BY DEF IInv, CursorInBuffer, Begin, bufferVars
<1>4. HeldBackAreOpen'
  BY DEF IInv, TypeOK, HeldBackAreOpen, Begin, bufferVars
<1>5. IdleIsClean'
  BY DEF IdleIsClean, Begin
<1> QED
  BY <1>2, <1>3, <1>4, <1>5 DEF IInv

\* What is written behind the reserved room is what a sink is given.
LEMMA HandedIsMem ==
  ASSUME IInv
  PROVE  Handed = mem
<1>1. offset - room = Len(mem) /\ mem \in Seq(Byte)
  BY DEF IInv, TypeOK, CursorInBuffer
<1> QED  BY <1>1 DEF Handed

\* A reply is a buffer.
LEMMA RepliesType ==
  ASSUME IInv, NEW reply \in Replies
  PROVE  reply.len \in Nat /\ reply.offset \in Nat
BY CallerAssumption DEF Replies, IInv, TypeOK

\* A handover keeps the buffer's part of the invariant, whatever the sink answers.
LEMMA HandOverKeeps ==
  ASSUME IInv, NEW reply \in Replies, hasSink, ~dead, HandOver(reply), hasSink' = hasSink
  PROVE  /\ end' \in Nat /\ offset' \in Nat /\ room' \in Nat /\ dead' \in BOOLEAN
         /\ mem' \in Seq(Byte) /\ out' \in Seq(Byte)
         /\ CursorInBuffer'
<1>1. out' \in Seq(Byte)
  BY HandedIsMem DEF HandOver, IInv, TypeOK
<1>2. reply.len \in Nat /\ reply.offset \in Nat
  BY RepliesType
<1>3. CASE Streamable(reply)
  BY <1>1, <1>2, <1>3, BufferAssumption
     DEF HandOver, Install, Streamable, CursorInBuffer, IInv, TypeOK
<1>4. CASE ~Streamable(reply)
  BY <1>1, <1>4 DEF HandOver, Install, CursorInBuffer, IInv, TypeOK
<1> QED  BY <1>3, <1>4

\* Between calls the record of the call is empty.
LEMMA NoCallType ==
  NoCall.kind = "none" /\ NoCall.body \in Seq(Byte) /\ NoCall.elements \in Seq(Seq(Byte))
<1>1. <<>> \in Seq(Byte) /\ <<>> \in Seq(Seq(Byte))
  OBVIOUS
<1> QED  BY <1>1 DEF NoCall

\* Finishing a call keeps the parts of the invariant that do not speak of the buffer.
LEMMA FailKeeps ==
  ASSUME IInv, pc # "idle",
         NEW error \in {"Argument", "BufferFull"}, Fail(error)
  PROVE  /\ depth' \in 0..MaxDepth /\ pending' \in Seq(0..IdMax) /\ hasSink' = hasSink
         /\ pc' = "idle" /\ call' = NoCall /\ written' \in Nat /\ todo' \in Seq(Byte)
         /\ result' \in {"Ok", "Argument", "BufferFull"}
         /\ HeldBackAreOpen' /\ IdleIsClean'
<1>1. /\ pending' \in Seq(0..IdMax)
      /\ Len(pending') <= Len(pending)
  <2>1. CASE pc = "commit"
    <3>1. pending \in Seq(0..IdMax) /\ written \in 0..Len(pending)
      BY <2>1 DEF IInv, TypeOK, HeldBackAreOpen
    <3>2. pending' = SubSeq(pending, written + 1, Len(pending))
      BY <2>1 DEF Fail, DropWritten
    <3>3. Len(pending) \in Nat /\ written \in Nat /\ written + 1 <= Len(pending) + 1
      BY <3>1, LenProperties
    <3>4. \A i \in (written + 1)..Len(pending) : pending[i] \in 0..IdMax
      <4>1. \A i \in 1..Len(pending) : pending[i] \in 0..IdMax
        BY <3>1, ElementOfSeq
      <4> QED  BY <3>3, <4>1
    <3>5. /\ SubSeq(pending, written + 1, Len(pending)) \in Seq(0..IdMax)
          /\ Len(SubSeq(pending, written + 1, Len(pending))) <= Len(pending)
      BY <3>3, <3>4, SubSeqProperties
    <3> QED  BY <3>2, <3>5
  <2>2. CASE pc # "commit"
    BY <2>2 DEF IInv, TypeOK, Fail
  <2> QED  BY <2>1, <2>2
<1> QED
  BY <1>1 DEF Fail, Finish, NoCall, IInv, TypeOK, HeldBackAreOpen, IdleIsClean

\* Pushing bytes advances the cursor by as many.
LEMMA PushKeeps ==
  ASSUME IInv, Push
  PROVE  IInv'
<1> DEFINE n == IF Len(todo) <= end - offset THEN Len(todo) ELSE end - offset
<1>1. /\ todo \in Seq(Byte) /\ mem \in Seq(Byte)
      /\ n \in 1..Len(todo) /\ n <= end - offset
  BY DEF IInv, TypeOK, Push
<1>2. /\ mem' = mem \o SubSeq(todo, 1, n)
      /\ todo' = SubSeq(todo, n + 1, Len(todo))
      /\ offset' = offset + n
  BY DEF Push
<1> HIDE DEF n
<1>3. SubSeq(todo, 1, n) \in Seq(Byte) /\ Len(SubSeq(todo, 1, n)) = n
  BY <1>1
<1>4. mem' \in Seq(Byte) /\ Len(mem') = Len(mem) + n
  BY <1>1, <1>2, <1>3, ConcatProperties
<1>5. todo' \in Seq(Byte)
  BY <1>1, <1>2
<1>6. TypeOK'
  BY <1>1, <1>2, <1>4, <1>5 DEF IInv, TypeOK, Push
<1>7. CursorInBuffer'
  <2>1. Len(mem) \in Nat /\ n \in Nat /\ end \in Nat /\ offset \in Nat /\ room \in Nat
    BY <1>1, LenProperties DEF IInv, TypeOK
  <2>2. UNCHANGED <<end, room, hasSink, dead>> /\ offset < end
    BY DEF Push
  <2> QED
    BY <1>1, <1>2, <1>4, <2>1, <2>2 DEF IInv, CursorInBuffer
<1>8. HeldBackAreOpen' /\ IdleIsClean'
  BY DEF IInv, TypeOK, HeldBackAreOpen, IdleIsClean, Push
<1> QED
  BY <1>6, <1>7, <1>8 DEF IInv

LEMMA DrainFailsKeeps ==
  ASSUME IInv, DrainFails
  PROVE  IInv'
<1>1. pc # "idle"
  BY DEF DrainFails, IInv, IdleIsClean
<1>2. PICK error \in {"Argument", "BufferFull"} : Fail(error)
  BY DEF DrainFails
<1>3. TypeOK'
  <2>1. UNCHANGED <<end, offset, room, mem, dead, out>>
    BY DEF DrainFails, bufferVars
  <2> QED  BY <1>1, <1>2, <2>1, FailKeeps, NoCallType DEF IInv, TypeOK
<1>4. CursorInBuffer'
  BY <1>1, <1>2, FailKeeps DEF DrainFails, bufferVars, IInv, CursorInBuffer
<1> QED
  BY <1>1, <1>2, <1>3, <1>4, FailKeeps DEF IInv

LEMMA DrainToSinkKeeps ==
  ASSUME IInv, NEW reply \in Replies, DrainToSink(reply)
  PROVE  IInv'
<1>1. pc # "idle" /\ HandOver(reply) /\ hasSink /\ ~dead
  BY DEF DrainToSink, IInv, IdleIsClean
<1>2. CASE Streamable(reply)
  <2>1. UNCHANGED <<depth, pending, hasSink, callVars, result>>
    BY <1>2 DEF DrainToSink
  <2>2. TypeOK' /\ CursorInBuffer'
    BY <1>1, <2>1, HandOverKeeps DEF IInv, TypeOK, callVars
  <2>3. HeldBackAreOpen' /\ IdleIsClean'
    BY <2>1 DEF IInv, HeldBackAreOpen, IdleIsClean, callVars
  <2> QED  BY <2>2, <2>3 DEF IInv
<1>3. CASE ~Streamable(reply)
  <2>1. Fail("Argument")
    BY <1>3 DEF DrainToSink
  <2>2. hasSink' = hasSink
    BY <2>1 DEF Fail
  <2>3. TypeOK' /\ CursorInBuffer'
    <3>1. /\ end' \in Nat /\ offset' \in Nat /\ room' \in Nat /\ dead' \in BOOLEAN
          /\ mem' \in Seq(Byte) /\ out' \in Seq(Byte)
          /\ CursorInBuffer'
      BY <1>1, <2>2, HandOverKeeps
    <3>2. hasSink' \in BOOLEAN
      BY <2>2 DEF IInv, TypeOK
    <3> QED  BY <1>1, <2>1, <3>1, <3>2, FailKeeps, NoCallType DEF TypeOK
  <2>4. HeldBackAreOpen' /\ IdleIsClean'
    BY <1>1, <2>1, FailKeeps
  <2> QED  BY <2>3, <2>4 DEF IInv
<1> QED  BY <1>2, <1>3

LEMMA HeaderWrittenKeeps ==
  ASSUME IInv, HeaderWritten
  PROVE  IInv'
<1>1. CursorInBuffer'
  BY DEF IInv, CursorInBuffer, HeaderWritten, bufferVars
<1>2. CASE written + 1 < Len(pending)
  <2>1. pending[written + 2] \in 0..IdMax
    <3>1. pending \in Seq(0..IdMax) /\ written \in Nat
      BY DEF IInv, TypeOK
    <3>2. written + 2 \in 1..Len(pending)
      BY <1>2, <3>1, LenProperties
    <3> QED  BY <3>1, <3>2, ElementOfSeq
  <2>2. SequenceHeader(pending[written + 2]) \in Seq(Byte)
    BY <2>1, SequenceHeaderType, FormatAssumption
  <2> QED
    BY <1>1, <1>2, <2>2 DEF HeaderWritten, bufferVars, IInv, TypeOK, HeldBackAreOpen, IdleIsClean
<1>3. CASE ~(written + 1 < Len(pending))
  BY <1>1, <1>3 DEF HeaderWritten, bufferVars, IInv, TypeOK, HeldBackAreOpen, IdleIsClean
<1> QED  BY <1>2, <1>3

LEMMA NextElementKeeps ==
  ASSUME IInv, NextElement
  PROVE  IInv'
<1>1. call.elements[written + 1] \in Seq(Byte)
  BY DEF NextElement, IInv, TypeOK
<1> QED
  BY <1>1 DEF NextElement, bufferVars, IInv, TypeOK, CursorInBuffer, HeldBackAreOpen, IdleIsClean

\* A closing call was begun with a sequence open, so one is open when it returns.
LEMMA ReturnKeeps ==
  ASSUME IInv, Return
  PROVE  IInv'
<1>1. /\ depth' \in 0..MaxDepth
      /\ pending = <<>>
  BY FormatAssumption DEF Return, IInv, TypeOK, HeldBackAreOpen
<1>2. UNCHANGED <<end, offset, room, mem, pending, hasSink, dead, out>>
  BY DEF Return, bufferVars
<1>3. /\ pc' = "idle" /\ call' = NoCall /\ written' = 0 /\ todo' = <<>> /\ result' = "Ok"
  BY DEF Return, Finish
<1>4. TypeOK'
  BY <1>1, <1>2, <1>3, NoCallType DEF IInv, TypeOK
<1>5. CursorInBuffer'
  BY <1>2 DEF IInv, CursorInBuffer
<1>6. HeldBackAreOpen'
  <2>1. NoCall.elements = <<>> /\ NoCall.kind = "none"
    BY DEF NoCall
  <2> QED  BY <1>1, <1>2, <1>3, <2>1 DEF HeldBackAreOpen
<1>7. IdleIsClean'
  BY <1>3 DEF IdleIsClean
<1> QED
  BY <1>4, <1>5, <1>6, <1>7 DEF IInv

-----------------------------------------------------------------------------
(***************************************************************************)
(* The calls.                                                              *)
(***************************************************************************)
\* A content writer refuses, or begins to write bytes.
LEMMA WritersKeep ==
  ASSUME IInv, NEW id \in Ids, WriteField(id)
  PROVE  IInv'
<1> USE CallerAssumption
<1>0. /\ id \in Nat
      /\ Unsigned \subseteq Nat /\ Signed \subseteq Int
      /\ <<>> \in Seq(Seq(Byte))
  BY DEF Unsigned, Signed
<1>a. ASSUME NEW body \in Seq(Byte), NEW elements \in Seq(Seq(Byte)), NEW asked,
             CanCall, Refuse \/ Begin("content", body, elements, asked, TRUE)
      PROVE  IInv'
  BY <1>a, RefuseKeeps, BeginKeeps
<1>1. ASSUME NEW v \in UnsignedValues, WriteUnsigned(id, v)
      PROVE  IInv'
  <2>1. FieldVarint(id, T_VARINT_UNSIGNED, v) \in Seq(Byte)
    BY <1>0, FieldVarintType DEF T_VARINT_UNSIGNED
  <2> QED
    BY <1>0, <1>1, <1>a, <2>1 DEF WriteUnsigned, Content, CanWrite
<1>2. ASSUME NEW v \in SignedValues, WriteSigned(id, v)
      PROVE  IInv'
  <2>1. FieldVarint(id, T_VARINT_SIGNED, ZigZag(v)) \in Seq(Byte)
    BY <1>0, FieldVarintType, ZigZagType DEF T_VARINT_SIGNED
  <2> QED
    BY <1>0, <1>2, <1>a, <2>1 DEF WriteSigned, Content, CanWrite
<1>3. ASSUME NEW data \in Payloads, NEW subtype \in FixlenTypes, WriteFixlen(id, data, subtype)
      PROVE  IInv'
  <2>1. data \in Seq(Byte) /\ Len(data) \in Nat
    BY LenProperties
  <2>2. Header(id, T_FIXLEN) \in Seq(Byte) /\ FixlenWord(Len(data), subtype) \in Seq(Byte)
    BY <1>0, <2>1, HeaderType, FixlenWordType DEF T_FIXLEN
  <2>3. Header(id, T_FIXLEN) \o FixlenWord(Len(data), subtype) \o data \in Seq(Byte)
    BY <2>1, <2>2, ConcatProperties
  <2> QED
    BY <1>0, <1>3, <1>a, <2>3 DEF WriteFixlen, Content, CanWrite
<1>4. ASSUME NEW vs \in UnsignedArrays, WriteArrayUnsigned(id, vs)
      PROVE  IInv'
  <2>1. vs \in Seq(Nat) /\ Len(vs) \in Nat
    BY <1>0, SeqMonotonic, LenProperties
  <2>2. /\ FieldVarint(id, T_VARINTARRAY_UNSIGNED, Len(vs)) \in Seq(Byte)
        /\ VarintRun(vs) \in Seq(Seq(Byte))
    BY <1>0, <2>1, FieldVarintType, VarintRunType DEF T_VARINTARRAY_UNSIGNED
  <2> QED
    BY <1>4, <1>a, <2>2 DEF WriteArrayUnsigned, Content, CanWrite
<1>5. ASSUME NEW vs \in SignedArrays, WriteArraySigned(id, vs)
      PROVE  IInv'
  <2> DEFINE us == [i \in DOMAIN vs |-> ZigZag(vs[i])]
  <2>1. vs \in Seq(Int) /\ Len(vs) \in Nat /\ DOMAIN vs = 1..Len(vs)
    BY <1>0, SeqMonotonic, LenProperties
  <2>2. us \in [1..Len(vs) -> Nat]
    BY <2>1, ElementOfSeq, ZigZagType
  <2>3. us \in Seq(Nat)
    BY <2>1, <2>2
  <2>4. /\ FieldVarint(id, T_VARINTARRAY_SIGNED, Len(vs)) \in Seq(Byte)
        /\ VarintRun(us) \in Seq(Seq(Byte))
    <3> HIDE DEF us
    <3> QED  BY <1>0, <2>1, <2>3, FieldVarintType, VarintRunType DEF T_VARINTARRAY_SIGNED
  <2> QED
    BY <1>5, <1>a, <2>4 DEF WriteArraySigned, Content, CanWrite
<1>6. ASSUME NEW data \in FloatArrays, NEW subtype \in {Fp32, Fp64},
             WriteArrayFloat(id, data, subtype)
      PROVE  IInv'
  <2> DEFINE width == FloatLen(subtype)
             count == Len(data) \div width
             body == FieldVarint(id, T_FIXLENARRAY, count) \o FixlenWord(width, subtype) \o data
  <2>1. /\ data \in Seq(Byte) /\ Len(data) \in Nat
        /\ width \in Nat \ {0} /\ subtype \in FixlenTypes
    BY FormatAssumption, LenProperties DEF FloatLen, FixlenTypes
  <2>2. count \in Nat
    <3> HIDE DEF width
    <3> QED  BY <2>1
  <2>3. /\ FieldVarint(id, T_FIXLENARRAY, count) \in Seq(Byte)
        /\ FixlenWord(width, subtype) \in Seq(Byte)
    <3> HIDE DEF width, count
    <3>1. FieldVarint(id, T_FIXLENARRAY, count) \in Seq(Byte)
      BY <1>0, <2>2, FieldVarintType DEF T_FIXLENARRAY
    <3>2. FixlenWord(width, subtype) \in Seq(Byte)
      BY <2>1, FixlenWordType
    <3> QED  BY <3>1, <3>2
  <2>4. body \in Seq(Byte)
    BY <2>1, <2>3, ConcatProperties
  <2> QED
    BY <1>0, <1>6, <1>a, <2>4 DEF WriteArrayFloat, Content, CanWrite
<1> QED
  BY <1>1, <1>2, <1>3, <1>4, <1>5, <1>6 DEF WriteField

LEMMA WriteSequenceBeginLazyKeeps ==
  ASSUME IInv, NEW id \in Ids, WriteSequenceBeginLazy(id)
  PROVE  IInv'
<1>1. CASE BeginRefused(id)
  BY <1>1, RefuseKeeps DEF WriteSequenceBeginLazy
<1>2. CASE ~BeginRefused(id)
  <2>1. /\ pending' = Append(pending, id) /\ depth' = depth + 1
        /\ result' = "Ok"
        /\ UNCHANGED <<bufferVars, hasSink, dead, out, callVars>>
        /\ pc = "idle"
    BY <1>2 DEF WriteSequenceBeginLazy, Answer, CanCall
  <2>2. id \in 0..IdMax /\ depth \in 0..MaxDepth /\ depth' \in 0..MaxDepth
    BY <1>2, <2>1, CallerAssumption, FormatAssumption DEF BeginRefused, IInv, TypeOK
  <2>3. /\ pending' \in Seq(0..IdMax)
        /\ Len(pending') = Len(pending) + 1 /\ Len(pending) \in Nat
    BY <2>1, <2>2 DEF IInv, TypeOK
  <2>4. TypeOK' /\ CursorInBuffer' /\ IdleIsClean'
    BY <2>1, <2>2, <2>3 DEF IInv, TypeOK, CursorInBuffer, IdleIsClean, bufferVars, callVars
  <2>5. HeldBackAreOpen'
    BY <2>1, <2>2, <2>3 DEF IInv, HeldBackAreOpen, IdleIsClean, callVars, NoCall
  <2> QED  BY <2>4, <2>5 DEF IInv
<1> QED  BY <1>1, <1>2

LEMMA WriteSequenceEndInv ==
  ASSUME IInv, WriteSequenceEnd
  PROVE  IInv'
<1>1. CASE depth = 0
  BY <1>1, RefuseKeeps DEF WriteSequenceEnd
<1>2. CASE depth # 0 /\ pending # <<>>
  <2>1. /\ pending' = Popped /\ depth' = depth - 1
        /\ result' = "Ok"
        /\ UNCHANGED <<bufferVars, hasSink, dead, out, callVars>>
        /\ pc = "idle"
    BY <1>2 DEF WriteSequenceEnd, Answer, CanWrite, CanCall
  <2>2. pending \in Seq(0..IdMax) /\ Len(pending) \in Nat \ {0}
    BY <1>2, EmptySeq DEF IInv, TypeOK
  <2>3. \A i \in 1..(Len(pending) - 1) : pending[i] \in 0..IdMax
    <3>1. \A i \in 1..Len(pending) : pending[i] \in 0..IdMax
      BY <2>2, ElementOfSeq
    <3> QED  BY <2>2, <3>1
  <2>4. pending' \in Seq(0..IdMax) /\ Len(pending') = Len(pending) - 1
    <3> DEFINE last == Len(pending) - 1
    <3>1. last \in Nat
      BY <2>2
    <3>2. pending' = SubSeq(pending, 1, last) /\ \A i \in 1..last : pending[i] \in 0..IdMax
      BY <2>1, <2>3 DEF Popped
    <3> HIDE DEF last
    <3>3. pending' \in Seq(0..IdMax) /\ Len(pending') = last
      BY <3>1, <3>2, SubSeqProperties
    <3> QED  BY <3>3 DEF last
  <2>5. depth' \in 0..MaxDepth /\ depth \in Nat
    <3>1. depth \in 0..MaxDepth
      BY DEF IInv, TypeOK
    <3> QED  BY <1>2, <2>1, <3>1, FormatAssumption
  <2>6. TypeOK' /\ CursorInBuffer' /\ IdleIsClean'
    BY <2>1, <2>4, <2>5 DEF IInv, TypeOK, CursorInBuffer, IdleIsClean, bufferVars, callVars
  <2>7. HeldBackAreOpen'
    BY <2>1, <2>2, <2>4, <2>5 DEF IInv, HeldBackAreOpen, IdleIsClean, callVars, NoCall
  <2> QED  BY <2>6, <2>7 DEF IInv
<1>3. CASE depth # 0 /\ pending = <<>>
  <2>1. CanCall /\ Begin("end", EndMarker, <<>>, <<>>, FALSE)
    BY <1>3 DEF WriteSequenceEnd, CanWrite
  <2>2. depth > 0 /\ <<>> \in Seq(Seq(Byte))
    BY <1>3 DEF IInv, TypeOK
  <2> QED
    BY <1>3, <2>1, <2>2, BeginKeeps, EndMarkerType
<1> QED  BY <1>1, <1>2, <1>3

LEMMA WriteSequenceEndKeepInv ==
  ASSUME IInv, WriteSequenceEndKeep
  PROVE  IInv'
<1>1. CASE depth = 0
  BY <1>1, RefuseKeeps DEF WriteSequenceEndKeep
<1>2. CASE depth # 0
  <2>1. CanCall /\ Begin("keep", EndMarker, <<>>, <<>>, TRUE)
    BY <1>2 DEF WriteSequenceEndKeep, CanWrite
  <2>2. depth > 0 /\ <<>> \in Seq(Seq(Byte))
    BY <1>2 DEF IInv, TypeOK
  <2> QED
    BY <2>1, <2>2, BeginKeeps, EndMarkerType
<1> QED  BY <1>1, <1>2

LEMMA FlushKeeps ==
  ASSUME IInv, NEW reply \in Replies, Flush(reply)
  PROVE  IInv'
<1>1. CASE dead
  BY <1>1, RefuseKeeps DEF Flush, FlushRefused
<1>2. CASE ~dead
  <2>1. /\ UNCHANGED <<depth, pending, hasSink, callVars>>
        /\ result' \in {"Ok", "Argument"}
    BY <1>2 DEF Flush, FlushRefused, Answer
  <2>2. (HandOver(reply) /\ hasSink) \/ UNCHANGED <<bufferVars, dead, out>>
    BY <1>2 DEF Flush, FlushRefused
  <2>3. TypeOK' /\ CursorInBuffer'
    <3>1. CASE HandOver(reply) /\ hasSink
      BY <1>2, <2>1, <3>1, HandOverKeeps DEF IInv, TypeOK, callVars
    <3>2. CASE UNCHANGED <<bufferVars, dead, out>>
      BY <2>1, <3>2 DEF IInv, TypeOK, CursorInBuffer, bufferVars, callVars
    <3> QED  BY <2>2, <3>1, <3>2
  <2>4. HeldBackAreOpen' /\ IdleIsClean'
    BY <2>1 DEF IInv, HeldBackAreOpen, IdleIsClean, callVars
  <2> QED  BY <2>3, <2>4 DEF IInv
<1> QED  BY <1>1, <1>2

LEMMA BufferSetKeeps ==
  ASSUME IInv, NEW b \in Buffers, BufferSet(b)
  PROVE  IInv'
<1>1. CASE SetRefused(b)
  BY <1>1, RefuseKeeps DEF BufferSet
<1>2. CASE ~SetRefused(b)
  <2>1. /\ UNCHANGED <<depth, pending, hasSink, dead, callVars>>
        /\ out' = out \o Handed /\ Install(b) /\ result' = "Ok"
    BY <1>2 DEF BufferSet, Answer
  <2>2. b.len \in Nat /\ b.offset \in Nat
    BY CallerAssumption
  <2>3. b.offset <= b.len /\ ~dead /\ (hasSink => Streamable(b))
    BY <1>2 DEF SetRefused, InRange
  <2>4. out' \in Seq(Byte)
    BY <2>1, HandedIsMem DEF IInv, TypeOK
  <2>5. TypeOK'
    BY <2>1, <2>2, <2>4 DEF Install, IInv, TypeOK, callVars
  <2>6. CursorInBuffer'
    BY <2>1, <2>2, <2>3 DEF Install, CursorInBuffer, Streamable
  <2>7. HeldBackAreOpen' /\ IdleIsClean'
    BY <2>1 DEF IInv, HeldBackAreOpen, IdleIsClean, callVars
  <2> QED  BY <2>5, <2>6, <2>7 DEF IInv
<1> QED  BY <1>1, <1>2

-----------------------------------------------------------------------------
(***************************************************************************)
(* The invariants.                                                         *)
(***************************************************************************)
LEMMA InitInductive == Init => IInv
<1> SUFFICES ASSUME Init PROVE IInv
  OBVIOUS
<1>1. PICK b \in Buffers :
        /\ hasSink \in BOOLEAN
        /\ IF hasSink THEN Streamable(b) ELSE InRange(b)
        /\ end = b.len /\ offset = b.offset /\ room = b.offset
  BY DEF Init
<1>2. b.len \in Nat /\ b.offset \in Nat /\ MinOutputBuffer \in Nat
  BY CallerAssumption, BufferAssumption
<1>3. /\ mem = <<>> /\ out = <<>> /\ depth = 0 /\ pending = <<>> /\ dead = FALSE
      /\ pc = "idle" /\ call = NoCall /\ written = 0 /\ todo = <<>> /\ result = "Ok"
  BY DEF Init
<1>4. TypeOK
  <2>1. <<>> \in Seq(Byte) /\ <<>> \in Seq(0..IdMax) /\ 0 \in 0..MaxDepth
    BY FormatAssumption
  <2> QED  BY <1>1, <1>2, <1>3, <2>1, NoCallType DEF TypeOK
<1>5. CursorInBuffer
  BY <1>1, <1>2, <1>3 DEF CursorInBuffer, Streamable, InRange
<1>6. HeldBackAreOpen /\ IdleIsClean
  BY <1>3 DEF HeldBackAreOpen, IdleIsClean, NoCall
<1> QED
  BY <1>4, <1>5, <1>6 DEF IInv

LEMMA NextInductive == IInv /\ [Next]_vars => IInv'
<1> SUFFICES ASSUME IInv, [Next]_vars PROVE IInv'
  OBVIOUS
<1>1. CASE Calls
  <2>1. ASSUME NEW id \in Ids, WriteField(id)
        PROVE  IInv'
    BY <2>1, WritersKeep
  <2>2. ASSUME NEW id \in Ids, WriteSequenceBeginLazy(id) PROVE IInv'
    BY <2>2, WriteSequenceBeginLazyKeeps
  <2>3. CASE WriteSequenceEnd
    BY <2>3, WriteSequenceEndInv
  <2>4. CASE WriteSequenceEndKeep
    BY <2>4, WriteSequenceEndKeepInv
  <2>5. ASSUME NEW reply \in Replies, Flush(reply) PROVE IInv'
    BY <2>5, FlushKeeps
  <2>6. ASSUME NEW b \in Buffers, BufferSet(b) PROVE IInv'
    BY <2>6, BufferSetKeeps
  <2> QED  BY <1>1, <2>1, <2>2, <2>3, <2>4, <2>5, <2>6 DEF Calls
<1>2. CASE Steps
  BY <1>2, PushKeeps, DrainFailsKeeps, DrainToSinkKeeps, HeaderWrittenKeeps,
     NextElementKeeps, ReturnKeeps DEF Steps
<1>3. CASE UNCHANGED vars
  BY <1>3 DEF vars, IInv, TypeOK, CursorInBuffer, HeldBackAreOpen, IdleIsClean
<1> QED
  BY <1>1, <1>2, <1>3 DEF Next

LEMMA Invariant == Spec => []IInv
BY InitInductive, NextInductive, PTL DEF Spec

\* The state is well typed; the depth and the held-back run never pass MAX_DEPTH.
THEOREM TypeCorrect == Spec => []TypeOK
<1>1. IInv => TypeOK
  BY DEF IInv
<1> QED  BY <1>1, Invariant, PTL

\* The cursor is inside the buffer, behind the reserved room and what was written;
\* a stream that can drain has room for a byte in every buffer, a dead one none.
THEOREM CursorCorrect == Spec => []CursorInBuffer
<1>1. IInv => CursorInBuffer
  BY DEF IInv
<1> QED  BY <1>1, Invariant, PTL

\* The held-back sequences are open ones, so the run's array is never passed, and
\* only a body that has none before it is written.
THEOREM HeldBackCorrect == Spec => []HeldBackAreOpen
<1>1. IInv => HeldBackAreOpen
  BY DEF IInv
<1> QED  BY <1>1, Invariant, PTL

-----------------------------------------------------------------------------
(***************************************************************************)
(* What a step may never do.                                               *)
(***************************************************************************)
\* A step that accepts bytes accepts them behind those that are there, and no other
\* step touches the wire: a handover and a buffer-set only move bytes.
LEMMA WireGrows ==
  ASSUME IInv, [Next]_vars
  PROVE  Wire' = Wire \/ \E s \in Seq(Byte) : Wire' = Wire \o s
<1>1. mem \in Seq(Byte) /\ out \in Seq(Byte)
  BY DEF IInv, TypeOK
<1>2. ASSUME out' = out \o Handed, mem' = <<>>
      PROVE  Wire' = Wire
  <2>1. out \o mem \in Seq(Byte)
    BY <1>1, ConcatProperties
  <2> QED  BY <1>2, <2>1, HandedIsMem, ConcatEmptySeq DEF Wire
<1>3. ASSUME UNCHANGED <<mem, out>>
      PROVE  Wire' = Wire
  BY <1>3 DEF Wire
<1>4. CASE Calls
  <2>1. \/ UNCHANGED <<mem, out>>
        \/ out' = out \o Handed /\ mem' = <<>>
    <3>1. ASSUME NEW id \in Ids, WriteSequenceBeginLazy(id) PROVE UNCHANGED <<mem, out>>
      BY <3>1 DEF WriteSequenceBeginLazy, Refuse, bufferVars
    <3>2. CASE WriteSequenceEnd \/ WriteSequenceEndKeep
      BY <3>2 DEF WriteSequenceEnd, WriteSequenceEndKeep, Refuse, Begin, bufferVars
    <3>3. ASSUME NEW reply \in Replies, Flush(reply)
          PROVE  UNCHANGED <<mem, out>> \/ (out' = out \o Handed /\ mem' = <<>>)
      BY <3>3 DEF Flush, FlushRefused, Refuse, HandOver, Install, bufferVars
    <3>4. ASSUME NEW b \in Buffers, BufferSet(b)
          PROVE  UNCHANGED <<mem, out>> \/ (out' = out \o Handed /\ mem' = <<>>)
      BY <3>4 DEF BufferSet, Refuse, Install, bufferVars
    <3>5. ASSUME NEW id \in Ids, WriteField(id)
          PROVE  UNCHANGED <<mem, out>>
      BY <3>5 DEF WriteField, WriteUnsigned, WriteSigned, WriteFixlen, WriteArrayUnsigned,
                  WriteArraySigned, WriteArrayFloat, Content, Refuse, Begin, bufferVars
    <3> QED  BY <1>4, <3>1, <3>2, <3>3, <3>4, <3>5 DEF Calls
  <2> QED  BY <1>2, <1>3, <2>1
<1>5. CASE Push
  <2> DEFINE n == IF Len(todo) <= end - offset THEN Len(todo) ELSE end - offset
             s == SubSeq(todo, 1, n)
  <2>1. todo \in Seq(Byte) /\ n \in 1..Len(todo)
    BY <1>5 DEF Push, IInv, TypeOK
  <2>2. mem' = mem \o s /\ out' = out
    BY <1>5 DEF Push
  <2> HIDE DEF n
  <2>3. s \in Seq(Byte)
    BY <2>1
  <2>4. Wire' = Wire \o s
    <3> HIDE DEF s
    <3> QED  BY <1>1, <2>2, <2>3, ConcatAssociative DEF Wire
  <2> QED  BY <2>3, <2>4
<1>6. ASSUME NEW reply \in Replies, DrainToSink(reply)
      PROVE  Wire' = Wire
  BY <1>2, <1>6 DEF DrainToSink, HandOver, Install
<1>7. CASE DrainFails \/ HeaderWritten \/ NextElement \/ Return
  BY <1>3, <1>7 DEF DrainFails, HeaderWritten, NextElement, Return, bufferVars
<1>8. CASE UNCHANGED vars
  BY <1>3, <1>8 DEF vars
<1> QED
  BY <1>4, <1>5, <1>6, <1>7, <1>8 DEF Next, Steps

\* No step loses, reorders or rewrites a byte that was accepted.
THEOREM NoByteLost == Spec => NothingLost
<1>1. ASSUME IInv, [Next]_vars
      PROVE  IsPrefix(Wire, Wire')
  <2>1. Wire \in Seq(Byte)
    BY <1>1, ConcatProperties DEF Wire, IInv, TypeOK
  <2>2. CASE Wire' = Wire
    BY <2>1, <2>2 DEF IsPrefix
  <2>3. ASSUME NEW s \in Seq(Byte), Wire' = Wire \o s
        PROVE  IsPrefix(Wire, Wire')
    <3> DEFINE w == Wire
    <3>1. w \in Seq(Byte) /\ Len(w) \in Nat
      BY <2>1, LenProperties
    <3> HIDE DEF w
    <3>2. Len(w) <= Len(w \o s) /\ SubSeq(w \o s, 1, Len(w)) = SubSeq(w, 1, Len(w))
      BY <3>1, ConcatProperties, LenProperties
    <3> QED  BY <2>3, <3>2 DEF IsPrefix, w
  <2> QED  BY <1>1, <2>2, <2>3, WireGrows
<1>2. IInv /\ [Next]_vars => [IsPrefix(Wire, Wire')]_vars
  BY <1>1
<1> QED  BY <1>2, Invariant, PTL DEF Spec, NothingLost

\* Once a replacement was refused the stream is dead for good, and no byte is
\* accepted or handed over again.
THEOREM DeadStaysDead == Spec => DeadIsFinal
<1>1. ASSUME IInv, [Next]_vars, dead
      PROVE  dead' /\ out' = out /\ mem' = mem
  <2>1. ~(offset < end)
    BY <1>1 DEF IInv, TypeOK, CursorInBuffer
  <2>2. CASE Steps
    BY <1>1, <2>1, <2>2 DEF Steps, Push, DrainFails, DrainToSink, HeaderWritten, NextElement,
                            Return, bufferVars
  <2>3. CASE Calls
    <3> SUFFICES UNCHANGED <<mem, out, dead>>
      BY <1>1
    <3>1. ASSUME NEW id \in Ids, WriteField(id)
          PROVE  UNCHANGED <<mem, out, dead>>
      BY <3>1 DEF WriteField, WriteUnsigned, WriteSigned, WriteFixlen, WriteArrayUnsigned,
                  WriteArraySigned, WriteArrayFloat, Content, Refuse, Begin, bufferVars
    <3>2. ASSUME NEW id \in Ids, WriteSequenceBeginLazy(id) PROVE UNCHANGED <<mem, out, dead>>
      BY <3>2 DEF WriteSequenceBeginLazy, Refuse, bufferVars
    <3>3. CASE WriteSequenceEnd \/ WriteSequenceEndKeep
      BY <3>3 DEF WriteSequenceEnd, WriteSequenceEndKeep, Refuse, Begin, bufferVars
    <3>4. ASSUME NEW reply \in Replies, Flush(reply) PROVE UNCHANGED <<mem, out, dead>>
      BY <1>1, <3>4 DEF Flush, FlushRefused, Refuse, bufferVars
    <3>5. ASSUME NEW b \in Buffers, BufferSet(b) PROVE UNCHANGED <<mem, out, dead>>
      BY <1>1, <3>5 DEF BufferSet, SetRefused, Refuse, bufferVars
    <3> QED  BY <1>1, <2>3, <3>1, <3>2, <3>3, <3>4, <3>5 DEF Calls
  <2>4. CASE UNCHANGED vars
    BY <1>1, <2>4 DEF vars
  <2> QED  BY <1>1, <2>2, <2>3, <2>4 DEF Next
<1>2. IInv /\ [Next]_vars => [dead => dead' /\ out' = out /\ mem' = mem]_vars
  BY <1>1
<1> QED  BY <1>2, Invariant, PTL DEF Spec, DeadIsFinal

\* A call made on a dead stream has bytes to write until it fails: every header, and
\* so every body, is at least a byte.
DeadHasMore == dead /\ pc # "idle" => todo # <<>>

\* A header is never empty.
LEMMA HeaderHasByte ==
  ASSUME NEW id \in Nat, NEW wireType \in 0..7
  PROVE  Header(id, wireType) # <<>>
<1> DEFINE word == 8 * id + wireType
<1>1. word \in Nat
  OBVIOUS
<1> HIDE DEF word
<1>2. VarintLen(word) \in Nat \ {0}
  BY <1>1, VarintLenBounds
<1>3. 1 \in DOMAIN Varint(word)
  BY <1>2 DEF Varint
<1>4. Varint(word) # <<>>
  BY <1>3
<1> QED  BY <1>4 DEF Header, word

\* A call that begins has a byte to put out, of its own or of a held-back header.
LEMMA BeginHasMore ==
  ASSUME IInv, NEW kind, NEW commits, NEW elements, NEW asked,
         NEW body \in Seq(Byte), body # <<>>,
         Begin(kind, body, elements, asked, commits)
  PROVE  pc' # "idle" /\ todo' # <<>>
<1>1. CASE commits /\ pending # <<>>
  <2>1. pending \in Seq(0..IdMax)
    BY DEF IInv, TypeOK
  <2>2. Head(pending) \in 0..IdMax
    BY <1>1, <2>1, HeadTailProperties
  <2>3. Head(pending) \in Nat
    BY <2>2, FormatAssumption
  <2>4. SequenceHeader(Head(pending)) # <<>>
    BY <2>3, HeaderHasByte DEF SequenceHeader, T_SEQUENCE_START
  <2> QED  BY <1>1, <2>4 DEF Begin
<1>2. CASE ~(commits /\ pending # <<>>)
  BY <1>2 DEF Begin
<1> QED  BY <1>1, <1>2

\* What begins with a byte is not empty, whatever follows it.
LEMMA FrontHasByte ==
  ASSUME NEW s \in Seq(Byte), NEW t \in Seq(Byte), s # <<>>
  PROVE  s \o t \in Seq(Byte) /\ s \o t # <<>>
<1> DEFINE both == s \o t
<1>1. both \in Seq(Byte) /\ Len(both) = Len(s) + Len(t)
  BY ConcatProperties
<1>2. Len(s) \in Nat \ {0} /\ Len(t) \in Nat
  BY EmptySeq, LenProperties
<1> HIDE DEF both
<1>3. both # <<>>
  BY <1>1, <1>2, EmptySeq
<1> QED  BY <1>1, <1>3 DEF both

\* A writer refuses, or has bytes to write.
LEMMA WriterHasMore ==
  ASSUME IInv, NEW id \in Ids, WriteField(id)
  PROVE  Refuse \/ (pc' # "idle" /\ todo' # <<>>)
<1> USE CallerAssumption
<1>0. id \in Nat /\ Unsigned \subseteq Nat /\ Signed \subseteq Int
  BY DEF Unsigned, Signed
<1>a. ASSUME NEW body \in Seq(Byte), body # <<>>, NEW elements, NEW asked,
             Refuse \/ Begin("content", body, elements, asked, TRUE)
      PROVE  Refuse \/ (pc' # "idle" /\ todo' # <<>>)
  BY <1>a, BeginHasMore
<1>h. ASSUME NEW wireType \in 0..7
      PROVE  Header(id, wireType) \in Seq(Byte) /\ Header(id, wireType) # <<>>
  BY <1>0, HeaderType, HeaderHasByte
<1>f. ASSUME NEW wireType \in 0..7, NEW v \in Nat, NEW elements, NEW asked,
             Refuse \/ Begin("content", FieldVarint(id, wireType, v), elements, asked, TRUE)
      PROVE  Refuse \/ (pc' # "idle" /\ todo' # <<>>)
  <2>1. Varint(v) \in Seq(Byte)
    BY VarintType
  <2>2. FieldVarint(id, wireType, v) \in Seq(Byte) /\ FieldVarint(id, wireType, v) # <<>>
    BY <1>h, <2>1, FrontHasByte DEF FieldVarint
  <2> QED  BY <1>a, <1>f, <2>2
<1>1. ASSUME NEW v \in UnsignedValues, WriteUnsigned(id, v)
      PROVE  Refuse \/ (pc' # "idle" /\ todo' # <<>>)
  <2>1. v \in Nat /\ T_VARINT_UNSIGNED \in 0..7
    BY <1>0 DEF T_VARINT_UNSIGNED
  <2>2. Refuse \/ Begin("content", FieldVarint(id, T_VARINT_UNSIGNED, v), <<>>,
                        Scalar(id, KindUnsigned, v), TRUE)
    BY <1>1 DEF WriteUnsigned, Content
  <2> QED  BY <1>f, <2>1, <2>2
<1>2. ASSUME NEW v \in SignedValues, WriteSigned(id, v)
      PROVE  Refuse \/ (pc' # "idle" /\ todo' # <<>>)
  <2>1. ZigZag(v) \in Nat /\ T_VARINT_SIGNED \in 0..7
    BY <1>0, ZigZagType DEF T_VARINT_SIGNED
  <2>2. Refuse \/ Begin("content", FieldVarint(id, T_VARINT_SIGNED, ZigZag(v)), <<>>,
                        Scalar(id, KindSigned, v), TRUE)
    BY <1>2 DEF WriteSigned, Content
  <2> QED  BY <1>f, <2>1, <2>2
<1>3. ASSUME NEW data \in Payloads, NEW subtype \in FixlenTypes, WriteFixlen(id, data, subtype)
      PROVE  Refuse \/ (pc' # "idle" /\ todo' # <<>>)
  <2> DEFINE head == Header(id, T_FIXLEN)
             word == FixlenWord(Len(data), subtype)
             asked == Fixlen(id, subtype, data)
  <2>1. data \in Seq(Byte) /\ Len(data) \in Nat
    BY LenProperties
  <2>2. head \in Seq(Byte) /\ head # <<>> /\ word \in Seq(Byte)
    BY <1>h, <2>1, FixlenWordType DEF T_FIXLEN
  <2>3. Refuse \/ Begin("content", head \o word \o data, <<>>, asked, TRUE)
    BY <1>3 DEF WriteFixlen, Content
  <2> HIDE DEF head, word, asked
  <2>4. head \o word \in Seq(Byte) /\ head \o word # <<>>
    BY <2>2, FrontHasByte
  <2>5. head \o word \o data \in Seq(Byte) /\ head \o word \o data # <<>>
    BY <2>1, <2>4, FrontHasByte
  <2> QED  BY <1>a, <2>3, <2>5
<1>4. ASSUME NEW vs \in UnsignedArrays, WriteArrayUnsigned(id, vs)
      PROVE  Refuse \/ (pc' # "idle" /\ todo' # <<>>)
  <2>1. Len(vs) \in Nat /\ T_VARINTARRAY_UNSIGNED \in 0..7
    BY LenProperties DEF T_VARINTARRAY_UNSIGNED
  <2>2. Refuse \/ Begin("content", FieldVarint(id, T_VARINTARRAY_UNSIGNED, Len(vs)),
                        VarintRun(vs), Array(id, KindUnsigned, vs), TRUE)
    BY <1>4 DEF WriteArrayUnsigned, Content
  <2> QED  BY <1>f, <2>1, <2>2
<1>5. ASSUME NEW vs \in SignedArrays, WriteArraySigned(id, vs)
      PROVE  Refuse \/ (pc' # "idle" /\ todo' # <<>>)
  <2>1. Len(vs) \in Nat /\ T_VARINTARRAY_SIGNED \in 0..7
    BY LenProperties DEF T_VARINTARRAY_SIGNED
  <2>2. Refuse \/ Begin("content", FieldVarint(id, T_VARINTARRAY_SIGNED, Len(vs)),
                        VarintRun([i \in DOMAIN vs |-> ZigZag(vs[i])]),
                        Array(id, KindSigned, vs), TRUE)
    BY <1>5 DEF WriteArraySigned, Content
  <2> QED  BY <1>f, <2>1, <2>2
<1>6. ASSUME NEW data \in FloatArrays, NEW subtype \in {Fp32, Fp64},
             WriteArrayFloat(id, data, subtype)
      PROVE  Refuse \/ (pc' # "idle" /\ todo' # <<>>)
  <2> DEFINE width == FloatLen(subtype)
             count == Len(data) \div width
             head == Header(id, T_FIXLENARRAY)
             word == FixlenWord(width, subtype)
             asked == Array(id, IF subtype = Fp32 THEN KindFp32 ELSE KindFp64, data)
  <2>1. /\ data \in Seq(Byte) /\ Len(data) \in Nat
        /\ width \in Nat \ {0} /\ subtype \in FixlenTypes
    BY FormatAssumption, LenProperties DEF FloatLen, FixlenTypes
  <2>2. count \in Nat
    <3> HIDE DEF width
    <3> QED  BY <2>1
  <2>3. word \in Seq(Byte) /\ head \in Seq(Byte) /\ head # <<>>
    <3> HIDE DEF width, count
    <3>1. word \in Seq(Byte)
      BY <2>1, FixlenWordType
    <3> QED  BY <1>h, <3>1 DEF T_FIXLENARRAY
  <2>4. Varint(count) \in Seq(Byte)
    <3> HIDE DEF count
    <3> QED  BY <2>2, VarintType
  <2> DEFINE number == Varint(count)
  <2>5. Refuse \/ Begin("content", head \o number \o word \o data, <<>>, asked, TRUE)
    BY <1>6 DEF WriteArrayFloat, Content, FieldVarint
  <2> HIDE DEF head, word, asked, number
  <2>6. head \o number \in Seq(Byte) /\ head \o number # <<>>
    <3>1. number \in Seq(Byte)
      BY <2>4 DEF number
    <3> QED  BY <2>3, <3>1, FrontHasByte
  <2>7. head \o number \o word \in Seq(Byte) /\ head \o number \o word # <<>>
    BY <2>3, <2>6, FrontHasByte
  <2>8. head \o number \o word \o data \in Seq(Byte) /\ head \o number \o word \o data # <<>>
    BY <2>1, <2>7, FrontHasByte
  <2> QED  BY <1>a, <2>5, <2>8
<1> QED
  BY <1>1, <1>2, <1>3, <1>4, <1>5, <1>6 DEF WriteField

\* What a step that ends a call on a stream that is dead, or dies in it, answers.
LEMMA DeadStep ==
  ASSUME IInv, DeadHasMore, Next, dead'
  PROVE  IF pc' = "idle" THEN result' = "Argument" \/ HoldsBackOnly ELSE todo' # <<>>
<1>1. CASE Calls
  <2>1. Refuse => pc' = "idle" /\ result' = "Argument"
    BY <1>1 DEF Refuse, Answer, callVars, Calls, WriteField, WriteUnsigned, WriteSigned,
           WriteFixlen, WriteArrayUnsigned, WriteArraySigned, WriteArrayFloat, Content,
           WriteSequenceBeginLazy, WriteSequenceEnd, WriteSequenceEndKeep, Flush, BufferSet,
           CanWrite, CanCall
  <2>2. EndMarker \in Seq(Byte) /\ EndMarker # <<>>
    <3>1. VarintLen(T_SEQUENCE_END) \in Nat \ {0}
      BY VarintLenBounds DEF T_SEQUENCE_END
    <3>2. 1 \in DOMAIN EndMarker
      BY <3>1 DEF EndMarker, Varint
    <3> QED  BY <3>2, EndMarkerType
  <2>3. ASSUME NEW id \in Ids, WriteField(id)
        PROVE  Refuse \/ (pc' # "idle" /\ todo' # <<>>)
    BY <2>3, WriterHasMore
  <2>4. ASSUME NEW id \in Ids, WriteSequenceBeginLazy(id)
        PROVE  Refuse \/ (pc' = "idle" /\ HoldsBackOnly)
    <3>1. depth \in Int /\ pending \in Seq(0..IdMax)
      BY FormatAssumption DEF IInv, TypeOK
    <3>2. CASE ~BeginRefused(id)
      <4>1. /\ pc = "idle" /\ pc' = "idle"
            /\ depth' = depth + 1 /\ pending' = Append(pending, id)
        BY <2>4, <3>2 DEF WriteSequenceBeginLazy, CanCall, Answer, callVars
      <4>2. Len(pending') = Len(pending) + 1 /\ Len(pending) \in Nat
        BY <3>1, <4>1
      <4> QED  BY <3>1, <4>1, <4>2 DEF HoldsBackOnly
    <3> QED  BY <2>4, <3>2 DEF WriteSequenceBeginLazy
  <2>5. ASSUME WriteSequenceEnd
        PROVE  \/ Refuse \/ (pc' = "idle" /\ HoldsBackOnly)
               \/ (pc' # "idle" /\ todo' # <<>>)
    <3>1. depth \in Int /\ pending \in Seq(0..IdMax) /\ Len(pending) \in Nat
      BY FormatAssumption DEF IInv, TypeOK
    <3>2. CASE depth # 0 /\ pending # <<>>
      <4>1. /\ pc = "idle" /\ pc' = "idle"
            /\ depth' = depth - 1 /\ pending' = Popped
        BY <2>5, <3>2 DEF WriteSequenceEnd, CanWrite, CanCall, Answer, callVars
      <4>2. Len(pending) \in Nat \ {0}
        BY <3>1, <3>2, EmptySeq
      <4>3. Len(pending') = Len(pending) - 1
        <5> DEFINE last == Len(pending) - 1
        <5>1. last \in Nat /\ \A i \in 1..last : pending[i] \in 0..IdMax
          <6>1. \A i \in 1..Len(pending) : pending[i] \in 0..IdMax
            BY <3>1, ElementOfSeq
          <6> QED  BY <4>2, <6>1
        <5>2. pending' = SubSeq(pending, 1, last)
          BY <4>1 DEF Popped
        <5> HIDE DEF last
        <5>3. Len(pending') = last
          BY <5>1, <5>2, SubSeqProperties
        <5> QED  BY <5>3 DEF last
      <4> QED  BY <3>1, <4>1, <4>2, <4>3 DEF HoldsBackOnly
    <3>3. CASE depth # 0 /\ pending = <<>>
      BY <2>2, <2>5, <3>3, BeginHasMore DEF WriteSequenceEnd
    <3> QED  BY <2>5, <3>2, <3>3 DEF WriteSequenceEnd
  <2>6. ASSUME WriteSequenceEndKeep
        PROVE  Refuse \/ (pc' # "idle" /\ todo' # <<>>)
    BY <2>2, <2>6, BeginHasMore DEF WriteSequenceEndKeep
  <2>7. ASSUME NEW reply \in Replies, Flush(reply)
        PROVE  Refuse \/ (pc' = "idle" /\ result' = "Argument")
    BY <2>7 DEF Flush, FlushRefused, CanCall, HandOver, Answer, callVars
  <2>8. ASSUME NEW b \in Buffers, BufferSet(b)
        PROVE  Refuse
    BY <2>8 DEF BufferSet, SetRefused
  <2> QED
    BY <1>1, <2>1, <2>3, <2>4, <2>5, <2>6, <2>7, <2>8 DEF Calls
<1>2. CASE Steps
  <2>1. pc # "idle"
    BY <1>2 DEF IInv, IdleIsClean, NoCall, HeldBackAreOpen, Steps, Push, DrainFails,
           DrainToSink, HeaderWritten, NextElement, Return
  <2>2. CASE dead
    <3>1. todo # <<>> /\ ~(offset < end)
      BY <2>1, <2>2 DEF DeadHasMore, IInv, TypeOK, CursorInBuffer
    <3>2. DrainFails
      BY <1>2, <2>2, <3>1 DEF Steps, Push, DrainToSink, HeaderWritten, NextElement, Return
    <3> QED  BY <2>2, <3>2 DEF DrainFails, Fail, Finish
  <2>3. CASE ~dead
    <3>1. PICK reply \in Replies : DrainToSink(reply) /\ ~Streamable(reply)
      BY <1>2, <2>3 DEF Steps, Push, DrainFails, HeaderWritten, NextElement, Return,
             bufferVars, DrainToSink, HandOver
    <3> QED  BY <3>1 DEF DrainToSink, Fail, Finish
  <2> QED  BY <2>2, <2>3
<1> QED  BY <1>1, <1>2 DEF Next

\* The call that kills the stream and every later one that would put a byte on the wire
\* report the error.
THEOREM DeadAnswers == Spec => DeadIsReported
<1>1. Init => DeadHasMore
  BY DEF Init, DeadHasMore
<1>2. IInv /\ DeadHasMore /\ [Next]_vars
        => DeadHasMore' /\ [dead' /\ pc' = "idle" => result' = "Argument" \/ HoldsBackOnly]_vars
  <2> SUFFICES ASSUME IInv, DeadHasMore, [Next]_vars
               PROVE  /\ DeadHasMore'
                      /\ [dead' /\ pc' = "idle" => result' = "Argument" \/ HoldsBackOnly]_vars
    OBVIOUS
  <2>1. CASE Next /\ dead'
    BY <2>1, DeadStep DEF DeadHasMore
  <2>2. CASE ~dead'
    BY <2>2 DEF DeadHasMore
  <2>3. CASE UNCHANGED vars
    BY <2>3 DEF DeadHasMore, vars
  <2> QED  BY <2>1, <2>2, <2>3
<1> QED  BY <1>1, <1>2, Invariant, PTL DEF Spec, DeadIsReported

-----------------------------------------------------------------------------
(***************************************************************************)
(* What the reference decoder makes of the words of a field.               *)
(***************************************************************************)
\* A number and a tag of three bits make a word, and come out of it again.
LEMMA WordOf ==
  ASSUME NEW n \in Nat, NEW tag \in 0..7, 8 * n + 7 <= MaxUnsigned
  PROVE  /\ 8 * n + tag \in Unsigned
         /\ (8 * n + tag) \div 8 = n /\ (8 * n + tag) % 8 = tag
<1>1. 8 * n + tag \in Nat /\ 8 * n + tag <= MaxUnsigned
  BY UnsignedType
<1>2. 8 * n + tag \in Unsigned
  BY <1>1, UnsignedType DEF Unsigned
<1> QED
  BY <1>2

\* At p, the bytes t hold the header of a field.
HeaderAt(t, p, id, type) ==
  /\ HeadIn(t, p).status = "ok" /\ IdIn(t, p) = id /\ WireIn(t, p) = type
  /\ AtWordIn(t, p) = p + Len(Header(id, type))

LEMMA HeaderReadsBack ==
  ASSUME NEW id \in 0..IdMax, NEW type \in 0..7, NEW t \in Seq(Byte), NEW p \in 0..Len(t),
         Agree(Header(id, type), 0, t, p)
  PROVE  HeaderAt(t, p, id, type) /\ Header(id, type) \in Seq(Byte)
<1>1. IdMax \in Nat /\ id \in Nat /\ 8 * id + 7 <= MaxUnsigned
  BY FormatAssumption, WidthAssumption, UnsignedType
<1>2. /\ 8 * id + type \in Unsigned
      /\ (8 * id + type) \div 8 = id /\ (8 * id + type) % 8 = type
  BY <1>1, WordOf
<1>3. HeadIn(t, p) = ReadOk(8 * id + type, Len(Header(id, type)))
  BY <1>2, ReadsBack DEF HeadIn, Header
<1>4. /\ HeadIn(t, p).status = "ok" /\ HeadIn(t, p).value = 8 * id + type
      /\ HeadIn(t, p).len = Len(Header(id, type))
  BY <1>3 DEF ReadOk
<1>5. Header(id, type) \in Seq(Byte)
  BY <1>1, HeaderType
<1> QED
  BY <1>2, <1>4, <1>5 DEF HeaderAt, IdIn, WireIn, AtWordIn

\* ... and behind it the varint v.
LEMMA WordReadsBack ==
  ASSUME NEW t \in Seq(Byte), NEW p, AtWordIn(t, p) \in 0..Len(t), NEW v \in Unsigned,
         Agree(Varint(v), 0, t, AtWordIn(t, p))
  PROVE  /\ WordIn(t, p) = ReadOk(v, Len(Varint(v)))
         /\ AtElemIn(t, p) = AtWordIn(t, p) + Len(Varint(v))
<1> DEFINE q == AtWordIn(t, p)
<1>1. q \in 0..Len(t) /\ Agree(Varint(v), 0, t, q)
  OBVIOUS
<1>2. WordIn(t, p) = ReadVarint(t, q + 1)
  BY DEF WordIn
<1>3. AtElemIn(t, p) = q + WordIn(t, p).len
  BY DEF AtElemIn
<1> HIDE DEF q
<1> QED
  BY <1>1, <1>2, <1>3, ReadsBack DEF ReadOk, q

\* ... and behind that the varint v.
LEMMA ElemReadsBack ==
  ASSUME NEW t \in Seq(Byte), NEW p, AtElemIn(t, p) \in 0..Len(t), NEW v \in Unsigned,
         Agree(Varint(v), 0, t, AtElemIn(t, p))
  PROVE  ElemIn(t, p) = ReadOk(v, Len(Varint(v)))
<1> DEFINE q == AtElemIn(t, p)
<1>1. q \in 0..Len(t) /\ Agree(Varint(v), 0, t, q)
  OBVIOUS
<1>2. ElemIn(t, p) = ReadVarint(t, q + 1)
  BY DEF ElemIn
<1> HIDE DEF q
<1> QED
  BY <1>1, <1>2, ReadsBack DEF q

\* At p, the bytes t hold a header and the varint v; the bytes b follow.
FieldAt(t, p, id, type, v, b) ==
  /\ HeaderAt(t, p, id, type) /\ WordIn(t, p) = ReadOk(v, Len(Varint(v)))
  /\ AtElemIn(t, p) = p + Len(FieldVarint(id, type, v))
  /\ AtElemIn(t, p) \in 0..Len(t) /\ Agree(b, 0, t, AtElemIn(t, p))

LEMMA FieldReadsBack ==
  ASSUME NEW id \in 0..IdMax, NEW type \in 0..7, NEW v \in Unsigned,
         NEW t \in Seq(Byte), NEW p \in 0..Len(t), NEW b \in Seq(Byte),
         Agree(FieldVarint(id, type, v) \o b, 0, t, p)
  PROVE  FieldAt(t, p, id, type, v, b)
<1> DEFINE h == Header(id, type)
           w == Varint(v)
<1>1. h \in Seq(Byte) /\ w \in Seq(Byte)
  <2>1. id \in Nat /\ v \in Nat
    BY UnsignedType, FormatAssumption
  <2> QED
    BY <2>1, HeaderType, VarintType
<1>2. FieldVarint(id, type, v) = h \o w
  BY DEF FieldVarint
<1> HIDE DEF h, w
<1>3. h \o w \in Seq(Byte) /\ Len(h \o w) = Len(h) + Len(w) /\ Len(h) \in Nat /\ Len(w) \in Nat
  BY <1>1
<1>4. /\ Agree(h \o w, 0, t, p) /\ p + Len(h \o w) \in 0..Len(t)
      /\ Agree(b, 0, t, p + Len(h \o w))
  BY <1>2, <1>3, AgreeParts
<1>5. Agree(h, 0, t, p) /\ p + Len(h) \in 0..Len(t) /\ Agree(w, 0, t, p + Len(h))
  BY <1>1, <1>4, AgreeParts
<1>6. HeaderAt(t, p, id, type) /\ AtWordIn(t, p) = p + Len(h)
  BY <1>5, HeaderReadsBack DEF h, HeaderAt
<1>7. WordIn(t, p) = ReadOk(v, Len(w)) /\ AtElemIn(t, p) = p + Len(h) + Len(w)
  BY <1>5, <1>6, WordReadsBack DEF w
<1> QED
  BY <1>2, <1>3, <1>4, <1>6, <1>7 DEF w, FieldAt

-----------------------------------------------------------------------------
(***************************************************************************)
(* What it makes of a whole field.                                         *)
(***************************************************************************)
\* The bytes s are whole items: behind them the decoder is before a field, d sequences
\* deep, and has told es.
Whole(s, d, es) == s \in Seq(Byte) /\ d \in Nat /\ Reaches(s, Going(Len(s), d, NoResume, es))

\* Bytes behind whole items are read as a field.
LEMMA FieldBehind ==
  ASSUME NEW s, NEW d, NEW es, Whole(s, d, es), NEW b \in Seq(Byte)
  PROVE  /\ s \in Seq(Byte) /\ d \in Nat
         /\ s \o b \in Seq(Byte) /\ Len(s) \in 0..Len(s \o b) /\ Len(s \o b) = Len(s) + Len(b)
         /\ Agree(b, 0, s \o b, Len(s))
         /\ Reaches(s \o b, Field(s \o b, Len(s), d, es))
         /\ FieldAnswers(s \o b, Len(s), d, es)
<1> DEFINE t == s \o b
           c == Going(Len(s), d, NoResume, es)
<1>1. s \in Seq(Byte) /\ d \in Nat /\ Reaches(s, c)
  BY DEF Whole
<1>2. /\ t \in Seq(Byte) /\ Len(s) \in 0..Len(t) /\ Len(t) = Len(s) + Len(b)
      /\ Agree(b, 0, t, Len(s)) /\ Agree(s, 0, t, 0)
  BY <1>1, AgreeAppended
<1>3. c.verdict = "none" /\ c.at = Len(s) /\ c.depth = d /\ c.item = NoResume /\ c.events = es
  BY GoingFields
<1>4. c = Going(c.at, c.depth, c.item, c.events) /\ c.item.kind = "none"
  BY <1>3, NoneFresh
<1> HIDE DEF t, c
<1>5. Reaches(t, c)
  BY <1>1, <1>2, <1>3, ReachesOn
<1>6. Reaches(t, Field(t, Len(s), d, es))
  BY <1>3, <1>4, <1>5, ReachesStep, StepIs
<1>7. FieldAnswers(t, Len(s), d, es)
  <2>1. HeadIn(t, Len(s)).value \in Nat /\ WordIn(t, Len(s)).value \in Nat /\ ElemIn(t, Len(s)).value \in Nat
    BY <1>2, HeadInFacts
  <2> QED
    BY <1>1, <2>1, FieldIs
<1> QED
  BY <1>1, <1>2, <1>6, <1>7 DEF t

\* Nothing behind whole items: the decoder rests there.
LEMMA WholeDecodes ==
  ASSUME NEW s, NEW d, NEW es, Whole(s, d, es)
  PROVE  /\ Decode(s).verdict # "InvalidMsg" /\ Decode(s).rest = <<>>
         /\ Decode(s).resume = NoResume /\ Decode(s).depth = d /\ Decode(s).events = es
<1>1. s \in Seq(Byte) /\ d \in Nat /\ Len(s) \in Nat
  BY DEF Whole
<1>2. s \o <<>> = s /\ <<>> \in Seq(Byte)
  BY <1>1
<1>3. Reaches(s, Field(s, Len(s), d, es)) /\ FieldAnswers(s, Len(s), d, es)
  <2>1. /\ Reaches(s \o <<>>, Field(s \o <<>>, Len(s), d, es))
        /\ FieldAnswers(s \o <<>>, Len(s), d, es)
    BY <1>2, FieldBehind
  <2> QED
    BY <1>2, <2>1
<1>4. HeadIn(s, Len(s)).status = "more"
  <2>1. Len(s) + 1 \in 1..(Len(s) + 1) /\ MaxVarintLen >= 2 /\ MaxVarintLen \in Nat
    BY <1>1, MaxVarintLenAssumption
  <2>2. /\ HeadIn(s, Len(s)).status \in {"ok", "more", "invalid"}
        /\ HeadIn(s, Len(s)).status = "ok" =>
             HeadIn(s, Len(s)).len >= 1 /\ Len(s) + HeadIn(s, Len(s)).len <= Len(s)
        /\ HeadIn(s, Len(s)).len \in Nat
    <3> DEFINE r == ReadVarint(s, Len(s) + 1)
    <3>1. /\ r.status \in {"ok", "more", "invalid"} /\ r.len \in 0..MaxVarintLen
          /\ r.status = "ok" => r.len >= 1 /\ (Len(s) + 1) + r.len - 1 <= Len(s)
      BY <1>1, <2>1, ReadOutcome
    <3> HIDE DEF r
    <3>2. r.len \in Nat
      BY <3>1, <2>1
    <3>3. HeadIn(s, Len(s)) = r
      BY DEF HeadIn, r
    <3> QED
      BY <1>1, <3>1, <3>2, <3>3
  <2>3. HeadIn(s, Len(s)).status # "invalid"
    BY <1>1, <2>1 DEF HeadIn, ReadVarint, ReadTail, ReadMore, ReadOk
  <2> QED
    BY <1>1, <2>2, <2>3
<1>5. Field(s, Len(s), d, es) = RanOut(s, Len(s), d, NoResume, es)
  BY <1>3, <1>4 DEF FieldAnswers, HeadShortIn
<1> DEFINE c == RanOut(s, Len(s), d, NoResume, es)
<1>6. /\ c.verdict \in {"Complete", "Incomplete"} /\ c.at = Len(s) /\ c.depth = d
      /\ c.item = NoResume /\ c.events = es
  BY DEF RanOut
<1>9. Reaches(s, c)
  BY <1>3, <1>5
<1> HIDE DEF c
<1>7. Decode(s) = [verdict |-> c.verdict, depth |-> c.depth, events |-> c.events,
                   resume |-> c.item, rest |-> SubSeq(s, c.at + 1, Len(s))]
  BY <1>1, <1>6, <1>9, DecodeIs
<1>8. SubSeq(s, Len(s) + 1, Len(s)) = <<>>
  BY <1>1
<1> QED
  BY <1>6, <1>7, <1>8
LEMMA FieldVarintIs ==
  ASSUME NEW id \in 0..IdMax, NEW type \in 0..7, NEW v \in Unsigned
  PROVE  FieldVarint(id, type, v) \in Seq(Byte)
<1>1. id \in Nat /\ v \in Nat
  BY UnsignedType, FormatAssumption
<1>2. Header(id, type) \in Seq(Byte) /\ Varint(v) \in Seq(Byte)
  BY <1>1, HeaderType, VarintType
<1> QED
  BY <1>2 DEF FieldVarint

\* A field that is its header and a varint, and nothing else.
LEMMA FieldReadsBackAlone ==
  ASSUME NEW id \in 0..IdMax, NEW type \in 0..7, NEW v \in Unsigned,
         NEW t \in Seq(Byte), NEW p \in 0..Len(t), Agree(FieldVarint(id, type, v), 0, t, p),
         Len(t) = p + Len(FieldVarint(id, type, v))
  PROVE  /\ HeaderAt(t, p, id, type) /\ WordIn(t, p) = ReadOk(v, Len(Varint(v)))
         /\ AtElemIn(t, p) = Len(t)
<1> DEFINE b == FieldVarint(id, type, v)
           none == <<>>
<1>1. b \in Seq(Byte) /\ none \in Seq(Byte)
  BY FieldVarintIs
<1>2. b \o none = b
  BY <1>1
<1>3. Agree(b \o none, 0, t, p)
  BY <1>2
<1> HIDE DEF none
<1>4. FieldAt(t, p, id, type, v, none)
  BY <1>1, <1>3, FieldReadsBack
<1> QED
  BY <1>4 DEF FieldAt

LEMMA Tags ==
  /\ {T_VARINT_UNSIGNED, T_VARINT_SIGNED, T_FIXLEN, T_FIXLENARRAY} \cup IntArrays \subseteq 0..5
  /\ {T_SEQUENCE_START, T_SEQUENCE_END} \subseteq 0..7 /\ 0..5 \subseteq 0..7
BY DEF T_VARINT_UNSIGNED, T_VARINT_SIGNED, T_FIXLEN, T_FIXLENARRAY, IntArrays,
       T_VARINTARRAY_UNSIGNED, T_VARINTARRAY_SIGNED, T_SEQUENCE_START, T_SEQUENCE_END

\* A header with a varint behind it.
LEMMA WordBehind ==
  ASSUME NEW t, NEW p, NEW id \in 0..IdMax, NEW type \in 0..5,
         HeaderAt(t, p, id, type), WordIn(t, p).status = "ok"
  PROVE  WordReadIn(t, p)
<1>1. IdIn(t, p) <= IdMax /\ WireIn(t, p) \notin {T_SEQUENCE_START, T_SEQUENCE_END}
  BY FormatAssumption DEF HeaderAt, T_SEQUENCE_START, T_SEQUENCE_END
<1> QED
  BY <1>1 DEF HeaderAt, WordReadIn, HeadReadIn, HasWord, IdIn, WireIn

\* What write_varint_unsigned and write_varint_signed write, and what a receiver is told
\* of it.
LEMMA UnsignedTold ==
  ASSUME NEW s, NEW d, NEW es, Whole(s, d, es), NEW id \in 0..IdMax, NEW v \in Unsigned
  PROVE  Whole(s \o FieldVarint(id, T_VARINT_UNSIGNED, v), d, Append(es, OnUnsigned(id, v)))
<1> DEFINE b == FieldVarint(id, T_VARINT_UNSIGNED, v)
           t == s \o b
           p == Len(s)
<1>1. b \in Seq(Byte)
  BY FieldVarintIs, Tags
<1>2. /\ t \in Seq(Byte) /\ d \in Nat /\ p \in 0..Len(t) /\ Len(t) = p + Len(b) /\ Agree(b, 0, t, p)
      /\ Reaches(t, Field(t, p, d, es)) /\ FieldAnswers(t, p, d, es)
  BY <1>1, FieldBehind
<1> HIDE DEF t, p
<1>3. /\ HeaderAt(t, p, id, T_VARINT_UNSIGNED) /\ WordIn(t, p) = ReadOk(v, Len(Varint(v)))
      /\ AtElemIn(t, p) = Len(t)
  BY <1>1, <1>2, FieldReadsBackAlone, Tags
<1>4. WordIn(t, p).status = "ok" /\ WordIn(t, p).value = v
  BY <1>3 DEF ReadOk
<1>5. UnsignedIn(t, p) /\ UnsignedOf(t, p) = OnUnsigned(id, v)
  BY <1>3, <1>4, WordBehind DEF UnsignedIn, UnsignedOf, HeaderAt, T_VARINT_UNSIGNED
<1> QED
  BY <1>2, <1>3, <1>5 DEF FieldAnswers, Whole, t

LEMMA SignedTold ==
  ASSUME NEW s, NEW d, NEW es, Whole(s, d, es), NEW id \in 0..IdMax, NEW v \in Signed
  PROVE  Whole(s \o FieldVarint(id, T_VARINT_SIGNED, ZigZag(v)), d, Append(es, OnSigned(id, v)))
<1> DEFINE u == ZigZag(v)
           b == FieldVarint(id, T_VARINT_SIGNED, u)
           t == s \o b
           p == Len(s)
<1>0. u \in Unsigned /\ ZigZagDecode(u) = v
  BY ZigZagRoundTrip
<1> HIDE DEF u
<1>1. b \in Seq(Byte)
  BY <1>0, FieldVarintIs, Tags
<1>2. /\ t \in Seq(Byte) /\ d \in Nat /\ p \in 0..Len(t) /\ Len(t) = p + Len(b) /\ Agree(b, 0, t, p)
      /\ Reaches(t, Field(t, p, d, es)) /\ FieldAnswers(t, p, d, es)
  BY <1>1, FieldBehind
<1> HIDE DEF t, p
<1>3. /\ HeaderAt(t, p, id, T_VARINT_SIGNED) /\ WordIn(t, p) = ReadOk(u, Len(Varint(u)))
      /\ AtElemIn(t, p) = Len(t)
  BY <1>0, <1>1, <1>2, FieldReadsBackAlone, Tags
<1>4. WordIn(t, p).status = "ok" /\ WordIn(t, p).value = u
  BY <1>3 DEF ReadOk
<1>5. SignedIn(t, p) /\ SignedOf(t, p) = OnSigned(id, v)
  BY <1>0, <1>3, <1>4, WordBehind DEF SignedIn, SignedOf, HeaderAt, T_VARINT_SIGNED
<1>6. t = s \o FieldVarint(id, T_VARINT_SIGNED, ZigZag(v))
  BY DEF t, u
<1> QED
  BY <1>2, <1>3, <1>5, <1>6 DEF FieldAnswers, Whole

\* A sequence's header, and the marker that ends it.
LEMMA SequenceBeginTold ==
  ASSUME NEW s, NEW d, NEW es, Whole(s, d, es), NEW id \in 0..IdMax, d < MaxDepth
  PROVE  /\ Whole(s \o SequenceHeader(id), d + 1, Append(es, OnSequenceBegin(id)))
         /\ SequenceHeader(id) \in Seq(Byte)
<1> DEFINE b == Header(id, T_SEQUENCE_START)
           t == s \o b
           p == Len(s)
<1>1. b \in Seq(Byte)
  <2>1. id \in Nat /\ T_SEQUENCE_START \in 0..7
    BY FormatAssumption, Tags
  <2> QED
    BY <2>1, HeaderType
<1>2. /\ t \in Seq(Byte) /\ d \in Nat /\ p \in 0..Len(t) /\ Len(t) = p + Len(b) /\ Agree(b, 0, t, p)
      /\ Reaches(t, Field(t, p, d, es)) /\ FieldAnswers(t, p, d, es)
  BY <1>1, FieldBehind
<1> HIDE DEF t, p
<1>3. HeaderAt(t, p, id, T_SEQUENCE_START)
  BY <1>2, HeaderReadsBack, Tags
<1>4. AtWordIn(t, p) = Len(t)
  BY <1>2, <1>3 DEF HeaderAt
<1>5. BeginsIn(t, p, d)
  BY <1>3, FormatAssumption DEF HeaderAt, BeginsIn
<1> QED
  BY <1>1, <1>2, <1>3, <1>4, <1>5 DEF FieldAnswers, HeaderAt, Whole, SequenceHeader, t

LEMMA SequenceEndTold ==
  ASSUME NEW s, NEW d, NEW es, Whole(s, d, es), d > 0
  PROVE  Whole(s \o EndMarker, d - 1, Append(es, OnSequenceEnd))
<1> DEFINE b == Header(0, T_SEQUENCE_END)
           t == s \o b
           p == Len(s)
<1>0. 0 \in 0..IdMax /\ EndMarker = b
  BY FormatAssumption DEF EndMarker, Header, T_SEQUENCE_END
<1>1. b \in Seq(Byte)
  BY <1>0, VarintType DEF EndMarker, T_SEQUENCE_END
<1>2. /\ t \in Seq(Byte) /\ d \in Nat /\ p \in 0..Len(t) /\ Len(t) = p + Len(b) /\ Agree(b, 0, t, p)
      /\ Reaches(t, Field(t, p, d, es)) /\ FieldAnswers(t, p, d, es)
  BY <1>1, FieldBehind
<1> HIDE DEF t, p
<1>3. HeaderAt(t, p, 0, T_SEQUENCE_END)
  BY <1>0, <1>2, HeaderReadsBack, Tags
<1>4. AtWordIn(t, p) = Len(t)
  BY <1>2, <1>3 DEF HeaderAt
<1>5. EndsIn(t, p, d)
  BY <1>0, <1>3, FormatAssumption DEF HeaderAt, EndsIn
<1>6. t = s \o EndMarker
  BY <1>0 DEF t
<1> QED
  BY <1>2, <1>3, <1>4, <1>5, <1>6 DEF FieldAnswers, Whole

-----------------------------------------------------------------------------
(***************************************************************************)
(* Arrays and payloads: the head of the field, and what it announces.      *)
(***************************************************************************)
IntItem(id, kind, n) == Resume("int", id, kind, 0, n)
FloatItem(id, subtype, n) == Resume("fix", id, subtype, 0, n)

\* An element is read where the decoder expects one.
LEMMA ElementStep ==
  ASSUME NEW t, NEW p, NEW d, NEW it, NEW es, it.kind \in {"int", "fix"},
         Reaches(t, Going(p, d, it, es))
  PROVE  Reaches(t, Element(t, p, d, it, es))
<1> DEFINE c == Going(p, d, it, es)
<1>1. c.at = p /\ c.depth = d /\ c.item = it /\ c.events = es
  BY GoingFields
<1>2. c = Going(c.at, c.depth, c.item, c.events) /\ Reaches(t, c)
  BY <1>1
<1> HIDE DEF c
<1>3. Step(t, c) = Element(t, c.at, c.depth, c.item, c.events)
  BY <1>1, <1>2, StepIs
<1> QED
  BY <1>1, <1>2, <1>3, ReachesStep

\* Framed the last of them it stands before a field.
LEMMA ItemEnds ==
  ASSUME NEW t, NEW p, NEW d, NEW es, NEW kind \in {"int", "fix"}, NEW id, NEW type,
         Reaches(t, Going(p, d, Resume(kind, id, type, 0, 0), es))
  PROVE  Reaches(t, Going(p, d, NoResume, es))
<1> DEFINE it == Resume(kind, id, type, 0, 0)
<1>1. it.kind \in {"int", "fix"} /\ it.remaining = 0
  BY DEF Resume
<1> HIDE DEF it
<1>2. Reaches(t, Element(t, p, d, it, es))
  BY <1>1, ElementStep DEF it
<1>3. Element(t, p, d, it, es) = Going(p, d, NoResume, es)
  BY <1>1 DEF Element
<1> QED
  BY <1>2, <1>3

\* A varint behind an array that has elements to come is the next of them.
LEMMA IntTold ==
  ASSUME NEW s \in Seq(Byte), NEW d, NEW es, NEW id, NEW kind, NEW n \in Nat \ {0},
         Reaches(s, Going(Len(s), d, IntItem(id, kind, n), es)), NEW u \in Unsigned
  PROVE  Reaches(s \o Varint(u),
                 Going(Len(s \o Varint(u)), d, IntItem(id, kind, n - 1),
                       Append(es, IF kind = KindSigned THEN OnSigned(id, ZigZagDecode(u))
                                  ELSE OnUnsigned(id, u))))
<1> DEFINE b == Varint(u)
           t == s \o b
           it == IntItem(id, kind, n)
           e == IF kind = KindSigned THEN OnSigned(id, ZigZagDecode(u)) ELSE OnUnsigned(id, u)
           c == Going(Len(s), d, it, es)
<1>1. b \in Seq(Byte)
  BY VarintType, UnsignedType
<1>2. /\ t \in Seq(Byte) /\ Len(s) \in 0..Len(t) /\ Len(t) = Len(s) + Len(b)
      /\ Agree(b, 0, t, Len(s)) /\ Agree(s, 0, t, 0)
  BY <1>1, AgreeAppended
<1>3. c.verdict = "none" /\ Reaches(s, c)
  BY GoingFields
<1> HIDE DEF t, c
<1>4. Reaches(t, c)
  BY <1>2, <1>3, ReachesOn
<1>5. /\ it.kind = "int" /\ it.remaining = n /\ it.type = kind /\ it.id = id
      /\ [it EXCEPT !.remaining = @ - 1] = IntItem(id, kind, n - 1)
  BY DEF IntItem, Resume
<1> HIDE DEF it
<1>6. Reaches(t, Element(t, Len(s), d, it, es))
  BY <1>4, <1>5, ElementStep DEF c
<1>7. ReadVarint(t, Len(s) + 1) = ReadOk(u, Len(b))
  BY <1>2, ReadsBack
<1> HIDE DEF b
<1>8. Element(t, Len(s), d, it, es) =
        Going(Len(s) + Len(b), d, IntItem(id, kind, n - 1), Append(es, e))
  <2> DEFINE r == ReadVarint(t, Len(s) + 1)
  <2>1. r.status = "ok" /\ r.value = u /\ r.len = Len(b)
    BY <1>7 DEF ReadOk
  <2> HIDE DEF r
  <2>2. n # 0
    OBVIOUS
  <2>3. Element(t, Len(s), d, it, es) =
          Going(Len(s) + r.len, d, [it EXCEPT !.remaining = @ - 1],
                Append(es, IF it.type = KindSigned THEN OnSigned(it.id, ZigZagDecode(r.value))
                           ELSE OnUnsigned(it.id, r.value)))
    BY <1>5, <2>1, <2>2 DEF Element, r
  <2> QED
    BY <1>5, <2>1, <2>3
<1> QED
  BY <1>2, <1>6, <1>8 DEF t, b

\* The bytes of a float behind an array (or a field) that has floats to come are the next.
LEMMA FloatStep ==
  ASSUME NEW t \in Seq(Byte), NEW p \in 0..Len(t), NEW d, NEW es, NEW id, NEW subtype,
         NEW n \in Nat \ {0}, FloatLen(subtype) <= Len(t) - p,
         Reaches(t, Going(p, d, FloatItem(id, subtype, n), es))
  PROVE  Reaches(t, Going(p + FloatLen(subtype), d, FloatItem(id, subtype, n - 1),
                          Append(es, OnFloat(id, subtype, SubSeq(t, p + 1, p + FloatLen(subtype))))))
<1> DEFINE it == FloatItem(id, subtype, n)
           w == FloatLen(subtype)
<1>1. /\ it.kind = "fix" /\ it.remaining = n /\ it.type = subtype /\ it.id = id
      /\ [it EXCEPT !.remaining = @ - 1] = FloatItem(id, subtype, n - 1)
  BY DEF FloatItem, Resume
<1>2. w \in Nat /\ ~(Len(t) - p < w) /\ n # 0
  BY FormatAssumption DEF FloatLen
<1> HIDE DEF it, w
<1>3. Reaches(t, Element(t, p, d, it, es))
  BY <1>1, ElementStep DEF it
<1> DEFINE r == ReadOk(0, w)
<1>4. r.status = "ok" /\ r.len = w
  BY DEF ReadOk
<1> HIDE DEF r
<1>5. Element(t, p, d, it, es) =
        Going(p + r.len, d, [it EXCEPT !.remaining = @ - 1],
              Append(es, OnFloat(it.id, it.type, SubSeq(t, p + 1, p + r.len))))
  BY <1>1, <1>2, <1>4 DEF Element, r, w
<1> QED
  BY <1>1, <1>3, <1>4, <1>5 DEF w

\* The head of an array of integers.
LEMMA IntArrayTold ==
  ASSUME NEW s, NEW d, NEW es, Whole(s, d, es), NEW id \in 0..IdMax, NEW type \in IntArrays,
         NEW n \in 0..ArrayMax, NEW kind,
         kind = IF type = T_VARINTARRAY_SIGNED THEN KindSigned ELSE KindUnsigned
  PROVE  LET t == s \o FieldVarint(id, type, n)
         IN  /\ t \in Seq(Byte)
             /\ Reaches(t, Going(Len(t), d, IntItem(id, kind, n), Append(es, OnArrayBegin(id, kind, n))))
<1> DEFINE b == FieldVarint(id, type, n)
           t == s \o b
           p == Len(s)
<1>0. n \in Unsigned /\ n <= ArrayMax
  BY FormatAssumption, WidthAssumption, UnsignedType DEF Unsigned
<1>1. b \in Seq(Byte)
  BY <1>0, FieldVarintIs, Tags
<1>2. /\ t \in Seq(Byte) /\ d \in Nat /\ p \in 0..Len(t) /\ Len(t) = p + Len(b) /\ Agree(b, 0, t, p)
      /\ Reaches(t, Field(t, p, d, es)) /\ FieldAnswers(t, p, d, es)
  BY <1>1, FieldBehind
<1> HIDE DEF t, p
<1>3. /\ HeaderAt(t, p, id, type) /\ WordIn(t, p) = ReadOk(n, Len(Varint(n)))
      /\ AtElemIn(t, p) = Len(t)
  BY <1>0, <1>1, <1>2, FieldReadsBackAlone, Tags
<1>4. WordIn(t, p).status = "ok" /\ WordIn(t, p).value = n
  BY <1>3 DEF ReadOk
<1>5. type \in 0..5
  BY Tags
<1>6. IntArrayIn(t, p)
  BY <1>0, <1>3, <1>4, <1>5, WordBehind DEF IntArrayIn, HeaderAt
<1>7. IntKindIn(t, p) = kind
  BY <1>3 DEF IntKindIn, HeaderAt
<1>8. IntsOf(t, p) = IntItem(id, kind, n) /\ ArrayOf(t, p, kind) = OnArrayBegin(id, kind, n)
  BY <1>3, <1>4, <1>7 DEF IntsOf, ArrayOf, IntItem, HeaderAt
<1>9. Field(t, p, d, es) = Going(Len(t), d, IntItem(id, kind, n), Append(es, OnArrayBegin(id, kind, n)))
  BY <1>2, <1>3, <1>6, <1>7, <1>8 DEF FieldAnswers
<1> QED
  BY <1>2, <1>9 DEF t

\* A fixlen word.
LEMMA FixlenWordIs ==
  ASSUME NEW n \in Nat, NEW subtype \in FixlenTypes, 8 * n + 7 <= MaxUnsigned
  PROVE  LET u == 8 * n + subtype
         IN  /\ u \in Unsigned /\ FixlenWord(n, subtype) = Varint(u)
             /\ u \div 8 = n /\ u % 8 = subtype
<1>1. subtype \in 0..7
  BY DEF FixlenTypes, Fp32, Fp64, Str, Blob
<1> QED
  BY <1>1, WordOf DEF FixlenWord

\* The head of a string, a blob or a float, and the payload behind it.
FixlenHead(id, subtype, n) == Header(id, T_FIXLEN) \o FixlenWord(n, subtype)

LEMMA FixlenHeadIs ==
  ASSUME NEW s, NEW d, NEW es, Whole(s, d, es), NEW id \in 0..IdMax,
         NEW subtype \in FixlenTypes, NEW data \in Seq(Byte), FixlenAgrees(data, subtype)
  PROVE  LET h == FixlenHead(id, subtype, Len(data))
             t == s \o (h \o data)
             q == Len(t) - Len(data)
         IN  /\ h \o data \in Seq(Byte) /\ t \in Seq(Byte) /\ d \in Nat /\ q \in 0..Len(t)
             /\ Agree(data, 0, t, q)
             /\ Reaches(t, Going(q, d,
                  IF subtype \in {Str, Blob} THEN Resume("payload", id, subtype, Len(data), Len(data))
                  ELSE FloatItem(id, subtype, 1),
                  Append(es, OnFixlenBegin(id, subtype, Len(data)))))
<1> DEFINE n == Len(data)
           u == 8 * n + subtype
           h == FixlenHead(id, subtype, n)
           b == h \o data
           t == s \o b
           p == Len(s)
           q == Len(t) - Len(data)
<1>0. n \in Nat /\ n <= FixlenMax /\ 8 * n + 7 <= MaxUnsigned
  BY FormatAssumption, WidthAssumption, UnsignedType DEF FixlenAgrees
<1>1. u \in Unsigned /\ FixlenWord(n, subtype) = Varint(u) /\ u \div 8 = n /\ u % 8 = subtype
  BY <1>0, FixlenWordIs
<1> HIDE DEF u, n
<1>2. h = FieldVarint(id, T_FIXLEN, u) /\ h \in Seq(Byte)
  BY <1>1, FieldVarintIs, Tags DEF FixlenHead, FieldVarint
<1>3. b \in Seq(Byte) /\ Len(b) = Len(h) + Len(data) /\ Len(h) \in Nat /\ Len(data) \in Nat
  BY <1>2
<1> HIDE DEF h
<1>4. Agree(b, 0, s \o b, p) /\ b = FieldVarint(id, T_FIXLEN, u) \o data
  BY <1>2, <1>3, FieldBehind
<1> HIDE DEF b
<1>5. /\ t \in Seq(Byte) /\ d \in Nat /\ p \in 0..Len(t) /\ Len(t) = p + Len(b) /\ Agree(b, 0, t, p)
      /\ Reaches(t, Field(t, p, d, es)) /\ FieldAnswers(t, p, d, es)
  BY <1>3, FieldBehind
<1> HIDE DEF t, p
<1>6. Agree(FieldVarint(id, T_FIXLEN, u) \o data, 0, t, p)
  BY <1>4, <1>5
<1>7. /\ HeaderAt(t, p, id, T_FIXLEN) /\ WordIn(t, p) = ReadOk(u, Len(Varint(u)))
      /\ AtElemIn(t, p) = p + Len(h) /\ AtElemIn(t, p) \in 0..Len(t)
      /\ Agree(data, 0, t, AtElemIn(t, p))
  <2>1. T_FIXLEN \in 0..7
    BY Tags
  <2>2. FieldAt(t, p, id, T_FIXLEN, u, data)
    BY <1>1, <1>5, <1>6, <2>1, FieldReadsBack
  <2> QED
    BY <1>2, <2>2 DEF FieldAt
<1>8. AtElemIn(t, p) = q /\ q \in 0..Len(t) /\ Agree(data, 0, t, q)
  BY <1>3, <1>5, <1>7
<1> HIDE DEF q
<1>9. /\ WordIn(t, p).status = "ok" /\ WordIn(t, p).value = u
      /\ LengthIn(t, p) = n /\ SubtypeIn(t, p) = subtype
  BY <1>1, <1>7 DEF ReadOk, LengthIn, SubtypeIn
<1>10. WordReadIn(t, p) /\ WireIn(t, p) = T_FIXLEN /\ IdIn(t, p) = id
  BY <1>7, <1>9, WordBehind, Tags DEF HeaderAt
<1>11. ~BadFixlenIn(t, p)
  BY <1>0, <1>9, FormatAssumption DEF BadFixlenIn, FixlenAgrees, Floats, n
<1>12. /\ PayloadOf(t, p) = Resume("payload", id, subtype, n, n)
       /\ FloatOf(t, p) = FloatItem(id, subtype, 1)
       /\ FixlenOf(t, p) = OnFixlenBegin(id, subtype, n)
  BY <1>9, <1>10 DEF PayloadOf, FloatOf, FixlenOf, FloatItem
<1>13. Field(t, p, d, es) =
         Going(q, d, IF subtype \in {Str, Blob} THEN Resume("payload", id, subtype, n, n)
                     ELSE FloatItem(id, subtype, 1),
               Append(es, OnFixlenBegin(id, subtype, n)))
  <2>1. CASE subtype \in {Str, Blob}
    <3>1. PayloadIn(t, p)
      BY <1>9, <1>10, <1>11, <2>1 DEF PayloadIn
    <3> QED
      BY <1>5, <1>8, <1>12, <2>1, <3>1 DEF FieldAnswers
  <2>2. CASE subtype \notin {Str, Blob}
    <3>1. FloatIn(t, p)
      BY <1>9, <1>10, <1>11, <2>2 DEF FloatIn, FixlenTypes, Floats
    <3> QED
      BY <1>5, <1>8, <1>12, <2>2, <3>1 DEF FieldAnswers
  <2> QED
    BY <2>1, <2>2
<1> QED
  BY <1>3, <1>5, <1>8, <1>13 DEF t, b, h, q, n

\* What write_fixlen writes, and what a receiver is told of it.
LEMMA FixlenTold ==
  ASSUME NEW s, NEW d, NEW es, Whole(s, d, es), NEW id \in 0..IdMax,
         NEW subtype \in FixlenTypes, NEW data \in Seq(Byte), FixlenAgrees(data, subtype)
  PROVE  /\ FixlenHead(id, subtype, Len(data)) \o data \in Seq(Byte)
         /\ Whole(s \o (FixlenHead(id, subtype, Len(data)) \o data), d,
              Append(Append(es, OnFixlenBegin(id, subtype, Len(data))),
                     IF subtype \in {Fp32, Fp64} THEN OnFloat(id, subtype, data)
                     ELSE OnChunk(id, subtype, Len(data), 0, data)))
<1> DEFINE n == Len(data)
           b == FixlenHead(id, subtype, n) \o data
           t == s \o b
           q == Len(t) - Len(data)
           it == IF subtype \in {Str, Blob} THEN Resume("payload", id, subtype, n, n)
                 ELSE FloatItem(id, subtype, 1)
           first == Append(es, OnFixlenBegin(id, subtype, n))
<1>1. /\ b \in Seq(Byte) /\ t \in Seq(Byte) /\ d \in Nat /\ q \in 0..Len(t) /\ Agree(data, 0, t, q)
      /\ Reaches(t, Going(q, d, it, first))
  BY FixlenHeadIs
<1> HIDE DEF b, t, first
<1>2. n \in Nat /\ Len(t) \in Nat /\ q + n = Len(t) /\ Len(t) - q = n /\ q \in Nat
  BY <1>1
<1> HIDE DEF q
<1>3. SubSeq(t, q + 1, q + n) = data
  <2>1. ASSUME NEW k \in 0..(Len(data) - 0)
        PROVE  SubSeq(t, q + 1, q + k) = SubSeq(data, 0 + 1, 0 + k)
    <3>1. 0 \in 0..Len(data)
      BY <1>2
    <3> DEFINE from == 0
    <3>2. /\ from \in 0..Len(data) /\ k \in 0..(Len(data) - from) /\ Agree(data, from, t, q)
          /\ t \in Seq(Byte) /\ q \in 0..Len(t)
      BY <1>1, <3>1
    <3> HIDE DEF from
    <3>3. SubSeq(t, q + 1, q + k) = SubSeq(data, from + 1, from + k)
      BY <3>2, AgreeSubSeq
    <3> QED
      BY <3>3 DEF from
  <2>2. n \in 0..(Len(data) - 0) /\ 0 + 1 = 1 /\ 0 + n = n
    BY <1>2
  <2>3. SubSeq(t, q + 1, q + n) = SubSeq(data, 1, n)
    BY <2>1, <2>2
  <2>4. SubSeq(data, 1, Len(data)) = data
    OBVIOUS
  <2> QED
    BY <2>3, <2>4
<1>4. CASE subtype \in {Str, Blob}
  <2> DEFINE r == Resume("payload", id, subtype, n, n)
             c == Going(q, d, r, first)
  <2>1. /\ r.kind = "payload" /\ r.total = n /\ r.id = id /\ r.type = subtype
    BY DEF Resume
  <2>2. c.at = q /\ c.depth = d /\ c.item = r /\ c.events = first /\ Reaches(t, c)
    BY <1>1, <1>4, GoingFields
  <2>3. c = Going(c.at, c.depth, c.item, c.events)
    BY <2>2
  <2> HIDE DEF r, c
  <2>4. Step(t, c) = Payload(t, q, d, r, first)
    BY <2>1, <2>2, <2>3, StepIs
  <2>5. Payload(t, q, d, r, first) = Going(q + n, d, NoResume, Append(first, ChunkOf(r, t, q, n)))
    <3>1. r.total <= Len(t) - q /\ r.total \in Nat
      BY <1>2, <2>1
    <3>2. Payload(t, q, d, r, first) =
            Going(q + r.total, d, NoResume, Append(first, ChunkOf(r, t, q, r.total)))
      <4>1. t \in Seq(Byte) /\ q \in 0..Len(t)
        BY <1>1
      <4> QED
        BY <3>1, <4>1, PayloadIs
    <3> QED
      BY <2>1, <3>2
  <2>6. ChunkOf(r, t, q, n) = OnChunk(id, subtype, n, 0, data)
    BY <1>3, <2>1 DEF ChunkOf
  <2>7. Reaches(t, Going(Len(t), d, NoResume, Append(first, OnChunk(id, subtype, n, 0, data))))
    BY <1>2, <2>2, <2>4, <2>5, <2>6, ReachesStep
  <2>8. subtype \notin {Fp32, Fp64}
    BY <1>4 DEF Fp32, Fp64, Str, Blob
  <2> QED
    BY <1>1, <2>7, <2>8 DEF Whole, b, t, first
<1>5. CASE subtype \notin {Str, Blob}
  <2>1. subtype \in {Fp32, Fp64}
    BY <1>5 DEF FixlenTypes
  <2>2. n = FloatLen(subtype)
    BY <2>1 DEF FixlenAgrees
  <2>3. Reaches(t, Going(q, d, FloatItem(id, subtype, 1), first))
    BY <1>1, <1>5
  <2>4. Reaches(t, Going(q + n, d, FloatItem(id, subtype, 1 - 1),
                         Append(first, OnFloat(id, subtype, SubSeq(t, q + 1, q + n)))))
    <3>1. FloatLen(subtype) <= Len(t) - q /\ 1 \in Nat \ {0}
      BY <1>2, <2>2
    <3> QED
      BY <1>1, <2>2, <2>3, <3>1, FloatStep
  <2>5. Reaches(t, Going(Len(t), d, FloatItem(id, subtype, 0), Append(first, OnFloat(id, subtype, data))))
    <3>1. 1 - 1 = 0
      OBVIOUS
    <3>2. FloatItem(id, subtype, 1 - 1) = FloatItem(id, subtype, 0)
      BY <3>1
    <3> QED
      BY <1>2, <1>3, <2>4, <3>2
  <2>6. Reaches(t, Going(Len(t), d, NoResume, Append(first, OnFloat(id, subtype, data))))
    BY <2>5, ItemEnds DEF FloatItem
  <2> QED
    BY <1>1, <2>1, <2>6 DEF Whole, b, t, first
<1> QED
  BY <1>4, <1>5

\* The head of an array of floats: a count, and the width and type of every element.
FloatArrayHead(id, subtype, n) ==
  FieldVarint(id, T_FIXLENARRAY, n) \o FixlenWord(FloatLen(subtype), subtype)

FloatKind(subtype) == IF subtype = Fp32 THEN KindFp32 ELSE KindFp64

LEMMA FloatArrayHeadIs ==
  ASSUME NEW s, NEW d, NEW es, Whole(s, d, es), NEW id \in 0..IdMax,
         NEW subtype \in {Fp32, Fp64}, NEW n \in 0..ArrayMax, NEW data \in Seq(Byte)
  PROVE  LET h == FloatArrayHead(id, subtype, n)
             t == s \o (h \o data)
             q == Len(t) - Len(data)
         IN  /\ h \o data \in Seq(Byte) /\ t \in Seq(Byte) /\ d \in Nat /\ q \in 0..Len(t)
             /\ Agree(data, 0, t, q)
             /\ Reaches(t, Going(q, d, FloatItem(id, subtype, n),
                                 Append(es, OnArrayBegin(id, FloatKind(subtype), n))))
<1> DEFINE w == FloatLen(subtype)
           u == 8 * w + subtype
           f == FieldVarint(id, T_FIXLENARRAY, n)
           x == FixlenWord(w, subtype)
           h == f \o x
           b == h \o data
           t == s \o b
           p == Len(s)
           q == Len(t) - Len(data)
<1>0. /\ n \in Unsigned /\ n <= ArrayMax /\ n \in Nat
      /\ w \in Nat /\ 8 * w + 7 <= MaxUnsigned /\ subtype \in FixlenTypes
  BY FormatAssumption, WidthAssumption, UnsignedType DEF Unsigned, FloatLen, FixlenTypes
<1>1. u \in Unsigned /\ x = Varint(u) /\ u \div 8 = w /\ u % 8 = subtype
  BY <1>0, FixlenWordIs
<1> HIDE DEF u, w
<1>2. f \in Seq(Byte) /\ x \in Seq(Byte)
  <2>1. T_FIXLENARRAY \in 0..7 /\ u \in Nat
    BY <1>1, Tags, UnsignedType
  <2> QED
    BY <1>0, <1>1, <2>1, FieldVarintIs, VarintType
<1> HIDE DEF x, f
<1>3. h \in Seq(Byte) /\ Len(h) = Len(f) + Len(x) /\ Len(f) \in Nat /\ Len(x) \in Nat
  BY <1>2
<1> HIDE DEF h
<1>4. b \in Seq(Byte) /\ Len(b) = Len(h) + Len(data) /\ Len(data) \in Nat
  BY <1>3
<1> HIDE DEF b
<1>5. /\ t \in Seq(Byte) /\ d \in Nat /\ p \in 0..Len(t) /\ Len(t) = p + Len(b) /\ Agree(b, 0, t, p)
      /\ Reaches(t, Field(t, p, d, es)) /\ FieldAnswers(t, p, d, es)
  BY <1>4, FieldBehind
<1> HIDE DEF t, p
<1>6. /\ Agree(h, 0, t, p) /\ p + Len(h) \in 0..Len(t) /\ Agree(data, 0, t, p + Len(h))
  BY <1>3, <1>5, AgreeParts DEF b
<1>7. FieldAt(t, p, id, T_FIXLENARRAY, n, x)
  <2>1. T_FIXLENARRAY \in 0..7 /\ Agree(FieldVarint(id, T_FIXLENARRAY, n) \o x, 0, t, p)
    BY <1>6, Tags DEF h, f
  <2> QED
    BY <1>0, <1>2, <1>5, <2>1, FieldReadsBack
<1>8. /\ HeaderAt(t, p, id, T_FIXLENARRAY) /\ WordIn(t, p) = ReadOk(n, Len(Varint(n)))
      /\ AtElemIn(t, p) = p + Len(f) /\ AtElemIn(t, p) \in 0..Len(t)
      /\ Agree(x, 0, t, AtElemIn(t, p))
  BY <1>7 DEF FieldAt, f
<1>9. ElemIn(t, p) = ReadOk(u, Len(x))
  BY <1>1, <1>5, <1>8, ElemReadsBack
<1>10. AtElemIn(t, p) + ElemIn(t, p).len = q /\ q \in 0..Len(t) /\ Agree(data, 0, t, q)
  <2>1. ElemIn(t, p).len = Len(x)
    BY <1>9 DEF ReadOk
  <2>2. p \in Nat /\ Len(t) \in Nat
    BY <1>5
  <2>3. AtElemIn(t, p) + ElemIn(t, p).len = p + Len(h) /\ q = p + Len(h)
    BY <1>3, <1>4, <1>5, <1>8, <2>1, <2>2
  <2> QED
    BY <1>6, <2>3
<1> HIDE DEF q
<1>11. /\ WordIn(t, p).status = "ok" /\ WordIn(t, p).value = n
       /\ ElemIn(t, p).status = "ok" /\ ElemIn(t, p).value = u
       /\ ElemSubtypeIn(t, p) = subtype
  BY <1>1, <1>8, <1>9 DEF ReadOk, ElemSubtypeIn
<1>12. WordReadIn(t, p) /\ WireIn(t, p) = T_FIXLENARRAY /\ IdIn(t, p) = id
  BY <1>8, <1>11, WordBehind, Tags DEF HeaderAt
<1>13. CountReadIn(t, p)
  BY <1>0, <1>11, <1>12 DEF CountReadIn, WordReadIn, WireIn
<1>14. ~BadElemIn(t, p)
  BY <1>1, <1>11 DEF BadElemIn, Floats, w
<1>15. FloatArrayIn(t, p) /\ FloatKindIn(t, p) = FloatKind(subtype)
  BY <1>11, <1>13, <1>14 DEF FloatArrayIn, FloatKindIn, FloatKind, Fp32, Fp64
<1>16. /\ FloatsOf(t, p) = FloatItem(id, subtype, n)
       /\ ArrayOf(t, p, FloatKind(subtype)) = OnArrayBegin(id, FloatKind(subtype), n)
  BY <1>11, <1>12 DEF FloatsOf, ArrayOf, FloatItem
<1>17. Field(t, p, d, es) =
         Going(q, d, FloatItem(id, subtype, n), Append(es, OnArrayBegin(id, FloatKind(subtype), n)))
  BY <1>5, <1>10, <1>15, <1>16 DEF FieldAnswers
<1>18. h = FloatArrayHead(id, subtype, n)
  BY DEF h, f, x, w, FloatArrayHead
<1> QED
  BY <1>4, <1>5, <1>10, <1>17, <1>18 DEF t, b, q

\* The elements of an array lie side by side.
LEMMA Beside ==
  ASSUME NEW i \in Nat, NEW n \in Nat, NEW w \in Nat, i < n
  PROVE  /\ i * w \in Nat /\ n * w \in Nat /\ (i + 1) * w = i * w + w
         /\ i * w + w <= n * w
<1>1. i * w \in Nat /\ n * w \in Nat /\ (i + 1) * w = i * w + w
  OBVIOUS
<1>2. n - (i + 1) \in Nat
  OBVIOUS
<1>3. (n - (i + 1)) * w \in Nat
  BY <1>2
<1>4. n * w = (i + 1) * w + (n - (i + 1)) * w
  BY <1>2
<1> QED
  BY <1>1, <1>3, <1>4

\* Telling one callback after the other.
LEMMA TellOneMore ==
  ASSUME NEW S, NEW es \in Seq(S), NEW cs \in Seq(S), NEW i \in 0..(Len(cs) - 1)
  PROVE  es \o SubSeq(cs, 1, i + 1) = Append(es \o SubSeq(cs, 1, i), cs[i + 1])
<1>1. /\ SubSeq(cs, 1, i) \in Seq(S) /\ Len(SubSeq(cs, 1, i)) = i
      /\ SubSeq(cs, 1, i + 1) \in Seq(S) /\ Len(SubSeq(cs, 1, i + 1)) = i + 1
      /\ cs[i + 1] \in S /\ Len(es) \in Nat /\ i \in Nat
  OBVIOUS
<1> DEFINE l == es \o SubSeq(cs, 1, i + 1)
           r == Append(es \o SubSeq(cs, 1, i), cs[i + 1])
<1>2. /\ l \in Seq(S) /\ r \in Seq(S) /\ Len(l) = Len(es) + i + 1 /\ Len(r) = Len(l)
  BY <1>1
<1>3. ASSUME NEW k \in 1..Len(l)
      PROVE  l[k] = r[k]
  BY <1>1, <1>2, <1>3
<1> QED
  BY <1>2, <1>3

\* What write_array_fp32 and write_array_fp64 write, and what a receiver is told of it.
FloatTells(id, subtype, n, data, cs) ==
  /\ cs \in Seq(Events) /\ Len(cs) = n + 1
  /\ cs[1] = OnArrayBegin(id, FloatKind(subtype), n)
  /\ \A i \in 1..n :
       cs[i + 1] = OnFloat(id, subtype, SubSeq(data, (i - 1) * FloatLen(subtype) + 1, i * FloatLen(subtype)))

LEMMA FloatArrayTold ==
  ASSUME NEW s, NEW d, NEW es \in Seq(Events), Whole(s, d, es), NEW id \in 0..IdMax,
         NEW subtype \in {Fp32, Fp64}, NEW n \in 0..ArrayMax, NEW data \in Seq(Byte),
         Len(data) = n * FloatLen(subtype), NEW cs, FloatTells(id, subtype, n, data, cs)
  PROVE  /\ FloatArrayHead(id, subtype, n) \o data \in Seq(Byte)
         /\ Whole(s \o (FloatArrayHead(id, subtype, n) \o data), d, es \o cs)
<1> DEFINE w == FloatLen(subtype)
           b == FloatArrayHead(id, subtype, n) \o data
           t == s \o b
           q == Len(t) - Len(data)
           begin == OnArrayBegin(id, FloatKind(subtype), n)
<1>1. /\ b \in Seq(Byte) /\ t \in Seq(Byte) /\ d \in Nat /\ q \in 0..Len(t)
      /\ Agree(data, 0, t, q)
      /\ Reaches(t, Going(q, d, FloatItem(id, subtype, n), Append(es, begin)))
  BY FloatArrayHeadIs
<1> HIDE DEF b, t
<1>2. /\ n \in Nat /\ w \in Nat /\ Len(data) = n * w /\ Len(data) \in Nat
      /\ Len(t) \in Nat /\ q \in Nat /\ q + n * w = Len(t)
  BY <1>1, FormatAssumption DEF FloatLen
<1>3. /\ cs \in Seq(Events) /\ Len(cs) = n + 1 /\ cs[1] = begin
      /\ \A i \in 1..n : cs[i + 1] = OnFloat(id, subtype, SubSeq(data, (i - 1) * w + 1, i * w))
  BY DEF FloatTells
<1> HIDE DEF q, w, begin
<1> DEFINE At(i) == Going(q + i * w, d, FloatItem(id, subtype, n - i), es \o SubSeq(cs, 1, i + 1))
           P(i) == i <= n => Reaches(t, At(i))
           S == {i \in Nat : P(i)}
<1>4. 0 \in S
  <2>1. es \o SubSeq(cs, 1, 0 + 1) = Append(es \o SubSeq(cs, 1, 0), cs[0 + 1])
    BY <1>2, <1>3, TellOneMore
  <2>2. es \o SubSeq(cs, 1, 0) = es
    BY <1>3
  <2>3. q + 0 * w = q /\ n - 0 = n /\ 0 + 1 = 1
    BY <1>2
  <2>4. es \o SubSeq(cs, 1, 1) = Append(es, begin)
    BY <1>3, <2>1, <2>2, <2>3
  <2>5. At(0) = Going(q, d, FloatItem(id, subtype, n), Append(es, begin))
    BY <2>3, <2>4
  <2> QED
    BY <1>1, <2>5
<1>5. ASSUME NEW i \in Nat, P(i), i + 1 <= n
      PROVE  Reaches(t, At(i + 1))
  <2> DEFINE p == q + i * w
             more == es \o SubSeq(cs, 1, i + 1)
             k == i * w
  <2>1. i < n /\ n - i \in Nat \ {0} /\ (n - i) - 1 = n - (i + 1) /\ (i + 1) - 1 = i
    BY <1>2, <1>5
  <2>2. k \in Nat /\ (i + 1) * w = k + w /\ k + w <= n * w /\ n * w \in Nat
    BY <1>2, <2>1, Beside
  <2>3. Reaches(t, Going(p, d, FloatItem(id, subtype, n - i), more))
    BY <1>5, <2>1
  <2> HIDE DEF k
  <2>4. p = q + k
    BY DEF k
  <2> HIDE DEF more, p
  <2>5. p \in 0..Len(t) /\ w <= Len(t) - p /\ k \in 0..(Len(data) - 0) /\ w \in 0..(Len(data) - k)
    BY <1>2, <2>2, <2>4
  <2> DEFINE e == OnFloat(id, subtype, SubSeq(t, p + 1, p + w))
  <2>6. Reaches(t, Going(p + w, d, FloatItem(id, subtype, (n - i) - 1), Append(more, e)))
    BY <1>1, <2>1, <2>3, <2>5, FloatStep DEF w
  <2>7. Agree(data, k, t, p) /\ k \in 0..Len(data)
    <3> DEFINE from == 0
    <3>1. from \in 0..Len(data) /\ k \in 0..(Len(data) - from) /\ Agree(data, from, t, q) /\ from + k = k
      BY <1>1, <1>2, <2>5, <2>2
    <3> HIDE DEF from
    <3>2. Agree(data, from + k, t, q + k)
      BY <1>1, <3>1, AgreeBehind
    <3> QED
      BY <3>1, <3>2, <2>4, <2>5, <2>2, <1>2
  <2>8. SubSeq(t, p + 1, p + w) = SubSeq(data, k + 1, k + w)
    BY <1>1, <2>5, <2>7, AgreeSubSeq
  <2>9. cs[(i + 1) + 1] = e
    <3>1. i + 1 \in 1..n
      BY <1>2, <1>5
    <3>2. cs[(i + 1) + 1] = OnFloat(id, subtype, SubSeq(data, ((i + 1) - 1) * w + 1, (i + 1) * w))
      BY <1>3, <3>1
    <3>3. ((i + 1) - 1) * w = k
      BY <2>1 DEF k
    <3> QED
      BY <2>2, <2>8, <3>2, <3>3
  <2>10. es \o SubSeq(cs, 1, (i + 1) + 1) = Append(more, e)
    <3>1. i + 1 \in 0..(Len(cs) - 1)
      BY <1>2, <1>3, <1>5
    <3>2. es \o SubSeq(cs, 1, (i + 1) + 1) = Append(es \o SubSeq(cs, 1, i + 1), cs[(i + 1) + 1])
      BY <1>3, <3>1, TellOneMore
    <3> QED
      BY <2>9, <3>2 DEF more
  <2>11. q + (i + 1) * w = p + w
    BY <1>2, <2>2, <2>4
  <2> QED
    BY <2>1, <2>6, <2>10, <2>11
<1>6. \A i \in S : i + 1 \in S
  BY <1>5
<1> HIDE DEF At
<1>7. Reaches(t, At(n))
  <2>1. S \in SUBSET Nat
    OBVIOUS
  <2> HIDE DEF S
  <2>2. S = Nat
    BY <1>4, <1>6, <2>1, Induction
  <2>3. n \in S
    BY <1>2, <2>2
  <2> QED
    BY <1>2, <2>3 DEF S
<1>8. At(n) = Going(Len(t), d, FloatItem(id, subtype, 0), es \o cs)
  <2>1. n - n = 0 /\ q + n * w = Len(t)
    BY <1>2
  <2>2. SubSeq(cs, 1, n + 1) = cs
    BY <1>3
  <2> QED
    BY <2>1, <2>2 DEF At
<1>9. Reaches(t, Going(Len(t), d, NoResume, es \o cs))
  BY <1>7, <1>8, ItemEnds DEF FloatItem
<1> QED
  BY <1>1, <1>9 DEF Whole, t, b

-----------------------------------------------------------------------------
(***************************************************************************)
(* Calls: what each was asked to write, and what it tells a receiver.      *)
(***************************************************************************)
LEMMA ScalarTells ==
  ASSUME NEW id, NEW v, NEW kind \in {KindUnsigned, KindSigned}, call.asked = Scalar(id, kind, v)
  PROVE  Tells = <<IF kind = KindSigned THEN OnSigned(id, v) ELSE OnUnsigned(id, v)>>
<1>1. /\ call.asked # <<>> /\ call.asked[1] = "scalar" /\ call.asked[2] = id
      /\ call.asked[3] = kind /\ call.asked[4] = <<v>>
  BY DEF Scalar
<1> QED
  BY <1>1 DEF Tells, KindUnsigned, KindSigned, KindFp32, KindFp64

LEMMA FixlenTells ==
  ASSUME NEW id, NEW subtype \in FixlenTypes, NEW data \in Seq(Byte),
         call.asked = Fixlen(id, subtype, data)
  PROVE  Tells = <<OnFixlenBegin(id, subtype, Len(data)),
                   IF subtype \in {Fp32, Fp64} THEN OnFloat(id, subtype, data)
                   ELSE OnChunk(id, subtype, Len(data), 0, data)>>
<1>1. /\ call.asked # <<>> /\ call.asked[1] = "fixlen" /\ call.asked[2] = id
      /\ call.asked[3] = subtype /\ call.asked[4] = data
  BY DEF Fixlen
<1> QED
  BY <1>1 DEF Tells

LEMMA IntArrayTells ==
  ASSUME NEW id, NEW vs \in Seq(Int), NEW kind \in {KindUnsigned, KindSigned},
         call.asked = Array(id, kind, vs)
  PROVE  Tells = <<OnArrayBegin(id, kind, Len(vs))>> \o
                 [i \in 1..Len(vs) |-> IF kind = KindSigned THEN OnSigned(id, vs[i])
                                       ELSE OnUnsigned(id, vs[i])]
<1>1. /\ call.asked # <<>> /\ call.asked[1] = "array" /\ call.asked[2] = id
      /\ call.asked[3] = kind /\ call.asked[4] = vs
  BY DEF Array
<1>2. kind \notin {KindFp32, KindFp64}
  BY DEF KindUnsigned, KindSigned, KindFp32, KindFp64
<1> QED
  BY <1>1, <1>2 DEF Tells, KindUnsigned, KindSigned, KindFp32, KindFp64

LEMMA FloatArrayTells ==
  ASSUME NEW id, NEW data \in Seq(Byte), NEW subtype \in {Fp32, Fp64}, NEW n \in Nat,
         n = Len(data) \div FloatLen(subtype),
         call.asked = Array(id, FloatKind(subtype), data)
  PROVE  Tells = <<OnArrayBegin(id, FloatKind(subtype), n)>> \o
                 [i \in 1..n |->
                    OnFloat(id, subtype, SubSeq(data, (i - 1) * FloatLen(subtype) + 1, i * FloatLen(subtype)))]
<1>1. /\ call.asked # <<>> /\ call.asked[1] = "array" /\ call.asked[2] = id
      /\ call.asked[3] = FloatKind(subtype) /\ call.asked[4] = data
  BY DEF Array
<1>2. /\ FloatKind(subtype) \in {KindFp32, KindFp64}
      /\ FloatKind(subtype) \notin {KindUnsigned, KindSigned}
      /\ (IF FloatKind(subtype) = KindFp32 THEN Fp32 ELSE Fp64) = subtype
  BY DEF FloatKind, KindUnsigned, KindSigned, KindFp32, KindFp64
<1> HIDE DEF FloatLen
<1> QED
  BY <1>1, <1>2 DEF Tells

\* The callbacks of integers and floats, and of the beginning of a field.
LEMMA TellsType ==
  ASSUME NEW id \in 0..IdMax
  PROVE  /\ \A v \in Int : OnUnsigned(id, v) \in Events /\ OnSigned(id, v) \in Events
         /\ \A data \in Seq(Byte), subtype \in 0..3 : OnFloat(id, subtype, data) \in Events
         /\ \A data \in Seq(Byte), subtype \in 0..3 : OnChunk(id, subtype, Len(data), 0, data) \in Events
         /\ \A n \in Nat, type \in 0..3 : OnFixlenBegin(id, type, n) \in Events /\ OnArrayBegin(id, type, n) \in Events
         /\ OnSequenceBegin(id) \in Events /\ OnSequenceEnd \in Events
<1> DEFINE none == <<>>
<1>1. id \in Nat /\ none \in Seq(Byte)
  BY FormatAssumption
<1>2. CallbackNames = {"unsigned", "signed", "float", "fixlen_begin", "chunk", "array_begin",
                       "sequence_begin", "sequence_end"}
  BY DEF CallbackNames
<1>3. \A v \in Int : OnUnsigned(id, v) \in Events /\ OnSigned(id, v) \in Events
  BY <1>1, <1>2, CallbackType DEF OnUnsigned, OnSigned
<1>4. \A data \in Seq(Byte), subtype \in 0..3 : OnFloat(id, subtype, data) \in Events
  BY <1>1, <1>2, CallbackType DEF OnFloat
<1>5. \A data \in Seq(Byte), subtype \in 0..3 : OnChunk(id, subtype, Len(data), 0, data) \in Events
  BY <1>1, <1>2, CallbackType DEF OnChunk
<1>6. \A n \in Nat, type \in 0..3 : OnFixlenBegin(id, type, n) \in Events /\ OnArrayBegin(id, type, n) \in Events
  <2>1. ASSUME NEW n \in Nat, NEW type \in 0..3
        PROVE  OnFixlenBegin(id, type, n) \in Events
    <3>1. OnFixlenBegin(id, type, n) = Callback("fixlen_begin", id, type, n, 0, none)
      BY DEF OnFixlenBegin
    <3> HIDE DEF none
    <3> QED
      BY <1>1, <1>2, <3>1, CallbackType
  <2>2. ASSUME NEW n \in Nat, NEW type \in 0..3
        PROVE  OnArrayBegin(id, type, n) \in Events
    <3>1. OnArrayBegin(id, type, n) = Callback("array_begin", id, type, n, 0, none)
      BY DEF OnArrayBegin
    <3> HIDE DEF none
    <3> QED
      BY <1>1, <1>2, <3>1, CallbackType
  <2> QED
    BY <2>1, <2>2
<1>7. OnSequenceBegin(id) \in Events /\ OnSequenceEnd \in Events
  <2>1. OnSequenceBegin(id) = Callback("sequence_begin", id, 0, 0, 0, none)
    BY DEF OnSequenceBegin
  <2>2. OnSequenceEnd = Callback("sequence_end", 0, 0, 0, 0, none)
    BY DEF OnSequenceEnd
  <2> HIDE DEF none
  <2> QED
    BY <1>1, <1>2, <2>1, <2>2, CallbackType
<1> QED
  BY <1>3, <1>4, <1>5, <1>6, <1>7

\* The field is written as one body, and tells a receiver all of it.
WholeField ==
  /\ call.elements = <<>>
  /\ \A s, d : \A es \in Seq(Events) :
       Whole(s, d, es) => Whole(s \o call.body, d, es \o Tells)

\* The array is written as a body, which tells that it begins, and an element after the
\* other; the body is longer than its header.
IntsLeft(n) == IntItem(call.asked[2], call.asked[3], n)
ArrayField ==
  /\ Len(Tells) = Len(call.elements) + 1
  /\ \A s, d : \A es \in Seq(Events) :
       Whole(s, d, es) =>
         /\ s \o call.body \in Seq(Byte)
         /\ Reaches(s \o call.body,
                    Going(Len(s \o call.body), d, IntsLeft(Len(call.elements)), es \o SubSeq(Tells, 1, 1)))
  /\ \A i \in 1..Len(call.elements) : \E u \in Unsigned :
       /\ call.elements[i] = Varint(u)
       /\ Tells[i + 1] = IF call.asked[3] = KindSigned THEN OnSigned(call.asked[2], ZigZagDecode(u))
                         ELSE OnUnsigned(call.asked[2], u)
  /\ \E j \in 1..(Len(call.body) - 1) : call.body[j] < Continue

\* A sequence behind a first element.
LEMMA BehindFirst ==
  ASSUME NEW S, NEW e \in S, NEW rest \in Seq(S), NEW all, all = <<e>> \o rest
  PROVE  /\ all \in Seq(S) /\ Len(all) = Len(rest) + 1 /\ all[1] = e
         /\ \A i \in 1..Len(rest) : all[i + 1] = rest[i]
<1>1. all \in Seq(S) /\ Len(all) = Len(rest) + 1
  OBVIOUS
<1>2. all[1] = e
  OBVIOUS
<1>3. \A i \in 1..Len(rest) : all[i + 1] = rest[i]
  OBVIOUS
<1> QED
  BY <1>1, <1>2, <1>3

LEMMA WholeDiv ==
  ASSUME NEW n \in Nat, NEW w \in Nat \ {0}, NEW l, l = n * w
  PROVE  n = l \div w
OBVIOUS

\* A call of a writer, or of write_sequence_end or its keeping variant.
Call(kind, body, elements, asked) ==
  [kind |-> kind, body |-> body, elements |-> elements, asked |-> asked]

UnsignedCall(id, v) ==
  Call("content", FieldVarint(id, T_VARINT_UNSIGNED, v), <<>>, Scalar(id, KindUnsigned, v))
SignedCall(id, v) ==
  Call("content", FieldVarint(id, T_VARINT_SIGNED, ZigZag(v)), <<>>, Scalar(id, KindSigned, v))
FixlenCall(id, data, subtype) ==
  Call("content", FixlenHead(id, subtype, Len(data)) \o data, <<>>, Fixlen(id, subtype, data))
FloatsCall(id, data, subtype, n) ==
  Call("content", FloatArrayHead(id, subtype, n) \o data, <<>>, Array(id, FloatKind(subtype), data))
UnsignedArrayCall(id, vs) ==
  Call("content", FieldVarint(id, T_VARINTARRAY_UNSIGNED, Len(vs)), VarintRun(vs),
       Array(id, KindUnsigned, vs))
SignedArrayCall(id, vs) ==
  Call("content", FieldVarint(id, T_VARINTARRAY_SIGNED, Len(vs)),
       VarintRun([i \in DOMAIN vs |-> ZigZag(vs[i])]), Array(id, KindSigned, vs))
ClosingCall(kind) == Call(kind, EndMarker, <<>>, <<>>)

AcceptedField(c) ==
  \E id \in 0..IdMax :
    \/ \E v \in Unsigned : c = UnsignedCall(id, v)
    \/ \E v \in Signed : c = SignedCall(id, v)
    \/ \E data \in Seq(Byte), subtype \in FixlenTypes :
         FixlenAgrees(data, subtype) /\ c = FixlenCall(id, data, subtype)
    \/ \E data \in Seq(Byte), subtype \in {Fp32, Fp64}, n \in 0..ArrayMax :
         Len(data) = n * FloatLen(subtype) /\ c = FloatsCall(id, data, subtype, n)
    \/ \E vs \in Seq(Unsigned) : Len(vs) <= ArrayMax /\ c = UnsignedArrayCall(id, vs)
    \/ \E vs \in Seq(Signed) : Len(vs) <= ArrayMax /\ c = SignedArrayCall(id, vs)

\* What is told of a call's field.
FieldTold == Tells \in Seq(Events) /\ Tells # <<>> /\ (WholeField \/ ArrayField)

LEMMA UnsignedFieldTold ==
  ASSUME NEW id \in 0..IdMax, NEW v \in Unsigned, call = UnsignedCall(id, v)
  PROVE  FieldTold
<1> DEFINE e == OnUnsigned(id, v)
<1>1. /\ call.body = FieldVarint(id, T_VARINT_UNSIGNED, v) /\ call.elements = <<>>
      /\ call.asked = Scalar(id, KindUnsigned, v)
  BY DEF UnsignedCall, Call
<1>2. Tells = <<e>>
  BY <1>1, ScalarTells DEF KindUnsigned, KindSigned
<1>3. e \in Events
  BY TellsType, UnsignedType
<1>4. ASSUME NEW s, NEW d, NEW es \in Seq(Events), Whole(s, d, es)
      PROVE  Whole(s \o call.body, d, es \o Tells)
  <2>1. Whole(s \o call.body, d, Append(es, e))
    BY <1>1, <1>4, UnsignedTold
  <2> HIDE DEF e
  <2>2. Append(es, e) = es \o <<e>>
    BY <1>3
  <2> QED
    BY <1>2, <2>1, <2>2
<1> HIDE DEF e
<1> QED
  BY <1>1, <1>2, <1>3, <1>4 DEF FieldTold, WholeField

LEMMA SignedFieldTold ==
  ASSUME NEW id \in 0..IdMax, NEW v \in Signed, call = SignedCall(id, v)
  PROVE  FieldTold
<1> DEFINE e == OnSigned(id, v)
<1>1. /\ call.body = FieldVarint(id, T_VARINT_SIGNED, ZigZag(v)) /\ call.elements = <<>>
      /\ call.asked = Scalar(id, KindSigned, v)
  BY DEF SignedCall, Call
<1>2. Tells = <<e>>
  BY <1>1, ScalarTells
<1>3. e \in Events
  <2>1. v \in Int
    BY DEF Signed
  <2> QED
    BY <2>1, TellsType
<1>4. ASSUME NEW s, NEW d, NEW es \in Seq(Events), Whole(s, d, es)
      PROVE  Whole(s \o call.body, d, es \o Tells)
  <2>1. Whole(s \o call.body, d, Append(es, e))
    BY <1>1, <1>4, SignedTold
  <2> HIDE DEF e
  <2>2. Append(es, e) = es \o <<e>>
    BY <1>3
  <2> QED
    BY <1>2, <2>1, <2>2
<1> HIDE DEF e
<1> QED
  BY <1>1, <1>2, <1>3, <1>4 DEF FieldTold, WholeField

LEMMA FixlenFieldTold ==
  ASSUME NEW id \in 0..IdMax, NEW data \in Seq(Byte), NEW subtype \in FixlenTypes,
         FixlenAgrees(data, subtype), call = FixlenCall(id, data, subtype)
  PROVE  FieldTold
<1> DEFINE e == OnFixlenBegin(id, subtype, Len(data))
           f == IF subtype \in {Fp32, Fp64} THEN OnFloat(id, subtype, data)
                ELSE OnChunk(id, subtype, Len(data), 0, data)
<1>1. /\ call.body = FixlenHead(id, subtype, Len(data)) \o data /\ call.elements = <<>>
      /\ call.asked = Fixlen(id, subtype, data)
  BY DEF FixlenCall, Call
<1>2. Tells = <<e, f>>
  BY <1>1, FixlenTells
<1>3. e \in Events /\ f \in Events
  <2>1. subtype \in 0..3 /\ Len(data) \in Nat
    BY DEF FixlenTypes, Fp32, Fp64, Str, Blob
  <2> QED
    BY <2>1, TellsType
<1>4. ASSUME NEW s, NEW d, NEW es \in Seq(Events), Whole(s, d, es)
      PROVE  Whole(s \o call.body, d, es \o Tells)
  <2>1. Whole(s \o call.body, d, Append(Append(es, e), f))
    BY <1>1, <1>4, FixlenTold
  <2> HIDE DEF e, f
  <2>2. Append(Append(es, e), f) = es \o <<e, f>>
    BY <1>3
  <2> QED
    BY <1>2, <2>1, <2>2
<1> HIDE DEF e, f
<1> QED
  BY <1>1, <1>2, <1>3, <1>4 DEF FieldTold, WholeField

LEMMA FloatsFieldTold ==
  ASSUME NEW id \in 0..IdMax, NEW data \in Seq(Byte), NEW subtype \in {Fp32, Fp64},
         NEW n \in 0..ArrayMax, Len(data) = n * FloatLen(subtype),
         call = FloatsCall(id, data, subtype, n)
  PROVE  FieldTold
<1> DEFINE w == FloatLen(subtype)
           begin == OnArrayBegin(id, FloatKind(subtype), n)
           elem(i) == OnFloat(id, subtype, SubSeq(data, (i - 1) * w + 1, i * w))
           rest == [i \in 1..n |-> elem(i)]
<1>1. /\ call.body = FloatArrayHead(id, subtype, n) \o data /\ call.elements = <<>>
      /\ call.asked = Array(id, FloatKind(subtype), data)
  BY DEF FloatsCall, Call
<1>2. n \in Nat /\ w \in Nat \ {0} /\ n = Len(data) \div w
  <2>1. n \in Nat /\ w \in Nat \ {0}
    BY FormatAssumption DEF FloatLen
  <2>2. Len(data) = n * w
    OBVIOUS
  <2> HIDE DEF w
  <2> QED
    BY <2>1, <2>2, WholeDiv
<1>3. Tells = <<begin>> \o rest
  BY <1>1, <1>2, FloatArrayTells
<1>4. begin \in Events /\ \A i \in 1..n : elem(i) \in Events
  <2>1. subtype \in 0..3 /\ FloatKind(subtype) \in 0..3
    BY DEF Fp32, Fp64, FloatKind, KindFp32, KindFp64
  <2>2. ASSUME NEW i \in 1..n
        PROVE  SubSeq(data, (i - 1) * w + 1, i * w) \in Seq(Byte)
    <3>1. i - 1 \in Nat /\ i - 1 < n /\ (i - 1) + 1 = i
      BY <1>2
    <3> HIDE DEF w
    <3> DEFINE k == (i - 1) * w
    <3>2. k \in Nat /\ i * w = k + w /\ k + w <= n * w /\ n * w \in Nat
      BY <1>2, <3>1, Beside
    <3>3. Len(data) = n * w
      BY DEF w
    <3> HIDE DEF k
    <3>4. SubSeq(data, k + 1, k + w) \in Seq(Byte)
      BY <1>2, <3>2, <3>3
    <3> QED
      BY <3>2, <3>4 DEF k
  <2> QED
    BY <1>2, <2>1, <2>2, TellsType
<1> HIDE DEF begin, elem
<1>5. /\ Tells \in Seq(Events) /\ Len(Tells) = n + 1 /\ Tells[1] = begin
      /\ \A i \in 1..n : Tells[i + 1] = elem(i)
  <2>1. rest \in Seq(Events) /\ Len(rest) = n /\ \A i \in 1..n : rest[i] = elem(i)
    BY <1>2, <1>4
  <2> HIDE DEF rest
  <2> QED
    BY <1>2, <1>3, <1>4, <2>1, BehindFirst
<1>6. FloatTells(id, subtype, n, data, Tells)
  BY <1>5 DEF FloatTells, begin, elem
<1>7. ASSUME NEW s, NEW d, NEW es \in Seq(Events), Whole(s, d, es)
      PROVE  Whole(s \o call.body, d, es \o Tells)
  BY <1>1, <1>6, <1>7, FloatArrayTold
<1>8. Tells # <<>>
  BY <1>2, <1>5
<1> QED
  BY <1>1, <1>5, <1>7, <1>8 DEF FieldTold, WholeField

\* Only the last byte of an encoding has no continuation bit.
LEMMA LastByteEnds ==
  ASSUME NEW v \in Nat
  PROVE  /\ Varint(v) \in Seq(Byte) /\ Len(Varint(v)) \in Nat \ {0}
         /\ \A i \in 1..Len(Varint(v)) : Varint(v)[i] < Continue <=> i = Len(Varint(v))
<1> DEFINE n == VarintLen(v)
<1>1. n \in Nat \ {0}
  BY VarintLenBounds, MaxVarintLenAssumption
<1>2. Varint(v) = [i \in 1..n |-> VarintByte(v, i)]
  BY DEF Varint
<1>3. Varint(v) \in Seq(Byte)
  BY VarintType
<1>4. \A i \in 1..n : VarintByte(v, i) < Continue <=> i = n
  BY ByteCarries
<1> HIDE DEF n
<1>5. Len(Varint(v)) = n
  BY <1>1, <1>2
<1> QED
  BY <1>1, <1>2, <1>3, <1>4, <1>5

\* A header with a varint behind it holds a byte without one before its last.
LEMMA FieldVarintHasTwo ==
  ASSUME NEW id \in Nat, NEW type \in 0..7, NEW v \in Nat
  PROVE  \E j \in 1..(Len(FieldVarint(id, type, v)) - 1) : FieldVarint(id, type, v)[j] < Continue
<1> DEFINE h == Varint(8 * id + type)
           w == Varint(v)
<1>1. /\ h \in Seq(Byte) /\ Len(h) \in Nat \ {0}
      /\ \A i \in 1..Len(h) : h[i] < Continue <=> i = Len(h)
  <2>1. 8 * id + type \in Nat
    OBVIOUS
  <2> QED
    BY <2>1, LastByteEnds
<1>2. w \in Seq(Byte) /\ Len(w) \in Nat \ {0}
  BY LastByteEnds
<1>3. FieldVarint(id, type, v) = h \o w
  BY DEF FieldVarint, Header
<1> HIDE DEF h, w
<1>4. /\ Len(h \o w) = Len(h) + Len(w) /\ Len(h) \in 1..Len(h)
      /\ (h \o w)[Len(h)] = h[Len(h)]
  BY <1>1, <1>2
<1>5. Len(h) \in 1..(Len(h \o w) - 1) /\ (h \o w)[Len(h)] < Continue
  BY <1>1, <1>2, <1>4
<1> QED
  BY <1>3, <1>5

\* A sequence of its first element.
LEMMA OneOf ==
  ASSUME NEW S, NEW s \in Seq(S), NEW e \in S, Len(s) >= 1, s[1] = e
  PROVE  SubSeq(s, 1, 1) = <<e>>
<1> DEFINE t == SubSeq(s, 1, 1)
<1>1. t \in Seq(S) /\ Len(t) = 1 /\ t[1] = e
  OBVIOUS
<1> HIDE DEF t
<1>2. t = <<e>>
  BY <1>1
<1> QED
  BY <1>2 DEF t

LEMMA IntsFieldTold ==
  ASSUME NEW id \in 0..IdMax, NEW type \in IntArrays, NEW kind,
         kind = IF type = T_VARINTARRAY_SIGNED THEN KindSigned ELSE KindUnsigned,
         NEW vs \in Seq(Int), NEW us \in Seq(Unsigned), Len(us) = Len(vs), Len(vs) <= ArrayMax,
         \A i \in 1..Len(vs) : vs[i] = IF kind = KindSigned THEN ZigZagDecode(us[i]) ELSE us[i],
         call.body = FieldVarint(id, type, Len(vs)), call.elements = VarintRun(us),
         call.asked = Array(id, kind, vs)
  PROVE  FieldTold
<1> DEFINE n == Len(vs)
           begin == OnArrayBegin(id, kind, n)
           elem(i) == IF kind = KindSigned THEN OnSigned(id, vs[i]) ELSE OnUnsigned(id, vs[i])
           rest == [i \in 1..n |-> elem(i)]
<1>1. kind \in {KindUnsigned, KindSigned} /\ kind \in 0..3 /\ n \in 0..ArrayMax /\ n \in Nat
  BY FormatAssumption DEF KindUnsigned, KindSigned
<1>2. call.asked[2] = id /\ call.asked[3] = kind
  BY DEF Array
<1>3. Tells = <<begin>> \o rest
  BY <1>1, IntArrayTells
<1>4. begin \in Events /\ \A i \in 1..n : elem(i) \in Events
  BY <1>1, TellsType
<1>5. call.elements = [i \in 1..n |-> Varint(us[i])] /\ Len(call.elements) = n
  <2>1. DOMAIN us = 1..n
    OBVIOUS
  <2> QED
    BY <1>1, <2>1 DEF VarintRun
<1>6. \A i \in 1..n : elem(i) = IF kind = KindSigned THEN OnSigned(id, ZigZagDecode(us[i]))
                                ELSE OnUnsigned(id, us[i])
  OBVIOUS
<1>7. \E j \in 1..(Len(call.body) - 1) : call.body[j] < Continue
  <2>1. id \in Nat /\ type \in 0..7
    BY FormatAssumption, Tags
  <2>2. call.body = FieldVarint(id, type, n)
    OBVIOUS
  <2> HIDE DEF n
  <2>3. \E j \in 1..(Len(FieldVarint(id, type, n)) - 1) : FieldVarint(id, type, n)[j] < Continue
    BY <1>1, <2>1, FieldVarintHasTwo
  <2> QED
    BY <2>2, <2>3
<1>8. ASSUME NEW s, NEW d, NEW es \in Seq(Events), Whole(s, d, es)
      PROVE  /\ s \o call.body \in Seq(Byte)
             /\ Reaches(s \o call.body, Going(Len(s \o call.body), d, IntItem(id, kind, n), Append(es, begin)))
  BY <1>1, <1>8, IntArrayTold
<1> HIDE DEF begin, elem
<1>9. /\ Tells \in Seq(Events) /\ Len(Tells) = n + 1 /\ Tells[1] = begin
      /\ \A i \in 1..n : Tells[i + 1] = elem(i)
  <2>1. rest \in Seq(Events) /\ Len(rest) = n /\ \A i \in 1..n : rest[i] = elem(i)
    BY <1>1, <1>4
  <2> HIDE DEF rest
  <2> QED
    BY <1>1, <1>3, <1>4, <2>1, BehindFirst
<1> HIDE DEF n
<1>10. Tells # <<>> /\ SubSeq(Tells, 1, 1) = <<begin>>
  <2>1. Tells # <<>>
    BY <1>1, <1>9
  <2>2. Tells[1] = begin /\ Len(Tells) \in Nat /\ 1 <= Len(Tells)
    BY <1>1, <1>9
  <2>3. SubSeq(Tells, 1, 1) = <<begin>>
    BY <1>4, <1>9, <2>2, OneOf
  <2> QED
    BY <2>1, <2>3
<1>11. ASSUME NEW es \in Seq(Events)
       PROVE  Append(es, begin) = es \o SubSeq(Tells, 1, 1)
  <2>1. Append(es, begin) = es \o <<begin>>
    BY <1>4
  <2> QED
    BY <1>10, <2>1
<1>12. IntsLeft(Len(call.elements)) = IntItem(id, kind, n)
  BY <1>2, <1>5 DEF IntsLeft
<1>13. ArrayField
  <2>1. ASSUME NEW s, NEW d, NEW es \in Seq(Events), Whole(s, d, es)
        PROVE  /\ s \o call.body \in Seq(Byte)
               /\ Reaches(s \o call.body,
                    Going(Len(s \o call.body), d, IntsLeft(Len(call.elements)), es \o SubSeq(Tells, 1, 1)))
    BY <1>8, <1>11, <1>12, <2>1
  <2>2. ASSUME NEW i \in 1..Len(call.elements)
        PROVE  \E u \in Unsigned :
                 /\ call.elements[i] = Varint(u)
                 /\ Tells[i + 1] = IF call.asked[3] = KindSigned THEN OnSigned(call.asked[2], ZigZagDecode(u))
                                   ELSE OnUnsigned(call.asked[2], u)
    <3>1. i \in 1..n /\ us[i] \in Unsigned
      BY <1>5 DEF n
    <3> QED
      BY <1>2, <1>5, <1>6, <1>9, <3>1
  <2> QED
    BY <1>5, <1>7, <1>9, <2>1, <2>2 DEF ArrayField
<1> QED
  BY <1>9, <1>10, <1>13 DEF FieldTold

LEMMA UnsignedArrayFieldTold ==
  ASSUME NEW id \in 0..IdMax, NEW vs \in Seq(Unsigned), Len(vs) <= ArrayMax,
         call = UnsignedArrayCall(id, vs)
  PROVE  FieldTold
<1>1. /\ call.body = FieldVarint(id, T_VARINTARRAY_UNSIGNED, Len(vs))
      /\ call.elements = VarintRun(vs) /\ call.asked = Array(id, KindUnsigned, vs)
  BY DEF UnsignedArrayCall, Call
<1>2. T_VARINTARRAY_UNSIGNED \in IntArrays /\ T_VARINTARRAY_UNSIGNED # T_VARINTARRAY_SIGNED
      /\ KindUnsigned # KindSigned
  BY DEF IntArrays, T_VARINTARRAY_UNSIGNED, T_VARINTARRAY_SIGNED, KindUnsigned, KindSigned
<1>3. vs \in Seq(Int)
  <2>1. Unsigned \subseteq Int
    BY UnsignedType
  <2>2. ASSUME NEW i \in 1..Len(vs)
        PROVE  vs[i] \in Int
    <3>1. vs[i] \in Unsigned
      OBVIOUS
    <3> QED
      BY <2>1, <3>1
  <2> QED
    BY <2>2
<1> QED
  BY <1>1, <1>2, <1>3, IntsFieldTold

LEMMA SignedArrayFieldTold ==
  ASSUME NEW id \in 0..IdMax, NEW vs \in Seq(Signed), Len(vs) <= ArrayMax,
         call = SignedArrayCall(id, vs)
  PROVE  FieldTold
<1> DEFINE us == [i \in DOMAIN vs |-> ZigZag(vs[i])]
<1>1. /\ call.body = FieldVarint(id, T_VARINTARRAY_SIGNED, Len(vs))
      /\ call.elements = VarintRun(us) /\ call.asked = Array(id, KindSigned, vs)
  BY DEF SignedArrayCall, Call
<1>2. T_VARINTARRAY_SIGNED \in IntArrays
  BY DEF IntArrays
<1>3. vs \in Seq(Int)
  <2>1. Signed \subseteq Int
    BY DEF Signed
  <2>2. ASSUME NEW i \in 1..Len(vs)
        PROVE  vs[i] \in Int
    <3>1. vs[i] \in Signed
      OBVIOUS
    <3> QED
      BY <2>1, <3>1
  <2> QED
    BY <2>2
<1>4. \A i \in 1..Len(vs) : ZigZag(vs[i]) \in Unsigned /\ ZigZagDecode(ZigZag(vs[i])) = vs[i]
  BY ZigZagRoundTrip
<1>5. us \in Seq(Unsigned) /\ Len(us) = Len(vs) /\ \A i \in 1..Len(vs) : us[i] = ZigZag(vs[i])
  BY <1>4
<1> HIDE DEF us
<1> QED
  BY <1>1, <1>2, <1>3, <1>4, <1>5, IntsFieldTold

\* Of every field that a writer accepts, a receiver is told.
LEMMA AcceptedIsTold ==
  ASSUME AcceptedField(call)
  PROVE  FieldTold
<1>1. ASSUME NEW id \in 0..IdMax, NEW data \in Seq(Byte), NEW subtype \in {Fp32, Fp64}, NEW n \in 0..ArrayMax,
             Len(data) = n * FloatLen(subtype), call = FloatsCall(id, data, subtype, n)
      PROVE  FieldTold
  BY <1>1, FloatsFieldTold
<1> QED
  BY <1>1, UnsignedFieldTold, SignedFieldTold, FixlenFieldTold, UnsignedArrayFieldTold,
     SignedArrayFieldTold DEF AcceptedField

-----------------------------------------------------------------------------
(***************************************************************************)
(* The tree of the message, and what is told of it.                        *)
(***************************************************************************)
OpenSequence == [id : 0..IdMax, body : Seq(Events), kept : BOOLEAN]

\* What is told of the top level and the k outermost open sequences.
ToldTo(r, fs, k) == E!VisibleTo(r, fs)[k]

\* What the sequence f adds to it.
Inside(cs, f) == cs \o <<OnSequenceBegin(f.id)>> \o f.body

TellsUpTo(f, r, fs, n) ==
  f = [k \in 0..n |-> IF k = 0 THEN r ELSE Inside(f[k - 1], fs[k])]

\* The recursion of VisibleTo is well founded.
LEMMA TellsPrefix ==
  ASSUME NEW r, NEW fs, NEW n \in Nat
  PROVE  \E f : TellsUpTo(f, r, fs, n)
<1> DEFINE S == {m \in Nat : \E f : TellsUpTo(f, r, fs, m)}
<1>1. 0 \in S
  <2> DEFINE f == [k \in 0..0 |-> r]
  <2>1. TellsUpTo(f, r, fs, 0)
    BY DEF TellsUpTo
  <2> QED  BY <2>1
<1>2. ASSUME NEW m \in S PROVE m + 1 \in S
  <2>1. PICK f : TellsUpTo(f, r, fs, m)
    BY <1>2
  <2> DEFINE g == [k \in 0..(m + 1) |-> IF k = m + 1 THEN Inside(f[m], fs[k]) ELSE f[k]]
  <2>2. m \in Nat
    OBVIOUS
  <2>3. f[0] = r /\ \A k \in 1..m : f[k] = Inside(f[k - 1], fs[k])
    BY <2>1, <2>2 DEF TellsUpTo
  <2>4. \A k \in 0..(m + 1) : g[k] = IF k = 0 THEN r ELSE Inside(g[k - 1], fs[k])
    <3> TAKE k \in 0..(m + 1)
    <3>1. CASE k = 0
      BY <2>2, <2>3, <3>1
    <3>2. CASE k \in 1..m
      BY <2>2, <2>3, <3>2
    <3>3. CASE k = m + 1
      BY <2>2, <3>3
    <3> QED  BY <2>2, <3>1, <3>2, <3>3
  <2>5. g = [k \in 0..(m + 1) |-> g[k]]
    OBVIOUS
  <2>6. TellsUpTo(g, r, fs, m + 1)
    <3> HIDE DEF g
    <3> QED  BY <2>4, <2>5 DEF TellsUpTo
  <2> QED  BY <2>2, <2>6
<1> HIDE DEF S
<1>3. S = Nat
  BY <1>1, <1>2, Induction DEF S
<1> QED  BY <1>3 DEF S

LEMMA TellsPrefixUnique ==
  ASSUME NEW r, NEW fs, NEW m \in Nat, NEW n \in Nat, m <= n, NEW f, NEW g,
         TellsUpTo(f, r, fs, m), TellsUpTo(g, r, fs, n)
  PROVE  \A k \in 0..m : f[k] = g[k]
<1> DEFINE S == {k \in Nat : k <= m => f[k] = g[k]}
<1>1. 0 \in S
  BY DEF TellsUpTo
<1>2. ASSUME NEW k \in S PROVE k + 1 \in S
  BY <1>2 DEF TellsUpTo
<1> HIDE DEF S
<1>3. S = Nat
  BY <1>1, <1>2, Induction DEF S
<1> QED  BY <1>3 DEF S

LEMMA ToldToIs ==
  ASSUME NEW r, NEW fs
  PROVE  /\ ToldTo(r, fs, 0) = r
         /\ \A n \in Nat : ToldTo(r, fs, n + 1) = Inside(ToldTo(r, fs, n), fs[n + 1])
<1> DEFINE f == CHOOSE f : f = [n \in Nat |-> IF n = 0 THEN r ELSE Inside(f[n - 1], fs[n])]
           g(n) == CHOOSE h : TellsUpTo(h, r, fs, n)
           h0 == [n \in Nat |-> g(n)[n]]
<1>1. \A n \in Nat : TellsUpTo(g(n), r, fs, n)
  BY TellsPrefix
<1> HIDE DEF g
<1>2. h0[0] = r
  BY <1>1 DEF TellsUpTo
<1>3. ASSUME NEW n \in Nat, n # 0
      PROVE  h0[n] = Inside(h0[n - 1], fs[n])
  <2>1. n - 1 \in Nat /\ n \in 0..n /\ n - 1 <= n /\ n - 1 \in 0..(n - 1)
    BY <1>3
  <2>2. TellsUpTo(g(n), r, fs, n) /\ TellsUpTo(g(n - 1), r, fs, n - 1)
    BY <1>1, <2>1
  <2>3. g(n - 1)[n - 1] = g(n)[n - 1]
    BY <2>1, <2>2, TellsPrefixUnique
  <2>4. g(n)[n] = Inside(g(n)[n - 1], fs[n])
    BY <1>3, <2>1, <2>2 DEF TellsUpTo
  <2> QED  BY <2>1, <2>3, <2>4
<1>4. h0 = [n \in Nat |-> IF n = 0 THEN r ELSE Inside(h0[n - 1], fs[n])]
  <2>1. h0 = [n \in Nat |-> h0[n]]
    OBVIOUS
  <2> HIDE DEF h0
  <2> QED  BY <1>2, <1>3, <2>1
<1>5. f = [n \in Nat |-> IF n = 0 THEN r ELSE Inside(f[n - 1], fs[n])]
  <2> HIDE DEF h0
  <2> QED  BY <1>4
<1>6. E!VisibleTo(r, fs) = f
  BY DEF E!VisibleTo, Inside
<1> HIDE DEF f
<1>7. \A n \in Nat : n + 1 \in Nat /\ n + 1 # 0 /\ (n + 1) - 1 = n
  OBVIOUS
<1>8. f[0] = r /\ \A n \in Nat : f[n + 1] = Inside(f[(n + 1) - 1], fs[n + 1])
  BY <1>5, <1>7
<1> QED  BY <1>6, <1>7, <1>8 DEF ToldTo

LEMMA ToldToNext ==
  ASSUME NEW r, NEW fs, NEW k \in Nat, NEW n, n = k + 1
  PROVE  ToldTo(r, fs, n) = Inside(ToldTo(r, fs, k), fs[n])
<1>1. \A m \in Nat : ToldTo(r, fs, m + 1) = Inside(ToldTo(r, fs, m), fs[m + 1])
  BY ToldToIs
<1> QED
  BY <1>1

LEMMA InsideType ==
  ASSUME NEW cs \in Seq(Events), NEW f \in OpenSequence
  PROVE  Inside(cs, f) \in Seq(Events)
<1> DEFINE e == OnSequenceBegin(f.id)
<1>1. e \in Events /\ f.body \in Seq(Events)
  BY TellsType DEF OpenSequence
<1> HIDE DEF e
<1>2. cs \o <<e>> \in Seq(Events)
  BY <1>1
<1>3. cs \o <<e>> \o f.body \in Seq(Events)
  BY <1>1, <1>2
<1> QED
  BY <1>3 DEF Inside, e

LEMMA ToldToType ==
  ASSUME NEW r \in Seq(Events), NEW fs \in Seq(OpenSequence)
  PROVE  \A k \in 0..Len(fs) : ToldTo(r, fs, k) \in Seq(Events)
<1> DEFINE S == {k \in Nat : k <= Len(fs) => ToldTo(r, fs, k) \in Seq(Events)}
<1>1. 0 \in S
  BY ToldToIs
<1>2. ASSUME NEW k \in S PROVE k + 1 \in S
  <2> SUFFICES ASSUME k + 1 <= Len(fs)
               PROVE  ToldTo(r, fs, k + 1) \in Seq(Events)
    OBVIOUS
  <2>1. k \in Nat /\ ToldTo(r, fs, k) \in Seq(Events) /\ fs[k + 1] \in OpenSequence
    BY <1>2
  <2>2. ToldTo(r, fs, k + 1) = Inside(ToldTo(r, fs, k), fs[k + 1])
    BY <2>1, ToldToIs
  <2> QED
    BY <2>1, <2>2, InsideType
<1> HIDE DEF S
<1>3. S = Nat
  BY <1>1, <1>2, Induction DEF S
<1> QED  BY <1>3 DEF S

\* It depends on the ids and the bodies of those sequences only.
LEMMA ToldToLocal ==
  ASSUME NEW r, NEW fs, NEW gs, NEW k \in Nat,
         \A i \in 1..k : gs[i].id = fs[i].id /\ gs[i].body = fs[i].body
  PROVE  ToldTo(r, gs, k) = ToldTo(r, fs, k)
<1> DEFINE S == {n \in Nat : n <= k => ToldTo(r, gs, n) = ToldTo(r, fs, n)}
<1>1. 0 \in S
  BY ToldToIs
<1>2. ASSUME NEW n \in S PROVE n + 1 \in S
  <2> SUFFICES ASSUME n + 1 <= k
               PROVE  ToldTo(r, gs, n + 1) = ToldTo(r, fs, n + 1)
    OBVIOUS
  <2>1. n \in Nat /\ n + 1 \in 1..k /\ ToldTo(r, gs, n) = ToldTo(r, fs, n)
    BY <1>2
  <2>2. Inside(ToldTo(r, gs, n), gs[n + 1]) = Inside(ToldTo(r, fs, n), fs[n + 1])
    BY <2>1 DEF Inside
  <2>3. /\ ToldTo(r, gs, n + 1) = Inside(ToldTo(r, gs, n), gs[n + 1])
        /\ ToldTo(r, fs, n + 1) = Inside(ToldTo(r, fs, n), fs[n + 1])
    BY <2>1, ToldToNext
  <2> QED
    BY <2>2, <2>3
<1> HIDE DEF S
<1>3. S = Nat
  BY <1>1, <1>2, Induction DEF S
<1> QED  BY <1>3 DEF S

\* The visible sequences: the innermost of them has content, those further in have none.
ShownTo(fs, k) ==
  /\ k > 0 => E!HasContent(fs[k])
  /\ \A i \in (k + 1)..Len(fs) : ~E!HasContent(fs[i])

LEMMA ShownIs ==
  ASSUME NEW fs, Len(fs) \in Nat, NEW k \in 0..Len(fs), ShownTo(fs, k)
  PROVE  E!Shown(fs) = k
<1>1. \A j \in 0..Len(fs) : ShownTo(fs, j) => j = k
  BY DEF ShownTo
<1>2. E!Shown(fs) = CHOOSE j \in 0..Len(fs) : ShownTo(fs, j)
  BY DEF E!Shown, ShownTo
<1> QED
  BY <1>1, <1>2

LEMMA OtherBody ==
  ASSUME NEW f \in OpenSequence, NEW b \in Seq(Events), NEW g, g = [f EXCEPT !.body = b]
  PROVE  g \in OpenSequence /\ g.id = f.id /\ g.body = b
BY DEF OpenSequence

\* What is told when callbacks are put into the innermost sequence.
Placed(fs, cs) ==
  /\ root' \in Seq(Events) /\ frames' \in Seq(OpenSequence) /\ Len(frames') = Len(fs)
  /\ \A i \in 1..Len(fs) : frames'[i].id = fs[i].id
  /\ Len(fs) > 0 /\ cs # <<>> => E!HasContent(frames'[Len(fs)])
  /\ ToldTo(root', frames', Len(fs)) = ToldTo(root, fs, Len(fs)) \o cs

LEMMA PutPlaces ==
  ASSUME root \in Seq(Events), NEW fs \in Seq(OpenSequence), NEW cs \in Seq(Events), E!Put(fs, cs)
  PROVE  Placed(fs, cs)
<1>1. CASE fs = <<>>
  <2>1. root' = root \o cs /\ frames' = fs /\ Len(fs) = 0
    BY <1>1 DEF E!Put
  <2>2. ToldTo(root', frames', 0) = root' /\ ToldTo(root, fs, 0) = root
    BY ToldToIs
  <2> QED
    BY <2>1, <2>2 DEF Placed
<1>2. CASE fs # <<>>
  <2> DEFINE n == Len(fs)
             m == n - 1
             f == fs[n]
             g == [f EXCEPT !.body = @ \o cs]
  <2>1. root' = root /\ frames' = [fs EXCEPT ![n] = g]
    BY <1>2 DEF E!Put
  <2>2. n \in Nat /\ m \in Nat /\ n = m + 1 /\ n \in 1..n /\ f \in OpenSequence /\ Len(fs) = n
    BY <1>2
  <2> HIDE DEF n, m, f
  <2>3. /\ g \in OpenSequence /\ g.id = f.id /\ g.body = f.body \o cs /\ f.body \in Seq(Events)
        /\ f.id \in 0..IdMax
    <3>1. f.body \in Seq(Events) /\ f.id \in 0..IdMax
      BY <2>2 DEF OpenSequence
    <3> DEFINE b == f.body \o cs
    <3>2. b \in Seq(Events)
      BY <3>1
    <3>3. g = [f EXCEPT !.body = b]
      OBVIOUS
    <3> HIDE DEF g, b
    <3>4. g \in OpenSequence /\ g.id = f.id /\ g.body = b
      BY <2>2, <3>2, <3>3, OtherBody
    <3> QED
      BY <3>1, <3>4 DEF b
  <2> HIDE DEF g
  <2>4. /\ frames' \in Seq(OpenSequence) /\ Len(frames') = n /\ frames'[n] = g
        /\ \A i \in 1..m : frames'[i] = fs[i]
    BY <2>1, <2>2, <2>3
  <2>5. fs[n] = f
    BY DEF f
  <2>6. ToldTo(root', frames', n) = Inside(ToldTo(root', frames', m), g)
    <3>1. \A r, gs : ToldTo(r, gs, n) = Inside(ToldTo(r, gs, m), gs[n])
      BY <2>2, ToldToNext
    <3>2. ToldTo(root', frames', n) = Inside(ToldTo(root', frames', m), frames'[n])
      BY <3>1, Zenon
    <3>3. frames'[n] = g
      BY <2>4
    <3> QED  BY <3>2, <3>3
  <2>7. ToldTo(root, fs, n) = Inside(ToldTo(root, fs, m), f)
    BY <2>2, <2>5, ToldToNext
  <2>8. ToldTo(root', frames', m) = ToldTo(root, fs, m)
    BY <2>1, <2>2, <2>4, ToldToLocal
  <2>9. ToldTo(root, fs, m) \in Seq(Events)
    BY <2>2, ToldToType
  <2>10. Inside(ToldTo(root, fs, m), g) = Inside(ToldTo(root, fs, m), f) \o cs
    <3> DEFINE a == ToldTo(root, fs, m)
               e == OnSequenceBegin(f.id)
    <3>1. a \in Seq(Events) /\ e \in Events
      BY <2>3, <2>9, TellsType
    <3> HIDE DEF a, e
    <3> DEFINE b == a \o <<e>>
               c == f.body
    <3>2. b \in Seq(Events) /\ c \in Seq(Events)
      BY <2>3, <3>1
    <3> HIDE DEF b, c
    <3>3. b \o (c \o cs) = (b \o c) \o cs
      BY <3>2, ConcatAssociative
    <3> QED
      BY <2>3, <3>3 DEF Inside, a, b, c, e
  <2>11. cs # <<>> => E!HasContent(g)
    <3>1. cs # <<>> => g.body # <<>>
      BY <2>3
    <3> QED
      BY <3>1 DEF E!HasContent
  <2>12. \A i \in 1..n : frames'[i].id = fs[i].id
    <3> TAKE i \in 1..n
    <3>1. i \in 1..m \/ i = n
      BY <2>2
    <3> QED
      BY <2>3, <2>4, <2>5, <3>1
  <2> QED
    BY <2>1, <2>2, <2>4, <2>6, <2>7, <2>8, <2>10, <2>11, <2>12 DEF Placed
<1> QED
  BY <1>1, <1>2

-----------------------------------------------------------------------------
(***************************************************************************)
(* The invariant of the refinement.                                        *)
(***************************************************************************)
\* The open sequences whose header is on the wire when no call is under way.
Framed == depth - Len(pending)

\* The tree's open sequences are the stream's; the held-back ones are the innermost,
\* and have no content; the one around them has some.
TreeInv ==
  /\ root \in Seq(Events) /\ frames \in Seq(OpenSequence) /\ Len(frames) = depth
  /\ \A i \in 1..Len(pending) : frames[Framed + i].id = pending[i]
  /\ \A i \in (Framed + 1)..depth : ~E!HasContent(frames[i])
  /\ pc # "body" /\ Framed > 0 => E!HasContent(frames[Framed])
  /\ pc = "body" /\ call.kind = "end" => E!HasContent(frames[depth])

\* A call that writes has an accepted field, or closes an open sequence.
AskedInv ==
  \/ pc = "idle"
  \/ pc # "idle" /\ AcceptedField(call)
  \/ pc = "body" /\ depth > 0 /\ call = ClosingCall("end")
  \/ pc # "idle" /\ depth > 0 /\ call = ClosingCall("keep")

\* The wire, and what is left of an item, are whole items and that item; the items tell
\* of the k outermost open sequences.
InFront(k, item) ==
  \E base : Whole(base, k, ToldTo(root, frames, k)) /\ base \o item = Wire \o todo

\* The wire, and what is left of an array's element, are read up to that element.
InElements ==
  /\ Reaches(Wire \o todo,
             Going(Len(Wire \o todo), depth, IntsLeft(Len(call.elements) - written),
                   ToldTo(root, frames, depth) \o SubSeq(Tells, 1, written + 1)))
  /\ \A i \in 1..Len(todo) : todo[i] < Continue => i = Len(todo)

WireInv ==
  /\ pc = "idle" => Whole(Wire, Framed, ToldTo(root, frames, Framed))
  /\ pc = "commit" => InFront(Committed, SequenceHeader(pending[written + 1]))
  /\ pc = "body" /\ written = 0 => InFront(depth, call.body)
  /\ pc = "body" /\ written > 0 => InElements

Shape == TreeInv /\ AskedInv /\ WireInv

TraceInv ==
  /\ torn \in BOOLEAN
  /\ torn => told = <<>>
  /\ ~torn => Shape /\ told = E!Visible(root, frames)

\* What a step does to the tree.
History ==
  \/ UNCHANGED <<root, frames>>
  \/ /\ pc' = "idle"
     /\ E!Write \/ (\E id \in Ids : E!Begin(id)) \/ E!End \/ E!Keep \/ (\E k \in DOMAIN frames : E!Cut(k))

\* It tears an item, or keeps the invariant.
Traced ==
  \/ torn' = TRUE /\ UNCHANGED <<root, frames>>
  \/ torn' = FALSE /\ Shape' /\ History

-----------------------------------------------------------------------------
(***************************************************************************)
(* Where the wire is whole.                                                *)
(***************************************************************************)
LEMMA VisibleIs ==
  ASSUME NEW r, NEW fs \in Seq(OpenSequence), NEW k \in 0..Len(fs), ShownTo(fs, k)
  PROVE  E!Visible(r, fs) = ToldTo(r, fs, k)
<1>1. E!Shown(fs) = k
  BY ShownIs
<1> QED
  BY <1>1 DEF E!Visible, ToldTo

LEMMA WholeTells ==
  ASSUME NEW r, NEW fs \in Seq(OpenSequence), NEW k \in 0..Len(fs), ShownTo(fs, k),
         NEW w, Whole(w, k, ToldTo(r, fs, k))
  PROVE  Decode(w).events = E!Visible(r, fs)
<1>1. Decode(w).events = ToldTo(r, fs, k)
  BY WholeDecodes
<1> QED
  BY <1>1, VisibleIs

LEMMA TreeShows ==
  ASSUME IInv, TreeInv, pc # "body"
  PROVE  /\ Framed \in 0..Len(frames) /\ ShownTo(frames, Framed)
         /\ frames \in Seq(OpenSequence)
<1>1. Framed \in 0..depth /\ Len(frames) = depth
  BY DEF IInv, TypeOK, HeldBackAreOpen, Framed, TreeInv
<1> QED
  BY <1>1 DEF TreeInv, ShownTo

-----------------------------------------------------------------------------
(***************************************************************************)
(* Calls that only move bytes, or refuse.                                  *)
(***************************************************************************)
LEMMA WireStays ==
  ASSUME IInv, UNCHANGED <<mem, out>> \/ (out' = out \o Handed /\ mem' = <<>>)
  PROVE  Wire' = Wire
<1>1. mem \in Seq(Byte) /\ out \in Seq(Byte)
  BY DEF IInv, TypeOK
<1>2. CASE UNCHANGED <<mem, out>>
  BY <1>2 DEF Wire
<1>3. CASE out' = out \o Handed /\ mem' = <<>>
  <2>1. out \o mem \in Seq(Byte)
    BY <1>1, ConcatProperties
  <2> QED  BY <1>3, <2>1, HandedIsMem, ConcatEmptySeq DEF Wire
<1> QED  BY <1>2, <1>3

LEMMA RememberNothing ==
  ASSUME torn = FALSE, Remember, ~Opened, ~Dropped, ~Returned, ~Failed
  PROVE  UNCHANGED <<root, frames>> /\ torn' = FALSE
BY DEF Remember

LEMMA RememberOpened ==
  ASSUME torn = FALSE, Remember, Opened, ~Dropped, ~Returned, ~Failed
  PROVE  E!Begin(Last(pending')) /\ torn' = FALSE
BY DEF Remember

LEMMA RememberDropped ==
  ASSUME torn = FALSE, Remember, ~Opened, Dropped, ~Returned, ~Failed
  PROVE  frames' = Front(frames) /\ root' = root /\ torn' = FALSE
BY DEF Remember

LEMMA RememberReturned ==
  ASSUME torn = FALSE, Remember, ~Opened, ~Dropped, Returned, ~Failed
  PROVE  /\ IF call.kind = "content" THEN E!Put(frames, Tells) ELSE E!Close
         /\ torn' = FALSE
BY DEF Remember

LEMMA RememberFailed ==
  ASSUME torn = FALSE, Remember, ~Opened, ~Dropped, ~Returned, Failed
  PROVE  /\ torn' = CutInside
         /\ frames' = [i \in DOMAIN frames |->
                        [frames[i] EXCEPT !.kept = @ \/ (~CutInside /\ i = Committed)]]
         /\ UNCHANGED root
BY DEF Remember

LEMMA QuietTraced ==
  ASSUME IInv, Shape, torn = FALSE, Remember, pc = "idle", pc' = "idle",
         Wire' = Wire, UNCHANGED <<depth, pending>>
  PROVE  Traced
<1>1. UNCHANGED <<root, frames>> /\ torn' = FALSE
  <2>1. ~Opened /\ ~Dropped /\ ~Returned /\ ~Failed
    BY DEF Opened, Dropped, Returned, Failed, IInv, TypeOK
  <2> QED
    BY <2>1, RememberNothing
<1>2. TreeInv'
  BY <1>1 DEF Shape, TreeInv, Framed
<1>3. WireInv'
  BY <1>1 DEF Shape, WireInv, Framed
<1>4. AskedInv'
  BY DEF AskedInv
<1> QED
  BY <1>1, <1>2, <1>3, <1>4 DEF Traced, Shape, History

LEMMA RefuseTraced ==
  ASSUME IInv, Shape, torn = FALSE, Remember, CanCall, Refuse
  PROVE  Traced
<1>1. pc = "idle" /\ pc' = "idle" /\ UNCHANGED <<mem, out, depth, pending>>
  BY DEF CanCall, Refuse, Answer, callVars, bufferVars
<1> QED
  BY <1>1, WireStays, QuietTraced

LEMMA FlushTraced ==
  ASSUME IInv, Shape, torn = FALSE, Remember, NEW reply \in Replies, Flush(reply)
  PROVE  Traced
<1>1. CASE dead
  BY <1>1, RefuseTraced DEF Flush, FlushRefused
<1>2. CASE ~dead
  <2>1. pc = "idle" /\ pc' = "idle" /\ UNCHANGED <<depth, pending>>
    BY <1>2 DEF Flush, FlushRefused, CanCall, Answer, callVars
  <2>2. UNCHANGED <<mem, out>> \/ (out' = out \o Handed /\ mem' = <<>>)
    BY <1>2 DEF Flush, FlushRefused, HandOver, Install, bufferVars
  <2> QED
    BY <2>1, <2>2, WireStays, QuietTraced
<1> QED
  BY <1>1, <1>2

LEMMA BufferSetTraced ==
  ASSUME IInv, Shape, torn = FALSE, Remember, NEW b \in Buffers, BufferSet(b)
  PROVE  Traced
<1>1. CASE SetRefused(b)
  BY <1>1, RefuseTraced DEF BufferSet
<1>2. CASE ~SetRefused(b)
  <2>1. pc = "idle" /\ pc' = "idle" /\ UNCHANGED <<depth, pending>>
    BY <1>2 DEF BufferSet, CanCall, Answer, callVars
  <2>2. out' = out \o Handed /\ mem' = <<>>
    BY <1>2 DEF BufferSet, Install
  <2> QED
    BY <2>1, <2>2, WireStays, QuietTraced
<1> QED
  BY <1>1, <1>2

-----------------------------------------------------------------------------
(***************************************************************************)
(* Opening, and dropping what was not begun.                               *)
(***************************************************************************)
LEMMA BeginLazyTraced ==
  ASSUME IInv, Shape, torn = FALSE, Remember, NEW id \in Ids, WriteSequenceBeginLazy(id)
  PROVE  Traced
<1>1. CASE BeginRefused(id)
  BY <1>1, RefuseTraced DEF WriteSequenceBeginLazy
<1>2. CASE ~BeginRefused(id)
  <2>1. /\ pc = "idle" /\ pc' = "idle" /\ pending' = Append(pending, id) /\ depth' = depth + 1
        /\ depth < MaxDepth /\ id \in 0..IdMax /\ UNCHANGED <<mem, out>>
    BY <1>2, CallerAssumption, FormatAssumption
       DEF WriteSequenceBeginLazy, BeginRefused, CanCall, Answer, callVars, bufferVars, IInv, TypeOK
  <2>2. /\ pending \in Seq(0..IdMax) /\ depth \in Nat /\ Len(pending) <= depth
        /\ Len(pending') = Len(pending) + 1 /\ pending'[Len(pending) + 1] = id
        /\ \A i \in 1..Len(pending) : pending'[i] = pending[i]
    BY <2>1, FormatAssumption DEF IInv, TypeOK, HeldBackAreOpen
  <2>3. Last(pending') = id
    BY <2>1, <2>2 DEF Last
  <2>4. E!Begin(id) /\ torn' = FALSE
    <3>1. Opened /\ ~Dropped /\ ~Returned /\ ~Failed
      BY <2>1, <2>2 DEF Opened, Dropped, Returned, Failed
    <3> QED
      BY <2>3, <3>1, RememberOpened
  <2> DEFINE f == E!Frame(id)
  <2>5. f \in OpenSequence /\ ~E!HasContent(f) /\ f.id = id
    <3>1. <<>> \in Seq(Events)
      OBVIOUS
    <3>2. f = [id |-> id, body |-> <<>>, kept |-> FALSE]
      BY DEF E!Frame
    <3>3. f \in OpenSequence
      BY <2>1, <3>1, <3>2 DEF OpenSequence
    <3> QED
      BY <3>2, <3>3 DEF E!HasContent
  <2>6. frames' = Append(frames, f) /\ root' = root
    BY <2>4 DEF E!Begin
  <2> HIDE DEF f
  <2>7. /\ root \in Seq(Events) /\ frames \in Seq(OpenSequence) /\ Len(frames) = depth
    BY DEF Shape, TreeInv
  <2>8. /\ frames' \in Seq(OpenSequence) /\ Len(frames') = depth' /\ frames'[depth'] = f
        /\ \A i \in 1..depth : frames'[i] = frames[i]
    BY <2>1, <2>2, <2>5, <2>6, <2>7
  <2>9. Framed' = Framed /\ Framed \in 0..depth /\ Framed + Len(pending) = depth
    BY <2>1, <2>2 DEF Framed
  <2>10. TreeInv'
    <3>1. ASSUME NEW i \in 1..Len(pending')
          PROVE  frames'[Framed' + i].id = pending'[i]
      <4>1. CASE i \in 1..Len(pending)
        <5>1. Framed + i \in 1..depth /\ frames[Framed + i].id = pending[i]
          BY <2>2, <2>9, <4>1 DEF Shape, TreeInv
        <5> QED
          BY <2>2, <2>8, <2>9, <4>1, <5>1
      <4>2. CASE i = Len(pending) + 1
        <5>1. Framed + i = depth'
          BY <2>1, <2>2, <2>9, <4>2
        <5> QED
          BY <2>2, <2>5, <2>8, <2>9, <4>2, <5>1
      <4> QED
        BY <2>2, <4>1, <4>2
    <3>2. ASSUME NEW i \in (Framed' + 1)..depth'
          PROVE  ~E!HasContent(frames'[i])
      <4>1. CASE i = depth'
        BY <2>5, <2>8, <4>1
      <4>2. CASE i # depth'
        <5>1. i \in 1..depth /\ i \in (Framed + 1)..depth
          BY <2>1, <2>2, <2>9, <4>2
        <5> QED
          BY <2>8, <5>1 DEF Shape, TreeInv
      <4> QED
        BY <4>1, <4>2
    <3>3. Framed' > 0 => E!HasContent(frames'[Framed'])
      <4>1. Framed > 0 => Framed \in 1..depth /\ E!HasContent(frames[Framed])
        BY <2>1, <2>2, <2>9 DEF Shape, TreeInv
      <4> QED
        BY <2>8, <2>9, <4>1
    <3> QED
      BY <2>1, <2>6, <2>7, <2>8, <3>1, <3>2, <3>3 DEF TreeInv
  <2>11. WireInv'
    <3>1. ToldTo(root, frames', Framed) = ToldTo(root, frames, Framed)
      <4>1. \A i \in 1..Framed : frames'[i] = frames[i]
        BY <2>2, <2>8, <2>9
      <4> QED
        BY <2>9, <4>1, ToldToLocal
    <3> QED
      BY <2>1, <2>6, <2>9, <3>1, WireStays DEF Shape, WireInv
  <2>12. AskedInv'
    BY <2>1 DEF AskedInv
  <2> QED
    BY <2>1, <2>4, <2>10, <2>11, <2>12 DEF Traced, Shape, History
<1> QED
  BY <1>1, <1>2

LEMMA DropTraced ==
  ASSUME IInv, Shape, torn = FALSE, Remember, pc = "idle", pc' = "idle", pending # <<>>,
         pending' = Popped, depth' = depth - 1, UNCHANGED <<mem, out>>
  PROVE  Traced
<1>1. /\ pending \in Seq(0..IdMax) /\ depth \in Nat /\ Len(pending) <= depth /\ Len(pending) >= 1
      /\ Len(pending') = Len(pending) - 1
      /\ \A i \in 1..Len(pending') : pending'[i] = pending[i]
  <2>1. pending \in Seq(0..IdMax) /\ depth \in Nat /\ Len(pending) <= depth
    BY DEF IInv, TypeOK, HeldBackAreOpen
  <2>2. Len(pending) >= 1
    BY <2>1
  <2>3. pending' = SubSeq(pending, 1, Len(pending) - 1)
    BY DEF Popped
  <2>4. Len(pending') = Len(pending) - 1 /\ \A i \in 1..(Len(pending) - 1) : pending'[i] = pending[i]
    <3> DEFINE s == pending
               n == Len(pending) - 1
    <3>1. s \in Seq(0..IdMax) /\ n \in 0..Len(s) /\ pending' = SubSeq(s, 1, n)
      BY <2>1, <2>2, <2>3
    <3> HIDE DEF s, n
    <3>2. Len(pending') = n
      BY <3>1
    <3>3. \A i \in 1..n : pending'[i] = s[i]
      BY <3>1
    <3> QED
      BY <3>2, <3>3 DEF s, n
  <2> QED
    BY <2>1, <2>2, <2>4
<1>2. Framed' = Framed /\ Framed \in 0..depth' /\ Framed + Len(pending) = depth /\ depth' \in Nat
      /\ depth \in (Framed + 1)..depth
  BY <1>1 DEF Framed
<1>3. /\ root \in Seq(Events) /\ frames \in Seq(OpenSequence) /\ Len(frames) = depth
  BY DEF Shape, TreeInv
<1>4. frames' = Front(frames) /\ root' = root /\ torn' = FALSE
  <2>1. ~Opened /\ Dropped /\ ~Returned /\ ~Failed
    BY <1>1 DEF Opened, Dropped, Returned, Failed
  <2> QED
    BY <2>1, RememberDropped
<1>5. frames' = E!Outer(frames)
  BY <1>4 DEF Front, E!Outer
<1>6. /\ frames' \in Seq(OpenSequence) /\ Len(frames') = depth'
      /\ \A i \in 1..depth' : frames'[i] = frames[i]
  BY <1>1, <1>2, <1>3, <1>5 DEF E!Outer
<1>7. E!End
  <2>1. frames # <<>>
    BY <1>1, <1>3
  <2>2. E!Innermost(frames) = frames[depth]
    BY <1>3 DEF E!Innermost
  <2>3. ~E!HasContent(frames[depth])
    BY <1>2 DEF Shape, TreeInv
  <2> QED
    BY <1>4, <1>5, <2>1, <2>2, <2>3 DEF E!End
<1>8. TreeInv'
  <2>1. ASSUME NEW i \in 1..Len(pending')
        PROVE  frames'[Framed' + i].id = pending'[i]
    <3>1. i \in 1..Len(pending) /\ Framed + i \in 1..depth'
      BY <1>1, <1>2
    <3>2. frames[Framed + i].id = pending[i]
      BY <3>1 DEF Shape, TreeInv
    <3> QED
      BY <1>1, <1>2, <1>6, <3>1, <3>2
  <2>2. ASSUME NEW i \in (Framed' + 1)..depth'
        PROVE  ~E!HasContent(frames'[i])
    <3>1. i \in (Framed + 1)..depth /\ i \in 1..depth'
      BY <1>1, <1>2
    <3>2. ~E!HasContent(frames[i])
      BY <3>1 DEF Shape, TreeInv
    <3> QED
      BY <1>6, <3>1, <3>2
  <2>3. Framed' > 0 => E!HasContent(frames'[Framed'])
    <3>1. Framed > 0 => Framed \in 1..depth' /\ E!HasContent(frames[Framed])
      BY <1>1, <1>2 DEF Shape, TreeInv
    <3> QED
      BY <1>2, <1>6, <3>1
  <2> QED
    BY <1>3, <1>4, <1>6, <2>1, <2>2, <2>3 DEF TreeInv
<1>9. WireInv'
  <2>1. ToldTo(root, frames', Framed) = ToldTo(root, frames, Framed)
    <3>1. \A i \in 1..Framed : frames'[i] = frames[i]
      BY <1>2, <1>6
    <3> QED
      BY <1>2, <3>1, ToldToLocal
  <2> QED
    BY <1>2, <1>4, <2>1, WireStays DEF Shape, WireInv
<1>10. AskedInv'
  BY DEF AskedInv
<1> QED
  BY <1>4, <1>7, <1>8, <1>9, <1>10 DEF Traced, Shape, History

-----------------------------------------------------------------------------
(***************************************************************************)
(* A call that writes begins.                                              *)
(***************************************************************************)
LEMMA AcceptedKind ==
  ASSUME NEW c, AcceptedField(c)
  PROVE  c.kind = "content"
<1>1. ASSUME NEW body, NEW elements, NEW asked
      PROVE  Call("content", body, elements, asked).kind = "content"
  BY DEF Call
<1>2. \A id, v : UnsignedCall(id, v).kind = "content" /\ SignedCall(id, v).kind = "content"
  BY <1>1 DEF UnsignedCall, SignedCall
<1>3. \A id, data, subtype : FixlenCall(id, data, subtype).kind = "content"
  BY <1>1 DEF FixlenCall
<1>4. \A id, data, subtype, n : FloatsCall(id, data, subtype, n).kind = "content"
  BY <1>1 DEF FloatsCall
<1>5. \A id, vs : UnsignedArrayCall(id, vs).kind = "content" /\ SignedArrayCall(id, vs).kind = "content"
  BY <1>1 DEF UnsignedArrayCall, SignedArrayCall
<1> QED
  BY <1>2, <1>3, <1>4, <1>5, Zenon DEF AcceptedField

LEMMA BeginTraced ==
  ASSUME IInv, Shape, torn = FALSE, Remember, pc = "idle",
         NEW kind, NEW body, NEW elements, NEW asked, NEW commits \in BOOLEAN,
         Begin(kind, body, elements, asked, commits), commits \/ pending = <<>>,
         \/ AcceptedField(Call(kind, body, elements, asked))
         \/ depth > 0 /\ Call(kind, body, elements, asked) = ClosingCall("keep")
         \/ depth > 0 /\ Call(kind, body, elements, asked) = ClosingCall("end") /\ ~commits
  PROVE  Traced
<1>1. /\ call' = Call(kind, body, elements, asked) /\ call'.body = body /\ written' = 0
      /\ UNCHANGED <<mem, out, depth, pending>>
  BY DEF Begin, Call, bufferVars
<1>2. \/ pending # <<>> /\ commits /\ pc' = "commit" /\ todo' = SequenceHeader(Head(pending))
      \/ pending = <<>> /\ pc' = "body" /\ todo' = body
  BY DEF Begin
<1>3. UNCHANGED <<root, frames>> /\ torn' = FALSE
  <2>1. ~Opened /\ ~Dropped /\ ~Returned /\ ~Failed
    BY <1>1, <1>2 DEF Opened, Dropped, Returned, Failed, IInv, TypeOK
  <2> QED
    BY <2>1, RememberNothing
<1>4. /\ Framed' = Framed /\ Wire' = Wire /\ depth \in Nat /\ Len(pending) \in Nat
      /\ Framed \in 0..depth /\ (pending = <<>> => Framed = depth)
      /\ pending \in Seq(0..IdMax)
  <2>1. Framed' = Framed /\ Wire' = Wire
    BY <1>1, WireStays DEF Framed
  <2>2. depth \in Nat /\ pending \in Seq(0..IdMax) /\ Len(pending) <= depth
    BY DEF IInv, TypeOK, HeldBackAreOpen
  <2> QED
    BY <2>1, <2>2 DEF Framed
<1>5. Whole(Wire, Framed, ToldTo(root, frames, Framed))
  BY DEF Shape, WireInv
<1>6. TreeInv'
  <2>1. pc' = "body" /\ call'.kind = "end" => E!HasContent(frames[depth])
    <3>1. CASE AcceptedField(call')
      BY <3>1, AcceptedKind
    <3>2. CASE ~AcceptedField(call')
      <4>1. depth > 0
        BY <1>1, <3>2
      <4>2. pc' = "body" => Framed = depth
        BY <1>2, <1>4
      <4> QED
        BY <4>1, <4>2 DEF Shape, TreeInv
    <3> QED
      BY <3>1, <3>2
  <2> QED
    BY <1>1, <1>3, <1>4, <2>1 DEF Shape, TreeInv
<1>7. AskedInv'
  BY <1>1, <1>2 DEF AskedInv
<1>8. WireInv'
  <2>1. CASE pc' = "commit"
    <3>1. pending # <<>> /\ todo' = SequenceHeader(Head(pending))
      BY <1>2, <2>1
    <3>2. Head(pending) = pending[0 + 1]
      BY <1>4, <3>1
    <3>3. Committed' = Framed
      BY <1>1, <1>4 DEF Committed, Framed
    <3>4. InFront(Committed, SequenceHeader(pending[written + 1]))'
      BY <1>1, <1>3, <1>4, <1>5, <3>1, <3>2, <3>3 DEF InFront
    <3> QED
      BY <2>1, <3>4 DEF WireInv
  <2>2. CASE pc' = "body"
    <3>1. pending = <<>> /\ todo' = body
      BY <1>2, <2>2
    <3>2. InFront(depth, call.body)'
      BY <1>1, <1>3, <1>4, <1>5, <3>1 DEF InFront
    <3> QED
      BY <1>1, <2>2, <3>2 DEF WireInv
  <2> QED
    BY <1>2, <2>1, <2>2
<1> QED
  BY <1>3, <1>6, <1>7, <1>8 DEF Traced, Shape, History

-----------------------------------------------------------------------------
(***************************************************************************)
(* Steps that push bytes of an item.                                       *)
(***************************************************************************)
LEMMA MoveTraced ==
  ASSUME IInv, Shape, torn = FALSE, Remember, pc # "idle",
         UNCHANGED <<depth, pending, pc, call, written>>, Wire' \o todo' = Wire \o todo,
         InElements => \A i \in 1..Len(todo') : todo'[i] < Continue => i = Len(todo')
  PROVE  Traced
<1>1. UNCHANGED <<root, frames>> /\ torn' = FALSE
  <2>1. ~Opened /\ ~Dropped /\ ~Returned /\ ~Failed
    BY DEF Opened, Dropped, Returned, Failed, IInv, TypeOK
  <2> QED
    BY <2>1, RememberNothing
<1>2. TreeInv'
  BY <1>1 DEF Shape, TreeInv, Framed
<1>3. AskedInv'
  BY DEF Shape, AskedInv
<1>4. Tells' = Tells
  BY DEF Tells
<1>5. InElements => InElements'
  BY <1>1, <1>4 DEF InElements, IntsLeft
<1>6. \A k, item : InFront(k, item) => InFront(k, item)'
  BY <1>1 DEF InFront
<1>7. Committed' = Committed
  BY DEF Committed
<1>8. WireInv'
  BY <1>5, <1>6, <1>7 DEF Shape, WireInv
<1> QED
  BY <1>1, <1>2, <1>3, <1>8 DEF Traced, Shape, History

\* A sequence in two parts.
LEMMA Joined ==
  ASSUME NEW S, NEW s \in Seq(S), NEW a \in Seq(S), NEW b \in Seq(S), Len(a) + Len(b) = Len(s),
         \A i \in 1..Len(a) : a[i] = s[i], \A i \in 1..Len(b) : b[i] = s[Len(a) + i]
  PROVE  a \o b = s
<1> DEFINE c == a \o b
<1>1. c \in Seq(S) /\ Len(c) = Len(s)
  OBVIOUS
<1>2. ASSUME NEW i \in 1..Len(s)
      PROVE  c[i] = s[i]
  <2>1. CASE i <= Len(a)
    BY <2>1
  <2>2. CASE i > Len(a)
    <3>1. i - Len(a) \in 1..Len(b) /\ Len(a) + (i - Len(a)) = i
      BY <2>2
    <3>2. (a \o b)[i] = b[i - Len(a)]
      BY <2>2
    <3> QED
      BY <3>1, <3>2
  <2> QED
    BY <2>1, <2>2
<1> HIDE DEF c
<1>3. c = s
  BY <1>1, <1>2
<1> QED
  BY <1>3 DEF c

Parts(S, s, n, a, b) ==
  /\ a \in Seq(S) /\ b \in Seq(S) /\ Len(b) = Len(s) - n /\ a \o b = s
  /\ \A i \in 1..Len(b) : b[i] = s[n + i]

LEMMA TwoParts ==
  ASSUME NEW S, NEW s \in Seq(S), NEW n \in 0..Len(s)
  PROVE  Parts(S, s, n, SubSeq(s, 1, n), SubSeq(s, n + 1, Len(s)))
<1> DEFINE a == SubSeq(s, 1, n)
           b == SubSeq(s, n + 1, Len(s))
<1>1. a \in Seq(S) /\ Len(a) = n
  OBVIOUS
<1>2. \A i \in 1..n : a[i] = s[i]
  OBVIOUS
<1>3. b \in Seq(S) /\ Len(b) = Len(s) - n
  OBVIOUS
<1>4. \A i \in 1..Len(b) : b[i] = s[n + i]
  OBVIOUS
<1> HIDE DEF a, b
<1>5. Len(a) + Len(b) = Len(s)
  BY <1>1, <1>3
<1>6. a \o b = s
  BY <1>1, <1>2, <1>3, <1>4, <1>5, Joined
<1> QED
  BY <1>1, <1>3, <1>4, <1>6 DEF Parts, a, b

LEMMA PushTraced ==
  ASSUME IInv, Shape, torn = FALSE, Remember, Push
  PROVE  Traced
<1> DEFINE n == IF Len(todo) <= end - offset THEN Len(todo) ELSE end - offset
           a == SubSeq(todo, 1, n)
<1>1. /\ todo \in Seq(Byte) /\ mem \in Seq(Byte) /\ out \in Seq(Byte) /\ n \in 0..Len(todo)
      /\ pc # "idle"
  BY DEF IInv, TypeOK, IdleIsClean, Push
<1>2. /\ mem' = mem \o a /\ todo' = SubSeq(todo, n + 1, Len(todo)) /\ out' = out
      /\ UNCHANGED <<depth, pending, pc, call, written>>
  BY DEF Push
<1> HIDE DEF n
<1>3. Parts(Byte, todo, n, a, todo')
  BY <1>1, <1>2, TwoParts
<1> HIDE DEF a
<1>4. /\ a \in Seq(Byte) /\ todo' \in Seq(Byte) /\ Len(todo') = Len(todo) - n /\ a \o todo' = todo
      /\ \A i \in 1..Len(todo') : todo'[i] = todo[n + i]
  BY <1>3 DEF Parts
<1>5. Wire' \o todo' = Wire \o todo
  <2>1. out \o (mem \o a) = (out \o mem) \o a
    <3>1. out \in Seq(Byte) /\ mem \in Seq(Byte) /\ a \in Seq(Byte)
      BY <1>1, <1>4
    <3> QED
      BY <3>1, ConcatAssociative
  <2>2. Wire' = Wire \o a
    BY <1>2, <2>1 DEF Wire
  <2> DEFINE w == Wire
  <2>3. w \in Seq(Byte) /\ Wire' = w \o a
    BY <1>1, <2>2 DEF Wire
  <2> HIDE DEF w
  <2>4. w \o (a \o todo') = (w \o a) \o todo'
    <3>1. w \in Seq(Byte) /\ todo' \in Seq(Byte) /\ a \in Seq(Byte)
      BY <1>4, <2>3
    <3> QED
      BY <3>1, ConcatAssociative
  <2> QED
    BY <1>4, <2>3, <2>4 DEF w
<1>6. InElements => \A i \in 1..Len(todo') : todo'[i] < Continue => i = Len(todo')
  <2> SUFFICES ASSUME InElements, NEW i \in 1..Len(todo'), todo'[i] < Continue
               PROVE  i = Len(todo')
    OBVIOUS
  <2>1. n + i \in 1..Len(todo) /\ todo[n + i] < Continue
    BY <1>1, <1>4
  <2>2. n + i = Len(todo)
    BY <2>1 DEF InElements
  <2> QED
    BY <1>1, <1>4, <2>2
<1> QED
  BY <1>1, <1>2, <1>5, <1>6, MoveTraced

LEMMA DrainTraced ==
  ASSUME IInv, Shape, torn = FALSE, Remember, NEW reply \in Replies, DrainToSink(reply), Streamable(reply)
  PROVE  Traced
<1>1. pc # "idle"
  BY DEF DrainToSink, IInv, IdleIsClean
<1>2. out' = out \o Handed /\ mem' = <<>> /\ UNCHANGED <<depth, pending, pc, call, written, todo>>
  BY DEF DrainToSink, HandOver, Install, callVars
<1>3. Wire' = Wire
  BY <1>2, WireStays
<1> QED
  BY <1>1, <1>2, <1>3, MoveTraced DEF InElements

\* What is told of an open sequence without content.
LEMMA ToldOfEmpty ==
  ASSUME NEW r \in Seq(Events), NEW fs \in Seq(OpenSequence), NEW k \in Nat, k < Len(fs),
         ~E!HasContent(fs[k + 1])
  PROVE  /\ ToldTo(r, fs, k + 1) = Append(ToldTo(r, fs, k), OnSequenceBegin(fs[k + 1].id))
         /\ fs[k + 1].id \in 0..IdMax
<1> DEFINE f == fs[k + 1]
           e == OnSequenceBegin(f.id)
           a == ToldTo(r, fs, k)
<1>1. f \in OpenSequence /\ k \in 0..Len(fs)
  OBVIOUS
<1>2. f.id \in 0..IdMax /\ f.body = <<>>
  BY <1>1 DEF OpenSequence, E!HasContent
<1>3. e \in Events /\ a \in Seq(Events)
  BY <1>1, <1>2, TellsType, ToldToType
<1>4. ToldTo(r, fs, k + 1) = Inside(a, f)
  BY ToldToNext
<1> HIDE DEF a, e
<1>5. a \o <<e>> = Append(a, e) /\ Append(a, e) \in Seq(Events) /\ Append(a, e) \o <<>> = Append(a, e)
  BY <1>3
<1> QED
  BY <1>2, <1>4, <1>5 DEF Inside, a, e

LEMMA HeaderWrittenTraced ==
  ASSUME IInv, Shape, torn = FALSE, Remember, HeaderWritten
  PROVE  Traced
<1> DEFINE k == Committed
<1>1. /\ pc = "commit" /\ todo = <<>> /\ UNCHANGED <<mem, out, depth, call>>
  BY DEF HeaderWritten, bufferVars
<1>2. \/ /\ written + 1 < Len(pending) /\ written' = written + 1
         /\ todo' = SequenceHeader(pending[written + 2]) /\ pc' = pc /\ pending' = pending
      \/ /\ ~(written + 1 < Len(pending)) /\ pending' = <<>> /\ written' = 0 /\ pc' = "body"
         /\ todo' = call.body
  BY DEF HeaderWritten
<1>3. UNCHANGED <<root, frames>> /\ torn' = FALSE
  <2>1. ~Opened /\ ~Dropped /\ ~Returned /\ ~Failed
    BY <1>1, <1>2 DEF Opened, Dropped, Returned, Failed, IInv, TypeOK
  <2> QED
    BY <2>1, RememberNothing
<1>4. /\ pending \in Seq(0..IdMax) /\ depth \in 0..MaxDepth /\ Len(pending) \in 0..depth
      /\ written \in 0..(Len(pending) - 1) /\ Wire \in Seq(Byte) /\ MaxDepth \in Nat
  BY <1>1, FormatAssumption DEF IInv, TypeOK, HeldBackAreOpen, Wire
<1>5. Wire' = Wire
  BY <1>1, WireStays
<1>6. /\ k \in Nat /\ k < depth /\ k + 1 = Framed + (written + 1) /\ k < MaxDepth
      /\ k + 1 \in (Framed + 1)..depth /\ written + 1 \in 1..Len(pending)
  BY <1>4 DEF Committed, Framed
<1>7. /\ root \in Seq(Events) /\ frames \in Seq(OpenSequence) /\ Len(frames) = depth
  BY DEF Shape, TreeInv
<1>8. frames[k + 1].id = pending[written + 1]
  BY <1>6 DEF Shape, TreeInv
<1>9. ~E!HasContent(frames[k + 1])
  BY <1>6 DEF Shape, TreeInv
<1>10. PICK base : Whole(base, k, ToldTo(root, frames, k))
                   /\ base \o SequenceHeader(pending[written + 1]) = Wire \o todo
  BY <1>1 DEF Shape, WireInv, InFront
<1>11. Wire \o todo = Wire
  BY <1>1, <1>4
<1> HIDE DEF k
<1>12. /\ ToldTo(root, frames, k + 1) = Append(ToldTo(root, frames, k), OnSequenceBegin(frames[k + 1].id))
       /\ frames[k + 1].id \in 0..IdMax
  BY <1>6, <1>7, <1>9, ToldOfEmpty
<1>13. Whole(Wire, k + 1, ToldTo(root, frames, k + 1))
  BY <1>6, <1>8, <1>10, <1>11, <1>12, SequenceBeginTold
<1>14. Tells' = Tells
  BY <1>1 DEF Tells
<1>15. CASE written + 1 < Len(pending)
  <2>1. /\ written' = written + 1 /\ todo' = SequenceHeader(pending[written + 2]) /\ pc' = pc
        /\ pending' = pending
    BY <1>2, <1>15
  <2>2. TreeInv'
    BY <1>1, <1>3, <2>1 DEF Shape, TreeInv, Framed
  <2>3. AskedInv'
    BY <1>1, <2>1 DEF Shape, AskedInv
  <2>4. Committed' = k + 1 /\ written' + 1 = written + 2
    BY <1>1, <1>4, <2>1 DEF Committed, k
  <2>5. InFront(Committed, SequenceHeader(pending[written + 1]))'
    BY <1>3, <1>5, <1>13, <2>1, <2>4 DEF InFront
  <2>6. WireInv'
    BY <1>1, <2>1, <2>5 DEF WireInv
  <2> QED
    BY <1>3, <2>2, <2>3, <2>6 DEF Traced, Shape, History
<1>16. CASE ~(written + 1 < Len(pending))
  <2>1. pending' = <<>> /\ written' = 0 /\ pc' = "body" /\ todo' = call.body
    BY <1>2, <1>16
  <2>2. Framed' = depth /\ k + 1 = depth
    BY <1>1, <1>4, <1>16, <2>1 DEF Framed, Committed, k
  <2>3. AskedInv' /\ call.kind # "end"
    <3>1. AcceptedField(call) \/ (depth > 0 /\ call = ClosingCall("keep"))
      BY <1>1 DEF Shape, AskedInv
    <3>2. call.kind # "end"
      BY <3>1, AcceptedKind DEF ClosingCall, Call
    <3> QED
      BY <1>1, <2>1, <3>1, <3>2 DEF AskedInv
  <2>4. TreeInv'
    BY <1>1, <1>3, <1>4, <1>7, <2>1, <2>2, <2>3 DEF TreeInv
  <2>5. InFront(depth, call.body)'
    BY <1>1, <1>3, <1>5, <1>13, <2>1, <2>2 DEF InFront
  <2>6. WireInv'
    BY <2>1, <2>5 DEF WireInv
  <2> QED
    BY <1>3, <2>3, <2>4, <2>6 DEF Traced, Shape, History
<1> QED
  BY <1>15, <1>16

-----------------------------------------------------------------------------
(***************************************************************************)
(* The elements of an array, and the end of a call.                        *)
(***************************************************************************)
\* What the calls under way have in common in their body.
LEMMA BodyFacts ==
  ASSUME IInv, Shape, pc = "body"
  PROVE  /\ depth \in Nat /\ Len(frames) = depth /\ pending = <<>> /\ Framed = depth
         /\ Wire \in Seq(Byte) /\ todo \in Seq(Byte) /\ written \in 0..Len(call.elements)
         /\ root \in Seq(Events) /\ frames \in Seq(OpenSequence)
         /\ ToldTo(root, frames, depth) \in Seq(Events)
<1>1. depth \in Nat /\ pending = <<>> /\ Framed = depth
  BY DEF IInv, TypeOK, HeldBackAreOpen, Framed
<1>2. Wire \in Seq(Byte) /\ todo \in Seq(Byte)
  BY DEF IInv, TypeOK, Wire
<1>3. written \in 0..Len(call.elements)
  BY DEF IInv, TypeOK, HeldBackAreOpen
<1>4. root \in Seq(Events) /\ frames \in Seq(OpenSequence) /\ Len(frames) = depth
  BY DEF Shape, TreeInv
<1>5. ToldTo(root, frames, depth) \in Seq(Events)
  BY <1>1, <1>4, ToldToType
<1> QED
  BY <1>1, <1>2, <1>3, <1>4, <1>5

ElementsRead(n) ==
  Reaches(Wire, Going(Len(Wire), depth, IntsLeft(Len(call.elements) - n),
                      ToldTo(root, frames, depth) \o SubSeq(Tells, 1, n + 1)))

LEMMA BetweenElements ==
  ASSUME IInv, Shape, pc = "body", todo = <<>>, ArrayField
  PROVE  ElementsRead(written)
<1>1. Wire \o todo = Wire
  BY BodyFacts
<1>2. CASE written = 0
  <2>1. PICK base : Whole(base, depth, ToldTo(root, frames, depth)) /\ base \o call.body = Wire \o todo
    BY <1>2 DEF Shape, WireInv, InFront
  <2>2. Reaches(base \o call.body,
                Going(Len(base \o call.body), depth, IntsLeft(Len(call.elements)),
                      ToldTo(root, frames, depth) \o SubSeq(Tells, 1, 1)))
    BY <2>1, BodyFacts DEF ArrayField
  <2>3. Len(call.elements) - written = Len(call.elements) /\ written + 1 = 1
    BY <1>2 DEF ArrayField, IInv, TypeOK
  <2> QED
    BY <1>1, <2>1, <2>2, <2>3 DEF ElementsRead
<1>3. CASE written # 0
  <2>1. written > 0
    BY <1>3, BodyFacts
  <2>2. InElements
    BY <2>1 DEF Shape, WireInv
  <2> QED
    BY <1>1, <2>2 DEF InElements, ElementsRead
<1> QED
  BY <1>2, <1>3

LEMMA NextElementTraced ==
  ASSUME IInv, Shape, torn = FALSE, Remember, NextElement
  PROVE  Traced
<1> DEFINE m == written
           n == Len(call.elements)
           es == ToldTo(root, frames, depth)
<1>1. /\ pc = "body" /\ todo = <<>> /\ m < n /\ todo' = call.elements[m + 1] /\ written' = m + 1
      /\ UNCHANGED <<mem, out, depth, pending, pc, call>>
  BY DEF NextElement, bufferVars
<1>2. m \in Nat /\ n \in Nat /\ m + 1 \in 1..n /\ Wire \in Seq(Byte) /\ es \in Seq(Events)
  BY <1>1, BodyFacts DEF IInv, TypeOK
<1>3. UNCHANGED <<root, frames>> /\ torn' = FALSE
  <2>1. ~Opened /\ ~Dropped /\ ~Returned /\ ~Failed
    BY <1>1 DEF Opened, Dropped, Returned, Failed, IInv, TypeOK
  <2> QED
    BY <2>1, RememberNothing
<1>4. Wire' = Wire /\ Tells' = Tells
  BY <1>1, WireStays DEF Tells
<1>5. FieldTold
  <2>1. call # ClosingCall("end") /\ call # ClosingCall("keep")
    BY <1>1, <1>2 DEF ClosingCall, Call
  <2> QED
    BY <1>1, <2>1, AcceptedIsTold DEF Shape, AskedInv
<1>6. ArrayField /\ Tells \in Seq(Events) /\ Len(Tells) = n + 1
  <2>1. call.elements # <<>>
    BY <1>1, <1>2
  <2> QED
    BY <1>5, <2>1 DEF FieldTold, WholeField, ArrayField
<1>7. PICK u \in Unsigned :
        /\ call.elements[m + 1] = Varint(u)
        /\ Tells[(m + 1) + 1] = IF call.asked[3] = KindSigned THEN OnSigned(call.asked[2], ZigZagDecode(u))
                                ELSE OnUnsigned(call.asked[2], u)
  BY <1>2, <1>6 DEF ArrayField
<1>8. Reaches(Wire, Going(Len(Wire), depth, IntsLeft(n - m), es \o SubSeq(Tells, 1, m + 1)))
  BY <1>1, <1>6, BetweenElements DEF ElementsRead
<1>9. Varint(u) \in Seq(Byte) /\ \A i \in 1..Len(Varint(u)) : Varint(u)[i] < Continue => i = Len(Varint(u))
  BY UnsignedType, LastByteEnds
<1>10. Reaches(Wire \o todo', Going(Len(Wire \o todo'), depth, IntsLeft(n - written'),
                                    es \o SubSeq(Tells, 1, written' + 1)))
  <2>1. n - m \in Nat \ {0} /\ n - written' = (n - m) - 1 /\ written' + 1 = (m + 1) + 1
    BY <1>1, <1>2
  <2>2. es \o SubSeq(Tells, 1, (m + 1) + 1) = Append(es \o SubSeq(Tells, 1, m + 1), Tells[(m + 1) + 1])
    BY <1>2, <1>6, TellOneMore
  <2>3. todo' = Varint(u)
    BY <1>1, <1>7
  <2> HIDE DEF m, n, es
  <2>4. Reaches(Wire \o Varint(u),
                Going(Len(Wire \o Varint(u)), depth, IntItem(call.asked[2], call.asked[3], (n - m) - 1),
                      Append(es \o SubSeq(Tells, 1, m + 1),
                             IF call.asked[3] = KindSigned THEN OnSigned(call.asked[2], ZigZagDecode(u))
                             ELSE OnUnsigned(call.asked[2], u))))
    BY <1>2, <1>8, <2>1, IntTold DEF IntsLeft
  <2> QED
    BY <1>7, <2>1, <2>2, <2>3, <2>4 DEF IntsLeft
<1>11. InElements'
  BY <1>1, <1>3, <1>4, <1>7, <1>9, <1>10 DEF InElements, IntsLeft
<1>12. TreeInv'
  BY <1>1, <1>3 DEF Shape, TreeInv, Framed
<1>13. AskedInv'
  BY <1>1 DEF Shape, AskedInv
<1>14. WireInv'
  BY <1>1, <1>2, <1>11 DEF WireInv
<1> QED
  BY <1>3, <1>12, <1>13, <1>14 DEF Traced, Shape, History

\* The wire at the end of a field.
LEMMA FieldIsWhole ==
  ASSUME IInv, Shape, pc = "body", todo = <<>>, written = Len(call.elements), FieldTold
  PROVE  Whole(Wire, depth, ToldTo(root, frames, depth) \o Tells)
<1>1. /\ Wire \o todo = Wire /\ depth \in Nat /\ ToldTo(root, frames, depth) \in Seq(Events)
      /\ Wire \in Seq(Byte) /\ written \in Nat
  BY BodyFacts
<1>2. CASE WholeField
  <2>1. call.elements = <<>> /\ written = 0
    BY <1>2 DEF WholeField
  <2>2. PICK base : Whole(base, depth, ToldTo(root, frames, depth)) /\ base \o call.body = Wire \o todo
    BY <2>1 DEF Shape, WireInv, InFront
  <2>3. Whole(base \o call.body, depth, ToldTo(root, frames, depth) \o Tells)
    BY <1>1, <1>2, <2>2 DEF WholeField
  <2> QED
    BY <1>1, <2>2, <2>3
<1>3. CASE ArrayField
  <2> DEFINE n == Len(call.elements)
  <2>1. ElementsRead(n)
    BY <1>3, BetweenElements
  <2>2. n \in Nat /\ Len(Tells) = n + 1 /\ Tells \in Seq(Events) /\ n - n = 0
    BY <1>1, <1>3 DEF ArrayField, FieldTold
  <2>3. SubSeq(Tells, 1, n + 1) = Tells
    BY <2>2
  <2>4. IntsLeft(n - n) = Resume("int", call.asked[2], call.asked[3], 0, 0)
    BY <2>2 DEF IntsLeft, IntItem
  <2>5. Reaches(Wire, Going(Len(Wire), depth, Resume("int", call.asked[2], call.asked[3], 0, 0),
                            ToldTo(root, frames, depth) \o Tells))
    BY <2>1, <2>3, <2>4 DEF ElementsRead
  <2>6. Reaches(Wire, Going(Len(Wire), depth, NoResume, ToldTo(root, frames, depth) \o Tells))
    BY <2>5, ItemEnds
  <2> QED
    BY <1>1, <2>6 DEF Whole
<1> QED
  BY <1>2, <1>3 DEF FieldTold

\* What comes of putting callbacks into the innermost sequence that stays open.
LEMMA PlacedTraced ==
  ASSUME torn' = FALSE, pc' = "idle", pending' = <<>>,
         NEW fs, NEW cs, cs # <<>>, Len(fs) = depth', depth' \in Nat, Placed(fs, cs),
         Whole(Wire', depth', ToldTo(root, fs, depth') \o cs),
         E!Write \/ E!End \/ E!Keep
  PROVE  Traced
<1>1. Framed' = depth'
  <2>1. Len(pending') = 0
    OBVIOUS
  <2>2. depth' \in Nat
    OBVIOUS
  <2> DEFINE d == depth'
             l == Len(pending')
  <2>3. Framed' = d - l
    BY DEF Framed
  <2>4. d \in Nat /\ l = 0
    BY <2>1, <2>2
  <2> HIDE DEF d, l
  <2>5. d - l = d
    BY <2>4
  <2> QED
    BY <2>3, <2>5 DEF d
<1>2. TreeInv'
  <2>1. /\ root' \in Seq(Events) /\ frames' \in Seq(OpenSequence) /\ Len(frames') = depth'
        /\ (depth' > 0 => E!HasContent(frames'[depth']))
    BY DEF Placed
  <2>2. \A i \in 1..Len(pending') : FALSE
    <3>1. Len(pending') = 0
      OBVIOUS
    <3> QED
      BY <3>1
  <2>3. \A i \in (Framed' + 1)..depth' : FALSE
    <3> DEFINE d == depth'
    <3>1. d \in Nat /\ Framed' = d
      BY <1>1
    <3> HIDE DEF d
    <3>2. \A i \in (d + 1)..d : FALSE
      BY <3>1
    <3> QED
      BY <3>1, <3>2 DEF d
  <2> QED
    BY <1>1, <2>1, <2>2, <2>3 DEF TreeInv
<1>3. WireInv'
  BY <1>1 DEF WireInv, Placed
<1>4. AskedInv'
  BY DEF AskedInv
<1> QED
  BY <1>2, <1>3, <1>4 DEF Traced, Shape, History

LEMMA EventsAssociate ==
  ASSUME NEW a \in Seq(Events), NEW b \in Seq(Events), NEW c \in Seq(Events)
  PROVE  a \o (b \o c) = (a \o b) \o c
BY ConcatAssociative

\* What is told of a closed sequence.
LEMMA ClosePlaces ==
  ASSUME root \in Seq(Events), frames \in Seq(OpenSequence), NEW n \in Nat, Len(frames) = n + 1, E!Close
  PROVE  \E fs, cs :
           /\ cs # <<>> /\ Len(fs) = n /\ Placed(fs, cs)
           /\ ToldTo(root, fs, n) \o cs = Append(ToldTo(root, frames, n + 1), OnSequenceEnd)
<1> DEFINE f == E!Innermost(frames)
           fs == E!Outer(frames)
           e == OnSequenceBegin(f.id)
           z == OnSequenceEnd
           b == f.body
           cs == <<e>> \o b \o <<z>>
           a == ToldTo(root, frames, n)
<1>1. fs \in Seq(OpenSequence) /\ Len(fs) = n /\ \A i \in 1..n : fs[i] = frames[i]
  BY DEF E!Outer
<1>2. f = frames[n + 1] /\ f \in OpenSequence
  BY DEF E!Innermost
<1>3. e \in Events /\ z \in Events /\ b \in Seq(Events) /\ a \in Seq(Events)
  <2>1. f.id \in 0..IdMax /\ f.body \in Seq(Events)
    BY <1>2 DEF OpenSequence
  <2>2. n \in 0..Len(frames)
    OBVIOUS
  <2> QED
    BY <2>1, <2>2, TellsType, ToldToType
<1>4. E!Put(fs, cs)
  BY DEF E!Close
<1>5. ToldTo(root, fs, n) = a
  BY <1>1, ToldToLocal
<1>6. ToldTo(root, frames, n + 1) = a \o <<e>> \o b
  <2>1. ToldTo(root, frames, n + 1) = Inside(ToldTo(root, frames, n), frames[n + 1])
    BY ToldToNext
  <2>2. frames[n + 1] = f
    BY <1>2
  <2> QED
    BY <2>1, <2>2 DEF Inside
<1> HIDE DEF f, fs, e, z, b, a
<1>7. cs \in Seq(Events) /\ cs # <<>>
  <2>1. <<e>> \o b \in Seq(Events) /\ <<z>> \in Seq(Events)
    BY <1>3
  <2>2. cs \in Seq(Events) /\ Len(cs) = Len(b) + 2 /\ Len(b) \in Nat
    BY <1>3, <2>1
  <2> QED
    BY <2>2
<1>8. a \o cs = Append(a \o <<e>> \o b, z)
  <2> DEFINE eb == <<e>> \o b
             zz == <<z>>
             ee == <<e>>
  <2>1. ee \in Seq(Events) /\ zz \in Seq(Events) /\ eb \in Seq(Events) /\ eb = ee \o b
    BY <1>3
  <2>2. cs = eb \o zz
    OBVIOUS
  <2> HIDE DEF eb, ee, zz, cs
  <2>3. a \in Seq(Events) /\ b \in Seq(Events) /\ ee \in Seq(Events) /\ eb \in Seq(Events) /\ zz \in Seq(Events)
    BY <1>3, <2>1
  <2>4. a \o (eb \o zz) = (a \o eb) \o zz /\ a \o (ee \o b) = (a \o ee) \o b
    <3>1. a \o (eb \o zz) = (a \o eb) \o zz
      BY <2>3, EventsAssociate
    <3>2. a \o (ee \o b) = (a \o ee) \o b
      BY <2>3, EventsAssociate
    <3> QED
      BY <3>1, <3>2
  <2> DEFINE w == (a \o ee) \o b
  <2>5. w \in Seq(Events)
    BY <1>3, <2>1
  <2>6. a \o cs = w \o zz
    BY <2>1, <2>2, <2>4
  <2> HIDE DEF w
  <2>7. w \o <<z>> = Append(w, z)
    BY <1>3, <2>5
  <2> QED
    BY <2>6, <2>7 DEF w, zz, ee
<1> HIDE DEF cs
<1>9. Placed(fs, cs)
  BY <1>1, <1>4, <1>7, PutPlaces
<1> QED
  BY <1>1, <1>5, <1>6, <1>7, <1>8, <1>9 DEF z

LEMMA ReturnTraced ==
  ASSUME IInv, Shape, torn = FALSE, Remember, Return
  PROVE  Traced
<1>1. /\ pc = "body" /\ todo = <<>> /\ written = Len(call.elements)
      /\ depth' = (IF call.kind \in {"end", "keep"} THEN depth - 1 ELSE depth)
      /\ pc' = "idle" /\ UNCHANGED <<mem, out, pending>>
  BY DEF Return, Finish, bufferVars
<1>2. /\ Wire' = Wire /\ depth \in Nat /\ pending' = <<>> /\ Len(frames) = depth
      /\ root \in Seq(Events) /\ frames \in Seq(OpenSequence) /\ Wire \o todo = Wire
  BY <1>1, WireStays, BodyFacts
<1>3. /\ IF call.kind = "content" THEN E!Put(frames, Tells) ELSE E!Close
      /\ torn' = FALSE
  <2>1. ~Opened /\ ~Dropped /\ Returned /\ ~Failed
    BY <1>1, <1>2 DEF Opened, Dropped, Returned, Failed
  <2> QED
    BY <2>1, RememberReturned
<1>4. CASE AcceptedField(call)
  <2>1. call.kind = "content" /\ depth' = depth
    BY <1>1, <1>4, AcceptedKind
  <2>2. FieldTold
    BY <1>4, AcceptedIsTold
  <2>3. Tells \in Seq(Events) /\ Tells # <<>>
    BY <2>2 DEF FieldTold
  <2>4. Placed(frames, Tells)
    BY <1>2, <1>3, <2>1, <2>3, PutPlaces
  <2>5. Whole(Wire, depth, ToldTo(root, frames, depth) \o Tells)
    BY <1>1, <2>2, FieldIsWhole
  <2>6. E!Write
    BY <1>3, <2>1, <2>3 DEF E!Write
  <2> QED
    BY <1>1, <1>2, <1>3, <2>1, <2>3, <2>4, <2>5, <2>6, PlacedTraced
<1>5. CASE ~AcceptedField(call)
  <2>1. depth > 0 /\ (call = ClosingCall("end") \/ call = ClosingCall("keep"))
    BY <1>1, <1>5 DEF Shape, AskedInv
  <2>2. call.kind \in {"end", "keep"} /\ call.body = EndMarker /\ call.elements = <<>>
    BY <2>1 DEF ClosingCall, Call
  <2>3. E!Close /\ depth' = depth - 1 /\ depth' \in Nat /\ depth = depth' + 1 /\ written = 0
    BY <1>1, <1>2, <1>3, <2>1, <2>2
  <2>4. PICK base : Whole(base, depth, ToldTo(root, frames, depth)) /\ base \o call.body = Wire \o todo
    BY <1>1, <2>3 DEF Shape, WireInv, InFront
  <2>5. Whole(Wire, depth - 1, Append(ToldTo(root, frames, depth), OnSequenceEnd))
    BY <1>2, <2>1, <2>2, <2>4, SequenceEndTold
  <2>6. PICK fs, cs :
          /\ cs # <<>> /\ Len(fs) = depth' /\ Placed(fs, cs)
          /\ ToldTo(root, fs, depth') \o cs = Append(ToldTo(root, frames, depth), OnSequenceEnd)
    BY <1>2, <2>3, ClosePlaces
  <2>7. E!End \/ E!Keep
    <3>1. frames # <<>>
      BY <1>2, <2>1
    <3>2. E!Keep
      BY <2>3, <3>1 DEF E!Keep
    <3> QED
      BY <3>2
  <2> QED
    BY <1>1, <1>2, <1>3, <2>3, <2>5, <2>6, <2>7, PlacedTraced
<1> QED
  BY <1>4, <1>5

-----------------------------------------------------------------------------
(***************************************************************************)
(* A call that fails.                                                      *)
(***************************************************************************)
LEMMA SameInFront ==
  ASSUME NEW S, NEW a \in Seq(S), NEW b \in Seq(S), NEW c \in Seq(S), a \o c = b \o c
  PROVE  a = b
<1>1. Len(a) + Len(c) = Len(b) + Len(c)
  <2>1. Len(a \o c) = Len(a) + Len(c) /\ Len(b \o c) = Len(b) + Len(c)
    OBVIOUS
  <2> QED
    BY <2>1
<1>2. Len(a) = Len(b)
  BY <1>1
<1>3. ASSUME NEW i \in 1..Len(a)
      PROVE  a[i] = b[i]
  <2>1. (a \o c)[i] = a[i] /\ (b \o c)[i] = b[i]
    BY <1>2
  <2> QED
    BY <2>1
<1> QED
  BY <1>2, <1>3

\* There is an innermost visible sequence, or none is.
LEMMA SomeAreShown ==
  ASSUME NEW fs, Len(fs) \in Nat
  PROVE  E!Shown(fs) \in 0..Len(fs)
<1> DEFINE n == Len(fs)
           S == {k \in 0..n : \A i \in (k + 1)..n : ~E!HasContent(fs[i])}
<1>1. S \in SUBSET Nat /\ n \in S
  OBVIOUS
<1>2. PICK k \in S : \A m \in S : k <= m
  BY <1>1, LeastElement
<1>3. k \in 0..n /\ \A i \in (k + 1)..n : ~E!HasContent(fs[i])
  OBVIOUS
<1>4. ASSUME k > 0, ~E!HasContent(fs[k])
      PROVE  FALSE
  <2>1. k - 1 \in 0..n /\ (k - 1) + 1 = k
    BY <1>3, <1>4
  <2>2. \A i \in k..n : ~E!HasContent(fs[i])
    BY <1>3, <1>4
  <2>3. k - 1 \in S
    BY <2>1, <2>2
  <2> HIDE DEF S
  <2> QED
    BY <1>2, <1>3, <2>3
<1>5. ShownTo(fs, k)
  BY <1>3, <1>4 DEF ShownTo
<1> QED
  BY <1>3, <1>5, ShownIs

\* What the failing of a call leaves of the tree: cut between two items, the innermost
\* of the sequences whose header is out is kept.
KeptAt(k) ==
  frames' = [i \in DOMAIN frames |-> [frames[i] EXCEPT !.kept = @ \/ i = k]]

LEMMA KeptAtIs ==
  ASSUME frames \in Seq(OpenSequence), NEW k, KeptAt(k)
  PROVE  /\ frames' \in Seq(OpenSequence) /\ Len(frames') = Len(frames)
         /\ \A i \in 1..Len(frames) :
              /\ frames'[i].id = frames[i].id /\ frames'[i].body = frames[i].body
              /\ frames'[i].kept = (frames[i].kept \/ i = k)
              /\ i # k => frames'[i] = frames[i]
              /\ i = k => frames'[i] = [frames[i] EXCEPT !.kept = TRUE]
<1> DEFINE g(i) == [frames[i] EXCEPT !.kept = @ \/ i = k]
<1>1. DOMAIN frames = 1..Len(frames) /\ Len(frames) \in Nat
  OBVIOUS
<1>2. ASSUME NEW i \in 1..Len(frames)
      PROVE  /\ g(i) \in OpenSequence /\ g(i).id = frames[i].id /\ g(i).body = frames[i].body
             /\ g(i).kept = (frames[i].kept \/ i = k)
             /\ i # k => g(i) = frames[i]
             /\ i = k => g(i) = [frames[i] EXCEPT !.kept = TRUE]
  <2>1. frames[i] \in OpenSequence
    OBVIOUS
  <2> DEFINE f == frames[i]
             b == f.kept \/ i = k
  <2>2. f \in OpenSequence /\ b \in BOOLEAN /\ g(i) = [f EXCEPT !.kept = b] /\ f.kept \in BOOLEAN
        /\ (i # k => b = f.kept) /\ (i = k => b = TRUE)
    BY <2>1 DEF OpenSequence
  <2> HIDE DEF f, b, g
  <2>3. g(i) \in OpenSequence /\ g(i).id = f.id /\ g(i).body = f.body /\ g(i).kept = b
    BY <2>2 DEF OpenSequence
  <2>4. i # k => g(i) = f
    BY <2>2 DEF OpenSequence
  <2> QED
    BY <2>2, <2>3, <2>4 DEF f, b
<1>3. frames' = [i \in 1..Len(frames) |-> g(i)]
  BY <1>1 DEF KeptAt
<1> HIDE DEF g
<1>4. frames' \in Seq(OpenSequence) /\ Len(frames') = Len(frames)
  BY <1>1, <1>2, <1>3
<1>5. \A i \in 1..Len(frames) : frames'[i] = g(i)
  BY <1>1, <1>3
<1> QED
  BY <1>2, <1>4, <1>5

\* Where a call is cut between two items, the wire is whole.
LEMMA CutIsWhole ==
  ASSUME IInv, Shape, pc # "idle", todo # <<>>, ~CutInside
  PROVE  /\ Committed \in Framed..depth /\ Len(frames) = depth /\ depth \in Nat
         /\ Whole(Wire, Committed, ToldTo(root, frames, Committed))
         /\ E!Shown(frames) <= Committed
         /\ \A i \in (Committed + 1)..depth : ~E!HasContent(frames[i])
<1>1. /\ pending \in Seq(0..IdMax) /\ depth \in Nat /\ Len(pending) \in 0..depth /\ written \in Nat
      /\ Wire \in Seq(Byte) /\ todo \in Seq(Byte) /\ Len(frames) = depth
      /\ root \in Seq(Events) /\ frames \in Seq(OpenSequence)
  BY DEF IInv, TypeOK, HeldBackAreOpen, Wire, Shape, TreeInv
<1>2. ASSUME NEW k, InFront(k, todo)
      PROVE  Whole(Wire, k, ToldTo(root, frames, k))
  <2>1. PICK base : Whole(base, k, ToldTo(root, frames, k)) /\ base \o todo = Wire \o todo
    BY <1>2 DEF InFront
  <2>2. base \in Seq(Byte)
    BY <2>1 DEF Whole
  <2>3. base = Wire
    BY <1>1, <2>1, <2>2, SameInFront
  <2> QED
    BY <2>1, <2>3
<1>3. CASE pc = "commit"
  <2>1. todo = SequenceHeader(pending[written + 1])
    BY <1>3 DEF CutInside
  <2>2. InFront(Committed, todo)
    BY <1>3, <2>1 DEF Shape, WireInv
  <2>3. written < Len(pending)
    BY <1>1, <1>3 DEF IInv, HeldBackAreOpen
  <2>4. Framed \in 0..depth /\ Committed = Framed + written /\ Committed \in Framed..depth
    BY <1>1, <2>3 DEF Framed, Committed
  <2>5. Framed \in 0..Len(frames) /\ ShownTo(frames, Framed)
    BY <1>3, TreeShows DEF Shape
  <2>6. E!Shown(frames) = Framed
    BY <1>1, <2>5, ShownIs
  <2>7. \A i \in (Committed + 1)..depth : ~E!HasContent(frames[i])
    <3> TAKE i \in (Committed + 1)..depth
    <3>1. i \in (Framed + 1)..depth
      BY <1>1, <2>4
    <3> QED
      BY <3>1 DEF Shape, TreeInv
  <2> QED
    BY <1>1, <1>2, <2>2, <2>4, <2>6, <2>7
<1>4. CASE pc = "body"
  <2>1. todo = call.body
    BY <1>4 DEF CutInside
  <2>2. pending = <<>> /\ Framed = depth
    BY <1>4, BodyFacts
  <2>3. written = 0
    <3> SUFFICES ASSUME written # 0
                 PROVE  FALSE
      OBVIOUS
    <3>1. InElements
      BY <1>1, <1>4 DEF Shape, WireInv
    <3>2. call.elements # <<>>
      BY <1>1, <1>4 DEF IInv, HeldBackAreOpen
    <3>3. call # ClosingCall("end") /\ call # ClosingCall("keep")
      BY <3>2 DEF ClosingCall, Call
    <3>4. FieldTold
      BY <1>4, <3>3, AcceptedIsTold DEF Shape, AskedInv
    <3>5. PICK j \in 1..(Len(call.body) - 1) : call.body[j] < Continue
      BY <3>2, <3>4 DEF FieldTold, WholeField, ArrayField
    <3>6. j \in 1..Len(todo) /\ todo[j] < Continue /\ j # Len(todo)
      BY <1>1, <2>1, <3>5
    <3> QED
      BY <3>1, <3>6 DEF InElements
  <2>4. InFront(depth, todo)
    BY <1>4, <2>1, <2>3 DEF Shape, WireInv
  <2>5. Committed = depth
    BY <1>1, <2>2, <2>3 DEF Committed
  <2>6. E!Shown(frames) \in 0..depth
    BY <1>1, SomeAreShown
  <2> QED
    BY <1>1, <1>2, <2>2, <2>4, <2>5, <2>6
<1> QED
  BY <1>3, <1>4 DEF IInv, TypeOK

LEMMA FailTraced ==
  ASSUME IInv, Shape, torn = FALSE, Remember, pc # "idle", todo # <<>>, Wire' = Wire,
         NEW error, Fail(error)
  PROVE  Traced
<1> DEFINE k == Committed
<1>1. /\ pc' = "idle" /\ depth' = depth
      /\ pc = "commit" => pending' = SubSeq(pending, written + 1, Len(pending))
      /\ pc # "commit" => pending' = pending
  BY DEF Fail, Finish, DropWritten
<1>2. /\ pending \in Seq(0..IdMax) /\ depth \in Nat /\ Len(pending) \in 0..depth /\ written \in Nat
      /\ Len(frames) = depth /\ root \in Seq(Events) /\ frames \in Seq(OpenSequence)
      /\ pc \in {"commit", "body"}
  BY DEF IInv, TypeOK, HeldBackAreOpen, Shape, TreeInv
<1>3. /\ torn' = CutInside /\ UNCHANGED root
      /\ frames' = [i \in DOMAIN frames |->
                     [frames[i] EXCEPT !.kept = @ \/ (~CutInside /\ i = Committed)]]
  <2>1. ~Opened /\ ~Dropped /\ ~Returned /\ Failed
    BY <1>1, <1>2 DEF Opened, Dropped, Returned, Failed
  <2> QED
    BY <2>1, RememberFailed
<1>4. CASE CutInside
  <2>1. torn' = TRUE
    BY <1>3, <1>4 DEF CutInside
  <2>2. KeptAt(0)
    <3>1. \A i \in DOMAIN frames : (frames[i].kept \/ (~CutInside /\ i = Committed)) = (frames[i].kept \/ i = 0)
      BY <1>2, <1>4
    <3> QED
      BY <1>3, <3>1 DEF KeptAt
  <2>3. frames' = frames
    <3>1. frames' \in Seq(OpenSequence) /\ Len(frames') = Len(frames)
      BY <1>2, <2>2, KeptAtIs
    <3>2. \A i \in 1..Len(frames) : i # 0 => frames'[i] = frames[i]
      BY <1>2, <2>2, KeptAtIs
    <3>3. \A i \in 1..Len(frames) : frames'[i] = frames[i]
      BY <1>2, <3>2
    <3> QED
      BY <1>2, <3>1, <3>3
  <2> QED
    BY <1>3, <2>1, <2>3 DEF Traced
<1>5. CASE ~CutInside
  <2>1. torn' = FALSE /\ KeptAt(k)
    <3>1. torn' = FALSE
      BY <1>3, <1>5 DEF CutInside
    <3> QED
      BY <1>3, <1>5, <3>1 DEF KeptAt
  <2>2. /\ k \in Framed..depth /\ k \in 0..depth
        /\ Whole(Wire, k, ToldTo(root, frames, k)) /\ E!Shown(frames) <= k
        /\ \A i \in (k + 1)..depth : ~E!HasContent(frames[i])
    <3>1. k \in Framed..depth /\ Whole(Wire, k, ToldTo(root, frames, k)) /\ E!Shown(frames) <= k
      BY <1>5, CutIsWhole
    <3>2. \A i \in (k + 1)..depth : ~E!HasContent(frames[i])
      BY <1>5, CutIsWhole
    <3>3. k \in 0..depth
      BY <1>2, <3>1 DEF Framed
    <3> QED
      BY <3>1, <3>2, <3>3
  <2>3. Framed' = k /\ \A i \in 1..Len(pending') : k + i \in (k + 1)..depth /\ frames[k + i].id = pending'[i]
    <3>1. CASE pc = "commit"
      <4> DEFINE p == pending
                 w == written
                 q == pending'
      <4>1. w < Len(p)
        BY <1>2, <3>1 DEF IInv, HeldBackAreOpen
      <4>2. k = Framed + w /\ Framed + Len(p) = depth /\ Framed \in Nat
        BY <1>2 DEF Framed, Committed
      <4>3. p \in Seq(0..IdMax) /\ q = SubSeq(p, w + 1, Len(p)) /\ w \in 0..Len(p)
        BY <1>1, <1>2, <3>1, <4>1
      <4>4. Framed' = depth - Len(q)
        BY <1>1 DEF Framed
      <4>5. \A i \in 1..Len(p) : frames[Framed + i].id = p[i]
        BY DEF Shape, TreeInv
      <4> HIDE DEF p, q, w, k
      <4>6. Len(q) = Len(p) - w
        BY <4>3
      <4>7. \A i \in 1..Len(q) : q[i] = p[w + i]
        BY <4>3, <4>6
      <4>8. Framed' = k
        <5> DEFINE lp == Len(p)
                   lq == Len(q)
        <5>1. lp \in Nat /\ w \in Nat /\ lq = lp - w /\ Framed + lp = depth /\ Framed' = depth - lq
          BY <4>2, <4>3, <4>4, <4>6
        <5> HIDE DEF lp, lq
        <5>2. Framed \in Nat /\ depth \in Nat /\ k = Framed + w
          BY <1>2, <4>2
        <5> QED
          BY <5>1, <5>2
      <4>9. ASSUME NEW i \in 1..Len(q)
            PROVE  k + i \in (k + 1)..depth /\ frames[k + i].id = q[i]
        <5>1. w + i \in 1..Len(p) /\ k + i = Framed + (w + i) /\ k + i \in (k + 1)..depth
          BY <1>2, <4>2, <4>3, <4>6
        <5> QED
          BY <4>5, <4>7, <5>1
      <4> QED
        BY <4>8, <4>9 DEF q
    <3>2. CASE pc = "body"
      <4>1. pending = <<>> /\ pending' = <<>> /\ Framed = depth
        BY <1>1, <3>2, BodyFacts
      <4>2. k = depth
        BY <1>2, <2>2, <4>1
      <4> QED
        BY <1>1, <1>2, <4>1, <4>2 DEF Framed
    <3> QED
      BY <1>2, <3>1, <3>2
  <2> HIDE DEF k
  <2>4. /\ frames' \in Seq(OpenSequence) /\ Len(frames') = depth
        /\ \A i \in 1..depth :
             /\ frames'[i].id = frames[i].id /\ frames'[i].body = frames[i].body
             /\ i # k => frames'[i] = frames[i]
             /\ i = k => frames'[i] = [frames[i] EXCEPT !.kept = TRUE] /\ frames'[i].kept
    <3>1. frames' \in Seq(OpenSequence) /\ Len(frames') = depth
      BY <1>2, <2>1, KeptAtIs
    <3>2. \A i \in 1..Len(frames) :
              /\ frames'[i].id = frames[i].id /\ frames'[i].body = frames[i].body
              /\ frames'[i].kept = (frames[i].kept \/ i = k)
              /\ i # k => frames'[i] = frames[i]
              /\ i = k => frames'[i] = [frames[i] EXCEPT !.kept = TRUE]
      BY <1>2, <2>1, KeptAtIs
    <3> QED
      BY <1>2, <3>1, <3>2
  <2>5. TreeInv'
    <3>1. ASSUME NEW i \in 1..Len(pending')
          PROVE  frames'[Framed' + i].id = pending'[i]
      <4>1. k + i \in 1..depth
        BY <1>2, <2>2, <2>3
      <4> QED
        BY <2>3, <2>4, <4>1
    <3>2. ASSUME NEW i \in (Framed' + 1)..depth'
          PROVE  ~E!HasContent(frames'[i])
      <4>1. i \in (k + 1)..depth /\ i \in 1..depth /\ i # k
        BY <1>1, <1>2, <2>2, <2>3
      <4> QED
        BY <2>2, <2>4, <4>1
    <3>3. Framed' > 0 => E!HasContent(frames'[Framed'])
      BY <1>2, <2>2, <2>3, <2>4 DEF E!HasContent
    <3> QED
      BY <1>1, <1>2, <1>3, <2>4, <3>1, <3>2, <3>3 DEF TreeInv
  <2>6. WireInv'
    <3>1. ToldTo(root, frames', k) = ToldTo(root, frames, k)
      <4>1. \A i \in 1..k : frames'[i].id = frames[i].id /\ frames'[i].body = frames[i].body
        BY <1>2, <2>2, <2>4
      <4> QED
        BY <2>2, <4>1, ToldToLocal
    <3> QED
      BY <1>1, <1>3, <2>2, <2>3, <3>1 DEF WireInv
  <2>7. AskedInv'
    BY <1>1 DEF AskedInv
  <2>8. History
    <3>1. CASE k = 0
      <4>1. \A i \in 1..depth : frames'[i] = frames[i]
        BY <2>4, <3>1
      <4>2. frames' = frames
        BY <1>2, <2>4, <4>1
      <4> QED
        BY <1>3, <4>2 DEF History
    <3>2. CASE k # 0
      <4>1. k \in 1..depth /\ k \in DOMAIN frames
        BY <1>2, <2>2, <3>2
      <4> DEFINE g == [frames EXCEPT ![k].kept = TRUE]
      <4>2. g \in Seq(OpenSequence) /\ Len(g) = depth /\ g[k] = [frames[k] EXCEPT !.kept = TRUE]
            /\ \A i \in 1..depth : i # k => g[i] = frames[i]
        <5> DEFINE h == [frames[k] EXCEPT !.kept = TRUE]
        <5>1. h \in OpenSequence
          <6>1. frames[k] \in OpenSequence
            BY <1>2, <4>1
          <6> QED
            BY <6>1 DEF OpenSequence
        <5>2. g = [frames EXCEPT ![k] = h]
          OBVIOUS
        <5> HIDE DEF g, h
        <5>3. g \in Seq(OpenSequence) /\ Len(g) = depth /\ g[k] = h
              /\ \A i \in 1..depth : i # k => g[i] = frames[i]
          BY <1>2, <4>1, <5>1, <5>2
        <5> QED
          BY <5>3 DEF h
      <4>3. \A i \in 1..depth : frames'[i] = g[i]
        BY <2>4, <4>2
      <4> HIDE DEF g
      <4>4. frames' = g
        <5>1. frames' \in Seq(OpenSequence) /\ Len(frames') = depth
          BY <2>4
        <5>2. g \in Seq(OpenSequence) /\ Len(g) = depth
          BY <4>2
        <5> QED
          BY <4>3, <5>1, <5>2
      <4>5. E!Cut(k)
        BY <1>3, <2>2, <4>1, <4>4 DEF E!Cut, g
      <4> QED
        BY <1>1, <4>1, <4>5 DEF History
    <3> QED
      BY <3>1, <3>2
  <2> QED
    BY <2>1, <2>5, <2>6, <2>7, <2>8 DEF Traced, Shape
<1> QED
  BY <1>4, <1>5

\* A field writer refuses, or begins with a field that is accepted.
LEMMA ContentTraced ==
  ASSUME IInv, Shape, torn = FALSE, Remember, NEW id \in Nat, NEW accepted \in BOOLEAN,
         NEW body, NEW elements, NEW asked,
         accepted /\ id \in 0..IdMax => AcceptedField(Call("content", body, elements, asked)),
         Content(id, accepted, body, elements, asked)
  PROVE  Traced
<1>1. CanCall /\ pc = "idle"
  BY DEF Content, CanWrite, CanCall
<1>2. CASE accepted /\ id <= IdMax
  <2>1. id \in 0..IdMax
    BY <1>2, FormatAssumption
  <2>2. Begin("content", body, elements, asked, TRUE)
    BY <1>2 DEF Content
  <2>3. AcceptedField(Call("content", body, elements, asked))
    BY <1>2, <2>1
  <2> QED
    BY <1>1, <2>2, <2>3, BeginTraced
<1>3. CASE ~(accepted /\ id <= IdMax)
  BY <1>1, <1>3, RefuseTraced DEF Content
<1> QED
  BY <1>2, <1>3

LEMMA WritersTraced ==
  ASSUME IInv, Shape, torn = FALSE, Remember, NEW id \in Ids, WriteField(id)
  PROVE  Traced
<1>1. id \in Nat
  BY CallerAssumption
<1>2. ASSUME NEW v \in UnsignedValues, WriteUnsigned(id, v)
      PROVE  Traced
  <2>1. v \in Unsigned
    BY CallerAssumption
  <2>2. id \in 0..IdMax =>
          AcceptedField(Call("content", FieldVarint(id, T_VARINT_UNSIGNED, v), <<>>, Scalar(id, KindUnsigned, v)))
    BY <2>1 DEF AcceptedField, UnsignedCall
  <2> QED
    BY <1>1, <1>2, <2>2, ContentTraced DEF WriteUnsigned
<1>3. ASSUME NEW v \in SignedValues, WriteSigned(id, v)
      PROVE  Traced
  <2>1. v \in Signed
    BY CallerAssumption
  <2>2. id \in 0..IdMax =>
          AcceptedField(Call("content", FieldVarint(id, T_VARINT_SIGNED, ZigZag(v)), <<>>, Scalar(id, KindSigned, v)))
    BY <2>1 DEF AcceptedField, SignedCall
  <2> QED
    BY <1>1, <1>3, <2>2, ContentTraced DEF WriteSigned
<1>4. ASSUME NEW data \in Payloads, NEW subtype \in FixlenTypes, WriteFixlen(id, data, subtype)
      PROVE  Traced
  <2> DEFINE body == Header(id, T_FIXLEN) \o FixlenWord(Len(data), subtype) \o data
  <2>1. data \in Seq(Byte)
    BY CallerAssumption
  <2>2. body = FixlenHead(id, subtype, Len(data)) \o data
    BY DEF FixlenHead
  <2>3. Content(id, FixlenAgrees(data, subtype), body, <<>>, Fixlen(id, subtype, data))
    BY <1>4 DEF WriteFixlen
  <2>4. FixlenAgrees(data, subtype) \in BOOLEAN
    BY DEF FixlenAgrees
  <2>5. FixlenAgrees(data, subtype) /\ id \in 0..IdMax =>
          AcceptedField(Call("content", body, <<>>, Fixlen(id, subtype, data)))
    BY <2>1, <2>2 DEF AcceptedField, FixlenCall
  <2> HIDE DEF body
  <2> QED
    BY <1>1, <2>3, <2>4, <2>5, ContentTraced
<1>5. ASSUME NEW vs \in UnsignedArrays, WriteArrayUnsigned(id, vs)
      PROVE  Traced
  <2>1. vs \in Seq(Unsigned)
    BY CallerAssumption
  <2> DEFINE accepted == Len(vs) <= ArrayMax
             body == FieldVarint(id, T_VARINTARRAY_UNSIGNED, Len(vs))
  <2>2. accepted /\ id \in 0..IdMax =>
          AcceptedField(Call("content", body, VarintRun(vs), Array(id, KindUnsigned, vs)))
    BY <2>1 DEF AcceptedField, UnsignedArrayCall
  <2>3. accepted \in BOOLEAN
    OBVIOUS
  <2>4. Content(id, accepted, body, VarintRun(vs), Array(id, KindUnsigned, vs))
    BY <1>5 DEF WriteArrayUnsigned
  <2> HIDE DEF accepted, body
  <2> QED
    BY <1>1, <2>2, <2>3, <2>4, ContentTraced
<1>6. ASSUME NEW vs \in SignedArrays, WriteArraySigned(id, vs)
      PROVE  Traced
  <2>1. vs \in Seq(Signed)
    BY CallerAssumption
  <2> DEFINE accepted == Len(vs) <= ArrayMax
             body == FieldVarint(id, T_VARINTARRAY_SIGNED, Len(vs))
             elements == VarintRun([i \in DOMAIN vs |-> ZigZag(vs[i])])
  <2>2. accepted /\ id \in 0..IdMax =>
          AcceptedField(Call("content", body, elements, Array(id, KindSigned, vs)))
    BY <2>1 DEF AcceptedField, SignedArrayCall
  <2>3. accepted \in BOOLEAN
    OBVIOUS
  <2>4. Content(id, accepted, body, elements, Array(id, KindSigned, vs))
    BY <1>6 DEF WriteArraySigned
  <2> HIDE DEF accepted, body, elements
  <2> QED
    BY <1>1, <2>2, <2>3, <2>4, ContentTraced
<1>7. ASSUME NEW data \in FloatArrays, NEW subtype \in {Fp32, Fp64}, WriteArrayFloat(id, data, subtype)
      PROVE  Traced
  <2> DEFINE width == FloatLen(subtype)
             count == Len(data) \div width
             body == FieldVarint(id, T_FIXLENARRAY, count) \o FixlenWord(width, subtype) \o data
  <2>1. data \in Seq(Byte) /\ Len(data) \in Nat /\ width \in Nat \ {0}
    BY CallerAssumption, FormatAssumption DEF FloatLen
  <2>2. count \in Nat
    <3> HIDE DEF width
    <3> QED  BY <2>1
  <2> DEFINE accepted == count <= ArrayMax
             asked == Array(id, IF subtype = Fp32 THEN KindFp32 ELSE KindFp64, data)
  <2>3. Len(data) = count * width /\ Content(id, accepted, body, <<>>, asked)
    BY <1>7 DEF WriteArrayFloat
  <2>4. body = FloatArrayHead(id, subtype, count) \o data
    BY DEF FloatArrayHead
  <2>5. Len(data) = count * FloatLen(subtype)
    BY <2>3
  <2> HIDE DEF body, count, width
  <2>6. accepted /\ id \in 0..IdMax => AcceptedField(Call("content", body, <<>>, asked))
    <3> SUFFICES ASSUME count <= ArrayMax, id \in 0..IdMax
                 PROVE  AcceptedField(Call("content", body, <<>>, Array(id, FloatKind(subtype), data)))
      BY DEF FloatKind
    <3>1. count \in 0..ArrayMax
      BY <2>2, FormatAssumption
    <3>2. Call("content", body, <<>>, Array(id, FloatKind(subtype), data)) = FloatsCall(id, data, subtype, count)
      BY <2>4 DEF FloatsCall
    <3> QED
      BY <2>1, <2>5, <3>1, <3>2 DEF AcceptedField
  <2>7. accepted \in BOOLEAN
    OBVIOUS
  <2> HIDE DEF accepted, asked
  <2> QED
    BY <1>1, <2>3, <2>6, <2>7, ContentTraced
<1> QED
  BY <1>2, <1>3, <1>4, <1>5, <1>6, <1>7 DEF WriteField

LEMMA EndTraced ==
  ASSUME IInv, Shape, torn = FALSE, Remember, WriteSequenceEnd
  PROVE  Traced
<1>1. CanCall /\ pc = "idle" /\ depth \in Nat
  BY FormatAssumption DEF WriteSequenceEnd, CanWrite, CanCall, IInv, TypeOK
<1>2. CASE depth = 0
  BY <1>1, <1>2, RefuseTraced DEF WriteSequenceEnd
<1>3. CASE depth # 0 /\ pending # <<>>
  <2>1. pc' = "idle" /\ pending' = Popped /\ depth' = depth - 1 /\ UNCHANGED <<mem, out>>
    BY <1>1, <1>3 DEF WriteSequenceEnd, Answer, callVars, bufferVars
  <2> QED
    BY <1>1, <1>3, <2>1, DropTraced
<1>4. CASE depth # 0 /\ pending = <<>>
  <2>1. Begin("end", EndMarker, <<>>, <<>>, FALSE)
    BY <1>4 DEF WriteSequenceEnd
  <2>2. depth > 0 /\ Call("end", EndMarker, <<>>, <<>>) = ClosingCall("end")
    BY <1>1, <1>4 DEF ClosingCall
  <2> QED
    BY <1>1, <1>4, <2>1, <2>2, BeginTraced
<1> QED
  BY <1>2, <1>3, <1>4

LEMMA KeepTraced ==
  ASSUME IInv, Shape, torn = FALSE, Remember, WriteSequenceEndKeep
  PROVE  Traced
<1>1. CanCall /\ pc = "idle" /\ depth \in Nat
  BY FormatAssumption DEF WriteSequenceEndKeep, CanWrite, CanCall, IInv, TypeOK
<1>2. CASE depth = 0
  BY <1>1, <1>2, RefuseTraced DEF WriteSequenceEndKeep
<1>3. CASE depth # 0
  <2>1. Begin("keep", EndMarker, <<>>, <<>>, TRUE)
    BY <1>3 DEF WriteSequenceEndKeep
  <2>2. depth > 0 /\ Call("keep", EndMarker, <<>>, <<>>) = ClosingCall("keep")
    BY <1>1, <1>3 DEF ClosingCall
  <2> QED
    BY <1>1, <2>1, <2>2, BeginTraced
<1> QED
  BY <1>2, <1>3

LEMMA DrainFailsTraced ==
  ASSUME IInv, Shape, torn = FALSE, Remember, DrainFails
  PROVE  Traced
<1>1. todo # <<>> /\ pc # "idle" /\ UNCHANGED <<mem, out>>
  BY DEF DrainFails, IInv, IdleIsClean, bufferVars
<1>2. Wire' = Wire
  BY <1>1, WireStays
<1> QED
  BY <1>1, <1>2, FailTraced DEF DrainFails

LEMMA DrainToSinkTraced ==
  ASSUME IInv, Shape, torn = FALSE, Remember, NEW reply \in Replies, DrainToSink(reply)
  PROVE  Traced
<1>1. CASE Streamable(reply)
  BY <1>1, DrainTraced
<1>2. CASE ~Streamable(reply)
  <2>1. todo # <<>> /\ pc # "idle" /\ out' = out \o Handed /\ mem' = <<>> /\ Fail("Argument")
    BY <1>2 DEF DrainToSink, HandOver, Install, IInv, IdleIsClean
  <2>2. Wire' = Wire
    BY <2>1, WireStays
  <2> QED
    BY <2>1, <2>2, FailTraced
<1> QED
  BY <1>1, <1>2

LEMMA NextTraced ==
  ASSUME IInv, Shape, torn = FALSE, Remember, Next
  PROVE  Traced
<1>1. CASE Calls
  <2>1. ASSUME NEW id \in Ids, WriteField(id) PROVE Traced
    BY <2>1, WritersTraced
  <2>2. ASSUME NEW id \in Ids, WriteSequenceBeginLazy(id) PROVE Traced
    BY <2>2, BeginLazyTraced
  <2>3. ASSUME NEW reply \in Replies, Flush(reply) PROVE Traced
    BY <2>3, FlushTraced
  <2>4. ASSUME NEW b \in Buffers, BufferSet(b) PROVE Traced
    BY <2>4, BufferSetTraced
  <2> QED
    BY <1>1, <2>1, <2>2, <2>3, <2>4, EndTraced, KeepTraced DEF Calls
<1>2. CASE Steps
  <2>1. ASSUME NEW reply \in Replies, DrainToSink(reply) PROVE Traced
    BY <2>1, DrainToSinkTraced
  <2> QED
    BY <1>2, <2>1, PushTraced, DrainFailsTraced, HeaderWrittenTraced, NextElementTraced, ReturnTraced DEF Steps
<1> QED
  BY <1>1, <1>2 DEF Next

-----------------------------------------------------------------------------
(***************************************************************************)
(* The invariant holds, and every step is one of the encoder's.            *)
(***************************************************************************)
LEMMA TraceInitial ==
  ASSUME TraceInit
  PROVE  IInv /\ TraceInv /\ E!Init
<1>1. /\ IInv /\ root = <<>> /\ frames = <<>> /\ torn = FALSE /\ told = <<>>
      /\ depth = 0 /\ pending = <<>> /\ pc = "idle" /\ mem = <<>> /\ out = <<>>
  BY InitInductive DEF TraceInit, Init
<1>2. E!Init
  BY <1>1 DEF E!Init
<1>3. /\ root \in Seq(Events) /\ frames \in Seq(OpenSequence) /\ Len(frames) = 0 /\ Len(pending) = 0
      /\ Wire = <<>> /\ Wire \in Seq(Byte) /\ Len(Wire) = 0
  BY <1>1 DEF Wire
<1>4. ToldTo(root, frames, 0) = <<>>
  BY <1>1, ToldToIs
<1>5. Whole(Wire, 0, <<>>)
  <2>1. Reaches(Wire, Going(0, 0, NoResume, <<>>))
    BY ReachesStart DEF AtStart
  <2> QED
    BY <1>3, <2>1 DEF Whole
<1>6. Framed = 0
  <2>1. depth = 0 /\ Len(pending) = 0
    BY <1>1, <1>3
  <2> QED
    BY <2>1 DEF Framed
<1>7. TreeInv /\ AskedInv
  BY <1>1, <1>3, <1>6 DEF TreeInv, AskedInv
<1>8. WireInv
  BY <1>1, <1>4, <1>5, <1>6 DEF WireInv
<1>9. E!Visible(root, frames) = <<>>
  <2>1. ShownTo(frames, 0) /\ 0 \in 0..Len(frames)
    BY <1>3 DEF ShownTo
  <2> QED
    BY <1>3, <1>4, <2>1, VisibleIs
<1> QED
  BY <1>1, <1>2, <1>7, <1>8, <1>9 DEF TraceInv, Shape

\* Of a whole wire, a receiver is told the visible tree.
LEMMA IdleTells ==
  ASSUME IInv, Shape, pc = "idle"
  PROVE  Decode(Wire).events = E!Visible(root, frames)
<1>1. Framed \in 0..Len(frames) /\ ShownTo(frames, Framed) /\ frames \in Seq(OpenSequence)
  BY TreeShows DEF Shape
<1>2. Whole(Wire, Framed, ToldTo(root, frames, Framed))
  BY DEF Shape, WireInv
<1> QED
  BY <1>1, <1>2, WholeTells

LEMMA IdleTellsNext == (IInv /\ Shape /\ pc = "idle" => Decode(Wire).events = E!Visible(root, frames))'
BY IdleTells, PTL

LEMMA TraceStep ==
  ASSUME IInv, IInv', TraceInv, TraceNext
  PROVE  TraceInv' /\ (E!Next \/ UNCHANGED <<root, frames, torn, told>>)
<1>1. Next /\ Remember /\ told' = (IF torn' THEN <<>> ELSE IF pc' = "idle" THEN Decode(Wire').events ELSE told)
  BY DEF TraceNext
<1>2. CASE torn
  <2>1. UNCHANGED <<root, frames, torn>>
    BY <1>1, <1>2 DEF Remember
  <2>2. told = <<>> /\ told' = <<>> /\ torn' = TRUE
    BY <1>1, <1>2, <2>1 DEF TraceInv
  <2> QED
    BY <1>2, <2>1, <2>2 DEF TraceInv
<1>3. CASE ~torn
  <2>1. torn = FALSE /\ Shape /\ told = E!Visible(root, frames)
    BY <1>3 DEF TraceInv
  <2>2. Traced
    BY <1>1, <2>1, NextTraced
  <2>3. CASE torn' = TRUE /\ UNCHANGED <<root, frames>>
    <3>1. told' = <<>>
      BY <1>1, <2>3
    <3> QED
      BY <1>3, <2>3, <3>1 DEF TraceInv, E!Next, E!Tear
  <2>4. CASE torn' = FALSE /\ Shape' /\ History
    <3>1. CASE pc' = "idle"
      <4>1. Decode(Wire').events = E!Visible(root', frames')
        BY <2>4, <3>1, IdleTellsNext
      <4>2. told' = E!Visible(root', frames')
        BY <1>1, <2>4, <3>1, <4>1
      <4>3. TraceInv'
        BY <2>4, <4>2 DEF TraceInv
      <4>4. CASE UNCHANGED <<root, frames>>
        BY <2>1, <2>4, <4>2, <4>3, <4>4
      <4>5. CASE E!Write \/ (\E id \in Ids : E!Begin(id)) \/ E!End \/ E!Keep \/ (\E k \in DOMAIN frames : E!Cut(k))
        BY <1>3, <2>4, <4>2, <4>3, <4>5 DEF E!Next
      <4> QED
        BY <2>4, <4>4, <4>5 DEF History
    <3>2. CASE pc' # "idle"
      <4>1. UNCHANGED <<root, frames, told>>
        BY <1>1, <2>4, <3>2 DEF History
      <4> QED
        BY <2>1, <2>4, <4>1 DEF TraceInv
    <3> QED
      BY <3>1, <3>2
  <2> QED
    BY <2>2, <2>3, <2>4 DEF Traced
<1> QED
  BY <1>2, <1>3

\* A stuttering step of OStream with its history.
LEMMA TraceStutters ==
  ASSUME TraceInv, UNCHANGED refinementVars
  PROVE  TraceInv'
<1>1. UNCHANGED <<vars, root, frames, torn, told>>
  BY DEF refinementVars, traceVars
<1>2. UNCHANGED <<depth, pending, pc, call, written, todo>> /\ Wire' = Wire
  BY <1>1 DEF vars, Wire
<1>3. Framed' = Framed /\ Committed' = Committed /\ Tells' = Tells
  BY <1>2 DEF Framed, Committed, Tells
<1>4. TreeInv => TreeInv'
  BY <1>1, <1>2, <1>3 DEF TreeInv
<1>5. AskedInv => AskedInv'
  BY <1>2 DEF AskedInv
<1>6. \A k, item : InFront(k, item) => InFront(k, item)'
  BY <1>1, <1>2 DEF InFront
<1>7. InElements => InElements'
  BY <1>1, <1>2, <1>3 DEF InElements, IntsLeft
<1>8. WireInv => WireInv'
  BY <1>1, <1>2, <1>3, <1>6, <1>7 DEF WireInv
<1> QED
  BY <1>1, <1>4, <1>5, <1>8 DEF TraceInv, Shape

LEMMA TraceInductive ==
  ASSUME IInv, TraceInv, [TraceNext]_refinementVars
  PROVE  IInv' /\ TraceInv' /\ [E!Next]_(E!vars)
<1>1. CASE TraceNext
  <2>1. IInv'
    BY <1>1, NextInductive DEF TraceNext
  <2> QED
    BY <1>1, <2>1, TraceStep DEF E!vars
<1>2. CASE UNCHANGED refinementVars
  <2>1. IInv'
    BY <1>2, NextInductive DEF refinementVars
  <2>2. UNCHANGED E!vars
    BY <1>2 DEF refinementVars, traceVars, E!vars
  <2> QED
    BY <1>2, <2>1, <2>2, TraceStutters
<1> QED
  BY <1>1, <1>2

LEMMA TraceInvariant == TraceSpec => [](IInv /\ TraceInv)
<1>1. TraceInit => IInv /\ TraceInv
  BY TraceInitial
<1>2. IInv /\ TraceInv /\ [TraceNext]_refinementVars => (IInv /\ TraceInv)'
  BY TraceInductive
<1> QED
  BY <1>1, <1>2, PTL DEF TraceSpec

\* For every caller, sink and buffers: at rest, and unless a failed call tore an item,
\* the wire is whole items that a decoder accepts.
THEOREM EncoderWritesWholeItems == TraceSpec => []WireIsWhole
<1>1. IInv /\ TraceInv => WireIsWhole
  <2> SUFFICES ASSUME IInv, TraceInv, pc = "idle", ~torn
               PROVE  /\ Decode(Wire).verdict # "InvalidMsg"
                      /\ Decode(Wire).rest = <<>> /\ Decode(Wire).resume = NoResume
                      /\ Decode(Wire).depth = depth - Len(pending)
    BY DEF WireIsWhole
  <2>1. Whole(Wire, Framed, ToldTo(root, frames, Framed))
    BY DEF TraceInv, Shape, WireInv
  <2> QED
    BY <2>1, WholeDecodes DEF Framed
<1> QED
  BY <1>1, TraceInvariant, PTL

\* For every caller, sink and buffers: what a receiver is told of the wire is what
\* Encoder allows, step by step (lazy framing, failures included).
THEOREM StreamImplementsEncoder == TraceSpec => ImplementsEncoder
<1>1. TraceInit => E!Init
  BY TraceInitial
<1>2. IInv /\ TraceInv /\ [TraceNext]_refinementVars => [E!Next]_(E!vars)
  BY TraceInductive
<1> QED
  BY <1>1, <1>2, TraceInvariant, PTL DEF TraceSpec, ImplementsEncoder, E!Spec
=============================================================================
