------------------------------- MODULE Format -------------------------------
(***************************************************************************)
(* The wire format both sides share (src/src/types.rs): limits, the three- *)
(* bit type tags, and the words that head every field.  Also what the      *)
(* decoder tells its Visitor, since the reference decoder and the streaming*)
(* one must be comparable.                                                 *)
(***************************************************************************)
EXTENDS Varint

CONSTANTS
  IdMax, ArrayMax, FixlenMax,  \* the format's ceilings (2^31 - 1 each)
  MaxDepth,                    \* open sequences at most (MAX_DEPTH, 255)
  Fp32Len, Fp64Len             \* bytes of a float (4 and 8)

ASSUME FormatAssumption ==
  /\ IdMax \in Nat /\ ArrayMax \in Nat /\ FixlenMax \in Nat
  /\ MaxDepth \in Nat
  /\ Fp32Len \in Nat \ {0} /\ Fp64Len \in Nat \ {0}

\* Headers, counts and fixlen words are varints: none of them may overflow.
ASSUME WidthAssumption ==
  /\ 8 * IdMax + 7 <= MaxUnsigned
  /\ 8 * FixlenMax + 7 <= MaxUnsigned
  /\ ArrayMax <= MaxUnsigned
  /\ 8 * Fp32Len + 7 <= MaxUnsigned /\ 8 * Fp64Len + 7 <= MaxUnsigned

T_VARINT_UNSIGNED == 0
T_VARINT_SIGNED == 1
T_FIXLEN == 2
T_VARINTARRAY_UNSIGNED == 3
T_VARINTARRAY_SIGNED == 4
T_FIXLENARRAY == 5
T_SEQUENCE_START == 6
T_SEQUENCE_END == 7
IntArrays == {T_VARINTARRAY_UNSIGNED, T_VARINTARRAY_SIGNED}

\* Whether a varint follows the header: a value, a count or a fixlen word.
HasWord(w) == w \notin {T_SEQUENCE_START, T_SEQUENCE_END}

\* FixlenType.
Fp32 == 0
Fp64 == 1
Str == 2
Blob == 3
FixlenTypes == {Fp32, Fp64, Str, Blob}
Floats == {Fp32, Fp64}

\* ArrayKind.
KindUnsigned == 0
KindSigned == 1
KindFp32 == 2
KindFp64 == 3

\* Bytes of a float of each width.
FloatLen(subtype) == IF subtype = Fp32 THEN Fp32Len ELSE Fp64Len

(***************************************************************************)
(* The callbacks of the Visitor trait.                                     *)
(***************************************************************************)
Callback(name, id, type, value, offset, data) ==
  [name |-> name, id |-> id, type |-> type, value |-> value, offset |-> offset, data |-> data]

OnUnsigned(id, v) == Callback("unsigned", id, 0, v, 0, <<>>)
OnSigned(id, v) == Callback("signed", id, 0, v, 0, <<>>)
OnFloat(id, subtype, data) == Callback("float", id, subtype, 0, 0, data)
OnChunk(id, subtype, total, offset, data) ==
  Callback("chunk", id, subtype, total, offset, data)
OnFixlenBegin(id, subtype, total) == Callback("fixlen_begin", id, subtype, total, 0, <<>>)
OnArrayBegin(id, kind, count) == Callback("array_begin", id, kind, count, 0, <<>>)
OnSequenceBegin(id) == Callback("sequence_begin", id, 0, 0, 0, <<>>)
OnSequenceEnd == Callback("sequence_end", 0, 0, 0, 0, <<>>)

(***************************************************************************)
(* An item the bytes ran out inside (the Resume enum): a string or blob    *)
(* with `remaining' of `total' bytes to come, or an array (or one float)   *)
(* with `remaining' elements to come.                                      *)
(***************************************************************************)
Resume(kind, id, type, total, remaining) ==
  [kind |-> kind, id |-> id, type |-> type, total |-> total, remaining |-> remaining]
NoResume == Resume("none", 0, 0, 0, 0)
Items == [kind : {"none", "payload", "int", "fix"}, id : 0..IdMax, type : 0..3,
          total : 0..FixlenMax, remaining : Nat]
=============================================================================
