----------------------------- MODULE MCOStream -----------------------------
(***************************************************************************)
(* Instances of OStream for TLC.  Varints have at most two bytes, so an    *)
(* Unsigned has eight bits; id 1 has a one-byte header and id 16 a         *)
(* two-byte one, which the end of a buffer can cut; id 18 is over IdMax.   *)
(***************************************************************************)
EXTENDS OStream

MCUtf8 == {<<>>, <<65>>}

\* Buffers that hold nothing, one byte, part of a field, a whole one; with and
\* without reserved room; and an offset past the end.
MCBuffers ==
  {[len |-> l, offset |-> o] : l \in {0, 1, 3}, o \in {0, 1}}

\* Every writer: a call refused for each reason, and one accepted.
AllSignedValues == {-1}
AllPayloads == {<<>>, <<65>>, <<200, 201>>, <<1, 2, 3>>}
AllUnsignedArrays == {<<>>, <<1, 130>>, <<1, 1, 1>>}
AllSignedArrays == {<<-1>>, <<0, 0, 0>>}
AllFloatArrays == {<<>>, <<9, 8>>, <<1, 2, 3>>, <<1, 2, 3, 4, 5, 6>>}
=============================================================================
