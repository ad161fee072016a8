---------------------------- MODULE MCWritePaths ----------------------------
(***************************************************************************)
(* Instances of WritePaths for TLC.  A varint has at most two bytes, so    *)
(* two need four bytes of room and a fixlen field of two payload bytes     *)
(* six: the buffers lie on both sides of each and of several elements, and *)
(* two have no room at all.                                                *)
(***************************************************************************)
EXTENDS WritePaths, MCOStream

PathBuffers == {[len |-> l, offset |-> 0] : l \in {0, 1, 3, 4, 5, 6}}
                 \cup {[len |-> l, offset |-> 1] : l \in {1, 3}}

PathPayloads == {<<>>, <<65>>, <<200, 201>>}
PathUnsignedArrays == {<<>>, <<1, 130, 1>>, <<131, 130, 129>>}
PathSignedArrays == {<<-65, 1>>}
PathFloatArrays == {<<9, 8, 7>>, <<200, 201>>}
=============================================================================
