---------------------------- MODULE MCPayloadAcc ----------------------------
(***************************************************************************)
(* Instances of PayloadSource for TLC: payloads of up to four bytes, one a *)
(* prefix of another, sources that send up to two bytes too many, and      *)
(* chunks of other payloads that announce less than, as much as and more   *)
(* than has arrived.                                                       *)
(***************************************************************************)
EXTENDS PayloadSource

MCPayloads == {<<>>, <<1>>, <<1, 2, 3>>, <<3, 1, 2, 2>>}
MCExtras == {<<>>, <<2>>, <<1, 3>>}
MCStrays ==
  {[total |-> t, offset |-> o, chunk |-> c] :
     t \in {0, 2, 4}, o \in {1, 3}, c \in {<<>>, <<2>>, <<3, 3>>}}
=============================================================================
